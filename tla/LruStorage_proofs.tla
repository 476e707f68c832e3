------------------------- MODULE LruStorage_proofs --------------------------
(***************************************************************************)
(* Theorems about LruStorage, for any size of the file, any keys, values   *)
(* and times:                                                              *)
(*   - every state is well typed;                                          *)
(*   - file, list and index agree after every operation, every merge and   *)
(*     every opening of a file that no torn write has damaged;             *)
(*   - a process that dies within Delete or Insert damages one item;       *)
(*   - the storage implements the list of recent entries of Recency;       *)
(*   - the list is in the order of the times while the clock runs forward. *)
(*                                                                         *)
(* Open sorts, Merge selects and sorts, DeleteElementsBefore loops: the    *)
(* lemmas say what each of them gives for every file and every list.       *)
(***************************************************************************)
EXTENDS LruStorage, SequenceTheorems, FiniteSetTheorems, NaturalsInduction,
        WellFoundedInduction, TLAPS

-----------------------------------------------------------------------------
(* Sequences: what removing an element and putting one in front do.        *)

LEMMA RemoveAtIs ==
  ASSUME NEW S, NEW l \in Seq(S), NEW i \in 1..Len(l)
  PROVE  /\ RemoveAt(l, i) \in Seq(S)
         /\ Len(RemoveAt(l, i)) = Len(l) - 1
         /\ \A j \in 1..Len(l) - 1 : RemoveAt(l, i)[j] = IF j < i THEN l[j] ELSE l[j + 1]
<1> DEFINE a == SubSeq(l, 1, i - 1)
           b == SubSeq(l, i + 1, Len(l))
<1>1. a \in Seq(S) /\ Len(a) = i - 1 /\ \A j \in 1..i - 1 : a[j] = l[j]
  OBVIOUS
<1>2. b \in Seq(S) /\ Len(b) = Len(l) - i /\ \A j \in 1..Len(l) - i : b[j] = l[i + j]
  OBVIOUS
<1> HIDE DEF a, b
<1>3. /\ a \o b \in Seq(S) /\ Len(a \o b) = Len(a) + Len(b)
      /\ \A j \in 1..Len(a) + Len(b) : (a \o b)[j] = IF j <= Len(a) THEN a[j] ELSE b[j - Len(a)]
  BY <1>1, <1>2, ConcatProperties
<1>4. RemoveAt(l, i) = a \o b
  BY DEF RemoveAt, a, b
<1>5. ASSUME NEW j \in 1..Len(l) - 1
      PROVE  (a \o b)[j] = IF j < i THEN l[j] ELSE l[j + 1]
  <2>1. CASE j < i
    BY <1>1, <1>2, <1>3, <2>1
  <2>2. CASE ~(j < i)
    <3>1. PICK k \in 1..Len(l) - i : k = j - (i - 1)
      BY <2>2
    <3>2. (a \o b)[j] = b[k]
      <4>1. /\ j \in 1..Len(a) + Len(b) /\ ~(j <= Len(a)) /\ j - Len(a) = k
        BY <1>1, <1>2, <2>2, <3>1
      <4> QED BY <1>3, <4>1
    <3>3. b[k] = l[i + k] /\ i + k = j + 1
      BY <1>2, <3>1
    <3>4. (a \o b)[j] = l[j + 1]
      BY <3>2, <3>3
    <3> QED BY <2>2, <3>4
  <2> QED BY <2>1, <2>2
<1>6. a \o b \in Seq(S) /\ Len(a \o b) = Len(l) - 1
  BY <1>1, <1>2, <1>3
<1> QED BY <1>4, <1>5, <1>6

LEMMA FunctionIsSeq ==
  ASSUME NEW S, NEW n \in Nat, NEW f \in [1..n -> S]
  PROVE  f \in Seq(S) /\ Len(f) = n
  OBVIOUS

Pushed(x, l) == <<x>> \o l

LEMMA PushedIs ==
  ASSUME NEW S, NEW l \in Seq(S), NEW x \in S
  PROVE  /\ Pushed(x, l) \in Seq(S) /\ Len(Pushed(x, l)) = Len(l) + 1
         /\ Pushed(x, l)[1] = x
         /\ \A j \in 2..Len(l) + 1 : Pushed(x, l)[j] = l[j - 1]
  BY DEF Pushed

\* The position that Removed chooses.
LEMMA RemovedIs ==
  ASSUME NEW S, NEW l \in Seq(S), NEW i \in 1..Len(l),
         \A j \in 1..Len(l) : l[j] = l[i] => j = i
  PROVE  Removed(l, l[i]) = RemoveAt(l, i)
<1>1. DOMAIN l = 1..Len(l)
  OBVIOUS
<1>2. (CHOOSE j \in DOMAIN l : l[j] = l[i]) = i
  BY <1>1
<1> QED BY <1>2 DEF Removed

-----------------------------------------------------------------------------
(* The order of the list after Open.                                       *)

LEMMA Least ==
  ASSUME NEW I, I \subseteq Nat, I # {}
  PROVE  \E x \in I : \A y \in I : x <= y
<1> DEFINE R == OpToRel(<, Nat)
<1>1. IsWellFoundedOn(R, Nat)
  BY NatLessThanWellFounded
<1>2. \A x, y \in Nat : <<y, x>> \in R <=> y < x
  BY DEF OpToRel
<1> HIDE DEF R
<1>3. PICK x \in I : \A y \in I : ~(<<y, x>> \in R)
  BY <1>1, WFMin
<1>4. ASSUME NEW y \in I PROVE x <= y
  <2>1. ~(<<y, x>> \in R) /\ x \in Nat /\ y \in Nat
    BY <1>3
  <2>2. ~(y < x)
    BY <1>2, <2>1
  <2> QED BY <2>1, <2>2
<1> QED BY <1>4

Timed(items, S) == /\ S \subseteq Nat /\ IsFiniteSet(S)
                   /\ \A i \in S : items[i].time \in Nat
Rank(items, S, i) == Cardinality({j \in S : Before(items, j, i)})

LEMMA BeforeIsTotal ==
  ASSUME NEW items, NEW S, Timed(items, S), NEW i \in S, NEW j \in S, NEW k \in S
  PROVE  /\ ~Before(items, i, i)
         /\ i # j => Before(items, i, j) \/ Before(items, j, i)
         /\ Before(items, i, j) /\ Before(items, j, k) => Before(items, i, k)
         /\ Before(items, i, j) => ~Before(items, j, i)
  BY DEF Timed, Before

LEMMA RankIs ==
  ASSUME NEW items, NEW S, Timed(items, S), NEW i \in S
  PROVE  Rank(items, S, i) \in 0..Cardinality(S) - 1
<1> DEFINE A == {j \in S : Before(items, j, i)}
<1>1. A \in SUBSET (S \ {i})
  BY BeforeIsTotal
<1>2. IsFiniteSet(S)
  BY DEF Timed
<1>3. IsFiniteSet(S \ {i}) /\ Cardinality(S \ {i}) = Cardinality(S) - 1
  BY <1>2, FS_RemoveElement
<1> HIDE DEF A
<1>4. IsFiniteSet(A) /\ Cardinality(A) <= Cardinality(S \ {i})
  BY <1>1, <1>3, FS_Subset
<1>5. Cardinality(A) \in Nat /\ Cardinality(S) \in Nat
  BY <1>2, <1>4, FS_CardinalityType
<1>6. Rank(items, S, i) = Cardinality(A)
  BY DEF Rank, A
<1> QED BY <1>3, <1>4, <1>5, <1>6

LEMMA RankLess ==
  ASSUME NEW items, NEW S, Timed(items, S), NEW i \in S, NEW j \in S, Before(items, i, j)
  PROVE  Rank(items, S, i) < Rank(items, S, j)
<1> DEFINE A == {k \in S : Before(items, k, i)}
           B == {k \in S : Before(items, k, j)}
<1>1. A \in SUBSET B /\ i \in B /\ i \notin A /\ B \in SUBSET S
  BY BeforeIsTotal
<1>2. IsFiniteSet(S)
  BY DEF Timed
<1> HIDE DEF A, B
<1>3. IsFiniteSet(B)
  BY <1>1, <1>2, FS_Subset
<1>4. IsFiniteSet(A) /\ Cardinality(A) <= Cardinality(B) /\ Cardinality(A) # Cardinality(B)
  BY <1>1, <1>3, FS_Subset
<1>5. Cardinality(A) \in Nat /\ Cardinality(B) \in Nat
  BY <1>3, <1>4, FS_CardinalityType
<1>6. Rank(items, S, i) = Cardinality(A) /\ Rank(items, S, j) = Cardinality(B)
  BY DEF Rank, A, B
<1> QED BY <1>4, <1>5, <1>6

\* Ranks are 0, 1, and so on up to the last.
LEMMA RankOnto ==
  ASSUME NEW items, NEW S, Timed(items, S), NEW n \in 1..Cardinality(S)
  PROVE  \E i \in S : Rank(items, S, i) = n - 1
<1> DEFINE T == 1..Cardinality(S)
           g == [i \in S |-> Rank(items, S, i) + 1]
<1>1. IsFiniteSet(S) /\ Cardinality(S) \in Nat
  BY FS_CardinalityType DEF Timed
<1>2. IsFiniteSet(T) /\ Cardinality(T) = Cardinality(S)
  <2>1. 1 \in Int /\ Cardinality(S) \in Int
    BY <1>1
  <2> QED BY <1>1, <2>1, FS_Interval
<1>3. g \in [S -> T]
  BY <1>1, RankIs
<1>4. \A i, j \in S : g[i] = g[j] => i = j
  <2> SUFFICES ASSUME NEW i \in S, NEW j \in S, g[i] = g[j] PROVE i = j
    OBVIOUS
  <2>1. Rank(items, S, i) = Rank(items, S, j)
    BY <1>1, RankIs
  <2>2. ~Before(items, i, j) /\ ~Before(items, j, i)
    BY <2>1, RankLess, RankIs, <1>1
  <2> QED BY <2>2, BeforeIsTotal
<1> HIDE DEF g, T
<1>5. g \in Injection(S, T)
  BY <1>3, <1>4 DEF Injection, IsInjective
<1>6. g \in Surjection(S, T)
  BY <1>1, <1>2, <1>5, FS_Injection
<1>7. PICK i \in S : g[i] = n
  <2>1. n \in T
    BY DEF T
  <2> QED BY <1>6, <2>1 DEF Surjection
<1>8. Rank(items, S, i) = n - 1
  BY <1>1, <1>7, RankIs DEF g
<1> QED BY <1>8

LEMMA LatestFirstIs ==
  ASSUME NEW items, NEW S, Timed(items, S)
  PROVE  LET l == LatestFirst(items, S)
         IN  /\ l \in Seq(S) /\ Len(l) = Cardinality(S) /\ Len(l) \in Nat
             /\ \A i \in S : \E n \in 1..Len(l) : l[n] = i
             /\ \A m, n \in 1..Len(l) : m < n => Before(items, l[m], l[n])
             /\ \A m, n \in 1..Len(l) : l[m] = l[n] => m = n
<1> DEFINE l == LatestFirst(items, S)
           c == Cardinality(S)
<1>1. c \in Nat
  BY FS_CardinalityType DEF Timed
<1>2. l = [n \in 1..c |-> CHOOSE i \in S : Rank(items, S, i) = n - 1]
  BY DEF LatestFirst, Rank
<1> HIDE DEF l, c
<1>3. ASSUME NEW n \in 1..c PROVE l[n] \in S /\ Rank(items, S, l[n]) = n - 1
  <2>1. \E i \in S : Rank(items, S, i) = n - 1
    BY RankOnto DEF c
  <2> QED BY <1>2, <2>1
<1>4. l \in Seq(S) /\ Len(l) = c
  <2>1. l \in [1..c -> S]
    BY <1>2, <1>3
  <2> QED BY <1>1, <2>1, FunctionIsSeq
<1>5. ASSUME NEW i \in S PROVE \E n \in 1..c : l[n] = i
  <2> DEFINE n == Rank(items, S, i) + 1
  <2>1. n \in 1..c /\ Rank(items, S, i) = n - 1 /\ Rank(items, S, i) \in Nat
    BY <1>1, RankIs DEF c
  <2> HIDE DEF n
  <2>2. l[n] \in S /\ Rank(items, S, l[n]) = Rank(items, S, i)
    BY <1>3, <2>1
  <2>3. ~Before(items, i, l[n]) /\ ~Before(items, l[n], i)
    BY <2>1, <2>2, RankLess
  <2>4. l[n] = i
    BY <2>2, <2>3, BeforeIsTotal
  <2> QED BY <2>1, <2>4
<1>6. ASSUME NEW m \in 1..c, NEW n \in 1..c, m < n PROVE Before(items, l[m], l[n])
  <2>1. /\ l[m] \in S /\ Rank(items, S, l[m]) = m - 1
        /\ l[n] \in S /\ Rank(items, S, l[n]) = n - 1
    BY <1>3
  <2>2. l[m] # l[n]
    BY <1>1, <1>6, <2>1
  <2>3. ~Before(items, l[n], l[m])
    <3>1. ASSUME Before(items, l[n], l[m]) PROVE n - 1 < m - 1
      BY <2>1, <3>1, RankLess
    <3> QED BY <1>1, <1>6, <3>1
  <2> QED BY <2>1, <2>2, <2>3, BeforeIsTotal
<1>7. ASSUME NEW m \in 1..c, NEW n \in 1..c, l[m] = l[n] PROVE m = n
  <2>1. m - 1 = n - 1
    BY <1>3, <1>7
  <2> QED BY <1>1, <2>1
<1> QED BY <1>1, <1>4, <1>5, <1>6, <1>7 DEF l, c

-----------------------------------------------------------------------------
(* What holds while no write was torn, and implies Indexed.                *)

Entry == [fp : Key, time : 1..MaxTime, value : Value]
Files == [Slot -> {Free} \cup Entry]

\* The entries are in the first slots, one for each fingerprint.
Compact(f, n) ==
  /\ f \in Files /\ n \in 1..End
  /\ \A s \in 1..n - 1 : f[s] \in Entry
  /\ \A s \in n..Size : f[s] = Free
  /\ \A s, t \in 1..n - 1 : f[s].fp = f[t].fp => s = t

\* The list has each of the first slots once.
Listed(l, n) ==
  /\ l \in Seq(1..n - 1) /\ Len(l) = n - 1
  /\ \A i, j \in 1..n - 1 : l[i] = l[j] => i = j
  /\ \A s \in 1..n - 1 : \E i \in 1..n - 1 : l[i] = s

\* The index leads from the fingerprint of each entry to its slot.
Indexes(ix, f, n) ==
  /\ DOMAIN ix = {f[s].fp : s \in 1..n - 1}
  /\ \A s \in 1..n - 1 : ix[f[s].fp] = s

Coherent(f, l, ix, n) == Compact(f, n) /\ Listed(l, n) /\ Indexes(ix, f, n)
CoherentInv == ~torn => Coherent(file, lru_list, lru_map, next_item)

-----------------------------------------------------------------------------
(* Open.                                                                   *)

LEMMA EntryIs ==
  /\ \A e \in Entry : e.fp \in Key /\ e.fp # NoKey /\ e.time \in 1..MaxTime /\ e.value \in Value
  /\ Free.fp = NoKey /\ Free.time = 0 /\ Free \notin Entry
  /\ \A k \in Key, v \in Value : now \in 1..MaxTime => Item(k, v) \in Entry
  BY LruStorageAssumption DEF Entry, Free, Item

LEMMA UsedIs ==
  ASSUME NEW f \in Files
  PROVE  /\ Used(f) = {s \in Slot : f[s] \in Entry}
         /\ \A S \in SUBSET Slot : Timed(f, S)
<1>1. \A s \in Slot : f[s] = Free \/ f[s] \in Entry
  BY DEF Files
<1>2. \A s \in Slot : f[s].time \in Nat /\ (f[s].time # 0 <=> f[s] \in Entry)
  BY <1>1, EntryIs, LruStorageAssumption
<1>3. Used(f) = {s \in Slot : f[s] \in Entry}
  BY <1>2 DEF Used
<1>4. IsFiniteSet(Slot) /\ Slot \subseteq Nat
  <2>1. 1 \in Int /\ Size \in Int
    BY LruStorageAssumption
  <2> QED BY <2>1, FS_Interval DEF Slot
<1>5. ASSUME NEW S \in SUBSET Slot PROVE Timed(f, S)
  <2>1. IsFiniteSet(S)
    BY <1>4, FS_Subset
  <2> QED BY <1>2, <1>4, <2>1 DEF Timed
<1> QED BY <1>3, <1>5

LEMMA IndexOfIs ==
  ASSUME NEW f \in Files
  PROVE  /\ DOMAIN IndexOf(f) = {f[s].fp : s \in Used(f)}
         /\ \A k \in DOMAIN IndexOf(f) : IndexOf(f)[k] \in Used(f) /\ f[IndexOf(f)[k]].fp = k
<1>1. DOMAIN IndexOf(f) = {f[s].fp : s \in Used(f)}
  BY DEF IndexOf
<1>2. ASSUME NEW k \in {f[s].fp : s \in Used(f)}
      PROVE  IndexOf(f)[k] \in Used(f) /\ f[IndexOf(f)[k]].fp = k
  <2> DEFINE S == {s \in Used(f) : f[s].fp = k}
             l == LatestFirst(f, S)
             n == Len(l)
  <2>1. S \in SUBSET Slot /\ S # {}
    BY DEF Used
  <2>2. Timed(f, S)
    BY <2>1, UsedIs
  <2> HIDE DEF S
  <2>3. /\ l \in Seq(S) /\ n \in Nat
        /\ \A i \in S : \E m \in 1..n : l[m] = i
        /\ \A m, p \in 1..n : m < p => Before(f, l[m], l[p])
    BY <2>2, LatestFirstIs
  <2> HIDE DEF l, n
  <2>4. n \in 1..n
    BY <2>1, <2>3
  <2>5. l[n] \in S
    <3>1. n = Len(l)
      BY DEF n
    <3> QED BY <2>3, <2>4, <3>1, ElementOfSeq
  <2>6. ASSUME NEW t \in S PROVE t = l[n] \/ Before(f, t, l[n])
    <3>1. PICK m \in 1..n : l[m] = t
      BY <2>3
    <3>2. m = n \/ m < n
      BY <2>3
    <3> QED BY <2>3, <2>4, <3>1, <3>2
  <2>7. \E s \in Used(f) : /\ f[s].fp = k
                           /\ \A t \in Used(f) : f[t].fp = k => t = s \/ Before(f, t, s)
    BY <2>5, <2>6 DEF S
  <2> QED BY <2>7 DEF IndexOf
<1> QED BY <1>1, <1>2

LEMMA FirstFreeIs ==
  ASSUME NEW f \in Files
  PROVE  /\ FirstFree(f) \in 1..End
         /\ FirstFree(f) # End => FirstFree(f) \in Slot \ Used(f)
         /\ \A s \in Slot : s < FirstFree(f) => s \in Used(f)
<1>1. CASE Used(f) = Slot
  BY <1>1, LruStorageAssumption DEF FirstFree, End, Slot
<1>2. CASE Used(f) # Slot
  <2> DEFINE S == Slot \ Used(f)
  <2>1. S \subseteq Nat /\ S # {} /\ S \subseteq Slot
    BY <1>2 DEF Slot, Used
  <2> HIDE DEF S
  <2>2. \E s \in S : \A t \in S : s <= t
    BY <2>1, Least
  <2>3. FirstFree(f) = CHOOSE s \in S : \A t \in S : s <= t
    BY <1>2 DEF FirstFree, S
  <2>4. FirstFree(f) \in S /\ \A t \in S : FirstFree(f) <= t
    BY <2>2, <2>3
  <2>5. FirstFree(f) \in Slot \ Used(f)
    BY <2>4 DEF S
  <2>6. ASSUME NEW s \in Slot, s < FirstFree(f) PROVE s \in Used(f)
    BY <2>4, <2>5, <2>6, LruStorageAssumption DEF S, Slot
  <2> QED BY <2>5, <2>6, LruStorageAssumption DEF Slot, End
<1> QED BY <1>1, <1>2

LEMMA CompactUsed ==
  ASSUME NEW f, NEW n, Compact(f, n)
  PROVE  Used(f) = 1..n - 1 /\ 1..n - 1 \subseteq Slot /\ n \in Nat /\ n >= 1 /\ n - 1 \in Nat
<1>1. n \in 1..Size + 1 /\ f \in Files /\ Size \in Nat
  BY LruStorageAssumption DEF Compact, End
<1>2. \A s \in Slot : f[s] \in Entry <=> s < n
  <2>2. \A s \in Slot : s < n => s \in 1..n - 1
    BY <1>1 DEF Slot
  <2>3. \A s \in Slot : s < n => f[s] \in Entry
    BY <2>2 DEF Compact
  <2>4. \A s \in Slot : ~(s < n) => f[s] \notin Entry
    <3> SUFFICES ASSUME NEW s \in Slot, ~(s < n) PROVE f[s] \notin Entry
      OBVIOUS
    <3>1. s \in n..Size
      BY <1>1 DEF Slot
    <3>2. f[s] = Free
      BY <3>1 DEF Compact
    <3> QED BY <3>2, EntryIs
  <2> QED BY <2>3, <2>4
<1>3. Used(f) = {s \in Slot : s < n}
  BY <1>1, <1>2, UsedIs
<1>4. {s \in Slot : s < n} = 1..n - 1 /\ 1..n - 1 \subseteq Slot
  BY <1>1 DEF Slot
<1> QED BY <1>1, <1>3, <1>4

LEMMA OpenCoherent ==
  ASSUME NEW f, NEW n, Compact(f, n)
  PROVE  Coherent(f, LatestFirst(f, Used(f)), IndexOf(f), FirstFree(f)) /\ FirstFree(f) = n
<1> DEFINE l == LatestFirst(f, Used(f))
<1>1. /\ f \in Files /\ n \in 1..Size + 1 /\ Size \in Nat
      /\ \A s, t \in 1..n - 1 : f[s].fp = f[t].fp => s = t
  BY LruStorageAssumption DEF Compact, End
<1>2. Used(f) = 1..n - 1 /\ 1..n - 1 \subseteq Slot /\ n - 1 \in Nat
  BY CompactUsed
<1>3. FirstFree(f) = n
  BY <1>1, <1>2, FirstFreeIs DEF Slot, End
<1>4. Listed(l, n)
  <2>1. Timed(f, 1..n - 1)
    BY <1>1, <1>2, UsedIs
  <2>2. Cardinality(1..n - 1) = n - 1
    <3>1. 1 \in Int /\ n - 1 \in Int
      BY <1>1
    <3> QED BY <1>1, <3>1, FS_Interval
  <2> DEFINE S == 1..n - 1
  <2>0. l = LatestFirst(f, S)
    BY <1>2
  <2> HIDE DEF l, S
  <2>3. /\ l \in Seq(S) /\ Len(l) = Cardinality(S)
        /\ \A i \in S : \E m \in 1..Len(l) : l[m] = i
        /\ \A m, p \in 1..Len(l) : l[m] = l[p] => m = p
    <3>1. Timed(f, S)
      BY <2>1 DEF S
    <3> QED BY <2>0, <3>1, LatestFirstIs
  <2> USE <2>2 DEF S
  <2> QED BY <2>3 DEF Listed
<1>5. Indexes(IndexOf(f), f, n)
  <2>1. DOMAIN IndexOf(f) = {f[s].fp : s \in 1..n - 1}
    BY <1>1, <1>2, IndexOfIs
  <2>2. \A k \in DOMAIN IndexOf(f) : IndexOf(f)[k] \in 1..n - 1 /\ f[IndexOf(f)[k]].fp = k
    BY <1>1, <1>2, IndexOfIs
  <2>3. ASSUME NEW s \in 1..n - 1 PROVE IndexOf(f)[f[s].fp] = s
    <3>1. f[s].fp \in DOMAIN IndexOf(f)
      BY <2>1
    <3> QED BY <1>1, <2>2, <3>1
  <2> QED BY <2>1, <2>3 DEF Indexes
<1> QED BY <1>3, <1>4, <1>5 DEF Coherent

-----------------------------------------------------------------------------
(* Moving an element to the front and erasing one.                         *)

Moved(l, s) == Pushed(s, Removed(l, s))

LEMMA MovedIs ==
  ASSUME NEW S, NEW l \in Seq(S), NEW i \in 1..Len(l),
         \A j \in 1..Len(l) : l[j] = l[i] => j = i
  PROVE  /\ Moved(l, l[i]) \in Seq(S) /\ Len(Moved(l, l[i])) = Len(l)
         /\ Moved(l, l[i])[1] = l[i]
         /\ \A j \in 2..Len(l) : Moved(l, l[i])[j] = IF j <= i THEN l[j - 1] ELSE l[j]
<1> DEFINE r == RemoveAt(l, i)
           x == l[i]
           m == Moved(l, x)
<1>1. m = Pushed(x, r)
  BY RemovedIs DEF Moved
<1>2. /\ r \in Seq(S) /\ Len(r) = Len(l) - 1
      /\ \A j \in 1..Len(l) - 1 : r[j] = IF j < i THEN l[j] ELSE l[j + 1]
  BY RemoveAtIs
<1>3. x \in S
  BY ElementOfSeq
<1> HIDE DEF r, m, x
<1>4. /\ m \in Seq(S) /\ Len(m) = Len(r) + 1 /\ m[1] = x
      /\ \A j \in 2..Len(r) + 1 : m[j] = r[j - 1]
  <2>1. Pushed(x, r) \in Seq(S) /\ Len(Pushed(x, r)) = Len(r) + 1 /\ Pushed(x, r)[1] = x
    BY <1>2, <1>3, PushedIs
  <2>2. \A j \in 2..Len(r) + 1 : Pushed(x, r)[j] = r[j - 1]
    BY <1>2, <1>3, PushedIs
  <2> QED BY <1>1, <2>1, <2>2
<1>5. ASSUME NEW j \in 2..Len(l) PROVE m[j] = IF j <= i THEN l[j - 1] ELSE l[j]
  <2>1. PICK p \in 1..Len(l) - 1 : p = j - 1 /\ p + 1 = j
    OBVIOUS
  <2>2. m[j] = r[p]
    <3>1. j \in 2..Len(r) + 1 /\ p = j - 1
      BY <1>2, <2>1
    <3> QED BY <1>4, <3>1
  <2>3. r[p] = IF p < i THEN l[p] ELSE l[p + 1]
    BY <1>2
  <2> QED BY <2>1, <2>2, <2>3
<1>6. Len(m) = Len(l)
  BY <1>2, <1>4
<1> QED BY <1>4, <1>5, <1>6 DEF m, x

LEMMA ListedIs ==
  ASSUME NEW n \in Nat, n >= 1, NEW l, Listed(l, n), NEW s \in 1..n - 1
  PROVE  \E i \in 1..Len(l) : l[i] = s /\ \A j \in 1..Len(l) : l[j] = l[i] => j = i
<1>1. Len(l) = n - 1
  BY DEF Listed
<1>2. PICK i \in 1..n - 1 : l[i] = s
  BY DEF Listed
<1>3. \A j \in 1..n - 1 : l[j] = l[i] => j = i
  BY DEF Listed
<1> QED BY <1>1, <1>2, <1>3

LEMMA MovedListed ==
  ASSUME NEW n \in Nat, n >= 1, NEW l, Listed(l, n), NEW s \in 1..n - 1
  PROVE  Listed(Moved(l, s), n)
<1> DEFINE m == Moved(l, s)
           N == n - 1
<1>1. l \in Seq(1..N) /\ Len(l) = N /\ N \in Nat
  BY DEF Listed
<1>2. PICK i \in 1..N : l[i] = s /\ \A j \in 1..N : l[j] = l[i] => j = i
  <2>1. PICK i \in 1..Len(l) : l[i] = s /\ \A j \in 1..Len(l) : l[j] = l[i] => j = i
    BY ListedIs
  <2> QED BY <1>1, <2>1
<1>3. /\ m \in Seq(1..N) /\ Len(m) = N /\ m[1] = l[i]
      /\ \A j \in 2..N : m[j] = IF j <= i THEN l[j - 1] ELSE l[j]
  <2> DEFINE S == 1..N
  <2>1. l \in Seq(S) /\ i \in 1..Len(l) /\ \A j \in 1..Len(l) : l[j] = l[i] => j = i
    BY <1>1, <1>2
  <2>2. m = Moved(l, l[i])
    BY <1>2
  <2> HIDE DEF m, S, N
  <2>3. /\ m \in Seq(S) /\ Len(m) = Len(l) /\ m[1] = l[i]
        /\ \A j \in 2..Len(l) : m[j] = IF j <= i THEN l[j - 1] ELSE l[j]
    BY <2>1, <2>2, MovedIs
  <2> QED BY <1>1, <2>3 DEF S
<1> HIDE DEF m, N
<1>4. \A j, k \in 1..N : l[j] = l[k] => j = k
  BY DEF Listed, N
<1>5. ASSUME NEW j \in 1..N, NEW k \in 1..N, m[j] = m[k] PROVE j = k
  <2> DEFINE From(x, p) == p = IF x = 1 THEN i ELSE IF x <= i THEN x - 1 ELSE x
  <2>1. ASSUME NEW x \in 1..N PROVE \E p \in 1..N : From(x, p) /\ m[x] = l[p]
    <3>1. CASE x = 1
      BY <1>3, <3>1
    <3>2. CASE x \in 2..N /\ x <= i
      <4>1. x - 1 \in 1..N /\ m[x] = l[x - 1]
        BY <1>1, <1>3, <3>2
      <4> QED BY <3>2, <4>1
    <3>3. CASE x \in 2..N /\ ~(x <= i)
      BY <1>3, <3>3
    <3> QED BY <3>1, <3>2, <3>3
  <2>2. PICK p \in 1..N : From(j, p) /\ m[j] = l[p]
    BY <2>1
  <2>3. PICK q \in 1..N : From(k, q) /\ m[k] = l[q]
    BY <2>1
  <2>4. p = q
    BY <1>4, <1>5, <2>2, <2>3
  <2> QED BY <2>2, <2>3, <2>4
<1>6. ASSUME NEW t \in 1..N PROVE \E j \in 1..N : m[j] = t
  <2>1. PICK k \in 1..N : l[k] = t
    BY DEF Listed, N
  <2>2. CASE k = i
    BY <1>1, <1>3, <2>1, <2>2
  <2>3. CASE k < i
    <3>1. k + 1 \in 2..N /\ k + 1 <= i /\ (k + 1) - 1 = k
      BY <1>1, <2>3
    <3>2. m[k + 1] = t
      BY <1>3, <2>1, <3>1
    <3> QED BY <3>1, <3>2
  <2>4. CASE k > i
    BY <1>1, <1>3, <2>1, <2>4
  <2> QED BY <2>2, <2>3, <2>4
<1> QED BY <1>3, <1>5, <1>6 DEF Listed, m, N

\* What Erased does to the file, the list and the index.
LEMMA ErasedIs ==
  ASSUME NEW st, Coherent(st.file, st.list, st.index, st.next),
         NEW i \in 1..Len(st.list)
  PROVE  LET last == st.next - 1
             s == st.list[i]
             e == Erased(st, st.file[s].fp, s)
             Left(j) == IF j < i THEN st.list[j] ELSE st.list[j + 1]
         IN  /\ e.next = last
             /\ e.file = [t \in Slot |-> IF t = last THEN Free
                                         ELSE IF t = s THEN st.file[last] ELSE st.file[t]]
             /\ Len(e.list) = Len(st.list) - 1
             /\ e.list \in Seq(1..last)
             /\ \A j \in 1..Len(st.list) - 1 : e.list[j] = IF Left(j) = last THEN s ELSE Left(j)
             /\ DOMAIN e.index = DOMAIN st.index \ {st.file[s].fp}
             /\ \A k \in DOMAIN e.index :
                  e.index[k] = IF st.index[k] = last THEN s ELSE st.index[k]
<1> DEFINE f == st.file
           l == st.list
           ix == st.index
           n == st.next
           s == l[i]
           last == n - 1
           fp == f[s].fp
           e == Erased(st, fp, s)
           L == Len(l)
           r == RemoveAt(l, i)
           jx == Without(ix, fp)
           moved == f[last].fp
<1>1. /\ n \in Nat /\ n >= 1 /\ 1..n - 1 \subseteq Slot /\ f \in Files
      /\ \A t, u \in 1..n - 1 : f[t].fp = f[u].fp => t = u
  BY CompactUsed DEF Coherent, Compact
<1>2. /\ l \in Seq(1..last) /\ L = last
      /\ \A j, k \in 1..last : l[j] = l[k] => j = k
  BY DEF Coherent, Listed
<1>3. /\ DOMAIN ix = {f[t].fp : t \in 1..last}
      /\ \A t \in 1..last : ix[f[t].fp] = t
  BY DEF Coherent, Indexes
<1>4. s \in 1..last /\ last \in 1..last /\ last \in Nat
  <2>1. s \in 1..last
    BY <1>2, ElementOfSeq
  <2> QED BY <1>1, <2>1
<1>5. DOMAIN f = Slot
  BY <1>1 DEF Files
<1>6. /\ r \in Seq(1..last) /\ Len(r) = L - 1
      /\ \A j \in 1..L - 1 : r[j] = IF j < i THEN l[j] ELSE l[j + 1]
  BY <1>2, RemoveAtIs
<1>7. Removed(l, s) = r
  BY <1>2, RemovedIs
<1>8. \A j \in 1..L - 1 : r[j] # s
  <2> SUFFICES ASSUME NEW j \in 1..L - 1, r[j] = s PROVE FALSE
    OBVIOUS
  <2>1. CASE j < i
    BY <1>2, <1>4, <1>6, <2>1
  <2>2. CASE ~(j < i)
    <3>1. l[j + 1] = l[i] /\ j + 1 \in 1..last
      BY <1>2, <1>4, <1>6, <2>2
    <3>2. j + 1 = i
      BY <1>2, <3>1
    <3> QED BY <2>2, <3>2
  <2> QED BY <2>1, <2>2
<1>9. DOMAIN jx = DOMAIN ix \ {fp} /\ \A k \in DOMAIN jx : jx[k] = ix[k]
  BY DEF Without
<1>10. e = [file |-> [Copied(f, s, last) EXCEPT ![last] = Free],
            list |-> IF s = last THEN r ELSE ReplaceAll(r, jx[moved], s),
            index |-> IF s = last THEN jx ELSE [jx EXCEPT ![moved] = s],
            next |-> last]
  BY <1>7 DEF Erased
<1> HIDE DEF e, r, jx
<1>11. e.next = last
  BY <1>10
<1>12. e.file = [t \in Slot |-> IF t = last THEN Free ELSE IF t = s THEN f[last] ELSE f[t]]
  <2>1. e.file = [[f EXCEPT ![s] = f[last]] EXCEPT ![last] = Free]
    BY <1>10 DEF Copied
  <2> QED BY <1>1, <1>4, <1>5, <2>1
<1>13. CASE s = last
  <2>1. e.list = r /\ e.index = jx
    BY <1>10, <1>13
  <2>2. \A j \in 1..L - 1 : e.list[j] = IF r[j] = last THEN s ELSE r[j]
    BY <1>13, <2>1
  <2>3. \A k \in DOMAIN e.index : e.index[k] = IF ix[k] = last THEN s ELSE ix[k]
    BY <1>9, <1>13, <2>1
  <2>4. DOMAIN e.index = DOMAIN ix \ {fp}
    BY <1>9, <2>1
  <2>5. e.list \in Seq(1..last) /\ Len(e.list) = L - 1
    BY <1>6, <2>1
  <2>6. \A j \in 1..L - 1 : e.list[j] = LET x == IF j < i THEN l[j] ELSE l[j + 1]
                                        IN  IF x = last THEN s ELSE x
    BY <1>6, <2>2
  <2> HIDE DEF f, l, ix, n, s, last, fp, L
  <2> QED BY <1>11, <1>12, <2>3, <2>4, <2>5, <2>6 DEF f, l, ix, n, s, last, fp, L, e
<1>14. CASE s # last
  <2>1. moved # fp /\ moved \in DOMAIN ix /\ ix[moved] = last
    BY <1>1, <1>3, <1>4, <1>14
  <2>2. moved \in DOMAIN jx /\ jx[moved] = last
    BY <1>9, <2>1
  <2>3. e.list = ReplaceAll(r, last, s) /\ e.index = [jx EXCEPT ![moved] = s]
    BY <1>10, <1>14, <2>2
  <2>4. e.list = [j \in 1..Len(r) |-> IF r[j] = last THEN s ELSE r[j]]
    BY <2>3 DEF ReplaceAll
  <2>5. \A j \in 1..L - 1 : r[j] \in 1..last
    BY <1>6, ElementOfSeq
  <2>6. e.list \in Seq(1..last) /\ Len(e.list) = L - 1
    <3>1. L - 1 \in Nat
      <4> HIDE DEF f, l, ix, n, s, last, fp, L, moved
      <4>1. L = last /\ last \in Nat
        BY <1>2, <1>4
      <4>2. last >= 1
        BY <1>4
      <4> QED BY <4>1, <4>2
    <3>2. \A j \in 1..L - 1 : (IF r[j] = last THEN s ELSE r[j]) \in 1..last
      BY <1>4, <2>5
    <3>0. e.list = [j \in 1..L - 1 |-> IF r[j] = last THEN s ELSE r[j]]
      BY <1>6, <2>4
    <3>3. e.list \in [1..L - 1 -> 1..last]
      <4> HIDE DEF L, s, last
      <4> QED BY <3>0, <3>2, Zenon
    <3> QED BY <3>1, <3>3, FunctionIsSeq
  <2>7. DOMAIN e.index = DOMAIN ix \ {fp}
    BY <1>9, <2>3
  <2>8. ASSUME NEW k \in DOMAIN e.index PROVE e.index[k] = IF ix[k] = last THEN s ELSE ix[k]
    <3>1. CASE k = moved
      BY <2>1, <2>2, <2>3, <3>1
    <3>2. CASE k # moved
      <4>1. e.index[k] = ix[k]
        BY <1>9, <2>3, <3>2
      <4>2. PICK t \in 1..last : f[t].fp = k
        BY <1>3, <2>7
      <4>3. ix[k] # last
        BY <1>3, <3>2, <4>2
      <4> QED BY <4>1, <4>3
    <3> QED BY <3>1, <3>2
  <2>9. \A j \in 1..L - 1 : e.list[j] = LET x == IF j < i THEN l[j] ELSE l[j + 1]
                                        IN  IF x = last THEN s ELSE x
    BY <1>6, <2>4
  <2> HIDE DEF f, l, ix, n, s, last, fp, L
  <2> QED BY <1>11, <1>12, <2>6, <2>7, <2>8, <2>9 DEF f, l, ix, n, s, last, fp, L, e
<1> QED BY <1>13, <1>14

LEMMA ErasedCoherent ==
  ASSUME NEW st, Coherent(st.file, st.list, st.index, st.next),
         NEW i \in 1..Len(st.list)
  PROVE  LET e == Erased(st, st.file[st.list[i]].fp, st.list[i])
         IN  /\ Coherent(e.file, e.list, e.index, e.next)
             /\ Len(e.list) = Len(st.list) - 1
             /\ \A j \in 1..Len(st.list) - 1 :
                  e.file[e.list[j]] = st.file[IF j < i THEN st.list[j] ELSE st.list[j + 1]]
<1> DEFINE f == st.file
           l == st.list
           ix == st.index
           n == st.next
           s == l[i]
           last == n - 1
           fp == f[s].fp
           e == Erased(st, fp, s)
           L == Len(l)
           Here(x) == IF x = last THEN s ELSE x
           There(t) == IF t = s THEN last ELSE t
<1>1. /\ n \in Nat /\ n >= 1 /\ 1..last \subseteq Slot /\ f \in Files
      /\ \A t \in 1..last : f[t] \in Entry
      /\ \A t \in n..Size : f[t] = Free
      /\ \A t, u \in 1..last : f[t].fp = f[u].fp => t = u
  BY CompactUsed DEF Coherent, Compact
<1>2. /\ l \in Seq(1..last) /\ L = last
      /\ \A j, k \in 1..last : l[j] = l[k] => j = k
      /\ \A t \in 1..last : \E j \in 1..last : l[j] = t
  BY DEF Coherent, Listed
<1>3. /\ DOMAIN ix = {f[t].fp : t \in 1..last}
      /\ \A t \in 1..last : ix[f[t].fp] = t
  BY DEF Coherent, Indexes
<1>4. s \in 1..last /\ last \in 1..last /\ last \in Nat
  <2>1. s \in 1..last
    BY <1>2, ElementOfSeq
  <2> QED BY <1>1, <2>1
<1>5. /\ e.next = last
      /\ e.file = [t \in Slot |-> IF t = last THEN Free ELSE IF t = s THEN f[last] ELSE f[t]]
      /\ Len(e.list) = L - 1 /\ e.list \in Seq(1..last)
  BY ErasedIs
<1>6. \A j \in 1..L - 1 : e.list[j] = Here(IF j < i THEN l[j] ELSE l[j + 1])
  BY ErasedIs
<1>7. /\ DOMAIN e.index = DOMAIN ix \ {fp}
      /\ \A k \in DOMAIN e.index : e.index[k] = Here(ix[k])
  BY ErasedIs
<1>8. i \in 1..last
  BY <1>2
<1> HIDE DEF e, f, l, ix, n, L
<1>9. ASSUME NEW t \in 1..last - 1
      PROVE  /\ There(t) \in 1..last /\ There(t) # s /\ Here(There(t)) = t
             /\ e.file[t] = f[There(t)]
  BY <1>1, <1>4, <1>5
<1>10. ASSUME NEW x \in 1..last, x # s
       PROVE  Here(x) \in 1..last - 1 /\ e.file[Here(x)] = f[x] /\ There(Here(x)) = x
  <2>1. Here(x) \in 1..last - 1 /\ There(Here(x)) = x
    BY <1>1, <1>4, <1>10
  <2> QED BY <1>9, <2>1
<1> HIDE DEF s, fp
<1>11. ASSUME NEW j \in 1..L - 1
       PROVE  \E p \in 1..last : /\ p # i /\ p = IF j < i THEN j ELSE j + 1
                                 /\ l[p] \in 1..last /\ l[p] # s /\ e.list[j] = Here(l[p])
  <2> DEFINE p == IF j < i THEN j ELSE j + 1
  <2>1. p \in 1..last /\ p # i
    BY <1>1, <1>2, <1>8
  <2>2. l[p] \in 1..last /\ e.list[j] = Here(l[p])
    <3>1. l[p] \in 1..last
      <4> DEFINE S == 1..last
      <4>1. l \in Seq(S) /\ p \in 1..Len(l)
        BY <1>2, <2>1 DEF L
      <4> HIDE DEF p, S
      <4>2. l[p] \in S
        BY <4>1, ElementOfSeq
      <4> QED BY <4>2 DEF S
    <3>2. e.list[j] = Here(l[p])
      BY <1>6
    <3> QED BY <3>1, <3>2
  <2>3. l[p] # s
    <3> HIDE DEF p, last
    <3> QED BY <1>2, <1>8, <2>1 DEF s
  <2> QED BY <2>1, <2>2, <2>3
<1>12. Compact(e.file, last)
  <2>1. e.file \in Files
    <3>1. \A t \in Slot : (IF t = last THEN Free ELSE IF t = s THEN f[last] ELSE f[t]) \in {Free} \cup Entry
      BY <1>1, <1>4 DEF Files
    <3> QED BY <1>5, <3>1 DEF Files
  <2>2. last \in 1..End
    BY <1>1, <1>4, LruStorageAssumption DEF End, Slot
  <2>3. \A t \in 1..last - 1 : e.file[t] \in Entry
    BY <1>1, <1>9
  <2>4. \A t \in last..Size : e.file[t] = Free
    <3> SUFFICES ASSUME NEW t \in last..Size PROVE e.file[t] = Free
      OBVIOUS
    <3>1. t \in Slot /\ (t # last => t \in n..Size /\ t # s)
      BY <1>1, <1>4, LruStorageAssumption DEF Slot
    <3> QED BY <1>1, <1>5, <3>1
  <2>5. ASSUME NEW t \in 1..last - 1, NEW u \in 1..last - 1, e.file[t].fp = e.file[u].fp
        PROVE  t = u
    <3>1. There(t) = There(u)
      BY <1>1, <1>9, <2>5
    <3> QED BY <1>9, <3>1
  <2> QED BY <2>1, <2>2, <2>3, <2>4, <2>5 DEF Compact
<1>13. Listed(e.list, last)
  <2>1. e.list \in Seq(1..last - 1)
    <3>1. \A j \in 1..L - 1 : e.list[j] \in 1..last - 1
      BY <1>10, <1>11
    <3>2. e.list \in [1..L - 1 -> 1..last]
      BY <1>5, LenProperties
    <3>3. e.list \in [1..L - 1 -> 1..last - 1]
      BY <3>1, <3>2
    <3>4. L - 1 \in Nat
      BY <1>1, <1>2, <1>4
    <3> HIDE DEF last
    <3> QED BY <3>3, <3>4, FunctionIsSeq
  <2>2. ASSUME NEW j \in 1..last - 1, NEW k \in 1..last - 1, e.list[j] = e.list[k]
        PROVE  j = k
    <3>1. PICK p \in 1..last : /\ p # i /\ p = IF j < i THEN j ELSE j + 1
                               /\ l[p] \in 1..last /\ l[p] # s /\ e.list[j] = Here(l[p])
      BY <1>2, <1>11
    <3>2. PICK q \in 1..last : /\ q # i /\ q = IF k < i THEN k ELSE k + 1
                               /\ l[q] \in 1..last /\ l[q] # s /\ e.list[k] = Here(l[q])
      BY <1>2, <1>11
    <3>3. l[p] = l[q]
      BY <1>10, <2>2, <3>1, <3>2
    <3>4. p = q
      BY <1>2, <3>3
    <3> QED BY <1>8, <3>1, <3>2, <3>4
  <2>3. ASSUME NEW t \in 1..last - 1 PROVE \E j \in 1..last - 1 : e.list[j] = t
    <3>1. PICK k \in 1..last : l[k] = There(t)
      BY <1>2, <1>9
    <3>2. k # i
      BY <1>9, <3>1 DEF s
    <3>3. CASE k < i
      <4>1. k \in 1..last - 1
        BY <1>1, <1>8, <3>3
      <4>2. e.list[k] = Here(l[k])
        BY <1>2, <1>6, <3>3, <4>1
      <4> QED BY <1>9, <3>1, <4>1, <4>2
    <3>4. CASE k > i
      <4>1. k - 1 \in 1..last - 1 /\ ~(k - 1 < i) /\ (k - 1) + 1 = k
        BY <1>1, <1>8, <3>4
      <4>2. e.list[k - 1] = Here(l[k])
        BY <1>2, <1>6, <4>1
      <4> QED BY <1>9, <3>1, <4>1, <4>2
    <3> QED BY <1>8, <3>2, <3>3, <3>4
  <2> QED BY <1>2, <1>5, <2>1, <2>2, <2>3 DEF Listed
<1>14. Indexes(e.index, e.file, last)
  <2>1. ASSUME NEW k \in DOMAIN e.index PROVE k \in {e.file[t].fp : t \in 1..last - 1}
    <3>1. PICK x \in 1..last : k = f[x].fp /\ k # fp
      BY <1>3, <1>7
    <3>2. x # s
      BY <3>1 DEF fp
    <3> QED BY <1>10, <3>1, <3>2
  <2>2. ASSUME NEW t \in 1..last - 1
        PROVE  e.file[t].fp \in DOMAIN e.index /\ e.index[e.file[t].fp] = t
    <3>1. e.file[t].fp = f[There(t)].fp /\ There(t) \in 1..last /\ There(t) # s
      BY <1>9
    <3>2. f[There(t)].fp # fp /\ f[There(t)].fp \in DOMAIN ix /\ ix[f[There(t)].fp] = There(t)
      BY <1>1, <1>3, <1>4, <3>1 DEF fp
    <3>3. f[There(t)].fp \in DOMAIN e.index
      BY <1>7, <3>2
    <3> QED BY <1>7, <1>9, <3>1, <3>2, <3>3
  <2> QED BY <2>1, <2>2 DEF Indexes
<1>15. ASSUME NEW j \in 1..L - 1 PROVE e.file[e.list[j]] = f[IF j < i THEN l[j] ELSE l[j + 1]]
  <2>1. PICK p \in 1..last : /\ p # i /\ p = IF j < i THEN j ELSE j + 1
                             /\ l[p] \in 1..last /\ l[p] # s /\ e.list[j] = Here(l[p])
    BY <1>11
  <2>2. e.file[e.list[j]] = f[l[p]]
    BY <1>10, <2>1
  <2> QED BY <2>1, <2>2
<1>16. Coherent(e.file, e.list, e.index, e.next)
  BY <1>5, <1>12, <1>13, <1>14 DEF Coherent
<1> QED BY <1>5, <1>15, <1>16 DEF e, f, l, L, s, fp

-----------------------------------------------------------------------------
(* Writing an entry.                                                       *)

LEMMA WrittenCompact ==
  ASSUME NEW f, NEW n, Compact(f, n), NEW s \in 1..n - 1, NEW e \in Entry,
         \A t \in 1..n - 1 : t # s => f[t].fp # e.fp
  PROVE  Compact([f EXCEPT ![s] = e], n)
<1> DEFINE g == [f EXCEPT ![s] = e]
<1>1. /\ f \in Files /\ n \in Nat /\ n >= 1 /\ 1..n - 1 \subseteq Slot
      /\ \A t \in 1..n - 1 : f[t] \in Entry
      /\ \A t \in n..Size : f[t] = Free
      /\ \A t, u \in 1..n - 1 : f[t].fp = f[u].fp => t = u
      /\ n \in 1..End
  BY CompactUsed DEF Compact
<1>2. DOMAIN f = Slot
  BY <1>1 DEF Files
<1>3. g[s] = e /\ \A t \in Slot : t # s => g[t] = f[t]
  BY <1>1, <1>2
<1>4. g \in Files
  BY <1>1, <1>2 DEF Files
<1> HIDE DEF g
<1>5. \A t \in n..Size : t # s /\ t \in Slot
  BY <1>1, LruStorageAssumption DEF Slot
<1>6. \A t \in 1..n - 1 : g[t] \in Entry
  BY <1>1, <1>3
<1>7. \A t \in n..Size : g[t] = Free
  BY <1>1, <1>3, <1>5
<1>8. ASSUME NEW t \in 1..n - 1, NEW u \in 1..n - 1, g[t].fp = g[u].fp PROVE t = u
  <2>1. CASE t = s
    BY <1>1, <1>3, <1>8, <2>1
  <2>2. CASE u = s
    BY <1>1, <1>3, <1>8, <2>2
  <2>3. CASE t # s /\ u # s
    BY <1>1, <1>3, <1>8, <2>3
  <2> QED BY <2>1, <2>2, <2>3
<1>9. Compact(g, n)
  BY <1>1, <1>4, <1>6, <1>7, <1>8 DEF Compact
<1> QED BY <1>9 DEF g

\* Update and Touch.
LEMMA WrittenCoherent ==
  ASSUME NEW f, NEW l, NEW ix, NEW n, Coherent(f, l, ix, n), NEW s \in 1..n - 1,
         NEW e \in Entry, e.fp = f[s].fp
  PROVE  Coherent([f EXCEPT ![s] = e], Moved(l, s), ix, n)
<1> DEFINE g == [f EXCEPT ![s] = e]
<1>1. /\ Compact(f, n) /\ f \in Files /\ n \in Nat /\ n >= 1 /\ 1..n - 1 \subseteq Slot
      /\ \A t, u \in 1..n - 1 : f[t].fp = f[u].fp => t = u
  BY CompactUsed DEF Coherent, Compact
<1>2. \A t \in 1..n - 1 : t # s => f[t].fp # e.fp
  BY <1>1
<1>3. Compact(g, n)
  BY <1>1, <1>2, WrittenCompact
<1>4. Listed(Moved(l, s), n)
  BY <1>1, MovedListed DEF Coherent
<1>5. DOMAIN f = Slot
  BY <1>1 DEF Files
<1>6. \A t \in 1..n - 1 : g[t].fp = f[t].fp
  BY <1>1, <1>5
<1> HIDE DEF g
<1>7. Indexes(ix, f, n)
  BY DEF Coherent
<1>8. {g[t].fp : t \in 1..n - 1} = {f[t].fp : t \in 1..n - 1}
  BY <1>6
<1>9. Indexes(ix, g, n)
  BY <1>6, <1>7, <1>8 DEF Indexes
<1>10. Coherent(g, Moved(l, s), ix, n)
  BY <1>3, <1>4, <1>9 DEF Coherent
<1> QED BY <1>10 DEF g

\* Replace: the entry in the slot gives way to another one.
LEMMA ReplacedCoherent ==
  ASSUME NEW f, NEW l, NEW ix, NEW n, Coherent(f, l, ix, n), NEW s \in 1..n - 1,
         NEW e \in Entry, e.fp \notin DOMAIN ix
  PROVE  Coherent([f EXCEPT ![s] = e], Moved(l, s), With(Without(ix, f[s].fp), e.fp, s), n)
<1> DEFINE g == [f EXCEPT ![s] = e]
           old == Without(ix, f[s].fp)
           jx == With(old, e.fp, s)
<1>1. /\ Compact(f, n) /\ f \in Files /\ n \in Nat /\ n >= 1 /\ 1..n - 1 \subseteq Slot
      /\ \A t, u \in 1..n - 1 : f[t].fp = f[u].fp => t = u
  BY CompactUsed DEF Coherent, Compact
<1>2. /\ DOMAIN ix = {f[t].fp : t \in 1..n - 1}
      /\ \A t \in 1..n - 1 : ix[f[t].fp] = t
  BY DEF Coherent, Indexes
<1>3. \A t \in 1..n - 1 : f[t].fp # e.fp
  BY <1>2
<1>4. Compact(g, n)
  BY <1>1, <1>3, WrittenCompact
<1>5. Listed(Moved(l, s), n)
  BY <1>1, MovedListed DEF Coherent
<1>6. DOMAIN f = Slot
  BY <1>1 DEF Files
<1>7. g[s] = e /\ \A t \in 1..n - 1 : t # s => g[t] = f[t]
  BY <1>1, <1>6
<1>8. DOMAIN old = DOMAIN ix \ {f[s].fp} /\ \A k \in DOMAIN old : old[k] = ix[k]
  BY DEF Without
<1> HIDE DEF g, old
<1>9. /\ DOMAIN jx = {e.fp} \cup DOMAIN old /\ jx[e.fp] = s
      /\ \A x \in DOMAIN old : x # e.fp => jx[x] = old[x]
  BY Zenon DEF With
<1> HIDE DEF jx
<1>10. Indexes(jx, g, n)
  <2>1. ASSUME NEW t \in 1..n - 1 PROVE g[t].fp \in DOMAIN jx /\ jx[g[t].fp] = t
    <3>1. CASE t = s
      BY <1>7, <1>9, <3>1
    <3>2. CASE t # s
      <4>1. g[t].fp = f[t].fp /\ f[t].fp \in DOMAIN old /\ f[t].fp # e.fp
        BY <1>1, <1>2, <1>3, <1>7, <1>8, <3>2
      <4> QED BY <1>2, <1>8, <1>9, <4>1
    <3> QED BY <3>1, <3>2
  <2>2. ASSUME NEW k \in DOMAIN jx PROVE k \in {g[t].fp : t \in 1..n - 1}
    <3>1. CASE k = e.fp
      BY <1>7, <3>1
    <3>2. CASE k # e.fp
      <4>1. PICK t \in 1..n - 1 : k = f[t].fp /\ t # s
        BY <1>2, <1>8, <1>9, <3>2
      <4> QED BY <1>7, <4>1
    <3> QED BY <3>1, <3>2
  <2> QED BY <2>1, <2>2 DEF Indexes
<1>11. Coherent(g, Moved(l, s), jx, n)
  BY <1>4, <1>5, <1>10 DEF Coherent
<1> QED BY <1>11 DEF g, jx, old

LEMMA AddedCoherent ==
  ASSUME NEW f, NEW l, NEW ix, NEW n, Coherent(f, l, ix, n), n # End,
         NEW e \in Entry, e.fp \notin DOMAIN ix
  PROVE  Coherent([f EXCEPT ![n] = e], Pushed(n, l), With(ix, e.fp, n), n + 1)
<1> DEFINE g == [f EXCEPT ![n] = e]
           jx == With(ix, e.fp, n)
           m == Pushed(n, l)
<1>1. /\ f \in Files /\ n \in 1..Size /\ n \in Nat /\ 1..n - 1 \subseteq Slot
      /\ \A t \in 1..n - 1 : f[t] \in Entry
      /\ \A t \in n..Size : f[t] = Free
      /\ \A t, u \in 1..n - 1 : f[t].fp = f[u].fp => t = u
  <2>1. Compact(f, n)
    BY DEF Coherent
  <2>2. n \in 1..Size
    BY <2>1, LruStorageAssumption DEF Compact, End
  <2>3. 1..n - 1 \subseteq Slot /\ n \in Nat
    BY <2>1, CompactUsed
  <2> QED BY <2>1, <2>2, <2>3 DEF Compact
<1>2. /\ DOMAIN ix = {f[t].fp : t \in 1..n - 1}
      /\ \A t \in 1..n - 1 : ix[f[t].fp] = t
  BY DEF Coherent, Indexes
<1>3. /\ l \in Seq(1..n - 1) /\ Len(l) = n - 1
      /\ \A j, k \in 1..n - 1 : l[j] = l[k] => j = k
      /\ \A t \in 1..n - 1 : \E j \in 1..n - 1 : l[j] = t
  BY DEF Coherent, Listed
<1>4. DOMAIN f = 1..Size
  BY <1>1 DEF Files, Slot
<1>5. g[n] = e /\ \A t \in 1..Size : t # n => g[t] = f[t]
  BY <1>1, <1>4
<1>6. g \in Files
  BY <1>1, <1>4 DEF Files, Slot
<1> HIDE DEF g
<1>7. /\ DOMAIN jx = {e.fp} \cup DOMAIN ix /\ jx[e.fp] = n
      /\ \A x \in DOMAIN ix : x # e.fp => jx[x] = ix[x]
  BY Zenon DEF With
<1>8. m \in Seq(1..n) /\ Len(m) = n /\ m[1] = n
  <2> DEFINE S == 1..n
  <2>1. l \in Seq(S) /\ n \in S
    BY <1>1, <1>3
  <2> HIDE DEF S
  <2>2. m \in Seq(S) /\ Len(m) = Len(l) + 1 /\ m[1] = n
    BY <2>1, PushedIs
  <2> HIDE DEF m
  <2> QED BY <1>1, <1>3, <2>2 DEF S
<1>9. \A j \in 2..n : m[j] = l[j - 1]
  <2> DEFINE S == 1..n
  <2>1. l \in Seq(S) /\ n \in S
    BY <1>1, <1>3
  <2> HIDE DEF S
  <2>2. \A j \in 2..Len(l) + 1 : m[j] = l[j - 1]
    BY <2>1, PushedIs
  <2> HIDE DEF m
  <2> QED BY <1>1, <1>3, <2>2
<1> HIDE DEF jx, m
<1>10. \A j \in 2..n : j - 1 \in 1..n - 1 /\ m[j] \in 1..n - 1
  <2> SUFFICES ASSUME NEW j \in 2..n PROVE j - 1 \in 1..n - 1 /\ m[j] \in 1..n - 1
    OBVIOUS
  <2>1. j - 1 \in 1..n - 1
    BY <1>1
  <2>2. l[j - 1] \in 1..n - 1
    <3> DEFINE S == 1..n - 1
               p == j - 1
    <3>1. l \in Seq(S) /\ p \in 1..Len(l)
      BY <1>3, <2>1
    <3> HIDE DEF S, p
    <3>2. l[p] \in S
      BY <3>1, ElementOfSeq
    <3> QED BY <3>2 DEF S, p
  <2> QED BY <1>9, <2>1, <2>2
<1>11. Compact(g, n + 1)
  <2>1. n + 1 \in 1..End /\ (n + 1) - 1 = n
    BY <1>1, LruStorageAssumption DEF End
  <2>0. \A t \in 1..n : t # n => t \in 1..n - 1 /\ t \in 1..Size
    BY <1>1, LruStorageAssumption
  <2>2. \A t \in 1..n : g[t] \in Entry
    BY <1>1, <1>5, <2>0
  <2>3. \A t \in n + 1..Size : g[t] = Free
    BY <1>1, <1>5
  <2>4. ASSUME NEW t \in 1..n, NEW u \in 1..n, g[t].fp = g[u].fp PROVE t = u
    <3>0. \A x \in 1..n - 1 : g[x] = f[x] /\ f[x].fp # e.fp
      <4> SUFFICES ASSUME NEW x \in 1..n - 1 PROVE g[x] = f[x] /\ f[x].fp # e.fp
        OBVIOUS
      <4>1. x \in 1..Size /\ x # n
        BY <1>1, LruStorageAssumption
      <4>2. f[x].fp \in DOMAIN ix
        BY <1>2
      <4> QED BY <1>5, <4>1, <4>2
    <3>1. CASE t = n /\ u # n
      BY <1>5, <2>0, <2>4, <3>0, <3>1
    <3>2. CASE t # n /\ u = n
      BY <1>5, <2>0, <2>4, <3>0, <3>2
    <3>3. CASE t # n /\ u # n
      <4>1. t \in 1..n - 1 /\ u \in 1..n - 1
        BY <2>0, <3>3
      <4> QED BY <1>1, <2>4, <3>0, <4>1
    <3> QED BY <3>1, <3>2, <3>3
  <2> QED BY <1>6, <2>1, <2>2, <2>3, <2>4 DEF Compact
<1>12. Listed(m, n + 1)
  <2>1. (n + 1) - 1 = n
    BY <1>1
  <2>2. ASSUME NEW j \in 1..n, NEW k \in 1..n, m[j] = m[k] PROVE j = k
    <3>1. CASE j = 1 /\ k # 1
      BY <1>1, <1>8, <1>10, <2>2, <3>1
    <3>2. CASE j # 1 /\ k = 1
      BY <1>1, <1>8, <1>10, <2>2, <3>2
    <3>3. CASE j # 1 /\ k # 1
      <4>1. l[j - 1] = l[k - 1] /\ j - 1 \in 1..n - 1 /\ k - 1 \in 1..n - 1
        BY <1>9, <1>10, <2>2, <3>3
      <4>2. j - 1 = k - 1
        BY <1>3, <4>1
      <4> QED BY <4>2
    <3> QED BY <3>1, <3>2, <3>3
  <2>3. ASSUME NEW t \in 1..n PROVE \E j \in 1..n : m[j] = t
    <3>1. CASE t = n
      BY <1>1, <1>8, <3>1
    <3>2. CASE t # n
      <4>1. t \in 1..n - 1
        BY <1>1, <3>2
      <4>2. PICK k \in 1..n - 1 : l[k] = t
        BY <1>3, <4>1
      <4>3. k + 1 \in 2..n /\ (k + 1) - 1 = k
        BY <1>1
      <4>4. m[k + 1] = t
        BY <1>9, <4>2, <4>3
      <4> QED BY <4>3, <4>4
    <3> QED BY <3>1, <3>2
  <2> QED BY <1>8, <2>1, <2>2, <2>3 DEF Listed
<1>13. Indexes(jx, g, n + 1)
  <2>0. (n + 1) - 1 = n
    BY <1>1
  <2>1. ASSUME NEW t \in 1..n PROVE g[t].fp \in DOMAIN jx /\ jx[g[t].fp] = t
    <3>1. CASE t = n
      BY <1>5, <1>7, <3>1
    <3>2. CASE t # n
      <4>1. t \in 1..n - 1 /\ g[t] = f[t] /\ f[t].fp \in DOMAIN ix /\ f[t].fp # e.fp
        <5>1. t \in 1..n - 1 /\ t \in 1..Size
          BY <1>1, <3>2, LruStorageAssumption
        <5>2. g[t] = f[t] /\ f[t].fp \in DOMAIN ix
          BY <1>2, <1>5, <3>2, <5>1
        <5> QED BY <5>1, <5>2
      <4> QED BY <1>2, <1>7, <4>1
    <3> QED BY <3>1, <3>2
  <2>2. ASSUME NEW k \in DOMAIN jx PROVE k \in {g[t].fp : t \in 1..n}
    <3>1. CASE k = e.fp
      BY <1>1, <1>5, <3>1
    <3>2. CASE k # e.fp
      <4>1. PICK t \in 1..n - 1 : k = f[t].fp
        BY <1>2, <1>7, <3>2
      <4>2. t \in 1..n /\ g[t] = f[t]
        <5>1. t \in 1..n /\ t \in 1..Size /\ t # n
          BY <1>1, LruStorageAssumption
        <5> QED BY <1>5, <5>1
      <4> QED BY <4>1, <4>2
    <3> QED BY <3>1, <3>2
  <2> QED BY <2>0, <2>1, <2>2 DEF Indexes
<1>14. Coherent(g, m, jx, n + 1)
  BY <1>11, <1>12, <1>13 DEF Coherent
<1> QED BY <1>14 DEF g, m, jx

-----------------------------------------------------------------------------
(* DeleteElementsBefore: the rounds of its loop.                           *)

Prunes(R, t, m) ==
  R = [n \in 0..m |-> IF n = 0 THEN Storage ELSE LastPruned(R[n - 1], t)]

LEMMA PrunesExists ==
  ASSUME NEW t, NEW m \in Nat
  PROVE  \E R : Prunes(R, t, m)
<1> DEFINE Bad == {l \in Nat : ~\E R : Prunes(R, t, l)}
<1> SUFFICES ASSUME Bad # {} PROVE FALSE
  OBVIOUS
<1>1. PICK l \in Bad : \A k \in Bad : l <= k
  BY Least
<1>2. l # 0
  <2> DEFINE R == [n \in 0..0 |-> Storage]
  <2>1. Prunes(R, t, 0)
    BY DEF Prunes
  <2> QED BY <1>1, <2>1
<1>3. l - 1 \in Nat /\ l - 1 \notin Bad
  BY <1>1, <1>2
<1>4. PICK Q : Prunes(Q, t, l - 1)
  BY <1>3
<1> DEFINE R == [n \in 0..l |-> IF n < l THEN Q[n] ELSE LastPruned(Q[l - 1], t)]
<1>5. ASSUME NEW n \in 0..l
      PROVE  R[n] = IF n = 0 THEN Storage ELSE LastPruned(R[n - 1], t)
  <2>1. CASE n < l
    <3>1. Q[n] = IF n = 0 THEN Storage ELSE LastPruned(Q[n - 1], t)
      BY <1>1, <1>3, <1>4, <2>1 DEF Prunes
    <3>2. n # 0 => R[n - 1] = Q[n - 1]
      BY <1>1, <2>1
    <3> QED BY <2>1, <3>1, <3>2
  <2>2. CASE n = l
    <3>1. R[l - 1] = Q[l - 1] /\ R[l] = LastPruned(Q[l - 1], t)
      BY <1>1, <1>2
    <3> QED BY <1>2, <2>2, <3>1
  <2> QED BY <1>1, <2>1, <2>2
<1>6. Prunes(R, t, l)
  BY <1>5 DEF Prunes
<1> QED BY <1>1, <1>6

LEMMA PruningIs ==
  ASSUME NEW t, Len(lru_list) \in Nat
  PROVE  /\ Pruning(t)[0] = Storage
         /\ \A n \in 1..Len(lru_list) : Pruning(t)[n] = LastPruned(Pruning(t)[n - 1], t)
<1>1. \E R : Prunes(R, t, Len(lru_list))
  BY PrunesExists
<1>2. Prunes(Pruning(t), t, Len(lru_list))
  BY <1>1 DEF Pruning, Prunes
<1> DEFINE R == Pruning(t)
<1> HIDE DEF R
<1>3. \A n \in 0..Len(lru_list) : R[n] = IF n = 0 THEN Storage ELSE LastPruned(R[n - 1], t)
  BY <1>2 DEF Prunes, R
<1>4. R[0] = Storage
  BY <1>3
<1>5. \A n \in 1..Len(lru_list) : R[n] = LastPruned(R[n - 1], t)
  BY <1>3
<1> QED BY <1>4, <1>5 DEF R

\* The first m elements are left, and the others are older than t.
PrunedTo(st, t, m) ==
  /\ Coherent(st.file, st.list, st.index, st.next) /\ Len(st.list) = m
  /\ \A j \in 1..m : st.file[st.list[j]] = file[lru_list[j]]
  /\ \A j \in m + 1..Len(lru_list) : file[lru_list[j]].time < t

LEMMA PruningStep ==
  ASSUME NEW t, NEW st, NEW m \in Nat, m <= Len(lru_list), Len(lru_list) \in Nat,
         PrunedTo(st, t, m), m # 0, ~(file[lru_list[m]].time >= t), t \in Nat,
         \A j \in 1..Len(lru_list) : file[lru_list[j]].time \in Nat
  PROVE  PrunedTo(LastPruned(st, t), t, m - 1)
<1> DEFINE s == Last(st.list)
           e == Erased(st, st.file[st.list[m]].fp, st.list[m])
<1>1. /\ Coherent(st.file, st.list, st.index, st.next) /\ Len(st.list) = m
      /\ \A j \in 1..m : st.file[st.list[j]] = file[lru_list[j]]
      /\ \A j \in m + 1..Len(lru_list) : file[lru_list[j]].time < t
  BY DEF PrunedTo
<1>2. s = st.list[m] /\ m \in 1..m
  BY <1>1 DEF Last
<1>3. st.list # <<>>
  BY <1>1
<1>4. ~(st.file[s].time >= t)
  BY <1>1, <1>2
<1>5. LastPruned(st, t) = e
  BY <1>2, <1>3, <1>4 DEF LastPruned
<1>6. m \in 1..Len(st.list)
  BY <1>1, <1>2
<1>7. /\ Coherent(e.file, e.list, e.index, e.next) /\ Len(e.list) = m - 1
      /\ \A j \in 1..m - 1 : e.file[e.list[j]] = st.file[IF j < m THEN st.list[j] ELSE st.list[j + 1]]
  BY <1>1, <1>6, ErasedCoherent
<1> HIDE DEF e
<1>8. \A j \in 1..m - 1 : e.file[e.list[j]] = file[lru_list[j]]
  <2> SUFFICES ASSUME NEW j \in 1..m - 1 PROVE e.file[e.list[j]] = file[lru_list[j]]
    OBVIOUS
  <2>1. j < m /\ j \in 1..m
    OBVIOUS
  <2> QED BY <1>1, <1>7, <2>1
<1>9. \A j \in (m - 1) + 1..Len(lru_list) : file[lru_list[j]].time < t
  <2> SUFFICES ASSUME NEW j \in (m - 1) + 1..Len(lru_list) PROVE file[lru_list[j]].time < t
    OBVIOUS
  <2>1. CASE j = m
    BY <2>1
  <2>2. CASE j # m
    BY <1>1, <2>2
  <2> QED BY <2>1, <2>2
<1> QED BY <1>5, <1>7, <1>8, <1>9 DEF PrunedTo

LEMMA PrunedIs ==
  ASSUME NEW t \in Nat, Coherent(file, lru_list, lru_map, next_item)
  PROVE  \E m \in 0..Len(lru_list) :
           /\ PrunedTo(Pruning(t)[Len(lru_list)], t, m)
           /\ m # 0 => file[lru_list[m]].time >= t
<1> DEFINE L == Len(lru_list)
           E(j) == file[lru_list[j]]
           Good(n) == \E m \in 0..L : /\ PrunedTo(Pruning(t)[n], t, m)
                                      /\ m = L - n \/ (m # 0 /\ E(m).time >= t)
           Bad == {n \in 0..L : ~Good(n)}
<1>1. L \in Nat /\ \A j \in 1..L : E(j).time \in Nat
  <2>1. /\ lru_list \in Seq(1..next_item - 1) /\ Len(lru_list) = next_item - 1
        /\ \A x \in 1..next_item - 1 : file[x] \in Entry
    BY DEF Coherent, Listed, Compact
  <2>2. \A j \in 1..L : lru_list[j] \in 1..next_item - 1
    BY <2>1, ElementOfSeq
  <2>3. \A x \in Entry : x.time \in Nat
    BY LruStorageAssumption DEF Entry
  <2> QED BY <2>1, <2>2, <2>3
<1> HIDE DEF L
<1>2. Pruning(t)[0] = Storage /\ \A n \in 1..L : Pruning(t)[n] = LastPruned(Pruning(t)[n - 1], t)
  BY <1>1, PruningIs DEF L
<1>3. Good(0)
  <2>1. PrunedTo(Storage, t, L)
    <3>1. /\ Storage.file = file /\ Storage.list = lru_list
          /\ Storage.index = lru_map /\ Storage.next = next_item
      BY DEF Storage
    <3>2. \A j \in L + 1..Len(lru_list) : file[lru_list[j]].time < t
      BY <1>1 DEF L
    <3> QED BY <3>1, <3>2 DEF PrunedTo, L
  <2> QED BY <1>1, <1>2, <2>1
<1>4. ASSUME NEW n \in 1..L, Good(n - 1) PROVE Good(n)
  <2> DEFINE st == Pruning(t)[n - 1]
  <2>1. PICK m \in 0..L : PrunedTo(st, t, m) /\ (m = L - (n - 1) \/ (m # 0 /\ E(m).time >= t))
    BY <1>4
  <2>2. m # 0
    BY <1>1, <2>1
  <2>3. Pruning(t)[n] = LastPruned(st, t)
    BY <1>2
  <2> HIDE DEF st
  <2>4. CASE E(m).time >= t
    <3>1. Len(st.list) = m /\ st.file[st.list[m]] = E(m)
      BY <1>1, <2>1, <2>2 DEF PrunedTo
    <3>2. LastPruned(st, t) = st
      BY <2>4, <3>1 DEF LastPruned, Last
    <3> QED BY <2>1, <2>2, <2>3, <2>4, <3>2
  <2>5. CASE ~(E(m).time >= t)
    <3>1. m \in Nat /\ m <= Len(lru_list) /\ Len(lru_list) \in Nat
      BY <1>1 DEF L
    <3>2. PrunedTo(LastPruned(st, t), t, m - 1)
      BY <1>1, <2>1, <2>2, <2>5, <3>1, PruningStep DEF L
    <3>3. m - 1 \in 0..L /\ m - 1 = L - n
      <4>1. m = L - (n - 1)
        BY <2>1, <2>5
      <4> QED BY <1>1, <2>2, <4>1
    <3> QED BY <2>3, <3>2, <3>3
  <2> QED BY <2>4, <2>5
<1>5. Bad = {}
  <2> SUFFICES ASSUME Bad # {} PROVE FALSE
    OBVIOUS
  <2>1. Bad \subseteq Nat
    BY <1>1
  <2>2. PICK n \in Bad : \A k \in Bad : n <= k
    <3> HIDE DEF Bad
    <3> QED BY <2>1, Least
  <2> HIDE DEF Good
  <2>3. n # 0
    BY <1>3, <2>2
  <2>4. n \in 1..L /\ n - 1 \in 0..L /\ n - 1 \notin Bad
    BY <1>1, <2>2, <2>3
  <2> QED BY <1>4, <2>2, <2>4
<1>6. Good(L)
  <2> HIDE DEF Good
  <2> QED BY <1>1, <1>5
<1>7. PICK m \in 0..L : PrunedTo(Pruning(t)[L], t, m) /\ (m = L - L \/ (m # 0 /\ E(m).time >= t))
  BY <1>6
<1>8. m = 0 \/ E(m).time >= t
  BY <1>1, <1>7
<1> QED BY <1>7, <1>8 DEF L

-----------------------------------------------------------------------------
(* Merge: what Merged puts into the file.                                  *)

\* The items that come first of their fingerprint.
FirstOf(items) ==
  {i \in DOMAIN items : \A j \in DOMAIN items \ {i} :
     items[j].fp = items[i].fp => Before(items, i, j)}

Latest(items) == LatestFirst(items, FirstOf(items))
Kept(items) == [s \in Slot |-> IF s <= Len(Latest(items)) THEN items[Latest(items)[s]] ELSE Free]

Items(items) ==
  /\ Len(items) \in Nat /\ DOMAIN items = 1..Len(items)
  /\ \A i \in 1..Len(items) :
       /\ items[i] = Free \/ items[i] \in Entry
       /\ items[i].time \in Nat /\ (items[i] \in Entry <=> items[i].time # 0)

LEMMA ItemsAre ==
  ASSUME file \in Files, NEW other \in Seq(Entry)
  PROVE  LET items == file \o other
         IN  /\ Items(items) /\ Merged(other) = Kept(items)
             /\ Len(items) = Size + Len(other)
             /\ \A i \in 1..Size : items[i] = file[i]
             /\ \A i \in 1..Len(other) : items[Size + i] = other[i]
<1> DEFINE S == {Free} \cup Entry
           items == file \o other
<1>0. Size \in Nat
  BY LruStorageAssumption
<1>1. file \in Seq(S) /\ Len(file) = Size
  <2>1. file \in [1..Size -> S]
    BY DEF Files, Slot
  <2> HIDE DEF S
  <2> QED BY <1>0, <2>1, FunctionIsSeq
<1>2. other \in Seq(S) /\ Len(other) \in Nat
  OBVIOUS
<1> HIDE DEF S
<1>3. items \in Seq(S) /\ Len(items) = Size + Len(other)
  BY <1>1, <1>2
<1>4. \A i \in 1..Size : items[i] = file[i]
  BY <1>0, <1>1, <1>2
<1>5. ASSUME NEW i \in 1..Len(other) PROVE items[Size + i] = other[i]
  BY <1>0, <1>1, <1>2
<1> HIDE DEF items
<1>6. ASSUME NEW i \in 1..Len(items)
      PROVE  /\ items[i] = Free \/ items[i] \in Entry
             /\ items[i].time \in Nat /\ (items[i] \in Entry <=> items[i].time # 0)
  <2>1. items[i] \in S
    BY <1>3, ElementOfSeq
  <2>2. items[i] = Free \/ items[i] \in Entry
    BY <2>1 DEF S
  <2>3. \A e \in Entry : e.time \in Nat /\ e.time # 0
    BY LruStorageAssumption DEF Entry
  <2> QED BY <2>2, <2>3, EntryIs
<1>7. Len(items) \in Nat /\ DOMAIN items = 1..Len(items)
  BY <1>3, LenProperties
<1>8. Items(items)
  BY <1>6, <1>7 DEF Items
<1>9. Merged(other) = Kept(items)
  BY DEF Merged, Kept, Latest, FirstOf, items
<1> QED BY <1>3, <1>4, <1>5, <1>8, <1>9 DEF items

\* A set of positions that has with each position the earlier ones is a prefix.
LEMMA Prefix ==
  ASSUME NEW n \in Nat, NEW K \in SUBSET (1..n), \A j \in 1..n, k \in K : j < k => j \in K
  PROVE  \E p \in 0..n : K = 1..p
<1> DEFINE I == {j \in 1..n + 1 : j \notin K}
<1>1. n + 1 \in I /\ I \subseteq Nat
  OBVIOUS
<1>2. PICK x \in I : \A y \in I : x <= y
  <2> HIDE DEF I
  <2> QED BY <1>1, Least
<1>3. \A j \in 1..n : j < x => j \in K
  BY <1>2
<1>4. \A j \in K : j < x
  <2> SUFFICES ASSUME NEW j \in K, ~(j < x) PROVE FALSE
    OBVIOUS
  <2>1. x \in 1..n /\ (x < j \/ x = j)
    BY <1>2
  <2> QED BY <1>2, <2>1
<1>5. x - 1 \in 0..n
  BY <1>2
<1> HIDE DEF I
<1>6. x \in 1..n + 1
  BY <1>2 DEF I
<1>7. K = 1..x - 1
  <2>1. \A j \in K : j \in 1..x - 1
    BY <1>4, <1>6
  <2>2. \A j \in 1..x - 1 : j \in 1..n /\ j < x
    BY <1>6
  <2>3. \A j \in 1..x - 1 : j \in K
    BY <1>3, <2>2
  <2> QED BY <2>1, <2>3
<1> QED BY <1>5, <1>7

LEMMA FirstOfIs ==
  ASSUME NEW items, Items(items)
  PROVE  /\ FirstOf(items) \subseteq 1..Len(items) /\ Timed(items, FirstOf(items))
         /\ \A i, j \in FirstOf(items) : items[i].fp = items[j].fp => i = j
<1> DEFINE first == FirstOf(items)
           N == Len(items)
<1>1. N \in Nat /\ DOMAIN items = 1..N /\ \A i \in 1..N : items[i].time \in Nat
  BY DEF Items
<1>2. first \subseteq 1..N
  BY <1>1 DEF FirstOf
<1>3. IsFiniteSet(first)
  <2>1. IsFiniteSet(1..N)
    BY <1>1, FS_Interval
  <2> QED BY <1>2, <2>1, FS_Subset
<1>4. ASSUME NEW i \in first, NEW j \in first, items[i].fp = items[j].fp, i # j
      PROVE  Before(items, i, j)
  BY <1>4 DEF FirstOf
<1> HIDE DEF first, N
<1>5. Timed(items, first)
  BY <1>1, <1>2, <1>3 DEF Timed
<1>6. ASSUME NEW i \in first, NEW j \in first, items[i].fp = items[j].fp PROVE i = j
  <2> SUFFICES ASSUME i # j PROVE FALSE
    OBVIOUS
  <2>1. Before(items, i, j) /\ Before(items, j, i)
    BY <1>4, <1>6
  <2> QED BY <1>5, <2>1, BeforeIsTotal
<1> QED BY <1>2, <1>5, <1>6 DEF first, N

LEMMA KeptIs ==
  ASSUME NEW items, Items(items)
  PROVE  \E p \in 0..Size :
           /\ p <= Len(Latest(items))
           /\ \A j \in 1..p : /\ Kept(items)[j] = items[Latest(items)[j]]
                              /\ items[Latest(items)[j]] \in Entry
           /\ p # Size => \A j \in p + 1..Len(Latest(items)) : items[Latest(items)[j]] \notin Entry
           /\ Compact(Kept(items), p + 1)
<1> DEFINE first == FirstOf(items)
           M == Kept(items)
           N == Len(items)
           l == Latest(items)
           K == {j \in 1..Size : j <= Len(l) /\ items[l[j]] \in Entry}
<1>0. Size \in Nat /\ Size >= 1
  BY LruStorageAssumption
<1>1. /\ N \in Nat /\ DOMAIN items = 1..N
      /\ \A i \in 1..N : /\ items[i] = Free \/ items[i] \in Entry
                         /\ items[i].time \in Nat /\ (items[i] \in Entry <=> items[i].time # 0)
  BY DEF Items
<1>2. first \subseteq 1..N /\ Timed(items, first)
  BY FirstOfIs
<1>3. \A i, j \in first : items[i].fp = items[j].fp => i = j
  BY FirstOfIs
<1>4. M = [s \in Slot |-> IF s <= Len(l) THEN items[l[s]] ELSE Free]
  BY DEF Kept
<1>5. /\ l \in Seq(first) /\ Len(l) \in Nat
      /\ \A m, n \in 1..Len(l) : m < n => Before(items, l[m], l[n])
      /\ \A m, n \in 1..Len(l) : l[m] = l[n] => m = n
  BY <1>2, LatestFirstIs DEF Latest
<1> HIDE DEF first, M, N, l
<1>6. \A j \in 1..Len(l) : l[j] \in first /\ l[j] \in 1..N
  <2> SUFFICES ASSUME NEW j \in 1..Len(l) PROVE l[j] \in first
    BY <1>2
  <2> QED BY <1>5, ElementOfSeq
<1>7. ASSUME NEW j \in 1..Len(l), NEW k \in 1..Len(l), j < k, items[l[k]] \in Entry
      PROVE  items[l[j]] \in Entry
  <2>1. Before(items, l[j], l[k])
    BY <1>5, <1>7
  <2>2. items[l[j]].time >= items[l[k]].time /\ items[l[k]].time # 0
    BY <1>1, <1>6, <1>7, <2>1 DEF Before
  <2> QED BY <1>1, <1>6, <2>2
<1>8. PICK p \in 0..Size : K = 1..p
  <2>1. ASSUME NEW j \in 1..Size, NEW k \in K, j < k PROVE j \in K
    <3>1. j \in 1..Len(l) /\ k \in 1..Len(l) /\ items[l[k]] \in Entry
      BY <1>5, <2>1
    <3> QED BY <1>7, <2>1, <3>1
  <2>2. K \in SUBSET (1..Size)
    OBVIOUS
  <2> HIDE DEF K
  <2> QED BY <1>0, <2>1, <2>2, Prefix
<1>9. p <= Len(l)
  <2>1. p = 0 \/ p \in K
    BY <1>8
  <2> QED BY <1>5, <1>8, <2>1
<1>10. \A j \in 1..p : j \in Slot /\ M[j] = items[l[j]] /\ items[l[j]] \in Entry /\ j \in 1..Len(l)
  <2> SUFFICES ASSUME NEW j \in 1..p
               PROVE  j \in Slot /\ M[j] = items[l[j]] /\ items[l[j]] \in Entry /\ j \in 1..Len(l)
    OBVIOUS
  <2>1. j \in K
    BY <1>8
  <2> QED BY <1>4, <1>5, <2>1 DEF Slot
<1>11. ASSUME p # Size, NEW j \in p + 1..Len(l) PROVE items[l[j]] \notin Entry
  <2>1. p + 1 \in 1..Size /\ p + 1 \notin K
    BY <1>0, <1>8, <1>11
  <2>2. items[l[p + 1]] \notin Entry /\ p + 1 \in 1..Len(l)
    BY <1>5, <1>8, <2>1
  <2>3. j = p + 1 \/ p + 1 < j
    BY <1>8
  <2>4. j \in 1..Len(l)
    BY <1>8
  <2> QED BY <1>7, <2>2, <2>3, <2>4
<1>12. Compact(M, p + 1)
  <2>1. M \in Files
    <3>1. \A s \in Slot : (IF s <= Len(l) THEN items[l[s]] ELSE Free) \in {Free} \cup Entry
      <4> SUFFICES ASSUME NEW s \in Slot, s <= Len(l) PROVE items[l[s]] \in {Free} \cup Entry
        OBVIOUS
      <4>1. s \in 1..Len(l)
        BY <1>5 DEF Slot
      <4> QED BY <1>1, <1>6, <4>1
    <3> QED BY <1>4, <3>1 DEF Files
  <2>2. p + 1 \in 1..End /\ (p + 1) - 1 = p
    BY <1>0, <1>8 DEF End
  <2>3. \A s \in 1..p : M[s] \in Entry
    BY <1>10
  <2>4. ASSUME NEW s \in p + 1..Size PROVE M[s] = Free
    <3>1. s \in Slot /\ s \notin K
      BY <1>0, <1>8 DEF Slot
    <3>2. CASE s <= Len(l)
      <4>1. s \in 1..Len(l)
        BY <1>5, <3>1, <3>2 DEF Slot
      <4>2. items[l[s]] \notin Entry
        BY <1>8, <3>1, <4>1
      <4>3. items[l[s]] = Free
        BY <1>1, <1>6, <4>1, <4>2
      <4> QED BY <1>4, <3>1, <3>2, <4>3
    <3>3. CASE ~(s <= Len(l))
      BY <1>4, <3>1, <3>3
    <3> QED BY <3>2, <3>3
  <2>5. ASSUME NEW s \in 1..p, NEW t \in 1..p, M[s].fp = M[t].fp PROVE s = t
    <3>1. l[s] = l[t] /\ s \in 1..Len(l) /\ t \in 1..Len(l)
      BY <1>3, <1>6, <1>10, <2>5
    <3> QED BY <1>5, <3>1
  <2> QED BY <2>1, <2>2, <2>3, <2>4, <2>5 DEF Compact
<1>13. \A j \in 1..p : M[j] = items[l[j]] /\ items[l[j]] \in Entry
  BY <1>10
<1> QED BY <1>9, <1>11, <1>12, <1>13 DEF M, l

-----------------------------------------------------------------------------
(* The invariant of a storage that no torn write has damaged.              *)

IInv == TypeOK /\ CoherentInv

\* The index finds the slot of a fingerprint, and its node in the list.
LEMMA Found ==
  ASSUME Coherent(file, lru_list, lru_map, next_item), NEW k \in DOMAIN lru_map
  PROVE  /\ lru_map[k] \in 1..next_item - 1 /\ file[lru_map[k]].fp = k
         /\ file[lru_map[k]] \in Entry
         /\ \E i \in 1..Len(lru_list) : lru_list[i] = lru_map[k]
<1>1. PICK s \in 1..next_item - 1 : k = file[s].fp
  BY DEF Coherent, Indexes
<1>2. lru_map[k] = s
  BY <1>1 DEF Coherent, Indexes
<1>3. file[s] \in Entry
  BY DEF Coherent, Compact
<1>4. \E i \in 1..Len(lru_list) : lru_list[i] = s
  BY DEF Coherent, Listed
<1> QED BY <1>1, <1>2, <1>3, <1>4

\* There is one element in the index for each slot: it is full if the file is.
LEMMA FullIs ==
  ASSUME Coherent(file, lru_list, lru_map, next_item)
  PROVE  Full <=> next_item = End
<1> DEFINE N == next_item - 1
           g == [s \in 1..N |-> file[s].fp]
<1>1. N \in Nat /\ next_item \in 1..Size + 1 /\ Size \in Nat
  BY CompactUsed, LruStorageAssumption DEF Coherent, Compact, End
<1>2. IsFiniteSet(1..N) /\ Cardinality(1..N) = N
  <2>1. 1 \in Int /\ N \in Int
    BY <1>1
  <2> QED BY <1>1, <2>1, FS_Interval
<1>3. DOMAIN lru_map = {file[s].fp : s \in 1..N}
  BY DEF Coherent, Indexes
<1>4. g \in Surjection(1..N, DOMAIN lru_map)
  BY <1>3 DEF Surjection
<1>5. IsFiniteSet(DOMAIN lru_map) /\ Cardinality(DOMAIN lru_map) <= N
  BY <1>2, <1>4, FS_Surjection
<1>6. Cardinality(DOMAIN lru_map) \in Nat
  BY <1>5, FS_CardinalityType
<1>7. ASSUME Cardinality(DOMAIN lru_map) >= Size PROVE next_item = Size + 1
  BY <1>1, <1>5, <1>6, <1>7
<1> QED BY <1>7 DEF Full, End

\* The least recently used element of a full storage.
LEMMA LastIs ==
  ASSUME Coherent(file, lru_list, lru_map, next_item), next_item = End
  PROVE  /\ Len(lru_list) = Size /\ Size \in 1..Len(lru_list)
         /\ Last(lru_list) = lru_list[Size] /\ Last(lru_list) \in 1..next_item - 1
<1>1. /\ lru_list \in Seq(1..next_item - 1) /\ Len(lru_list) = next_item - 1
      /\ Size \in Nat /\ Size >= 1
  BY LruStorageAssumption DEF Coherent, Listed
<1>2. Len(lru_list) = Size /\ Size \in 1..Len(lru_list)
  BY <1>1 DEF End
<1>3. lru_list[Size] \in 1..next_item - 1
  BY <1>1, <1>2, ElementOfSeq
<1> QED BY <1>2, <1>3 DEF Last

LEMMA MovesToFront == ASSUME NEW s PROVE MovedToFront(s) = Moved(lru_list, s)
  BY DEF MovedToFront, Moved, Pushed

LEMMA Coherently ==
  ASSUME NEW f, NEW l, NEW ix, NEW n, Coherent(f, l, ix, n)
  PROVE  /\ f \in Files /\ l \in Seq(Slot) /\ DOMAIN ix \subseteq Key
         /\ \A k \in DOMAIN ix : ix[k] \in Slot
         /\ n \in 1..End
<1>1. f \in Files /\ n \in 1..End /\ 1..n - 1 \subseteq Slot /\ \A s \in 1..n - 1 : f[s] \in Entry
  BY CompactUsed DEF Coherent, Compact
<1>2. l \in Seq(1..n - 1)
  BY DEF Coherent, Listed
<1>3. l \in Seq(Slot)
  <2> DEFINE S == 1..n - 1
  <2>1. l \in Seq(S) /\ S \subseteq Slot
    BY <1>1, <1>2
  <2> HIDE DEF S
  <2> QED BY <2>1, SeqMonotonic
<1>4. DOMAIN ix = {f[s].fp : s \in 1..n - 1} /\ \A s \in 1..n - 1 : ix[f[s].fp] = s
  BY DEF Coherent, Indexes
<1>5. \A e \in Entry : e.fp \in Key
  BY EntryIs
<1>6. \A k \in DOMAIN ix : k \in Key /\ ix[k] \in Slot
  BY <1>1, <1>4, <1>5
<1> QED BY <1>1, <1>3, <1>6

\* Open on any file keeps the types, on a compact one the agreement.
LEMMA OpenTypes ==
  ASSUME NEW f \in Files, Open(f)
  PROVE  /\ file' \in Files /\ lru_list' \in Seq(Slot) /\ DOMAIN lru_map' \subseteq Key
         /\ \A k \in DOMAIN lru_map' : lru_map'[k] \in Slot
         /\ next_item' \in 1..End
<1>1. /\ file' = f /\ lru_list' = LatestFirst(f, Used(f))
      /\ lru_map' = IndexOf(f) /\ next_item' = FirstFree(f)
  BY DEF Open
<1>2. Used(f) \in SUBSET Slot /\ \A s \in Used(f) : f[s].fp \in Key
  BY UsedIs, EntryIs
<1>3. LatestFirst(f, Used(f)) \in Seq(Slot)
  <2> DEFINE S == Used(f)
             l == LatestFirst(f, S)
  <2>1. S \subseteq Slot /\ Timed(f, S)
    BY <1>2, UsedIs
  <2> HIDE DEF S
  <2>2. l \in Seq(S)
    BY <2>1, LatestFirstIs
  <2> HIDE DEF l
  <2>3. l \in Seq(Slot)
    BY <2>1, <2>2, SeqMonotonic
  <2> QED BY <2>3 DEF l, S
<1>4. /\ DOMAIN IndexOf(f) \subseteq Key
      /\ \A k \in DOMAIN IndexOf(f) : IndexOf(f)[k] \in Slot
  BY <1>2, IndexOfIs
<1>5. FirstFree(f) \in 1..End
  BY FirstFreeIs
<1> QED BY <1>1, <1>3, <1>4, <1>5

LEMMA OpensCoherent ==
  ASSUME NEW f, NEW n, Compact(f, n), Open(f)
  PROVE  Coherent(file', lru_list', lru_map', next_item') /\ next_item' = n
  BY OpenCoherent DEF Open

LEMMA OtherIs ==
  ASSUME now \in 1..MaxTime, NEW other \in Other
  PROVE  /\ other \in Seq(Entry)
         /\ \/ \E e \in Stored : other = <<e>>
            \/ \E e1, e2 \in Stored : other = <<e1, e2>>
<1>1. Stored \subseteq Entry
  BY LruStorageAssumption DEF Stored, Entry
<1>2. \/ \E e \in Stored : other = <<e>>
      \/ \E e1, e2 \in Stored : other = <<e1, e2>>
  BY DEF Other
<1>3. CASE \E e \in Stored : other = <<e>>
  BY <1>1, <1>3
<1>4. CASE \E e1, e2 \in Stored : other = <<e1, e2>>
  BY <1>1, <1>4
<1> QED BY <1>2, <1>3, <1>4

LEMMA OperationCoherent ==
  ASSUME TypeOK, Coherent(file, lru_list, lru_map, next_item), Operation
  PROVE  Coherent(file', lru_list', lru_map', next_item')
<1>0. /\ now \in 1..MaxTime /\ Compact(file, next_item) /\ file \in Files
      /\ \A k \in Key, v \in Value : Item(k, v) \in Entry /\ Item(k, v).fp = k
  BY EntryIs DEF TypeOK, Coherent, Compact, Item
<1>1. ASSUME NEW k \in Key, NEW v \in Value, Update(k, v)
      PROVE  Coherent(file', lru_list', lru_map', next_item')
  <2> DEFINE s == lru_map[k]
  <2>1. /\ file' = [file EXCEPT ![s] = Item(k, v)] /\ lru_list' = Moved(lru_list, s)
        /\ lru_map' = lru_map /\ next_item' = next_item
    BY <1>1, MovesToFront DEF Update
  <2>2. s \in 1..next_item - 1 /\ Item(k, v).fp = file[s].fp /\ Item(k, v) \in Entry
    BY <1>0, <1>1, Found DEF Update
  <2> HIDE DEF s
  <2> QED BY <2>1, <2>2, WrittenCoherent
<1>2. ASSUME NEW k \in Key, NEW v \in Value, Replace(k, v)
      PROVE  Coherent(file', lru_list', lru_map', next_item')
  <2> DEFINE s == Last(lru_list)
             e == Item(k, v)
  <2>1. /\ file' = [file EXCEPT ![s] = e] /\ lru_list' = Moved(lru_list, s)
        /\ lru_map' = With(Without(lru_map, file[s].fp), k, s) /\ next_item' = next_item
        /\ k \notin DOMAIN lru_map /\ Full
    BY <1>2, MovesToFront DEF Replace
  <2>2. s \in 1..next_item - 1
    BY <2>1, FullIs, LastIs
  <2>3. e \in Entry /\ e.fp = k
    BY <1>0
  <2> HIDE DEF s, e
  <2> QED BY <2>1, <2>2, <2>3, ReplacedCoherent
<1>3. ASSUME NEW k \in Key, NEW v \in Value, Add(k, v)
      PROVE  Coherent(file', lru_list', lru_map', next_item')
  <2> DEFINE e == Item(k, v)
  <2>1. /\ file' = [file EXCEPT ![next_item] = e] /\ lru_list' = Pushed(next_item, lru_list)
        /\ lru_map' = With(lru_map, k, next_item) /\ next_item' = next_item + 1
        /\ k \notin DOMAIN lru_map /\ ~Full
    BY <1>3 DEF Add, Pushed
  <2>2. next_item # End
    BY <2>1, FullIs
  <2>3. e \in Entry /\ e.fp = k
    BY <1>0
  <2> HIDE DEF e
  <2> QED BY <2>1, <2>2, <2>3, AddedCoherent
<1>4. ASSUME NEW k \in Key, Touch(k)
      PROVE  Coherent(file', lru_list', lru_map', next_item')
  <2> DEFINE s == lru_map[k]
             e == [file[s] EXCEPT !.time = now]
  <2>1. /\ file' = [file EXCEPT ![s] = e] /\ lru_list' = Moved(lru_list, s)
        /\ lru_map' = lru_map /\ next_item' = next_item
    BY <1>4, MovesToFront DEF Touch
  <2>2. s \in 1..next_item - 1 /\ file[s] \in Entry
    BY <1>4, Found DEF Touch
  <2>3. e \in Entry /\ e.fp = file[s].fp
    BY <1>0, <2>2 DEF Entry
  <2> HIDE DEF s, e
  <2> QED BY <2>1, <2>2, <2>3, WrittenCoherent
<1>5. ASSUME NEW k \in Key, Delete(k)
      PROVE  Coherent(file', lru_list', lru_map', next_item')
  <2> DEFINE s == lru_map[k]
             e == Erased(Storage, k, s)
  <2>1. k \in DOMAIN lru_map /\ Becomes(e)
    BY <1>5 DEF Delete
  <2>2. PICK i \in 1..Len(lru_list) : lru_list[i] = s /\ file[s].fp = k
    BY <2>1, Found
  <2>3. /\ Storage.file = file /\ Storage.list = lru_list
        /\ Storage.index = lru_map /\ Storage.next = next_item
    BY DEF Storage
  <2>4. e = Erased(Storage, Storage.file[Storage.list[i]].fp, Storage.list[i])
    BY <2>2, <2>3
  <2> HIDE DEF s, e
  <2>5. Coherent(e.file, e.list, e.index, e.next)
    BY <2>2, <2>3, <2>4, ErasedCoherent
  <2> QED BY <2>1, <2>5 DEF Becomes
<1>6. ASSUME NEW t \in 2..MaxTime, DeleteElementsBefore(t)
      PROVE  Coherent(file', lru_list', lru_map', next_item')
  <2> DEFINE e == Pruning(t)[Len(lru_list)]
  <2>1. Becomes(e)
    BY <1>6 DEF DeleteElementsBefore
  <2>2. t \in Nat
    OBVIOUS
  <2>3. Coherent(e.file, e.list, e.index, e.next)
    BY <2>2, PrunedIs DEF PrunedTo
  <2> HIDE DEF e
  <2> QED BY <2>1, <2>3 DEF Becomes
<1>7. ASSUME Clear PROVE Coherent(file', lru_list', lru_map', next_item')
  <2>1. Compact([s \in Slot |-> Free], 1)
    BY LruStorageAssumption DEF Compact, Files, Slot, End
  <2> QED BY <1>7, <2>1, OpensCoherent DEF Clear
<1>8. ASSUME Reopen PROVE Coherent(file', lru_list', lru_map', next_item')
  BY <1>0, <1>8, OpensCoherent DEF Reopen
<1>9. ASSUME NEW other \in Other, Merge(other)
      PROVE  Coherent(file', lru_list', lru_map', next_item')
  <2>1. other \in Seq(Entry)
    BY <1>0, OtherIs
  <2>2. \E p \in 0..Size : Compact(Merged(other), p + 1)
    BY <1>0, <2>1, ItemsAre, KeptIs
  <2> QED BY <1>9, <2>2, OpensCoherent DEF Merge
<1> QED BY <1>1, <1>2, <1>3, <1>4, <1>5, <1>6, <1>7, <1>8, <1>9 DEF Operation, Insert, TryInsert

LEMMA StartsCoherent == Init => IInv
<1> SUFFICES ASSUME Init PROVE IInv
  OBVIOUS
<1>1. file = [s \in Slot |-> Free] /\ lru_list = <<>> /\ lru_map = <<>> /\ next_item = 1
  BY DEF Init
<1>2. Compact(file, 1)
  BY <1>1, LruStorageAssumption DEF Compact, Files, Slot, End
<1>3. Listed(lru_list, 1)
  BY <1>1 DEF Listed
<1>4. DOMAIN lru_map = {}
  BY <1>1
<1>5. Indexes(lru_map, file, 1)
  BY <1>4 DEF Indexes
<1>6. Coherent(file, lru_list, lru_map, next_item)
  BY <1>1, <1>2, <1>3, <1>5 DEF Coherent
<1>7. TypeOK
  <2>1. now = 1 /\ set_back = FALSE /\ torn = FALSE /\ now \in 1..MaxTime
    BY LruStorageAssumption DEF Init
  <2> QED BY <1>6, <2>1, Coherently DEF TypeOK, Files, Entry
<1> QED BY <1>6, <1>7 DEF IInv, CoherentInv

\* The file that a torn write leaves.
LEMMA TornFile ==
  ASSUME TypeOK, Coherent(file, lru_list, lru_map, next_item), NEW k \in Key
  PROVE  /\ KillInDelete(k) => Copied(file, lru_map[k], next_item - 1) \in Files
         /\ KillInReplace(k) => /\ [file EXCEPT ![Last(lru_list)].fp = k] \in Files
                                /\ Last(lru_list) \in 1..next_item - 1
<1>1. file \in Files /\ \A s \in 1..next_item - 1 : file[s] \in Entry /\ s \in Slot
  BY CompactUsed DEF Coherent, Compact
<1>2. ASSUME KillInDelete(k) PROVE Copied(file, lru_map[k], next_item - 1) \in Files
  <2>1. lru_map[k] \in 1..next_item - 1 /\ next_item \in 1..End
    BY <1>2, Found DEF KillInDelete, Coherent, Compact
  <2>2. next_item - 1 \in 1..next_item - 1
    BY <2>1, LruStorageAssumption DEF End
  <2>3. file[next_item - 1] \in Entry
    BY <1>1, <2>2
  <2> QED BY <1>1, <2>3 DEF Files, Copied
<1>3. ASSUME KillInReplace(k)
      PROVE  [file EXCEPT ![Last(lru_list)].fp = k] \in Files /\ Last(lru_list) \in 1..next_item - 1
  <2> DEFINE s == Last(lru_list)
  <2>1. s \in 1..next_item - 1
    BY <1>3, FullIs, LastIs DEF KillInReplace
  <2>2. s \in Slot /\ file[s] \in Entry
    BY <1>1, <2>1
  <2> HIDE DEF s
  <2>3. [file[s] EXCEPT !.fp = k] \in Entry
    BY <2>2 DEF Entry
  <2>4. [file EXCEPT ![s].fp = k] = [file EXCEPT ![s] = [file[s] EXCEPT !.fp = k]]
    OBVIOUS
  <2>5. [file EXCEPT ![s].fp = k] \in Files
    BY <1>1, <2>3, <2>4 DEF Files
  <2> QED BY <2>1, <2>5 DEF s
<1> QED BY <1>2, <1>3

LEMMA NextIInv == IInv /\ [Next]_vars => IInv'
<1> SUFFICES ASSUME IInv, [Next]_vars PROVE IInv'
  OBVIOUS
<1>1. TypeOK /\ (~torn => Coherent(file, lru_list, lru_map, next_item))
  BY DEF IInv, CoherentInv
<1>2. CASE ~torn /\ Operation
  <2>1. Coherent(file', lru_list', lru_map', next_item')
    BY <1>1, <1>2, OperationCoherent
  <2>2. UNCHANGED <<now, set_back, torn>>
    BY <1>2 DEF Operation, Insert, TryInsert, Update, Replace, Add, Touch, Delete,
                DeleteElementsBefore, Clear, Reopen, Merge, NothingElse
  <2>3. TypeOK'
    BY <1>1, <2>1, <2>2, Coherently DEF TypeOK, Files, Entry
  <2> QED BY <2>1, <2>3 DEF IInv, CoherentInv
<1>3. ASSUME ~torn, NEW k \in Key, KillInDelete(k) \/ KillInReplace(k) PROVE IInv'
  <2>1. PICK f \in Files : Open(f)
    BY <1>1, <1>3, TornFile DEF KillInDelete, KillInReplace
  <2>2. torn' = TRUE /\ UNCHANGED <<now, set_back>>
    BY <1>3 DEF KillInDelete, KillInReplace, Kill
  <2>3. TypeOK'
    BY <1>1, <2>1, <2>2, OpenTypes DEF TypeOK, Files, Entry
  <2> QED BY <2>2, <2>3 DEF IInv, CoherentInv
<1>4. CASE Tick \/ UNCHANGED vars
  <2>1. /\ UNCHANGED <<file, lru_list, lru_map, next_item, torn>>
        /\ now' \in 1..MaxTime /\ set_back' \in BOOLEAN
    BY <1>1, <1>4 DEF Tick, vars, mapping, TypeOK
  <2>2. TypeOK'
    BY <1>1, <2>1 DEF TypeOK
  <2>3. CoherentInv'
    BY <1>1, <2>1 DEF CoherentInv
  <2> QED BY <2>2, <2>3 DEF IInv
<1> QED BY <1>2, <1>3, <1>4 DEF Next

\* Whatever was done to it, a storage that no torn write has damaged is coherent: its
\* entries fill the first slots, one for each fingerprint, the list has each of these
\* slots once, and the index leads from each fingerprint to its slot.
THEOREM IsCoherent == Spec => []IInv
  BY StartsCoherent, NextIInv, PTL DEF Spec

\* The types of the file and of what Open and the operations build from it.
THEOREM Typing == Spec => []TypeOK
  BY IsCoherent, PTL DEF IInv

\* File, list and index agree at every moment no write is torn, whatever was
\* inserted, touched, deleted, pruned, reopened and merged.
THEOREM StaysIndexed == Spec => []Indexed
<1>1. IInv => Indexed
  <2> SUFFICES ASSUME Coherent(file, lru_list, lru_map, next_item)
               PROVE  /\ Used(file) = 1..next_item - 1
                      /\ ToSet(lru_list) = Used(file) /\ Len(lru_list) = next_item - 1
                      /\ DOMAIN lru_map = {file[s].fp : s \in Used(file)}
                      /\ \A s \in Used(file) : lru_map[file[s].fp] = s
    BY DEF IInv, CoherentInv, Indexed
  <2> DEFINE S == 1..next_item - 1
  <2>1. Used(file) = S
    BY CompactUsed DEF Coherent
  <2>2. /\ lru_list \in Seq(S) /\ Len(lru_list) = next_item - 1 /\ DOMAIN lru_list = S
        /\ \A s \in S : \E i \in S : lru_list[i] = s
    BY DEF Coherent, Listed
  <2>3. ToSet(lru_list) = S
    <3> HIDE DEF S
    <3>1. \A i \in S : lru_list[i] \in S
      BY <2>2, ElementOfSeq, LenProperties
    <3> QED BY <2>2, <3>1 DEF ToSet
  <2>4. DOMAIN lru_map = {file[s].fp : s \in S} /\ \A s \in S : lru_map[file[s].fp] = s
    BY DEF Coherent, Indexes
  <2> HIDE DEF S
  <2> QED BY <2>1, <2>2, <2>3, <2>4
<1> QED BY <1>1, IsCoherent, PTL

-----------------------------------------------------------------------------
(* Torn writes.                                                            *)

\* An entry is found again when no slot but s0 changed, and s0 has no other
\* item with its fingerprint.
LEMMA StaysFound ==
  ASSUME Coherent(file, lru_list, lru_map, next_item), NEW f \in Files,
         NEW s0 \in Slot, \A t \in Slot : t # s0 => f[t] = file[t],
         NEW x \in DOMAIN lru_map, lru_map[x] # s0,
         f[s0].fp = x => f[s0] = file[lru_map[x]]
  PROVE  x \in DOMAIN IndexOf(f) /\ f[IndexOf(f)[x]] = file[lru_map[x]]
<1> DEFINE s == lru_map[x]
           t == IndexOf(f)[x]
<1>1. /\ s \in 1..next_item - 1 /\ file[s].fp = x /\ file[s] \in Entry
      /\ 1..next_item - 1 \subseteq Slot /\ Used(file) = 1..next_item - 1
      /\ file \in Files
  <2>1. s \in 1..next_item - 1 /\ file[s].fp = x /\ file[s] \in Entry
    BY Found
  <2>2. Compact(file, next_item) /\ file \in Files
    BY DEF Coherent, Compact
  <2>3. 1..next_item - 1 \subseteq Slot /\ Used(file) = 1..next_item - 1
    BY <2>2, CompactUsed
  <2> QED BY <2>1, <2>2, <2>3
<1>2. /\ Used(file) = {r \in Slot : file[r] \in Entry}
      /\ Used(f) = {r \in Slot : f[r] \in Entry}
  BY <1>1, UsedIs
<1>3. s \in Used(f) /\ f[s].fp = x
  BY <1>1, <1>2
<1>4. x \in DOMAIN IndexOf(f)
  <2>1. DOMAIN IndexOf(f) = {f[r].fp : r \in Used(f)}
    BY IndexOfIs
  <2> HIDE DEF s
  <2> QED BY <1>3, <2>1
<1>5. t \in Used(f) /\ f[t].fp = x
  BY <1>4, IndexOfIs
<1> HIDE DEF s, t
<1>6. CASE t = s0
  BY <1>4, <1>5, <1>6 DEF s, t
<1>7. CASE t # s0
  <2>1. f[t] = file[t] /\ t \in Used(file)
    BY <1>2, <1>5, <1>7
  <2>2. t = s
    BY <1>1, <1>5, <2>1 DEF Coherent, Compact
  <2> QED BY <1>4, <2>1, <2>2 DEF s, t
<1> QED BY <1>4, <1>6, <1>7 DEF s, t

\* A process that dies within Delete or Insert damages the item it writes and
\* no other: every other fingerprint finds after Open the item it found before.
THEOREM TornWrites == Spec => TornWriteHitsOneItem
<1> DEFINE A(x) == \/ x \in DOMAIN lru_map' /\ file'[lru_map'[x]] = file[lru_map[x]]
                   \/ KillInDelete(x)
                   \/ \E k \in Key : KillInReplace(k) /\ lru_map[x] = Last(lru_list)
<1>1. IInv /\ [Next]_vars => [~torn /\ torn' => \A x \in DOMAIN lru_map : A(x)]_vars
  <2> SUFFICES ASSUME IInv, Next, ~torn, torn', NEW x \in DOMAIN lru_map
               PROVE  A(x)
    OBVIOUS
  <2>1. TypeOK /\ Coherent(file, lru_list, lru_map, next_item)
    BY DEF IInv, CoherentInv
  <2>2. ~Operation /\ ~Tick
    BY DEF Operation, Insert, TryInsert, Update, Replace, Add, Touch, Delete,
           DeleteElementsBefore, Clear, Reopen, Merge, NothingElse, Tick
  <2>3. PICK k \in Key : KillInDelete(k) \/ KillInReplace(k)
    BY <2>2 DEF Next
  <2>4. 1..next_item - 1 \subseteq Slot /\ file \in [Slot -> {Free} \cup Entry]
    BY <2>1, CompactUsed DEF Coherent, Compact, Files
  <2>5. CASE KillInDelete(k)
    <3> DEFINE s == lru_map[k]
               f == Copied(file, s, next_item - 1)
    <3>1. /\ k \in DOMAIN lru_map /\ Open(f) /\ f \in Files /\ s \in Slot
      BY <2>1, <2>4, <2>5, TornFile, Found DEF KillInDelete
    <3>2. f = [file EXCEPT ![s] = file[next_item - 1]]
      BY DEF Copied
    <3> HIDE DEF f
    <3>3. CASE x = k
      BY <2>5, <3>3
    <3>4. CASE x # k
      <4>1. /\ lru_map[x] \in 1..next_item - 1 /\ file[lru_map[x]].fp = x
            /\ next_item - 1 \in 1..next_item - 1 /\ file[s].fp = k
        <5>1. lru_map[x] \in 1..next_item - 1 /\ file[lru_map[x]].fp = x /\ file[s].fp = k
          BY <2>1, <3>1, Found
        <5>2. next_item \in Nat
          BY <2>1, CompactUsed DEF Coherent
        <5> QED BY <5>1, <5>2
      <4>2. lru_map[x] # s
        BY <3>4, <4>1
      <4>3. f[s] = file[next_item - 1] /\ \A t \in Slot : t # s => f[t] = file[t]
        BY <2>4, <3>1, <3>2
      <4>4. f[s].fp = x => f[s] = file[lru_map[x]]
        BY <2>1, <4>1, <4>3 DEF Coherent, Compact
      <4> HIDE DEF s
      <4>5. x \in DOMAIN IndexOf(f) /\ f[IndexOf(f)[x]] = file[lru_map[x]]
        BY <2>1, <3>1, <4>2, <4>3, <4>4, StaysFound
      <4> QED BY <3>1, <4>5 DEF Open
    <3> QED BY <3>3, <3>4
  <2>6. CASE KillInReplace(k)
    <3> DEFINE s == Last(lru_list)
               f == [file EXCEPT ![s].fp = k]
    <3>1. k \notin DOMAIN lru_map /\ Open(f) /\ f \in Files /\ s \in Slot
      BY <2>1, <2>4, <2>6, TornFile DEF KillInReplace
    <3>2. f[s].fp = k /\ \A t \in Slot : t # s => f[t] = file[t]
      <4> HIDE DEF s
      <4>1. s \in 1..next_item - 1
        BY <2>1, <2>6, TornFile DEF s
      <4>2. file[s] \in Entry
        BY <2>1, <4>1 DEF Coherent, Compact
      <4>3. [file[s] EXCEPT !.fp = k].fp = k
        BY <4>2 DEF Entry
      <4> QED BY <2>4, <3>1, <4>3
    <3>3. CASE lru_map[x] = s
      BY <2>6, <3>3
    <3>4. CASE lru_map[x] # s
      <4> HIDE DEF f, s
      <4>1. x \in DOMAIN IndexOf(f) /\ f[IndexOf(f)[x]] = file[lru_map[x]]
        BY <2>1, <3>1, <3>2, <3>4, StaysFound
      <4> QED BY <3>1, <4>1 DEF Open
    <3> QED BY <3>3, <3>4
  <2> QED BY <2>3, <2>5, <2>6
<1> QED BY <1>1, IsCoherent, PTL DEF Spec, TornWriteHitsOneItem

-----------------------------------------------------------------------------
(* The entries in the order of the list, and what each operation does to   *)
(* them.                                                                   *)

LEMMA PushedEntry ==
  /\ \A E \in Seq(Entry), e \in Entry : /\ Pushed(e, E) \in Seq(Entry)
                                       /\ Len(Pushed(e, E)) = Len(E) + 1 /\ Pushed(e, E)[1] = e
  /\ \A E \in Seq(Entry), e \in Entry : \A j \in 2..Len(E) + 1 : Pushed(e, E)[j] = E[j - 1]
  BY PushedIs

EntriesOf(f, l) == [i \in DOMAIN l |-> f[l[i]]]

\* A list of entries, one for each fingerprint.
Distinct(E) == /\ E \in Seq(Entry)
               /\ \A i, j \in 1..Len(E) : E[i].fp = E[j].fp => i = j

LEMMA EntriesSeq ==
  ASSUME NEW f, NEW l, NEW ix, NEW n, Coherent(f, l, ix, n)
  PROVE  /\ EntriesOf(f, l) \in Seq(Entry) /\ Len(EntriesOf(f, l)) = Len(l)
         /\ Len(l) \in Nat /\ Len(l) <= Size /\ n = Len(l) + 1
         /\ \A i \in 1..Len(l) : EntriesOf(f, l)[i] = f[l[i]] /\ l[i] \in 1..Len(l)
<1> DEFINE E == EntriesOf(f, l)
           N == Len(l)
           S == 1..N
<1>1. n \in 1..Size + 1 /\ Size \in Nat /\ N = n - 1
  BY LruStorageAssumption DEF Coherent, Compact, Listed, End
<1>2. N \in Nat /\ N <= Size /\ n = N + 1
  <2> HIDE DEF N
  <2> QED BY <1>1
<1>3. l \in Seq(S) /\ \A s \in S : f[s] \in Entry
  BY <1>1 DEF Coherent, Compact, Listed
<1>4. DOMAIN l = S /\ \A i \in S : l[i] \in S
  <2> HIDE DEF S
  <2>1. DOMAIN l = S
    BY <1>3, LenProperties DEF S
  <2>2. \A i \in S : l[i] \in S
    BY <1>3, ElementOfSeq DEF S
  <2> QED BY <2>1, <2>2
<1>5. E = [i \in S |-> f[l[i]]]
  BY <1>4 DEF EntriesOf
<1> HIDE DEF E, N
<1>6. \A i \in S : E[i] = f[l[i]] /\ E[i] \in Entry
  BY <1>3, <1>4, <1>5
<1>7. E \in Seq(Entry) /\ Len(E) = N
  <2>1. E \in [1..N -> Entry]
    BY <1>5, <1>6
  <2> QED BY <1>2, <2>1, FunctionIsSeq
<1>8. \A i \in 1..N : E[i] = f[l[i]] /\ l[i] \in 1..N
  BY <1>4, <1>6
<1> QED BY <1>2, <1>7, <1>8 DEF E, N

LEMMA EntriesAre ==
  ASSUME NEW f, NEW l, NEW ix, NEW n, Coherent(f, l, ix, n)
  PROVE  /\ Distinct(EntriesOf(f, l)) /\ DOMAIN EntriesOf(f, l) = 1..Len(l)
         /\ 1..Len(l) \subseteq Slot /\ l \in Seq(1..Len(l))
         /\ \A i, j \in 1..Len(l) : l[i] = l[j] => i = j
         /\ \A s \in 1..Len(l) : \E i \in 1..Len(l) : l[i] = s
         /\ \A k : k \in DOMAIN ix <=> \E i \in 1..Len(l) : EntriesOf(f, l)[i].fp = k
<1> DEFINE E == EntriesOf(f, l)
           N == Len(l)
           S == 1..N
<1>1. /\ E \in Seq(Entry) /\ Len(E) = N /\ N \in Nat /\ N <= Size /\ n = N + 1
      /\ \A i \in S : E[i] = f[l[i]] /\ l[i] \in S
  BY EntriesSeq
<1>2. DOMAIN E = S
  BY <1>1, LenProperties
<1>3. n - 1 = N /\ S \subseteq Slot
  BY <1>1, LruStorageAssumption DEF Slot
<1>4. /\ l \in Seq(S) /\ \A i, j \in S : l[i] = l[j] => i = j
      /\ \A s \in S : \E i \in S : l[i] = s
  BY <1>3 DEF Coherent, Listed
<1>5. /\ \A s, t \in S : f[s].fp = f[t].fp => s = t
      /\ DOMAIN ix = {f[s].fp : s \in S}
  BY <1>3 DEF Coherent, Compact, Indexes
<1> HIDE DEF E, S
<1>6. \A i, j \in S : E[i].fp = E[j].fp => i = j
  BY <1>1, <1>4, <1>5
<1>7. \A k : k \in DOMAIN ix <=> \E i \in S : E[i].fp = k
  <2>1. \A i \in S : E[i].fp \in DOMAIN ix
    BY <1>1, <1>5
  <2>2. \A s \in S : \E i \in S : f[s].fp = E[i].fp
    BY <1>1, <1>4
  <2> QED BY <1>5, <2>1, <2>2
<1>8. Distinct(E)
  BY <1>1, <1>6 DEF Distinct, S
<1> HIDE DEF N
<1> QED BY <1>1, <1>2, <1>3, <1>4, <1>6, <1>7, <1>8 DEF E, N, S

\* The list of entries without the one of k, as Recency has it.
OthersOf(E, k) ==
  IF k \in {E[i].fp : i \in DOMAIN E}
  THEN RemoveAt(E, CHOOSE i \in DOMAIN E : E[i].fp = k) ELSE E

LEMMA OthersAre ==
  ASSUME NEW E, Distinct(E)
  PROVE  /\ \A i \in 1..Len(E) : OthersOf(E, E[i].fp) = RemoveAt(E, i)
         /\ \A k : (\A i \in 1..Len(E) : E[i].fp # k) => OthersOf(E, k) = E
<1>1. DOMAIN E = 1..Len(E)
  BY LenProperties DEF Distinct
<1>2. ASSUME NEW i \in 1..Len(E) PROVE OthersOf(E, E[i].fp) = RemoveAt(E, i)
  <2>1. (CHOOSE j \in DOMAIN E : E[j].fp = E[i].fp) = i
    BY <1>1 DEF Distinct
  <2>2. E[i].fp \in {E[j].fp : j \in DOMAIN E}
    BY <1>1
  <2> QED BY <2>1, <2>2 DEF OthersOf
<1>3. ASSUME NEW k, \A i \in 1..Len(E) : E[i].fp # k PROVE OthersOf(E, k) = E
  BY <1>1, <1>3 DEF OthersOf
<1> QED BY <1>2, <1>3

\* Update, Replace and Touch: an entry is written anew and put in front.
LEMMA WrittenEntries ==
  ASSUME NEW f, NEW l, NEW ix, NEW n, Coherent(f, l, ix, n), NEW i \in 1..Len(l),
         NEW e \in Entry
  PROVE  EntriesOf([f EXCEPT ![l[i]] = e], Moved(l, l[i])) = Pushed(e, RemoveAt(EntriesOf(f, l), i))
<1> DEFINE E == EntriesOf(f, l)
           F == [f EXCEPT ![l[i]] = e]
           M == Moved(l, l[i])
           W == EntriesOf(F, M)
           R == RemoveAt(E, i)
           P == Pushed(e, R)
           N == Len(l)
           S == 1..N
<1>1. /\ E \in Seq(Entry) /\ Len(E) = N /\ N \in Nat
      /\ \A j \in S : E[j] = f[l[j]] /\ l[j] \in S
  BY EntriesSeq
<1>2. l \in Seq(S) /\ \A j, k \in S : l[j] = l[k] => j = k
  BY EntriesAre
<1>3. DOMAIN f = Slot /\ S \subseteq Slot
  BY EntriesAre DEF Coherent, Compact, Files
<1>4. i \in S /\ i \in 1..Len(E)
  BY <1>1
<1> HIDE DEF E, S
<1>5. /\ M \in Seq(S) /\ Len(M) = N /\ M[1] = l[i]
      /\ \A j \in 2..N : M[j] = IF j <= i THEN l[j - 1] ELSE l[j]
  <2>1. \A j \in 1..Len(l) : l[j] = l[i] => j = i
    BY <1>2, <1>4 DEF S
  <2> QED BY <1>2, <1>4, <2>1, MovedIs
<1>6. R \in Seq(Entry) /\ Len(R) = N - 1
      /\ \A j \in 1..N - 1 : R[j] = IF j < i THEN E[j] ELSE E[j + 1]
  BY <1>1, <1>4, RemoveAtIs
<1> HIDE DEF F, M, R, N
<1>7. /\ P \in Seq(Entry) /\ Len(P) = N /\ P[1] = e
      /\ \A j \in 2..N : P[j] = R[j - 1]
  <2>1. Len(R) + 1 = N
    BY <1>1, <1>6
  <2>2. R \in Seq(Entry)
    BY <1>6
  <2>3. ASSUME NEW j \in 2..Len(R) + 1 PROVE P[j] = R[j - 1]
    BY <2>2, PushedEntry
  <2>4. P \in Seq(Entry) /\ Len(P) = Len(R) + 1 /\ P[1] = e
    BY <2>2, PushedEntry
  <2> HIDE DEF P
  <2> QED BY <2>1, <2>3, <2>4
<1> HIDE DEF P
<1>8. F[l[i]] = e /\ \A s \in S : s # l[i] => F[s] = f[s]
  BY <1>1, <1>3, <1>4 DEF F
<1>9. \A j \in S : M[j] \in S
  <2>1. S = 1..Len(M)
    BY <1>5 DEF S
  <2> QED BY <1>5, <2>1, ElementOfSeq
<1>10. ASSUME NEW j \in S PROVE F[M[j]] = P[j] /\ F[M[j]] \in Entry
  <2>1. CASE j = 1
    BY <1>5, <1>7, <1>8, <2>1
  <2>2. CASE j # 1 /\ j <= i
    <3>1. j \in 2..N /\ j - 1 \in S /\ j - 1 \in 1..N - 1 /\ j - 1 < i /\ j - 1 # i
      BY <1>1, <1>4, <2>2 DEF S
    <3>2. M[j] = l[j - 1] /\ l[j - 1] # l[i] /\ l[j - 1] \in S
      BY <1>1, <1>2, <1>4, <1>5, <2>2, <3>1
    <3>3. F[M[j]] = E[j - 1]
      BY <1>1, <1>8, <3>1, <3>2
    <3>4. P[j] = E[j - 1] /\ E[j - 1] \in Entry
      BY <1>1, <1>6, <1>7, <3>1, ElementOfSeq DEF S
    <3> QED BY <3>3, <3>4
  <2>3. CASE ~(j <= i)
    <3>1. j \in 2..N /\ j - 1 \in 1..N - 1 /\ ~(j - 1 < i) /\ (j - 1) + 1 = j /\ j # i
      BY <1>1, <1>4, <2>3 DEF S
    <3>2. M[j] = l[j] /\ l[j] # l[i] /\ l[j] \in S
      BY <1>1, <1>2, <1>4, <1>5, <2>3, <3>1
    <3>3. F[M[j]] = E[j]
      BY <1>1, <1>8, <3>2
    <3>4. P[j] = E[j] /\ E[j] \in Entry
      BY <1>1, <1>6, <1>7, <3>1, ElementOfSeq DEF S
    <3> QED BY <3>3, <3>4
  <2> QED BY <2>1, <2>2, <2>3 DEF S
<1>11. DOMAIN M = S
  BY <1>5, LenProperties DEF S
<1>12. W = [j \in S |-> F[M[j]]]
  BY <1>11 DEF EntriesOf
<1>13. P = [j \in S |-> P[j]]
  <2>1. P \in [1..N -> Entry]
    BY <1>7, LenProperties
  <2> QED BY <2>1 DEF S
<1>14. W = P
  BY <1>10, <1>12, <1>13
<1> QED BY <1>14 DEF P, R, E, F, M

\* Add.
LEMMA AddedEntries ==
  ASSUME NEW f, NEW l, NEW ix, NEW n, Coherent(f, l, ix, n), n # End,
         NEW e \in Entry
  PROVE  EntriesOf([f EXCEPT ![n] = e], Pushed(n, l)) = Pushed(e, EntriesOf(f, l))
<1> DEFINE E == EntriesOf(f, l)
           F == [f EXCEPT ![n] = e]
           M == Pushed(n, l)
           W == EntriesOf(F, M)
           P == Pushed(e, E)
           N == Len(l)
           S == 1..N
<1>1. /\ E \in Seq(Entry) /\ Len(E) = N /\ N \in Nat /\ n = N + 1
      /\ \A j \in S : E[j] = f[l[j]] /\ l[j] \in S
  BY EntriesSeq
<1>2. l \in Seq(1..n)
  <2>1. l \in Seq(S)
    BY EntriesAre
  <2> DEFINE T == 1..n
  <2>2. S \subseteq T
    BY <1>1
  <2> HIDE DEF S, T
  <2>3. l \in Seq(T)
    BY <2>1, <2>2, SeqMonotonic
  <2> QED BY <2>3 DEF T
<1>3. DOMAIN f = Slot /\ n \in Slot
  BY LruStorageAssumption DEF Coherent, Compact, Files, End, Slot
<1> HIDE DEF E
<1>4. /\ M \in Seq(1..n) /\ Len(M) = n /\ M[1] = n
      /\ \A j \in 2..n : M[j] = l[j - 1]
  <2> DEFINE T == 1..n
  <2>1. n \in T /\ l \in Seq(T) /\ Len(l) + 1 = n
    BY <1>1, <1>2
  <2> HIDE DEF T, N
  <2>2. /\ M \in Seq(T) /\ Len(M) = n /\ M[1] = n
        /\ \A j \in 2..n : M[j] = l[j - 1]
    <3>1. \A j \in 2..Len(l) + 1 : M[j] = l[j - 1]
      BY <2>1, PushedIs
    <3>2. M \in Seq(T) /\ Len(M) = Len(l) + 1 /\ M[1] = n
      BY <2>1, PushedIs
    <3> HIDE DEF M
    <3> QED BY <2>1, <3>1, <3>2
  <2> QED BY <2>2 DEF T
<1>5. /\ P \in Seq(Entry) /\ Len(P) = n /\ P[1] = e
      /\ \A j \in 2..n : P[j] = E[j - 1]
  <2>1. Len(E) + 1 = n
    BY <1>1
  <2> QED BY <1>1, <2>1, PushedIs
<1>6. F[n] = e /\ \A s \in S : F[s] = f[s]
  BY <1>1, <1>3
<1> HIDE DEF F, M, P
<1>7. ASSUME NEW j \in 1..n PROVE F[M[j]] = P[j]
  <2>1. CASE j = 1
    BY <1>4, <1>5, <1>6, <2>1
  <2>2. CASE j # 1
    <3>1. j \in 2..n /\ j - 1 \in S
      BY <1>1, <2>2
    <3>2. M[j] = l[j - 1] /\ P[j] = E[j - 1] /\ E[j - 1] = f[l[j - 1]] /\ l[j - 1] \in S
      BY <1>1, <1>4, <1>5, <3>1
    <3> QED BY <1>6, <3>2
  <2> QED BY <2>1, <2>2
<1>8. DOMAIN M = 1..n
  BY <1>4, LenProperties
<1>9. W = [j \in 1..n |-> F[M[j]]]
  BY <1>8 DEF EntriesOf
<1>10. P = [j \in 1..n |-> P[j]]
  <2>1. P \in [1..n -> Entry]
    BY <1>5, LenProperties
  <2> QED BY <2>1
<1>11. W = P
  BY <1>7, <1>9, <1>10
<1> QED BY <1>11 DEF P, E, F, M

\* Delete.
LEMMA ErasedEntries ==
  ASSUME NEW st, Coherent(st.file, st.list, st.index, st.next), NEW i \in 1..Len(st.list)
  PROVE  LET e == Erased(st, st.file[st.list[i]].fp, st.list[i])
         IN  EntriesOf(e.file, e.list) = RemoveAt(EntriesOf(st.file, st.list), i)
<1> DEFINE e == Erased(st, st.file[st.list[i]].fp, st.list[i])
           E == EntriesOf(st.file, st.list)
           W == EntriesOf(e.file, e.list)
           R == RemoveAt(E, i)
           N == Len(st.list)
<1>1. /\ Coherent(e.file, e.list, e.index, e.next) /\ Len(e.list) = N - 1
      /\ \A j \in 1..N - 1 :
           e.file[e.list[j]] = st.file[IF j < i THEN st.list[j] ELSE st.list[j + 1]]
  BY ErasedCoherent
<1>2. /\ E \in Seq(Entry) /\ Len(E) = N /\ N \in Nat
      /\ \A j \in 1..N : E[j] = st.file[st.list[j]]
  BY EntriesSeq
<1> HIDE DEF e, E
<1>3. /\ W \in Seq(Entry) /\ Len(W) = N - 1
      /\ \A j \in 1..N - 1 : W[j] = e.file[e.list[j]]
  <2>1. Coherent(e.file, e.list, e.index, e.next)
    BY <1>1
  <2>2. /\ W \in Seq(Entry) /\ Len(W) = Len(e.list)
        /\ \A j \in 1..Len(e.list) : W[j] = e.file[e.list[j]]
    BY <2>1, EntriesSeq
  <2> HIDE DEF W
  <2> QED BY <1>1, <2>2
<1> HIDE DEF W
<1>4. /\ R \in Seq(Entry) /\ Len(R) = N - 1
      /\ \A j \in 1..N - 1 : R[j] = IF j < i THEN E[j] ELSE E[j + 1]
  <2>1. i \in 1..Len(E)
    BY <1>2
  <2> QED BY <1>2, <2>1, RemoveAtIs
<1> HIDE DEF R, N
<1>5. ASSUME NEW j \in 1..N - 1 PROVE W[j] = R[j]
  <2>1. j \in 1..N /\ j + 1 \in 1..N
    BY <1>2
  <2>2. CASE j < i
    <3>1. W[j] = st.file[st.list[j]]
      BY <1>1, <1>3, <2>2
    <3>2. R[j] = E[j] /\ E[j] = st.file[st.list[j]]
      BY <1>2, <1>4, <2>1, <2>2
    <3> QED BY <3>1, <3>2
  <2>3. CASE ~(j < i)
    <3>1. W[j] = st.file[st.list[j + 1]]
      BY <1>1, <1>3, <2>3
    <3>2. R[j] = E[j + 1] /\ E[j + 1] = st.file[st.list[j + 1]]
      BY <1>2, <1>4, <2>1, <2>3
    <3> QED BY <3>1, <3>2
  <2> QED BY <2>2, <2>3
<1>6. W = R
  BY <1>3, <1>4, <1>5, SeqEqual
<1> QED BY <1>6 DEF W, R, E, e

\* At most Size of the entries.
Cut(E) == SubSeq(E, 1, IF Len(E) > Size THEN Size ELSE Len(E))

LEMMA CutIs ==
  ASSUME NEW E \in Seq(Entry)
  PROVE  /\ Len(E) <= Size => Cut(E) = E
         /\ Len(E) = Size => \A e \in Entry : Cut(Pushed(e, E)) = Pushed(e, RemoveAt(E, Size))
<1>0. Len(E) \in Nat /\ Size \in Nat /\ Size >= 1
  BY LenProperties, LruStorageAssumption
<1>1. ASSUME Len(E) <= Size PROVE Cut(E) = E
  <2>1. Cut(E) = SubSeq(E, 1, Len(E))
    BY <1>0, <1>1 DEF Cut
  <2> QED BY <2>1, SubSeqFull
<1>2. ASSUME Len(E) = Size, NEW e \in Entry
      PROVE  Cut(Pushed(e, E)) = Pushed(e, RemoveAt(E, Size))
  <2> DEFINE u == Pushed(e, E)
             R == RemoveAt(E, Size)
             w == Pushed(e, R)
             c == SubSeq(u, 1, Size)
  <2>1. u \in Seq(Entry) /\ Len(u) = Size + 1 /\ u[1] = e
    BY <1>2, PushedIs
  <2>2. ASSUME NEW j \in 2..Len(E) + 1 PROVE u[j] = E[j - 1]
    BY PushedEntry
  <2>3. Size \in 1..Len(E)
    BY <1>0, <1>2
  <2>4. R \in Seq(Entry) /\ Len(R) = Size - 1
    BY <1>2, <2>3, RemoveAtIs
  <2>5. ASSUME NEW j \in 1..Size - 1 PROVE R[j] = E[j]
    <3>1. j < Size
      BY <1>0
    <3> QED BY <1>2, <2>3, <3>1, RemoveAtIs
  <2> HIDE DEF u, R
  <2>6. w \in Seq(Entry) /\ Len(w) = Size /\ w[1] = e
    <3>1. w \in Seq(Entry) /\ Len(w) = Len(R) + 1 /\ w[1] = e
      BY <2>4, PushedIs
    <3> QED BY <1>0, <2>4, <3>1
  <2>7. ASSUME NEW j \in 2..Len(R) + 1 PROVE w[j] = R[j - 1]
    <3>1. R \in Seq(Entry)
      BY <2>4
    <3> QED BY <3>1, PushedEntry
  <2>8. Cut(u) = c
    BY <1>0, <2>1 DEF Cut
  <2>9. c \in Seq(Entry) /\ Len(c) = Size /\ \A j \in 1..Size : c[j] = u[j]
    <3>1. \A j \in 1..Size : u[j] \in Entry
      BY <1>0, <2>1, ElementOfSeq
    <3>2. /\ c \in Seq(Entry) /\ Len(c) = (IF 1 <= Size THEN Size - 1 + 1 ELSE 0)
          /\ \A j \in 1..Size - 1 + 1 : c[j] = u[1 + j - 1]
      BY <1>0, <3>1, SubSeqProperties
    <3> HIDE DEF c
    <3> QED BY <1>0, <3>2
  <2> HIDE DEF w, c
  <2>10. ASSUME NEW j \in 1..Size PROVE c[j] = w[j]
    <3>1. CASE j = 1
      BY <2>1, <2>6, <2>9, <3>1
    <3>2. CASE j # 1
      <4>1. j \in 2..Len(R) + 1 /\ j \in 2..Len(E) + 1 /\ j - 1 \in 1..Size - 1
        BY <1>0, <1>2, <2>4, <3>2
      <4>2. u[j] = E[j - 1] /\ w[j] = R[j - 1] /\ R[j - 1] = E[j - 1]
        BY <2>2, <2>5, <2>7, <4>1
      <4> QED BY <2>9, <4>2
    <3> QED BY <3>1, <3>2
  <2>11. c = w
    BY <2>6, <2>9, <2>10, SeqEqual
  <2> QED BY <2>8, <2>11 DEF u, w, R
<1> QED BY <1>1, <1>2

\* Where the entry of an indexed fingerprint is.
LEMMA FoundEntry ==
  ASSUME Coherent(file, lru_list, lru_map, next_item), NEW k
  PROVE  LET E == EntriesOf(file, lru_list)
         IN  /\ k \in DOMAIN lru_map =>
                  \E i \in 1..Len(lru_list) : /\ lru_list[i] = lru_map[k] /\ E[i].fp = k
                                             /\ E[i] = file[lru_map[k]]
                                             /\ OthersOf(E, k) = RemoveAt(E, i)
             /\ k \notin DOMAIN lru_map => OthersOf(E, k) = E
             /\ k \in DOMAIN lru_map <=> k \in {E[i].fp : i \in DOMAIN E}
<1> DEFINE E == EntriesOf(file, lru_list)
<1>1. /\ Distinct(E) /\ Len(E) = Len(lru_list) /\ DOMAIN E = 1..Len(lru_list)
      /\ \A x : x \in DOMAIN lru_map <=> \E i \in 1..Len(lru_list) : E[i].fp = x
  <2>1. Distinct(E) /\ DOMAIN E = 1..Len(lru_list)
    BY EntriesAre
  <2>2. Len(E) = Len(lru_list)
    BY EntriesSeq
  <2>3. \A x : x \in DOMAIN lru_map <=> \E i \in 1..Len(lru_list) : E[i].fp = x
    BY EntriesAre
  <2> QED BY <2>1, <2>2, <2>3
<1>2. \A i \in 1..Len(lru_list) : E[i] = file[lru_list[i]]
  BY EntriesSeq
<1> HIDE DEF E
<1>3. ASSUME k \in DOMAIN lru_map
      PROVE  \E i \in 1..Len(lru_list) : /\ lru_list[i] = lru_map[k] /\ E[i].fp = k
                                        /\ E[i] = file[lru_map[k]]
                                        /\ OthersOf(E, k) = RemoveAt(E, i)
  <2>1. file[lru_map[k]].fp = k
    BY <1>3, Found
  <2>2. PICK i \in 1..Len(lru_list) : lru_list[i] = lru_map[k]
    BY <1>3, Found
  <2>3. E[i].fp = k /\ E[i] = file[lru_map[k]]
    BY <1>2, <2>1, <2>2
  <2>4. OthersOf(E, E[i].fp) = RemoveAt(E, i)
    BY <1>1, OthersAre
  <2> QED BY <2>2, <2>3, <2>4
<1>4. ASSUME k \notin DOMAIN lru_map PROVE OthersOf(E, k) = E
  <2>1. \A i \in 1..Len(E) : E[i].fp # k
    BY <1>1, <1>4
  <2> QED BY <1>1, <2>1, OthersAre
<1> QED BY <1>1, <1>3, <1>4 DEF E

\* What Recency says of an insertion.
LEMMA InsertEntries ==
  ASSUME TypeOK, Coherent(file, lru_list, lru_map, next_item),
         NEW k \in Key, NEW v \in Value, Insert(k, v)
  PROVE  EntriesOf(file', lru_list') = Cut(Pushed(Item(k, v), OthersOf(EntriesOf(file, lru_list), k)))
<1> DEFINE E == EntriesOf(file, lru_list)
           W == EntriesOf(file', lru_list')
           e == Item(k, v)
           N == Len(lru_list)
<1>1. /\ E \in Seq(Entry) /\ Len(E) = N /\ N \in Nat /\ N <= Size /\ next_item = N + 1
  BY EntriesSeq
<1>2. e \in Entry
  BY EntryIs DEF TypeOK
<1> HIDE DEF e
<1>3. ASSUME Update(k, v) PROVE W = Cut(Pushed(e, OthersOf(E, k)))
  <2>1. PICK i \in 1..N : lru_list[i] = lru_map[k] /\ OthersOf(E, k) = RemoveAt(E, i)
    BY <1>3, FoundEntry DEF Update
  <2>2. /\ file' = [file EXCEPT ![lru_list[i]] = e]
        /\ lru_list' = Moved(lru_list, lru_list[i])
    BY <1>3, <2>1, MovesToFront DEF Update, e
  <2>3. EntriesOf([file EXCEPT ![lru_list[i]] = e], Moved(lru_list, lru_list[i])) = Pushed(e, RemoveAt(E, i))
    BY <1>2, WrittenEntries
  <2>4. W = Pushed(e, RemoveAt(E, i))
    BY <2>2, <2>3
  <2>5. i \in 1..Len(E)
    BY <1>1
  <2> HIDE DEF W, E
  <2>6. RemoveAt(E, i) \in Seq(Entry) /\ Len(RemoveAt(E, i)) = Len(E) - 1
    BY <1>1, <2>5, RemoveAtIs
  <2>7. W \in Seq(Entry) /\ Len(W) = Len(RemoveAt(E, i)) + 1
    BY <1>2, <2>4, <2>6, PushedEntry
  <2>8. Len(W) <= Size
    BY <1>1, <2>6, <2>7
  <2>9. Cut(W) = W
    BY <2>7, <2>8, CutIs
  <2> QED BY <2>1, <2>4, <2>9
<1>4. ASSUME Replace(k, v) PROVE W = Cut(Pushed(e, OthersOf(E, k)))
  <2>1. /\ k \notin DOMAIN lru_map /\ Full /\ file' = [file EXCEPT ![Last(lru_list)] = e]
        /\ lru_list' = Moved(lru_list, Last(lru_list))
    BY <1>4, MovesToFront DEF Replace, e
  <2>2. N = Size /\ Size \in 1..N /\ Last(lru_list) = lru_list[Size]
    BY <2>1, FullIs, LastIs
  <2>3. EntriesOf([file EXCEPT ![lru_list[Size]] = e], Moved(lru_list, lru_list[Size]))
        = Pushed(e, RemoveAt(E, Size))
    BY <1>2, <2>2, WrittenEntries
  <2>4. W = Pushed(e, RemoveAt(E, Size)) /\ OthersOf(E, k) = E
    BY <2>1, <2>2, <2>3, FoundEntry
  <2> HIDE DEF W, E
  <2>5. Cut(Pushed(e, E)) = Pushed(e, RemoveAt(E, Size))
    BY <1>1, <1>2, <2>2, CutIs
  <2> QED BY <2>4, <2>5
<1>5. ASSUME Add(k, v) PROVE W = Cut(Pushed(e, OthersOf(E, k)))
  <2>1. /\ k \notin DOMAIN lru_map /\ ~Full /\ file' = [file EXCEPT ![next_item] = e]
        /\ lru_list' = Pushed(next_item, lru_list)
    BY <1>5 DEF Add, Pushed, e
  <2>2. next_item # End
    BY <2>1, FullIs
  <2>3. EntriesOf([file EXCEPT ![next_item] = e], Pushed(next_item, lru_list)) = Pushed(e, E)
    BY <1>2, <2>2, AddedEntries
  <2>4. W = Pushed(e, E) /\ OthersOf(E, k) = E
    BY <2>1, <2>3, FoundEntry
  <2> HIDE DEF W, E
  <2>5. W \in Seq(Entry) /\ Len(W) = Len(E) + 1
    BY <1>1, <1>2, <2>4, PushedEntry
  <2>6. Len(W) <= Size
    BY <1>1, <2>2, <2>5, LruStorageAssumption DEF End
  <2>7. Cut(W) = W
    BY <2>5, <2>6, CutIs
  <2> QED BY <2>4, <2>7
<1> QED BY <1>3, <1>4, <1>5 DEF Insert, e

LEMMA TouchEntries ==
  ASSUME TypeOK, Coherent(file, lru_list, lru_map, next_item), NEW k \in Key, Touch(k)
  PROVE  LET E == EntriesOf(file, lru_list)
         IN  \E i \in DOMAIN E :
               /\ E[i].fp = k
               /\ EntriesOf(file', lru_list') = Pushed([E[i] EXCEPT !.time = now], OthersOf(E, k))
<1> DEFINE E == EntriesOf(file, lru_list)
<1>1. PICK i \in 1..Len(lru_list) :
        /\ lru_list[i] = lru_map[k] /\ E[i].fp = k /\ E[i] = file[lru_map[k]]
        /\ OthersOf(E, k) = RemoveAt(E, i)
  BY FoundEntry DEF Touch
<1> DEFINE e == [E[i] EXCEPT !.time = now]
<1>2. E \in Seq(Entry) /\ Len(E) = Len(lru_list)
  BY EntriesSeq
<1>3. i \in DOMAIN E /\ E[i] \in Entry
  <2>1. i \in 1..Len(E)
    BY <1>2
  <2> HIDE DEF E
  <2> QED BY <1>2, <2>1, LenProperties, ElementOfSeq
<1>4. e \in Entry
  BY <1>3 DEF Entry, TypeOK
<1>5. /\ file' = [file EXCEPT ![lru_list[i]] = e]
      /\ lru_list' = Moved(lru_list, lru_list[i])
  <2>1. /\ file' = [file EXCEPT ![lru_map[k]].time = now]
        /\ lru_list' = Moved(lru_list, lru_map[k])
    BY MovesToFront DEF Touch
  <2>2. [file EXCEPT ![lru_map[k]].time = now]
        = [file EXCEPT ![lru_map[k]] = [file[lru_map[k]] EXCEPT !.time = now]]
    OBVIOUS
  <2> HIDE DEF E
  <2> QED BY <1>1, <2>1, <2>2
<1> HIDE DEF e
<1>6. EntriesOf(file', lru_list') = Pushed(e, RemoveAt(E, i))
  BY <1>4, <1>5, WrittenEntries
<1> HIDE DEF E
<1> QED BY <1>1, <1>3, <1>6 DEF e, E

LEMMA DeleteEntries ==
  ASSUME Coherent(file, lru_list, lru_map, next_item), NEW k \in Key, Delete(k)
  PROVE  EntriesOf(file', lru_list') = OthersOf(EntriesOf(file, lru_list), k)
<1> DEFINE E == EntriesOf(file, lru_list)
           e == Erased(Storage, k, lru_map[k])
<1>1. PICK i \in 1..Len(lru_list) :
        /\ lru_list[i] = lru_map[k] /\ E[i].fp = k /\ E[i] = file[lru_map[k]]
        /\ OthersOf(E, k) = RemoveAt(E, i)
  BY FoundEntry DEF Delete
<1>2. /\ Storage.file = file /\ Storage.list = lru_list
      /\ Storage.index = lru_map /\ Storage.next = next_item
  BY DEF Storage
<1>3. e = Erased(Storage, Storage.file[Storage.list[i]].fp, Storage.list[i])
  <2> HIDE DEF E
  <2> QED BY <1>1, <1>2
<1>4. file' = e.file /\ lru_list' = e.list
  BY DEF Delete, Becomes
<1> HIDE DEF e
<1>5. EntriesOf(e.file, e.list) = RemoveAt(EntriesOf(Storage.file, Storage.list), i)
  BY <1>2, <1>3, ErasedEntries
<1> QED BY <1>1, <1>2, <1>4, <1>5

LEMMA PruneEntries ==
  ASSUME Coherent(file, lru_list, lru_map, next_item), NEW t \in Nat, DeleteElementsBefore(t)
  PROVE  LET E == EntriesOf(file, lru_list)
         IN  \E m \in 0..Len(E) :
               /\ EntriesOf(file', lru_list') = SubSeq(E, 1, m)
               /\ m > 0 => \A i \in m + 1..Len(E) : E[i].time < E[m].time
<1> DEFINE E == EntriesOf(file, lru_list)
           st == Pruning(t)[Len(lru_list)]
           W == EntriesOf(st.file, st.list)
<1>1. PICK m \in 0..Len(lru_list) :
        PrunedTo(st, t, m) /\ (m # 0 => file[lru_list[m]].time >= t)
  BY PrunedIs
<1>2. file' = st.file /\ lru_list' = st.list
  BY DEF DeleteElementsBefore, Becomes
<1> HIDE DEF st
<1>3. Coherent(st.file, st.list, st.index, st.next) /\ Len(st.list) = m
  BY <1>1 DEF PrunedTo
<1>4. /\ W \in Seq(Entry) /\ Len(W) = m
      /\ \A j \in 1..m : W[j] = st.file[st.list[j]]
  BY <1>3, EntriesSeq
<1>5. /\ E \in Seq(Entry) /\ Len(E) = Len(lru_list) /\ Len(lru_list) \in Nat
      /\ \A j \in 1..Len(lru_list) : E[j] = file[lru_list[j]]
  BY EntriesSeq
<1> HIDE DEF E, W
<1>6. \A j \in 1..Len(E) : E[j].time \in Nat
  <2>1. \A j \in 1..Len(E) : E[j] \in Entry
    BY <1>5, ElementOfSeq
  <2>2. \A x \in Entry : x.time \in Nat
    BY LruStorageAssumption DEF Entry
  <2> QED BY <2>1, <2>2
<1>7. ASSUME NEW j \in 1..m PROVE W[j] = E[j] /\ E[j] \in Entry
  <2>1. j \in 1..Len(lru_list) /\ j \in 1..Len(E)
    BY <1>5
  <2>2. st.file[st.list[j]] = file[lru_list[j]]
    BY <1>1 DEF PrunedTo
  <2>3. W[j] = E[j]
    BY <1>4, <1>5, <2>1, <2>2
  <2>4. E[j] \in Entry
    BY <1>5, <2>1, ElementOfSeq
  <2> QED BY <2>3, <2>4
<1>8. W = SubSeq(E, 1, m)
  <2> DEFINE R == SubSeq(E, 1, m)
  <2>1. /\ R \in Seq(Entry) /\ Len(R) = (IF 1 <= m THEN m - 1 + 1 ELSE 0)
        /\ \A j \in 1..m - 1 + 1 : R[j] = E[1 + j - 1]
    BY <1>5, <1>7, SubSeqProperties
  <2> HIDE DEF R
  <2>2. R \in Seq(Entry) /\ Len(R) = m /\ \A j \in 1..m : R[j] = E[j]
    BY <1>5, <2>1
  <2>3. Len(W) = Len(R) /\ \A j \in 1..Len(W) : W[j] = R[j]
    BY <1>4, <1>7, <2>2
  <2>4. W = R
    BY <1>4, <2>2, <2>3, SeqEqual
  <2> QED BY <2>4 DEF R
<1>9. ASSUME m > 0, NEW i \in m + 1..Len(E) PROVE E[i].time < E[m].time
  <2>1. m \in 1..Len(E) /\ m \in 1..Len(lru_list) /\ i \in 1..Len(E) /\ i \in m + 1..Len(lru_list)
    BY <1>5, <1>9
  <2>2. file[lru_list[i]].time < t
    BY <1>1, <2>1 DEF PrunedTo
  <2>3. file[lru_list[m]].time >= t
    BY <1>1, <1>9
  <2>4. E[i].time < t /\ E[m].time >= t
    BY <1>5, <2>1, <2>2, <2>3
  <2> QED BY <1>6, <2>1, <2>4
<1>10. m \in 0..Len(E)
  BY <1>5
<1> QED BY <1>2, <1>8, <1>9, <1>10 DEF W, E

InOrder(E) == \A i, j \in DOMAIN E : i < j => E[i].time >= E[j].time

\* Open: the entries of the file, latest first.
LEMMA OpenEntries ==
  ASSUME NEW f, NEW n, Compact(f, n)
  PROVE  LET W == EntriesOf(f, LatestFirst(f, Used(f)))
         IN  /\ W \in Seq(Entry) /\ Len(W) = n - 1 /\ Distinct(W) /\ InOrder(W)
             /\ \A x : x \in ToSet(W) <=> \E s \in 1..n - 1 : f[s] = x
<1> DEFINE l == LatestFirst(f, Used(f))
           W == EntriesOf(f, l)
           N == Len(l)
<1>1. Coherent(f, l, IndexOf(f), FirstFree(f)) /\ FirstFree(f) = n
  BY OpenCoherent
<1>2. /\ W \in Seq(Entry) /\ Len(W) = N /\ N \in Nat /\ n = N + 1
      /\ \A i \in 1..N : W[i] = f[l[i]] /\ l[i] \in 1..N
  <2> HIDE DEF l
  <2> QED BY <1>1, EntriesSeq
<1>3. /\ Distinct(W) /\ DOMAIN W = 1..N
      /\ \A s \in 1..N : \E i \in 1..N : l[i] = s
  <2> HIDE DEF l
  <2> QED BY <1>1, EntriesAre
<1>4. \A i, j \in 1..N : i < j => Before(f, l[i], l[j])
  <2>1. Used(f) \subseteq Slot /\ f \in Files
    BY CompactUsed DEF Compact
  <2>2. Timed(f, Used(f))
    BY <2>1, UsedIs
  <2> QED BY <2>2, LatestFirstIs
<1> HIDE DEF l, W, N
<1>5. n - 1 = N
  BY <1>2
<1>6. \A i \in 1..N : W[i].time \in Nat
  <2>1. \A i \in 1..N : W[i] \in Entry
    BY <1>2, ElementOfSeq
  <2>2. \A x \in Entry : x.time \in Nat
    BY LruStorageAssumption DEF Entry
  <2> QED BY <2>1, <2>2
<1>7. InOrder(W)
  <2> SUFFICES ASSUME NEW i \in 1..N, NEW j \in 1..N, i < j PROVE W[i].time >= W[j].time
    BY <1>3 DEF InOrder
  <2>1. Before(f, l[i], l[j])
    BY <1>4
  <2>2. f[l[i]].time > f[l[j]].time \/ f[l[i]].time = f[l[j]].time
    BY <2>1 DEF Before
  <2>3. W[i].time > W[j].time \/ W[i].time = W[j].time
    BY <1>2, <2>2
  <2>4. W[i].time \in Nat /\ W[j].time \in Nat
    BY <1>6
  <2> QED BY <2>3, <2>4
<1>8. \A x : x \in ToSet(W) <=> \E s \in 1..N : f[s] = x
  <2>1. \A x : x \in ToSet(W) <=> \E i \in 1..N : W[i] = x
    BY <1>3 DEF ToSet
  <2>2. ASSUME NEW x, x \in ToSet(W) PROVE \E s \in 1..N : f[s] = x
    BY <1>2, <2>1, <2>2
  <2>3. ASSUME NEW x, NEW s \in 1..N, f[s] = x PROVE x \in ToSet(W)
    <3>1. PICK i \in 1..N : l[i] = s
      BY <1>3
    <3> QED BY <1>2, <2>1, <2>3, <3>1
  <2> QED BY <2>2, <2>3
<1> QED BY <1>2, <1>3, <1>5, <1>7, <1>8 DEF W, l

LEMMA ClearEntries ==
  ASSUME Clear
  PROVE  EntriesOf(file', lru_list') = << >>
<1> DEFINE f == [s \in Slot |-> Free]
           W == EntriesOf(f, LatestFirst(f, Used(f)))
<1>1. Compact(f, 1)
  BY LruStorageAssumption DEF Compact, Files, Slot, End
<1>2. file' = f /\ lru_list' = LatestFirst(f, Used(f))
  BY DEF Clear, Open
<1> HIDE DEF f
<1>3. W \in Seq(Entry) /\ Len(W) = 1 - 1
  BY <1>1, OpenEntries
<1> HIDE DEF W
<1>4. W = << >>
  BY <1>3, EmptySeq
<1> QED BY <1>2, <1>4 DEF W

LEMMA ReopenEntries ==
  ASSUME Coherent(file, lru_list, lru_map, next_item), Reopen
  PROVE  LET E == EntriesOf(file, lru_list)
             W == EntriesOf(file', lru_list')
         IN  Len(W) = Len(E) /\ ToSet(W) = ToSet(E) /\ InOrder(W)
<1> DEFINE E == EntriesOf(file, lru_list)
           W == EntriesOf(file, LatestFirst(file, Used(file)))
           N == Len(lru_list)
<1>1. file' = file /\ lru_list' = LatestFirst(file, Used(file))
  BY DEF Reopen, Open
<1>2. Compact(file, next_item)
  BY DEF Coherent
<1>3. Len(E) = N /\ N \in Nat /\ next_item = N + 1
      /\ \A i \in 1..N : E[i] = file[lru_list[i]] /\ lru_list[i] \in 1..N
  BY EntriesSeq
<1>4. DOMAIN E = 1..N /\ \A s \in 1..N : \E i \in 1..N : lru_list[i] = s
  BY EntriesAre
<1>5. /\ Len(W) = next_item - 1 /\ InOrder(W)
      /\ \A x : x \in ToSet(W) <=> \E s \in 1..next_item - 1 : file[s] = x
  BY <1>2, OpenEntries
<1> HIDE DEF E, W, N
<1>6. \A x : x \in ToSet(E) <=> \E i \in 1..N : E[i] = x
  BY <1>4 DEF ToSet
<1>7. next_item - 1 = N
  BY <1>3
<1>8. ASSUME NEW x, x \in ToSet(E) PROVE x \in ToSet(W)
  <2>1. PICK i \in 1..N : file[lru_list[i]] = x /\ lru_list[i] \in 1..N
    BY <1>3, <1>6, <1>8
  <2> QED BY <1>5, <1>7, <2>1
<1>9. ASSUME NEW x, x \in ToSet(W) PROVE x \in ToSet(E)
  <2>1. PICK s \in 1..N : file[s] = x
    BY <1>5, <1>7, <1>9
  <2>2. PICK i \in 1..N : lru_list[i] = s
    BY <1>4
  <2>3. E[i] = x
    BY <1>3, <2>1, <2>2
  <2> QED BY <1>6, <2>3
<1>10. ToSet(W) = ToSet(E)
  BY <1>8, <1>9
<1> QED BY <1>1, <1>3, <1>5, <1>7, <1>10 DEF E, W

\* Every fingerprint has an item that comes first.
LEMMA FirstOfHas ==
  ASSUME NEW items, Items(items), NEW j \in 1..Len(items)
  PROVE  \E i \in FirstOf(items) :
           items[i].fp = items[j].fp /\ (i = j \/ Before(items, i, j))
<1> DEFINE N == Len(items)
           T == {k \in 1..N : items[k].fp = items[j].fp}
           l == LatestFirst(items, T)
<1>1. N \in Nat /\ DOMAIN items = 1..N /\ \A i \in 1..N : items[i].time \in Nat
  BY DEF Items
<1>2. Timed(items, T)
  <2>1. IsFiniteSet(1..N)
    BY <1>1, FS_Interval
  <2>2. IsFiniteSet(T)
    BY <2>1, FS_Subset
  <2> QED BY <1>1, <2>2 DEF Timed
<1>3. j \in T /\ \A k \in T : k \in 1..N /\ items[k].fp = items[j].fp
  OBVIOUS
<1>4. \A k \in 1..N : items[k].fp = items[j].fp => k \in T
  OBVIOUS
<1> HIDE DEF N, T
<1>5. /\ l \in Seq(T) /\ Len(l) \in Nat
      /\ \A i \in T : \E n \in 1..Len(l) : l[n] = i
      /\ \A m, n \in 1..Len(l) : m < n => Before(items, l[m], l[n])
  BY <1>2, LatestFirstIs
<1> HIDE DEF l
<1>6. 1 \in 1..Len(l)
  BY <1>3, <1>5
<1>7. l[1] \in T
  BY <1>5, <1>6, ElementOfSeq
<1>8. ASSUME NEW k \in T, k # l[1] PROVE Before(items, l[1], k)
  <2>1. PICK n \in 1..Len(l) : l[n] = k
    BY <1>5
  <2>2. 1 < n
    BY <1>8, <2>1
  <2> QED BY <1>5, <1>6, <2>1, <2>2
<1>9. l[1] \in FirstOf(items)
  BY <1>1, <1>3, <1>4, <1>7, <1>8 DEF FirstOf
<1>10. items[l[1]].fp = items[j].fp /\ (l[1] = j \/ Before(items, l[1], j))
  BY <1>3, <1>7, <1>8
<1> QED BY <1>9, <1>10

LEMMA EntriesToSet ==
  ASSUME NEW f, NEW l, NEW ix, NEW n, Coherent(f, l, ix, n)
  PROVE  \A x : x \in ToSet(EntriesOf(f, l)) <=> \E s \in Slot : f[s] = x /\ x \in Entry
<1> DEFINE E == EntriesOf(f, l)
           N == Len(l)
<1>1. N \in Nat /\ n = N + 1 /\ N <= Size
      /\ \A i \in 1..N : E[i] = f[l[i]] /\ l[i] \in 1..N
  BY EntriesSeq
<1>2. DOMAIN E = 1..N /\ \A s \in 1..N : \E i \in 1..N : l[i] = s
  BY EntriesAre
<1>3. /\ \A s \in 1..n - 1 : f[s] \in Entry
      /\ \A s \in n..Size : f[s] = Free
  BY DEF Coherent, Compact
<1> HIDE DEF E, N
<1>4. \A x : x \in ToSet(E) <=> \E i \in 1..N : E[i] = x
  BY <1>2 DEF ToSet
<1>5. \A s \in 1..N : f[s] \in Entry /\ s \in Slot
  BY <1>1, <1>3, LruStorageAssumption DEF Slot
<1>6. \A s \in Slot : f[s] \in Entry => s \in 1..N
  <2> SUFFICES ASSUME NEW s \in Slot, s \notin 1..N PROVE f[s] \notin Entry
    OBVIOUS
  <2>1. s \in n..Size
    BY <1>1, LruStorageAssumption DEF Slot
  <2> QED BY <1>3, <2>1, EntryIs
<1>7. ASSUME NEW x, x \in ToSet(E) PROVE \E s \in Slot : f[s] = x /\ x \in Entry
  BY <1>1, <1>4, <1>5, <1>7
<1>8. ASSUME NEW s \in Slot, f[s] \in Entry PROVE f[s] \in ToSet(E)
  <2>1. s \in 1..N
    BY <1>6, <1>8
  <2>2. PICK i \in 1..N : l[i] = s
    BY <1>2, <2>1
  <2> QED BY <1>1, <1>4, <2>2
<1> QED BY <1>7, <1>8 DEF E

\* What Recency merges: the entries E, and the set O of the other storage's.
MergeOf(E, O) ==
  {d \in ToSet(E) : \A e \in O : e.fp = d.fp => e.time <= d.time}
    \cup {e \in O : \A d \in ToSet(E) : d.fp = e.fp => d.time < e.time}

\* Of the other file, the entries that come first in it.
Others(other) == {other[j] : j \in FirstOf(other)}

LEMMA MergeOfIs ==
  ASSUME Coherent(file, lru_list, lru_map, next_item), NEW other \in Seq(Entry)
  PROVE  LET items == file \o other
         IN  \A x : x \in MergeOf(EntriesOf(file, lru_list), Others(other)) <=>
                     \E i \in FirstOf(items) : items[i] = x /\ x \in Entry
<1> DEFINE E == EntriesOf(file, lru_list)
           O == Others(other)
           items == file \o other
           M == Len(other)
           first == FirstOf(items)
<1>1. /\ Items(items) /\ Len(items) = Size + M
      /\ \A i \in 1..Size : items[i] = file[i]
      /\ \A i \in 1..M : items[Size + i] = other[i]
  BY ItemsAre DEF Coherent, Compact
<1>2. /\ M \in Nat /\ DOMAIN other = 1..M /\ \A j \in 1..M : other[j] \in Entry
  BY LenProperties, ElementOfSeq
<1>3. \A x \in Entry : x.time \in Nat /\ x.time # 0
  BY LruStorageAssumption DEF Entry
<1>4. Items(other)
  BY <1>2, <1>3 DEF Items
<1>5. \A x : x \in ToSet(E) <=> \E s \in Slot : file[s] = x /\ x \in Entry
  BY EntriesToSet
<1>6. ASSUME NEW s \in Slot, NEW t \in Slot, file[s] \in Entry, file[s].fp = file[t].fp
      PROVE  s = t
  <2>1. Compact(file, next_item) /\ file \in Files
    BY DEF Coherent, Compact
  <2>2. Used(file) = 1..next_item - 1 /\ Used(file) = {r \in Slot : file[r] \in Entry}
    BY <2>1, CompactUsed, UsedIs
  <2>3. file[t] \in Entry
    BY <1>6, <2>1, EntryIs DEF Files
  <2>4. s \in 1..next_item - 1 /\ t \in 1..next_item - 1
    BY <1>6, <2>2, <2>3
  <2> QED BY <1>6, <2>1, <2>4 DEF Compact
<1>7. Size \in Nat /\ Slot = 1..Size
  BY LruStorageAssumption DEF Slot
<1>8. DOMAIN items = 1..Size + M /\ \A i \in 1..Size + M : items[i].time \in Nat
  BY <1>1 DEF Items
<1> HIDE DEF E, M, items
<1>9. \A i : i \in first <=> /\ i \in 1..Size + M
                             /\ \A j \in 1..Size + M : j # i /\ items[j].fp = items[i].fp => Before(items, i, j)
  BY <1>8 DEF FirstOf
<1>10. \A j : j \in FirstOf(other) <=> /\ j \in 1..M
                                       /\ \A k \in 1..M : k # j /\ other[k].fp = other[j].fp => Before(other, j, k)
  BY <1>2 DEF FirstOf
<1> HIDE DEF first
<1>11. \A e : e \in O <=> \E j \in FirstOf(other) : other[j] = e
  BY DEF Others
<1> HIDE DEF O
<1>12. \A x : x \in MergeOf(E, O) <=>
               \/ x \in ToSet(E) /\ \A e \in O : e.fp = x.fp => e.time <= x.time
               \/ x \in O /\ \A d \in ToSet(E) : d.fp = x.fp => d.time < x.time
  BY DEF MergeOf
<1>13. ASSUME NEW j \in 1..M, NEW k \in 1..M
       PROVE  Before(items, Size + j, Size + k) <=> Before(other, j, k)
  <2>1. items[Size + j] = other[j] /\ items[Size + k] = other[k]
    BY <1>1
  <2>2. Size + j < Size + k <=> j < k
    BY <1>7
  <2> QED BY <2>1, <2>2 DEF Before
<1>14. ASSUME NEW i \in first, items[i] \in Entry PROVE items[i] \in MergeOf(E, O)
  <2> DEFINE x == items[i]
  <2>1. i \in 1..Size + M
    BY <1>9
  <2>2. CASE i \in 1..Size
    <3>1. x \in ToSet(E)
      BY <1>1, <1>5, <1>7, <1>14, <2>2
    <3>2. ASSUME NEW e \in O, e.fp = x.fp PROVE e.time <= x.time
      <4>1. PICK j \in 1..M : other[j] = e
        BY <1>10, <1>11
      <4>2. Size + j \in 1..Size + M /\ Size + j # i /\ items[Size + j] = e
        BY <1>1, <1>2, <1>7, <2>2, <4>1
      <4>3. Before(items, i, Size + j)
        BY <1>9, <3>2, <4>2
      <4>4. x.time > e.time \/ x.time = e.time
        BY <4>2, <4>3 DEF Before
      <4>5. x.time \in Nat /\ e.time \in Nat
        BY <1>2, <1>3, <1>14, <4>1
      <4> QED BY <4>4, <4>5
    <3> QED BY <1>12, <3>1, <3>2
  <2>3. CASE ~(i \in 1..Size)
    <3>1. PICK j \in 1..M : i = Size + j
      <4>1. i - Size \in 1..M /\ i = Size + (i - Size)
        BY <1>2, <1>7, <2>1, <2>3
      <4> QED BY <4>1
    <3>2. x = other[j]
      BY <1>1, <3>1
    <3>3. j \in FirstOf(other)
      <4> SUFFICES ASSUME NEW k \in 1..M, k # j, other[k].fp = other[j].fp PROVE Before(other, j, k)
        BY <1>10
      <4>1. Size + k \in 1..Size + M /\ Size + k # i /\ items[Size + k] = other[k]
        BY <1>1, <1>2, <1>7, <3>1
      <4>2. Before(items, i, Size + k)
        BY <1>9, <3>2, <4>1
      <4> QED BY <1>13, <3>1, <4>2
    <3>4. ASSUME NEW d \in ToSet(E), d.fp = x.fp PROVE d.time < x.time
      <4>1. PICK s \in Slot : file[s] = d /\ d \in Entry
        BY <1>5
      <4>2. s \in 1..Size + M /\ s # i /\ items[s] = d /\ ~(i < s)
        BY <1>1, <1>2, <1>7, <2>1, <2>3, <4>1
      <4>3. Before(items, i, s)
        BY <1>9, <3>4, <4>2
      <4>4. x.time > d.time
        BY <4>2, <4>3 DEF Before
      <4>5. x.time \in Nat /\ d.time \in Nat
        BY <1>3, <1>14, <4>1
      <4> QED BY <4>4, <4>5
    <3>5. x \in O
      BY <1>11, <3>2, <3>3
    <3> QED BY <1>12, <3>4, <3>5
  <2> QED BY <2>2, <2>3
<1>15. ASSUME NEW x, x \in ToSet(E), \A e \in O : e.fp = x.fp => e.time <= x.time
       PROVE  \E i \in first : items[i] = x /\ x \in Entry
  <2>1. PICK s \in Slot : file[s] = x /\ x \in Entry
    BY <1>5, <1>15
  <2>2. items[s] = x /\ s \in 1..Size + M /\ s \in 1..Size
    BY <1>1, <1>2, <1>7, <2>1
  <2>3. ASSUME NEW j \in 1..Size + M, j # s, items[j].fp = x.fp PROVE Before(items, s, j)
    <3>1. CASE j \in 1..Size
      <4>1. file[j].fp = file[s].fp /\ j \in Slot
        BY <1>1, <1>7, <2>1, <2>3, <3>1
      <4> QED BY <1>6, <2>1, <2>3, <4>1
    <3>2. CASE ~(j \in 1..Size)
      <4>1. PICK m \in 1..M : j = Size + m
        <5>1. j - Size \in 1..M /\ j = Size + (j - Size)
          BY <1>2, <1>7, <3>2
        <5> QED BY <5>1
      <4>2. items[j] = other[m]
        BY <1>1, <4>1
      <4>3. PICK h \in FirstOf(other) : other[h].fp = other[m].fp /\ (h = m \/ Before(other, h, m))
        BY <1>4, FirstOfHas DEF M
      <4>4. other[h] \in O /\ h \in 1..M
        BY <1>10, <1>11
      <4>5. other[h].time <= x.time
        BY <1>15, <2>3, <4>2, <4>3, <4>4
      <4>6. other[h].time > other[m].time \/ other[h].time = other[m].time
        BY <4>3 DEF Before
      <4>7. other[h].time \in Nat /\ other[m].time \in Nat /\ x.time \in Nat
        BY <1>2, <1>3, <2>1, <4>4
      <4>8. items[j].time <= x.time /\ items[j].time \in Nat
        BY <4>2, <4>5, <4>6, <4>7
      <4>9. s < j
        BY <1>7, <2>2, <4>1
      <4> QED BY <2>2, <4>7, <4>8, <4>9 DEF Before
    <3> QED BY <3>1, <3>2
  <2>4. s \in first
    BY <1>9, <2>2, <2>3
  <2> QED BY <2>1, <2>2, <2>4
<1>16. ASSUME NEW x, x \in O, \A d \in ToSet(E) : d.fp = x.fp => d.time < x.time
       PROVE  \E i \in first : items[i] = x /\ x \in Entry
  <2>1. PICK h \in FirstOf(other) : other[h] = x
    BY <1>11, <1>16
  <2>2. h \in 1..M /\ x \in Entry
    BY <1>2, <1>10, <2>1
  <2> DEFINE i == Size + h
  <2>3. i \in 1..Size + M /\ items[i] = x
    BY <1>1, <1>2, <1>7, <2>1, <2>2
  <2>4. ASSUME NEW j \in 1..Size + M, j # i, items[j].fp = x.fp PROVE Before(items, i, j)
    <3>1. CASE j \in 1..Size
      <4>1. items[j] = file[j] /\ j \in Slot
        BY <1>1, <1>7, <3>1
      <4>2. file[j] \in Entry
        BY <2>2, <2>4, <4>1, EntryIs DEF Coherent, Compact, Files
      <4>3. items[j] \in ToSet(E)
        BY <1>5, <4>1, <4>2
      <4>4. items[j].time < x.time
        BY <1>16, <2>4, <4>3
      <4>5. items[j].time \in Nat /\ x.time \in Nat
        BY <1>3, <2>2, <4>1, <4>2
      <4> QED BY <2>3, <4>4, <4>5 DEF Before
    <3>2. CASE ~(j \in 1..Size)
      <4>1. PICK m \in 1..M : j = Size + m
        <5>1. j - Size \in 1..M /\ j = Size + (j - Size)
          BY <1>2, <1>7, <3>2
        <5> QED BY <5>1
      <4>2. items[j] = other[m] /\ m # h
        BY <1>1, <2>4, <4>1
      <4>3. Before(other, h, m)
        BY <1>10, <2>1, <2>4, <4>2
      <4> QED BY <1>13, <2>2, <4>1, <4>3
    <3> QED BY <3>1, <3>2
  <2>5. i \in first
    BY <1>9, <2>3, <2>4
  <2> QED BY <2>2, <2>3, <2>5
<1> QED BY <1>12, <1>14, <1>15, <1>16 DEF E, O, items, first

\* The set that a sequence without repetitions enumerates.
LEMMA ToSetOfDistinct ==
  ASSUME NEW W, Distinct(W)
  PROVE  IsFiniteSet(ToSet(W)) /\ Cardinality(ToSet(W)) = Len(W) /\ DOMAIN W = 1..Len(W)
<1> DEFINE p == Len(W)
           T == ToSet(W)
<1>1. /\ W \in Seq(Entry) /\ p \in Nat /\ DOMAIN W = 1..p
      /\ \A i, j \in 1..p : W[i].fp = W[j].fp => i = j
  BY LenProperties DEF Distinct
<1>2. IsFiniteSet(1..p) /\ Cardinality(1..p) = p
  <2>1. 1 \in Int /\ p \in Int
    BY <1>1
  <2>2. p \in Nat
    BY <1>1
  <2> HIDE DEF p
  <2> QED BY <2>1, <2>2, FS_Interval
<1>3. \A x : x \in T <=> \E i \in 1..p : W[i] = x
  BY <1>1 DEF ToSet
<1> HIDE DEF p, T
<1> DEFINE g == [i \in 1..p |-> W[i]]
<1>4. g \in [1..p -> T] /\ \A x \in T : \E i \in 1..p : g[i] = x
  BY <1>3
<1>5. \A i, j \in 1..p : g[i] = g[j] => i = j
  BY <1>1
<1> DEFINE D == 1..p
<1>6. g \in Surjection(D, T)
  BY <1>4 DEF Surjection
<1>7. DOMAIN g = D
  OBVIOUS
<1> HIDE DEF g
<1>8. g \in Injection(D, T)
  BY <1>4, <1>5, <1>7 DEF Injection, IsInjective
<1> HIDE DEF D
<1>9. IsFiniteSet(T) /\ Cardinality(T) = Cardinality(D)
  BY <1>2, <1>6, <1>8, FS_Surjection DEF D
<1> QED BY <1>1, <1>2, <1>9 DEF p, T, D

\* What Recency says of a merge.
MergesInto(E, O, W) ==
  LET all == MergeOf(E, O)
  IN  /\ InOrder(W)
      /\ ToSet(W) \subseteq all /\ Cardinality(ToSet(W)) = Len(W)
      /\ Len(W) = (IF Cardinality(all) > Size THEN Size ELSE Cardinality(all))
      /\ \A e \in all \ ToSet(W), i \in DOMAIN W : e.time <= W[i].time

LEMMA MergeEntries ==
  ASSUME Coherent(file, lru_list, lru_map, next_item), NEW other \in Seq(Entry), Merge(other)
  PROVE  MergesInto(EntriesOf(file, lru_list), Others(other), EntriesOf(file', lru_list'))
<1> DEFINE items == file \o other
           first == FirstOf(items)
           all == MergeOf(EntriesOf(file, lru_list), Others(other))
           f == Kept(items)
           l == Latest(items)
           W == EntriesOf(f, LatestFirst(f, Used(f)))
<1>1. Items(items) /\ Merged(other) = f
  BY ItemsAre DEF Coherent, Compact
<1>2. \A x : x \in all <=> \E i \in first : items[i] = x /\ x \in Entry
  BY MergeOfIs
<1> HIDE DEF items
<1>3. PICK p \in 0..Size :
        /\ p <= Len(l)
        /\ \A j \in 1..p : f[j] = items[l[j]] /\ items[l[j]] \in Entry
        /\ p # Size => \A j \in p + 1..Len(l) : items[l[j]] \notin Entry
        /\ Compact(f, p + 1)
  BY <1>1, KeptIs
<1>4. /\ l \in Seq(first) /\ Len(l) \in Nat
      /\ \A i \in first : \E n \in 1..Len(l) : l[n] = i
      /\ \A m, n \in 1..Len(l) : m < n => Before(items, l[m], l[n])
  BY <1>1, FirstOfIs, LatestFirstIs DEF Latest
<1>5. IsFiniteSet(first)
  BY <1>1, FirstOfIs DEF Timed
<1>6. p + 1 - 1 = p /\ p \in Nat /\ Size \in Nat
  BY LruStorageAssumption
<1>7. file' = f /\ lru_list' = LatestFirst(f, Used(f))
  BY <1>1 DEF Merge, Open
<1> HIDE DEF first, all, f, l
<1>8. /\ W \in Seq(Entry) /\ Len(W) = p /\ Distinct(W) /\ InOrder(W)
      /\ \A x : x \in ToSet(W) <=> \E s \in 1..p : f[s] = x
  <2>1. Compact(f, p + 1)
    BY <1>3
  <2>2. /\ W \in Seq(Entry) /\ Len(W) = p + 1 - 1 /\ Distinct(W) /\ InOrder(W)
        /\ \A x : x \in ToSet(W) <=> \E s \in 1..p + 1 - 1 : f[s] = x
    BY <2>1, OpenEntries
  <2> HIDE DEF W
  <2> QED BY <1>6, <2>2
<1> HIDE DEF W
<1>9. IsFiniteSet(ToSet(W)) /\ Cardinality(ToSet(W)) = p /\ DOMAIN W = 1..p
  BY <1>8, ToSetOfDistinct
<1>10. \A j \in 1..Len(l) : l[j] \in first
  BY <1>4, ElementOfSeq
<1>11. \A j \in 1..p : j \in 1..Len(l)
  BY <1>3, <1>4, <1>6
<1>12. ToSet(W) \subseteq all
  <2> SUFFICES ASSUME NEW x \in ToSet(W) PROVE x \in all
    OBVIOUS
  <2>1. PICK s \in 1..p : f[s] = x
    BY <1>8
  <2>2. items[l[s]] = x /\ x \in Entry /\ l[s] \in first
    BY <1>3, <1>10, <1>11, <2>1
  <2> QED BY <1>2, <2>2
<1>13. ASSUME NEW x \in all, x \notin ToSet(W)
       PROVE  \E j \in p + 1..Len(l) : items[l[j]] = x /\ x \in Entry
  <2>1. PICK i \in first : items[i] = x /\ x \in Entry
    BY <1>2, <1>13
  <2>2. PICK j \in 1..Len(l) : l[j] = i
    BY <1>4
  <2>3. j \notin 1..p
    <3> SUFFICES ASSUME j \in 1..p PROVE FALSE
      OBVIOUS
    <3>1. f[j] = x
      BY <1>3, <2>1, <2>2
    <3> QED BY <1>8, <1>13, <3>1
  <2>4. j \in p + 1..Len(l)
    BY <1>4, <1>6, <2>3
  <2> QED BY <2>1, <2>2, <2>4
<1>14. IsFiniteSet(all)
  <2> DEFINE A == {i \in first : items[i] \in Entry}
             g == [i \in A |-> items[i]]
  <2>1. IsFiniteSet(A)
    BY <1>5, FS_Subset
  <2>2. g \in [A -> all] /\ \A x \in all : \E i \in A : g[i] = x
    BY <1>2
  <2> HIDE DEF A, g
  <2>3. g \in Surjection(A, all)
    BY <2>2 DEF Surjection
  <2> QED BY <2>1, <2>3, FS_Surjection
<1>15. Len(W) = IF Cardinality(all) > Size THEN Size ELSE Cardinality(all)
  <2>1. p <= Cardinality(all) /\ Cardinality(all) \in Nat
    <3>1. Cardinality(ToSet(W)) <= Cardinality(all)
      BY <1>12, <1>14, FS_Subset
    <3> QED BY <1>9, <1>14, <3>1, FS_CardinalityType
  <2>2. CASE p = Size
    BY <1>6, <1>8, <2>1, <2>2
  <2>3. CASE p # Size
    <3>1. \A x \in all : x \in ToSet(W)
      BY <1>3, <1>13, <2>3
    <3>2. all = ToSet(W)
      BY <1>12, <3>1
    <3>3. Cardinality(all) = p
      BY <1>9, <3>2
    <3> QED BY <1>6, <1>8, <3>3
  <2> QED BY <2>2, <2>3
<1>16. ASSUME NEW e \in all \ ToSet(W), NEW i \in DOMAIN W PROVE e.time <= W[i].time
  <2>1. PICK j \in p + 1..Len(l) : items[l[j]] = e /\ e \in Entry
    BY <1>13
  <2>2. i \in 1..p /\ W[i] \in ToSet(W) /\ W[i] \in Entry
    <3>1. i \in 1..p /\ i \in 1..Len(W)
      BY <1>8, <1>9
    <3>2. W[i] \in ToSet(W)
      BY <1>9, <3>1 DEF ToSet
    <3>3. W[i] \in Entry
      BY <1>8, <3>1, ElementOfSeq
    <3> QED BY <3>1, <3>2, <3>3
  <2>3. PICK s \in 1..p : f[s] = W[i]
    BY <1>8, <2>2
  <2>4. items[l[s]] = W[i]
    BY <1>3, <2>3
  <2>5. s < j /\ s \in 1..Len(l) /\ j \in 1..Len(l)
    BY <1>3, <1>4, <1>6
  <2>6. Before(items, l[s], l[j])
    BY <1>4, <2>5
  <2>7. W[i].time > e.time \/ W[i].time = e.time
    BY <2>1, <2>4, <2>6 DEF Before
  <2>8. W[i].time \in Nat /\ e.time \in Nat
    BY <2>1, <2>2, LruStorageAssumption DEF Entry
  <2> QED BY <2>7, <2>8
<1>17. Cardinality(ToSet(W)) = Len(W)
  BY <1>8, <1>9
<1>18. MergesInto(EntriesOf(file, lru_list), Others(other), W)
  BY <1>8, <1>12, <1>15, <1>16, <1>17 DEF MergesInto, all
<1> QED BY <1>7, <1>18 DEF W

\* The other storage of the model has one entry or two.
LEMMA OthersOfOther ==
  ASSUME now \in 1..MaxTime, NEW other \in Other
  PROVE  other \in Seq(Entry) /\ \E e1, e2 \in Stored : Others(other) = {e1, e2}
<1>1. /\ other \in Seq(Entry)
      /\ \/ \E e \in Stored : other = <<e>>
         \/ \E e1, e2 \in Stored : other = <<e1, e2>>
  BY OtherIs
<1>2. /\ Len(other) \in Nat /\ DOMAIN other = 1..Len(other)
      /\ \A j \in 1..Len(other) : other[j] \in Entry
  BY <1>1, LenProperties, ElementOfSeq
<1>3. Items(other)
  <2>1. \A x \in Entry : x.time \in Nat /\ x.time # 0
    BY LruStorageAssumption DEF Entry
  <2> QED BY <1>2, <2>1 DEF Items
<1>4. FirstOf(other) \subseteq 1..Len(other)
  BY <1>3, FirstOfIs
<1>5. Len(other) >= 1
  BY <1>1
<1>6. FirstOf(other) # {}
  <2>1. 1 \in 1..Len(other)
    BY <1>2, <1>5
  <2> QED BY <1>3, <2>1, FirstOfHas
<1> DEFINE F == FirstOf(other)
           O == Others(other)
<1>7. O = {other[j] : j \in F} /\ F \subseteq 1..Len(other) /\ F # {}
  BY <1>4, <1>6 DEF Others
<1> HIDE DEF F, O
<1>8. CASE \E e \in Stored : other = <<e>>
  <2>1. PICK e \in Stored : other = <<e>>
    BY <1>8
  <2>2. \A j \in F : other[j] = e
    BY <1>7, <2>1
  <2>3. O = {e, e}
    BY <1>7, <2>2
  <2> QED BY <1>1, <2>3 DEF O
<1>9. CASE \E e1, e2 \in Stored : other = <<e1, e2>>
  <2>1. PICK a \in Stored, b \in Stored : other = <<a, b>>
    BY <1>9
  <2>2. \A j \in F : (j = 1 /\ other[j] = a) \/ (j = 2 /\ other[j] = b)
    BY <1>7, <2>1
  <2>3. O = {a, a} \/ O = {b, b} \/ O = {a, b}
    BY <1>7, <2>2
  <2> QED BY <1>1, <2>1, <2>3 DEF O
<1> QED BY <1>1, <1>8, <1>9

-----------------------------------------------------------------------------
(* The storage is the list of recent entries of Recency.                   *)

LEMMA RefInit == Init => Recent!Init
<1> SUFFICES ASSUME Init PROVE Recent!Init
  OBVIOUS
<1>1. lru_list = <<>> /\ now = 1 /\ torn = FALSE
  BY DEF Init
<1>2. Entries = <<>>
  BY <1>1 DEF Entries
<1> QED BY <1>1, <1>2 DEF Recent!Init

\* Recency names the same operators of sequences and sets.
LEMMA SameOperators ==
  /\ \A s, i : Recent!RemoveAt(s, i) = RemoveAt(s, i)
  /\ \A s : Recent!ToSet(s) = ToSet(s)
  /\ \A S : Recent!Cardinality(S) = Cardinality(S)
  /\ \A s : Recent!Sorted(s) <=> InOrder(s)
  /\ \A k : Recent!Others(k) = OthersOf(Entries, k)
<1>1. \A s, i : Recent!RemoveAt(s, i) = RemoveAt(s, i)
  BY DEF Recent!RemoveAt, RemoveAt
<1>2. \A s : Recent!ToSet(s) = ToSet(s)
  BY DEF Recent!ToSet, ToSet
<1>3. \A S : Recent!Cardinality(S) = Cardinality(S)
  BY DEF Recent!Cardinality, Cardinality
<1>4. \A s : Recent!Sorted(s) <=> InOrder(s)
  BY DEF Recent!Sorted, InOrder
<1>5. \A k : Recent!Others(k) = OthersOf(Entries, k)
  BY <1>1 DEF Recent!Others, Recent!KeysOf, OthersOf
<1> QED BY <1>1, <1>2, <1>3, <1>4, <1>5

LEMMA EntriesNow ==
  Entries = EntriesOf(file, lru_list) /\ Entries' = EntriesOf(file', lru_list')
  BY DEF Entries, EntriesOf

LEMMA RefOperation ==
  ASSUME TypeOK, Coherent(file, lru_list, lru_map, next_item), Operation
  PROVE  Recent!Next
<1>0. UNCHANGED <<now, torn>>
  BY DEF Operation, Insert, TryInsert, Update, Replace, Add, Touch, Delete,
         DeleteElementsBefore, Clear, Reopen, Merge, NothingElse
<1>1. ASSUME NEW k \in Key, NEW v \in Value, Insert(k, v) PROVE Recent!Insert(k, v)
  <2>1. Entries' = Cut(Pushed(Item(k, v), OthersOf(Entries, k)))
    BY <1>1, InsertEntries, EntriesNow
  <2>2. OthersOf(Entries, k) = Recent!Others(k)
    BY SameOperators
  <2> QED BY <2>1, <2>2 DEF Recent!Insert, Cut, Pushed, Item
<1>2. ASSUME NEW k \in Key, NEW v \in Value, TryInsert(k, v) PROVE Recent!TryInsert(k, v)
  <2>1. Insert(k, v) /\ k \in DOMAIN lru_map
    BY <1>2 DEF TryInsert, Insert, Update
  <2>2. k \in {Entries[i].fp : i \in DOMAIN Entries}
    BY <2>1, FoundEntry, EntriesNow
  <2> QED BY <1>1, <2>1, <2>2 DEF Recent!TryInsert, Recent!KeysOf
<1>3. ASSUME NEW k \in Key, Touch(k) PROVE Recent!Touch(k)
  <2>1. \E i \in DOMAIN Entries :
          /\ Entries[i].fp = k
          /\ Entries' = Pushed([Entries[i] EXCEPT !.time = now], OthersOf(Entries, k))
    BY <1>3, TouchEntries, EntriesNow
  <2>2. OthersOf(Entries, k) = Recent!Others(k)
    BY SameOperators
  <2> QED BY <2>1, <2>2 DEF Recent!Touch, Pushed
<1>4. ASSUME NEW k \in Key, Delete(k) PROVE Recent!Delete(k)
  <2>1. Entries' = OthersOf(Entries, k)
    BY <1>4, DeleteEntries, EntriesNow
  <2> QED BY <2>1, SameOperators DEF Recent!Delete
<1>5. ASSUME NEW t \in 2..MaxTime, DeleteElementsBefore(t) PROVE Recent!DeleteElementsBefore
  <2>1. \E m \in 0..Len(Entries) :
          /\ Entries' = SubSeq(Entries, 1, m)
          /\ m > 0 => \A i \in m + 1..Len(Entries) : Entries[i].time < Entries[m].time
    BY <1>5, PruneEntries, EntriesNow
  <2> QED BY <2>1 DEF Recent!DeleteElementsBefore
<1>6. ASSUME Clear PROVE Recent!Clear
  BY <1>6, ClearEntries, EntriesNow DEF Recent!Clear
<1>7. ASSUME Reopen PROVE Recent!Reopen
  <2>1. Len(Entries') = Len(Entries) /\ ToSet(Entries') = ToSet(Entries) /\ InOrder(Entries')
    BY <1>7, ReopenEntries, EntriesNow
  <2> QED BY <2>1, SameOperators DEF Recent!Reopen
<1>8. ASSUME NEW other \in Other, Merge(other)
      PROVE  \E e1, e2 \in Recent!Stored : Recent!Merge({e1, e2})
  <2>1. PICK e1 \in Stored, e2 \in Stored : Others(other) = {e1, e2}
    BY OthersOfOther DEF TypeOK
  <2>2. other \in Seq(Entry)
    BY OthersOfOther DEF TypeOK
  <2>3. MergesInto(Entries, {e1, e2}, Entries')
    BY <1>8, <2>1, <2>2, MergeEntries, EntriesNow
  <2>4. Recent!Merge({e1, e2})
    BY <2>3, SameOperators DEF MergesInto, MergeOf, Recent!Merge
  <2>5. Stored = Recent!Stored
    BY DEF Stored, Recent!Stored
  <2> QED BY <2>1, <2>4, <2>5
<1> QED
  BY <1>0, <1>1, <1>2, <1>3, <1>4, <1>5, <1>6, <1>7, <1>8 DEF Operation, Recent!Next

LEMMA RefNext == IInv /\ [Next]_vars => [Recent!Next]_Recent!recency_vars
<1> SUFFICES ASSUME IInv, [Next]_vars PROVE [Recent!Next]_Recent!recency_vars
  OBVIOUS
<1>1. CASE ~torn /\ Operation
  BY <1>1, RefOperation DEF IInv, CoherentInv
<1>2. ASSUME NEW k \in Key, KillInDelete(k) \/ KillInReplace(k) PROVE Recent!Next
  BY <1>2 DEF KillInDelete, KillInReplace, Kill, Recent!Next
<1>3. CASE Tick
  BY <1>3 DEF Tick, mapping, Entries, Recent!Next
<1>4. CASE UNCHANGED vars
  BY <1>4 DEF vars, mapping, Entries, Recent!recency_vars
<1> QED BY <1>1, <1>2, <1>3, <1>4 DEF Next

\* The storage keeps what lru_storage.h promises: up to Size entries from the
\* most to the least recently used, each operation moving, dropping or merging
\* them as the abstract list does, and a reopened file giving them all back.
THEOREM RefinesRecency == Spec => KeepsRecent
<1>1. Spec => []IInv
  BY IsCoherent
<1> QED BY <1>1, RefInit, RefNext, PTL DEF Spec, KeepsRecent, Recent!Spec

-----------------------------------------------------------------------------
(* The order of the list.                                                  *)

\* Latest first, and none later than t.
UpTo(E, t) == E \in Seq(Entry) /\ InOrder(E) /\ \A i \in 1..Len(E) : E[i].time <= t

\* While the clock runs forward no time is ahead of it.
SortedInv == ~torn /\ ~set_back => UpTo(Entries, now)

LEMMA UpToIs ==
  ASSUME NEW E \in Seq(Entry), NEW t,
         \A i, j \in 1..Len(E) : i < j => E[i].time >= E[j].time,
         \A i \in 1..Len(E) : E[i].time <= t
  PROVE  UpTo(E, t)
<1>1. DOMAIN E = 1..Len(E)
  BY LenProperties
<1>2. InOrder(E)
  BY <1>1 DEF InOrder
<1> QED BY <1>2 DEF UpTo

LEMMA UpToGives ==
  ASSUME NEW E, NEW t, UpTo(E, t)
  PROVE  /\ E \in Seq(Entry) /\ Len(E) \in Nat
         /\ \A i \in 1..Len(E) : E[i] \in Entry /\ E[i].time <= t
         /\ \A i, j \in 1..Len(E) : i < j => E[i].time >= E[j].time
<1>1. E \in Seq(Entry)
  BY DEF UpTo
<1>2. Len(E) \in Nat /\ DOMAIN E = 1..Len(E) /\ \A i \in 1..Len(E) : E[i] \in Entry
  BY <1>1, LenProperties, ElementOfSeq
<1> QED BY <1>1, <1>2 DEF UpTo, InOrder

LEMMA OthersUpTo ==
  ASSUME NEW E, NEW t, Distinct(E), UpTo(E, t), NEW k
  PROVE  UpTo(OthersOf(E, k), t)
<1>1. /\ E \in Seq(Entry) /\ Len(E) \in Nat
      /\ \A i \in 1..Len(E) : E[i] \in Entry /\ E[i].time <= t
      /\ \A i, j \in 1..Len(E) : i < j => E[i].time >= E[j].time
  BY UpToGives
<1>2. CASE \A i \in 1..Len(E) : E[i].fp # k
  BY <1>2, OthersAre
<1>3. ASSUME NEW p \in 1..Len(E), E[p].fp = k PROVE UpTo(OthersOf(E, k), t)
  <2> DEFINE R == RemoveAt(E, p)
             At(j) == IF j < p THEN j ELSE j + 1
  <2>1. OthersOf(E, k) = R
    BY <1>3, OthersAre
  <2>2. R \in Seq(Entry) /\ Len(R) = Len(E) - 1
        /\ \A j \in 1..Len(E) - 1 : R[j] = IF j < p THEN E[j] ELSE E[j + 1]
    BY <1>1, RemoveAtIs
  <2> HIDE DEF R
  <2>3. ASSUME NEW j \in 1..Len(R) PROVE At(j) \in 1..Len(E) /\ R[j] = E[At(j)]
    <3>1. j \in 1..Len(E) - 1 /\ j + 1 \in 1..Len(E) /\ j \in 1..Len(E)
      BY <1>1, <2>2
    <3> QED BY <2>2, <3>1
  <2>4. ASSUME NEW i \in 1..Len(R), NEW j \in 1..Len(R), i < j PROVE R[i].time >= R[j].time
    <3>1. At(i) < At(j)
      BY <1>1, <2>2, <2>4
    <3>2. /\ At(i) \in 1..Len(E) /\ R[i] = E[At(i)]
          /\ At(j) \in 1..Len(E) /\ R[j] = E[At(j)]
      BY <2>3
    <3> HIDE DEF At
    <3> QED BY <1>1, <3>1, <3>2
  <2>5. ASSUME NEW j \in 1..Len(R) PROVE R[j].time <= t
    <3>1. At(j) \in 1..Len(E) /\ R[j] = E[At(j)]
      BY <2>3
    <3> HIDE DEF At
    <3> QED BY <1>1, <3>1
  <2> QED BY <2>1, <2>2, <2>4, <2>5, UpToIs
<1> QED BY <1>2, <1>3

LEMMA PushedUpTo ==
  ASSUME NEW E, NEW t \in Nat, UpTo(E, t), NEW e \in Entry, e.time = t
  PROVE  UpTo(Pushed(e, E), t)
<1> DEFINE P == Pushed(e, E)
<1>1. /\ E \in Seq(Entry) /\ Len(E) \in Nat
      /\ \A i \in 1..Len(E) : E[i] \in Entry /\ E[i].time <= t
      /\ \A i, j \in 1..Len(E) : i < j => E[i].time >= E[j].time
  BY UpToGives
<1>2. P \in Seq(Entry) /\ Len(P) = Len(E) + 1 /\ P[1] = e
  BY <1>1, PushedEntry
<1>3. \A j \in 2..Len(E) + 1 : P[j] = E[j - 1]
  BY <1>1, PushedEntry
<1> HIDE DEF P
<1>4. ASSUME NEW j \in 1..Len(P), j # 1 PROVE j - 1 \in 1..Len(E) /\ P[j] = E[j - 1]
  BY <1>1, <1>2, <1>3, <1>4
<1>5. ASSUME NEW j \in 1..Len(P) PROVE P[j].time <= t
  <2>1. CASE j = 1
    BY <1>2, <2>1
  <2>2. CASE j # 1
    BY <1>1, <1>4, <2>2
  <2> QED BY <2>1, <2>2
<1>6. ASSUME NEW i \in 1..Len(P), NEW j \in 1..Len(P), i < j PROVE P[i].time >= P[j].time
  <2>1. j # 1 /\ j \in Nat /\ i \in Nat
    BY <1>6
  <2>2. E[j - 1] \in Entry /\ P[j] = E[j - 1] /\ j - 1 \in 1..Len(E)
    BY <1>1, <1>4, <2>1
  <2>3. CASE i = 1
    <3>1. P[i].time = t /\ P[j].time <= t /\ P[j].time \in Nat
      BY <1>2, <1>5, <2>2, <2>3, LruStorageAssumption DEF Entry
    <3> QED BY <3>1
  <2>4. CASE i # 1
    <3>1. i - 1 \in 1..Len(E) /\ P[i] = E[i - 1] /\ i - 1 < j - 1
      BY <1>4, <1>6, <2>1, <2>4
    <3> QED BY <1>1, <2>2, <3>1
  <2> QED BY <2>3, <2>4
<1> QED BY <1>2, <1>5, <1>6, UpToIs DEF P

LEMMA PrefixUpTo ==
  ASSUME NEW E, NEW t, UpTo(E, t), NEW m \in 0..Len(E)
  PROVE  UpTo(SubSeq(E, 1, m), t)
<1> DEFINE R == SubSeq(E, 1, m)
<1>1. /\ E \in Seq(Entry) /\ Len(E) \in Nat
      /\ \A i \in 1..Len(E) : E[i] \in Entry /\ E[i].time <= t
      /\ \A i, j \in 1..Len(E) : i < j => E[i].time >= E[j].time
  BY UpToGives
<1>2. /\ R \in Seq(Entry) /\ Len(R) = (IF 1 <= m THEN m - 1 + 1 ELSE 0)
      /\ \A j \in 1..m - 1 + 1 : R[j] = E[1 + j - 1]
  <2>1. \A i \in 1..m : E[i] \in Entry
    BY <1>1
  <2> QED BY <2>1, SubSeqProperties
<1> HIDE DEF R
<1>3. Len(R) = m /\ \A j \in 1..m : R[j] = E[j] /\ j \in 1..Len(E)
  BY <1>1, <1>2
<1>4. /\ \A i, j \in 1..Len(R) : i < j => R[i].time >= R[j].time
      /\ \A i \in 1..Len(R) : R[i].time <= t
  BY <1>1, <1>3
<1> QED BY <1>2, <1>4, UpToIs DEF R

LEMMA OperationSorted ==
  ASSUME TypeOK, Coherent(file, lru_list, lru_map, next_item), Operation,
         UpTo(Entries, now)
  PROVE  UpTo(Entries', now)
<1>0. now \in Nat /\ Distinct(Entries) /\ Len(Entries) \in Nat /\ Entries \in Seq(Entry)
  <2>1. Distinct(EntriesOf(file, lru_list))
    BY EntriesAre
  <2>2. EntriesOf(file, lru_list) \in Seq(Entry)
    BY EntriesSeq
  <2> QED BY <2>1, <2>2, EntriesNow, LenProperties DEF TypeOK
<1>1. /\ Entries' \in Seq(Entry) /\ Len(Entries') \in Nat /\ DOMAIN Entries' = 1..Len(Entries')
      /\ DOMAIN Entries = 1..Len(Entries)
      /\ \A i \in 1..Len(Entries) : Entries[i].time <= now
  <2>1. Coherent(file', lru_list', lru_map', next_item')
    BY OperationCoherent
  <2>2. EntriesOf(file', lru_list') \in Seq(Entry)
    BY <2>1, EntriesSeq
  <2> QED BY <1>0, <2>2, EntriesNow, LenProperties DEF UpTo
<1>2. ASSUME InOrder(Entries'), \A x \in ToSet(Entries') : x.time <= now
      PROVE  UpTo(Entries', now)
  BY <1>1, <1>2 DEF UpTo, ToSet
<1>3. ASSUME NEW k \in Key, NEW v \in Value, Insert(k, v) PROVE UpTo(Entries', now)
  <2> DEFINE u == Pushed(Item(k, v), OthersOf(Entries, k))
  <2>1. Entries' = Cut(u)
    BY <1>3, InsertEntries, EntriesNow
  <2>2. UpTo(OthersOf(Entries, k), now)
    BY <1>0, OthersUpTo
  <2>3. Item(k, v) \in Entry /\ Item(k, v).time = now
    BY EntryIs DEF TypeOK, Item
  <2>4. UpTo(u, now)
    BY <1>0, <2>2, <2>3, PushedUpTo
  <2> HIDE DEF u
  <2>5. Len(u) \in Nat
    BY <2>4, UpToGives
  <2>6. (IF Len(u) > Size THEN Size ELSE Len(u)) \in 0..Len(u)
    BY <2>5, LruStorageAssumption
  <2>7. UpTo(Cut(u), now)
    BY <2>4, <2>6, PrefixUpTo DEF Cut
  <2> QED BY <2>1, <2>7
<1>4. ASSUME NEW k \in Key, Touch(k) PROVE UpTo(Entries', now)
  <2>1. PICK i \in DOMAIN Entries :
          Entries' = Pushed([Entries[i] EXCEPT !.time = now], OthersOf(Entries, k))
    BY <1>4, TouchEntries, EntriesNow
  <2> DEFINE e == [Entries[i] EXCEPT !.time = now]
  <2>2. Entries[i] \in Entry
    BY <1>0, <1>1, ElementOfSeq
  <2>3. e \in Entry /\ e.time = now
    BY <2>2 DEF Entry, TypeOK
  <2>4. UpTo(OthersOf(Entries, k), now)
    BY <1>0, OthersUpTo
  <2> HIDE DEF e
  <2>5. UpTo(Pushed(e, OthersOf(Entries, k)), now)
    BY <1>0, <2>3, <2>4, PushedUpTo
  <2> QED BY <2>1, <2>5 DEF e
<1>5. ASSUME NEW k \in Key, Delete(k) PROVE UpTo(Entries', now)
  <2>1. Entries' = OthersOf(Entries, k)
    BY <1>5, DeleteEntries, EntriesNow
  <2> QED BY <1>0, <2>1, OthersUpTo
<1>6. ASSUME NEW t \in 2..MaxTime, DeleteElementsBefore(t) PROVE UpTo(Entries', now)
  <2>1. PICK m \in 0..Len(Entries) : Entries' = SubSeq(Entries, 1, m)
    BY <1>6, PruneEntries, EntriesNow
  <2>2. UpTo(SubSeq(Entries, 1, m), now)
    BY PrefixUpTo
  <2> QED BY <2>1, <2>2
<1>7. ASSUME Clear PROVE UpTo(Entries', now)
  <2>1. Entries' = << >>
    BY <1>7, ClearEntries, EntriesNow
  <2>2. Len(Entries') = 0
    BY <2>1
  <2> QED BY <1>1, <2>2 DEF UpTo, InOrder
<1>8. ASSUME Reopen PROVE UpTo(Entries', now)
  <2>1. ToSet(Entries') = ToSet(Entries) /\ InOrder(Entries')
    BY <1>8, ReopenEntries, EntriesNow
  <2>2. \A x \in ToSet(Entries) : x.time <= now
    BY <1>1 DEF ToSet
  <2> QED BY <1>2, <2>1, <2>2
<1>9. ASSUME NEW other \in Other, Merge(other) PROVE UpTo(Entries', now)
  <2>1. PICK e1 \in Stored, e2 \in Stored : Others(other) = {e1, e2}
    BY OthersOfOther DEF TypeOK
  <2>2. other \in Seq(Entry)
    BY OthersOfOther DEF TypeOK
  <2>3. MergesInto(Entries, {e1, e2}, Entries')
    BY <1>9, <2>1, <2>2, MergeEntries, EntriesNow
  <2>4. InOrder(Entries') /\ ToSet(Entries') \subseteq ToSet(Entries) \cup {e1, e2}
    BY <2>3 DEF MergesInto, MergeOf
  <2>5. e1.time <= now /\ e2.time <= now
    BY <1>0 DEF Stored
  <2>6. \A x \in ToSet(Entries) : x.time <= now
    BY <1>1 DEF ToSet
  <2> QED BY <1>2, <2>4, <2>5, <2>6
<1> QED BY <1>3, <1>4, <1>5, <1>6, <1>7, <1>8, <1>9 DEF Operation, TryInsert, Insert

\* GetAllValues gives the values from new to old as long as the clock was not
\* set back: neither a storage that is opened again nor one that is merged
\* with another puts an older entry before a newer one.
THEOREM StaysNewToOld == Spec => []NewToOld
<1>1. Init => SortedInv
  <2> SUFFICES ASSUME Init PROVE UpTo(Entries, now)
    BY DEF SortedInv
  <2>1. Entries = <<>>
    BY DEF Init, Entries
  <2> QED BY <2>1 DEF UpTo, InOrder
<1>2. IInv /\ SortedInv /\ [Next]_vars => SortedInv'
  <2> SUFFICES ASSUME IInv, SortedInv, [Next]_vars, ~torn', ~set_back' PROVE UpTo(Entries', now')
    BY DEF SortedInv
  <2>1. CASE ~torn /\ Operation
    <3>1. UNCHANGED <<now, set_back>>
      BY <2>1 DEF Operation, Insert, TryInsert, Update, Replace, Add, Touch, Delete,
                  DeleteElementsBefore, Clear, Reopen, Merge, NothingElse
    <3> QED BY <2>1, <3>1, OperationSorted DEF IInv, CoherentInv, SortedInv
  <2>2. CASE Tick
    <3>1. /\ UNCHANGED <<file, lru_list, torn>> /\ now' \in Nat /\ now \in Nat
          /\ ~set_back /\ now <= now'
      <4>1. UNCHANGED <<file, lru_list, torn>> /\ now' \in Nat /\ now \in Nat
        BY <2>2 DEF Tick, mapping, IInv, TypeOK
      <4>2. ~set_back /\ ~(now' < now)
        BY <2>2, Zenon DEF Tick
      <4> QED BY <4>1, <4>2
    <3>2. UpTo(Entries, now) /\ Entries' = Entries
      BY <3>1 DEF SortedInv, Entries
    <3>3. \A i \in 1..Len(Entries) : Entries[i].time \in Nat /\ Entries[i].time <= now
      <4>1. \A i \in 1..Len(Entries) : Entries[i] \in Entry /\ Entries[i].time <= now
        BY <3>2, UpToGives
      <4> QED BY <4>1, LruStorageAssumption DEF Entry
    <3>4. \A i \in 1..Len(Entries) : Entries[i].time <= now'
      BY <3>1, <3>3
    <3>5. UpTo(Entries, now')
      BY <3>2, <3>4 DEF UpTo
    <3> QED BY <3>2, <3>5
  <2>3. CASE UNCHANGED vars
    <3>1. UpTo(Entries, now) /\ Entries' = Entries /\ now' = now
      BY <2>3 DEF vars, mapping, SortedInv, Entries
    <3> QED BY <3>1
  <2>4. ASSUME NEW k \in Key, KillInDelete(k) \/ KillInReplace(k) PROVE FALSE
    BY <2>4 DEF KillInDelete, KillInReplace, Kill
  <2> QED BY <2>1, <2>2, <2>3, <2>4 DEF Next
<1>3. IInv /\ SortedInv => NewToOld
  <2> SUFFICES ASSUME IInv, UpTo(Entries, now), ~torn,
                      NEW i \in DOMAIN lru_list, NEW j \in DOMAIN lru_list, i < j
               PROVE  file[lru_list[i]].time >= file[lru_list[j]].time
    BY DEF NewToOld, SortedInv
  <2>1. DOMAIN Entries = DOMAIN lru_list
    BY DEF Entries
  <2>2. Entries[i].time >= Entries[j].time
    BY <2>1 DEF UpTo, InOrder
  <2> QED BY <2>2 DEF Entries
<1> QED BY <1>1, <1>2, <1>3, IsCoherent, PTL DEF Spec
=============================================================================
