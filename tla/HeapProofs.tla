----------------------------- MODULE HeapProofs -----------------------------
(***************************************************************************)
(* What holds of Heap for every size and alignment of memory_heap and every*)
(* sequence of calls.  IInv is inductive: HeapOK says what the list of free*)
(* blocks is, Holds that each allocated block has one holder. The lemmas   *)
(* before it say what the functions of memory.c do to a heap for which     *)
(* HeapOK holds; prvInsertBlockIntoFreeList is shown to be a link followed *)
(* by up to two joins, each of which keeps the heap in order.              *)
(***************************************************************************)
EXTENDS Heap, Lemmas, FiniteSetTheorems

-----------------------------------------------------------------------------
(* The bytes of a set of blocks.  The sum is a fold over a set; what it    *)
(* gives is found by induction over the number of elements.                *)

(* The bytes of a set of blocks: the sum Heap writes with MapThenSumSet.   *)
Total(block, S) == MapThenSumSet(LAMBDA a : block[a].size, S)

(* The element the sum takes off a set next.                               *)
Some(s) == CHOOSE x \in s : TRUE

(* The function the sum is defined by: what it gives for each subset.      *)
IsSum(block, S, sum) ==
  sum = [s \in SUBSET S |->
           IF s = {} THEN 0 ELSE block[Some(s)].size + sum[s \ {Some(s)}]]

(* Total is what that function gives for the whole set.                    *)
LEMMA TotalIs ==
  ASSUME NEW block, NEW S
  PROVE  Total(block, S) = (CHOOSE sum : IsSum(block, S, sum))[S]
BY DEF Total, MapThenSumSet, MapThenFoldSet, Some, IsSum

(* A set without the element taken off it is smaller by one.               *)
LEMMA Smaller ==
  ASSUME NEW s, s # {}, IsFiniteSet(s)
  PROVE  /\ Some(s) \in s
         /\ IsFiniteSet(s \ {Some(s)})
         /\ Cardinality(s) \in Nat /\ Cardinality(s \ {Some(s)}) \in Nat
         /\ Cardinality(s) = Cardinality(s \ {Some(s)}) + 1
<1>1. Some(s) \in s
  BY DEF Some
<1>2. /\ IsFiniteSet(s \ {Some(s)})
      /\ Cardinality(s \ {Some(s)}) = Cardinality(s) - 1
  BY <1>1, FS_RemoveElement
<1>3. Cardinality(s) \in Nat /\ Cardinality(s \ {Some(s)}) \in Nat
  BY <1>2, FS_CardinalityType
<1> QED
  BY <1>1, <1>2, <1>3

(* Such a function exists, by induction over the number of elements.       *)
LEMMA SumExists ==
  ASSUME NEW block, NEW S, IsFiniteSet(S)
  PROVE  \E sum : IsSum(block, S, sum)
<1> DEFINE Meets(g, s) ==
             g[s] = IF s = {} THEN 0
                    ELSE block[Some(s)].size + g[s \ {Some(s)}]
           UpTo(n) == {s \in SUBSET S : Cardinality(s) <= n}
           N == {n \in Nat : \E g : \A s \in UpTo(n) : Meets(g, s)}
<1>1. \A s \in SUBSET S : IsFiniteSet(s) /\ Cardinality(s) \in Nat
  BY FS_Subset, FS_CardinalityType
<1>2. 0 \in N
  <2> DEFINE g == [s \in SUBSET S |-> 0]
  <2>1. ASSUME NEW s \in UpTo(0) PROVE Meets(g, s)
    <3>1. Cardinality(s) = 0 /\ IsFiniteSet(s)
      BY <1>1
    <3>2. s = {}
      BY <3>1, FS_EmptySet
    <3> QED
      BY <3>2
  <2> HIDE DEF g, Meets, UpTo
  <2> QED
    BY <2>1
<1>3. ASSUME NEW n \in Nat, n \in N PROVE n + 1 \in N
  <2>1. PICK g : \A s \in UpTo(n) : Meets(g, s)
    BY <1>3
  <2> DEFINE h == [s \in SUBSET S |->
                     IF Cardinality(s) <= n THEN g[s]
                     ELSE block[Some(s)].size + g[s \ {Some(s)}]]
  <2>2. ASSUME NEW s \in UpTo(n + 1) PROVE Meets(h, s)
    <3>1. s \in SUBSET S /\ Cardinality(s) <= n + 1 /\ Cardinality(s) \in Nat
      BY <1>1
    <3>2. CASE s = {}
      <4>1. Cardinality(s) = 0
        BY <3>2, FS_EmptySet
      <4>2. s \in UpTo(n) /\ h[s] = g[s]
        BY <3>1, <4>1
      <4>3. Meets(g, s)
        BY <2>1, <4>2
      <4> QED
        BY <3>2, <4>2, <4>3
    <3>3. CASE s # {}
      <4> DEFINE t == s \ {Some(s)}
      <4>1. Cardinality(s) = Cardinality(t) + 1 /\ Cardinality(t) \in Nat
        BY <1>1, <3>3, Smaller
      <4>2. t \in SUBSET S /\ Cardinality(t) <= n /\ h[t] = g[t]
        BY <3>1, <4>1
      <4>3. CASE Cardinality(s) <= n
        <5>1. s \in UpTo(n) /\ h[s] = g[s]
          BY <3>1, <4>3
        <5>2. Meets(g, s)
          BY <2>1, <5>1
        <5> QED
          BY <3>3, <4>2, <5>1, <5>2
      <4>4. CASE ~(Cardinality(s) <= n)
        <5>1. h[s] = block[Some(s)].size + g[t]
          BY <3>1, <4>4
        <5> HIDE DEF h
        <5> QED
          BY <3>3, <4>2, <5>1
      <4> QED
        BY <4>3, <4>4
    <3> QED
      BY <3>2, <3>3
  <2> HIDE DEF h, Meets, UpTo
  <2> QED
    BY <2>2
<1>4. Cardinality(S) \in N
  <2> HIDE DEF N
  <2>1. Nat \subseteq N
    BY <1>2, <1>3, NatSetInduction
  <2> QED
    BY <1>1, <2>1
<1>5. PICK g : \A s \in UpTo(Cardinality(S)) : Meets(g, s)
  BY <1>4
<1>6. \A s \in SUBSET S : Cardinality(s) <= Cardinality(S)
  BY FS_Subset
<1> DEFINE sum == [s \in SUBSET S |-> g[s]]
<1>7. ASSUME NEW s \in SUBSET S
      PROVE  sum[s] = IF s = {} THEN 0
                      ELSE block[Some(s)].size + sum[s \ {Some(s)}]
  <2>1. s \in UpTo(Cardinality(S))
    BY <1>6
  <2>2. Meets(g, s)
    BY <1>5, <2>1
  <2>3. s \ {Some(s)} \in SUBSET S
    OBVIOUS
  <2> QED
    BY <2>2, <2>3
<1>8. IsSum(block, S, sum)
  BY <1>7 DEF IsSum
<1> QED
  BY <1>8

(* The functions for two sets agree on the subsets they share.             *)
LEMMA SumUnique ==
  ASSUME NEW block, NEW S, IsFiniteSet(S), NEW T, NEW sum, NEW other,
         IsSum(block, S, sum), IsSum(block, T, other)
  PROVE  \A s \in SUBSET S : s \in SUBSET T => sum[s] = other[s]
<1> DEFINE N == {n \in Nat : \A s \in SUBSET S :
                    s \in SUBSET T /\ Cardinality(s) = n => sum[s] = other[s]}
<1>1. \A s \in SUBSET S : IsFiniteSet(s) /\ Cardinality(s) \in Nat
  BY FS_Subset, FS_CardinalityType
<1>2. ASSUME NEW s \in SUBSET S, s \in SUBSET T
      PROVE  /\ sum[s] = IF s = {} THEN 0
                         ELSE block[Some(s)].size + sum[s \ {Some(s)}]
             /\ other[s] = IF s = {} THEN 0
                         ELSE block[Some(s)].size + other[s \ {Some(s)}]
  <2>1. sum[s] = IF s = {} THEN 0
                         ELSE block[Some(s)].size + sum[s \ {Some(s)}]
    BY DEF IsSum
  <2>2. other[s] = IF s = {} THEN 0
                         ELSE block[Some(s)].size + other[s \ {Some(s)}]
    BY <1>2 DEF IsSum
  <2> QED
    BY <2>1, <2>2
<1>3. 0 \in N
  <2>1. ASSUME NEW s \in SUBSET S, s \in SUBSET T, Cardinality(s) = 0
        PROVE  sum[s] = other[s]
    <3>1. s = {}
      BY <1>1, <2>1, FS_EmptySet
    <3> QED
      BY <1>2, <2>1, <3>1
  <2> QED
    BY <2>1
<1>4. ASSUME NEW n \in Nat, n \in N PROVE n + 1 \in N
  <2>1. ASSUME NEW s \in SUBSET S, s \in SUBSET T, Cardinality(s) = n + 1
        PROVE  sum[s] = other[s]
    <3>1. s # {}
      BY <2>1, FS_EmptySet
    <3> DEFINE t == s \ {Some(s)}
    <3>2. Cardinality(t) = n /\ t \in SUBSET S /\ t \in SUBSET T
      <4>1. Cardinality(s) = Cardinality(t) + 1 /\ Cardinality(t) \in Nat
        BY <1>1, <3>1, Smaller
      <4> QED
        BY <2>1, <4>1
    <3>3. sum[t] = other[t]
      <4> HIDE DEF t
      <4> QED
        BY <1>4, <3>2
    <3>4. sum[s] = block[Some(s)].size + sum[t]
      BY <1>2, <2>1, <3>1
    <3>5. other[s] = block[Some(s)].size + other[t]
      BY <1>2, <2>1, <3>1
    <3> QED
      BY <3>3, <3>4, <3>5
  <2> QED
    BY <2>1
<1>5. Nat \subseteq N
  <2> HIDE DEF N
  <2> QED
    BY <1>3, <1>4, NatSetInduction
<1>6. ASSUME NEW s \in SUBSET S, s \in SUBSET T PROVE sum[s] = other[s]
  <2>1. Cardinality(s) \in N
    BY <1>1, <1>5
  <2> QED
    BY <1>6, <2>1
<1> QED
  BY <1>6

(* The sum is the size of the element taken off and the sum of the rest.   *)
LEMMA TotalStep ==
  ASSUME NEW block, NEW S, IsFiniteSet(S)
  PROVE  Total(block, S) = IF S = {} THEN 0
                           ELSE block[Some(S)].size + Total(block, S \ {Some(S)})
<1> DEFINE T == S \ {Some(S)}
           sum == CHOOSE g : IsSum(block, S, g)
           other == CHOOSE g : IsSum(block, T, g)
<1>1. IsFiniteSet(T)
  BY FS_Subset
<1>2. IsSum(block, S, sum) /\ IsSum(block, T, other)
  <2>1. (\E g : IsSum(block, S, g)) /\ (\E g : IsSum(block, T, g))
    <3> HIDE DEF T
    <3> QED
      BY <1>1, SumExists
  <2> QED
    BY <2>1, Zenon
<1>3. Total(block, S) = sum[S] /\ Total(block, T) = other[T]
  BY TotalIs
<1> HIDE DEF sum, other
<1>4. sum[T] = other[T]
  <2>1. T \in SUBSET S /\ T \in SUBSET T
    OBVIOUS
  <2> HIDE DEF T
  <2> QED
    BY <1>2, <2>1, SumUnique
<1>5. sum[S] = IF S = {} THEN 0 ELSE block[Some(S)].size + sum[T]
  BY <1>2 DEF IsSum
<1> QED
  BY <1>3, <1>4, <1>5

(* The bytes of a finite set of blocks are a number.                       *)
LEMMA TotalNat ==
  ASSUME NEW block, NEW S, IsFiniteSet(S), \A a \in S : block[a].size \in Nat
  PROVE  Total(block, S) \in Nat
<1> DEFINE N == {n \in Nat : \A s \in SUBSET S :
                               Cardinality(s) = n => Total(block, s) \in Nat}
<1>1. \A s \in SUBSET S : IsFiniteSet(s) /\ Cardinality(s) \in Nat
  BY FS_Subset, FS_CardinalityType
<1>2. 0 \in N
  <2>1. ASSUME NEW s \in SUBSET S, Cardinality(s) = 0 PROVE Total(block, s) \in Nat
    <3>1. s = {} /\ IsFiniteSet(s)
      BY <1>1, <2>1, FS_EmptySet
    <3>2. Total(block, s) = 0
      BY <3>1, TotalStep
    <3> QED
      BY <3>2
  <2> QED
    BY <2>1
<1>3. ASSUME NEW n \in Nat, n \in N PROVE n + 1 \in N
  <2>1. ASSUME NEW s \in SUBSET S, Cardinality(s) = n + 1
        PROVE  Total(block, s) \in Nat
    <3>1. s # {} /\ IsFiniteSet(s)
      BY <1>1, <2>1, FS_EmptySet
    <3>2. /\ Cardinality(s \ {Some(s)}) \in Nat /\ Some(s) \in s
          /\ Cardinality(s) = Cardinality(s \ {Some(s)}) + 1
      BY <3>1, Smaller
    <3>3. Total(block, s \ {Some(s)}) \in Nat
      <4>1. Cardinality(s \ {Some(s)}) = n /\ s \ {Some(s)} \in SUBSET S
        BY <2>1, <3>2
      <4> QED
        BY <1>3, <4>1
    <3>4. Total(block, s) = block[Some(s)].size + Total(block, s \ {Some(s)})
      BY <3>1, TotalStep
    <3> QED
      BY <3>2, <3>3, <3>4
  <2> QED
    BY <2>1
<1>4. Nat \subseteq N
  <2> HIDE DEF N
  <2> QED
    BY <1>2, <1>3, NatSetInduction
<1>5. Cardinality(S) \in N
  BY <1>1, <1>4
<1> QED
  BY <1>5

(* It does not matter which block is counted first.                        *)
LEMMA TotalTake ==
  ASSUME NEW block, NEW S, IsFiniteSet(S), \A a \in S : block[a].size \in Nat,
         NEW x \in S
  PROVE  Total(block, S) = block[x].size + Total(block, S \ {x})
<1> DEFINE N == {n \in Nat :
                   \A s \in SUBSET S : Cardinality(s) = n =>
                     \A y \in s : Total(block, s)
                                    = block[y].size + Total(block, s \ {y})}
<1>1. \A s \in SUBSET S : IsFiniteSet(s) /\ Cardinality(s) \in Nat
  BY FS_Subset, FS_CardinalityType
<1>2. 0 \in N
  <2>1. ASSUME NEW s \in SUBSET S, Cardinality(s) = 0 PROVE s = {}
    BY <1>1, <2>1, FS_EmptySet
  <2> QED
    BY <2>1
<1>3. ASSUME NEW n \in Nat, n \in N PROVE n + 1 \in N
  <2>1. ASSUME NEW s \in SUBSET S, Cardinality(s) = n + 1, NEW y \in s
        PROVE  Total(block, s) = block[y].size + Total(block, s \ {y})
    <3> DEFINE p == Some(s)
               t == s \ {p}
               u == s \ {y}
    <3>1. s # {} /\ IsFiniteSet(s)
      BY <1>1
    <3>2. /\ Cardinality(t) \in Nat /\ p \in s
          /\ Cardinality(s) = Cardinality(t) + 1
      BY <3>1, Smaller
    <3>3. Total(block, s) = block[p].size + Total(block, t)
      BY <3>1, TotalStep
    <3>4. CASE p = y
      BY <3>3, <3>4
    <3>5. CASE p # y
      <4>1. Cardinality(t) = n /\ t \in SUBSET S /\ y \in t
        BY <2>1, <3>2, <3>5
      <4>2. Cardinality(u) = n /\ u \in SUBSET S /\ p \in u
        <5>1. Cardinality(u) = Cardinality(s) - 1
          BY <3>1, FS_RemoveElement
        <5> QED
          BY <2>1, <3>2, <3>5, <5>1
      <4>3. t \ {y} = u \ {p}
        OBVIOUS
      <4>4. Total(block, t \ {y}) \in Nat
        <5>1. IsFiniteSet(t \ {y})
          BY <3>1, FS_Subset
        <5>2. \A a \in t \ {y} : block[a].size \in Nat
          OBVIOUS
        <5> QED
          BY <5>1, <5>2, TotalNat
      <4>5. block[p].size \in Nat /\ block[y].size \in Nat
        BY <3>2
      <4> HIDE DEF p, t, u
      <4>6. Total(block, t) = block[y].size + Total(block, t \ {y})
        BY <1>3, <4>1
      <4>7. Total(block, u) = block[p].size + Total(block, t \ {y})
        BY <1>3, <4>2, <4>3
      <4>8. Total(block, s) = block[y].size + Total(block, u)
        BY <3>3, <4>4, <4>5, <4>6, <4>7
      <4> QED
        BY <4>8 DEF u
    <3> QED
      BY <3>4, <3>5
  <2> QED
    BY <2>1
<1>4. Nat \subseteq N
  <2> HIDE DEF N
  <2> QED
    BY <1>2, <1>3, NatSetInduction
<1>5. Cardinality(S) \in N
  BY <1>1, <1>4
<1> QED
  BY <1>5

(* Blocks of the same sizes have the same bytes.                           *)
LEMMA TotalSame ==
  ASSUME NEW block, NEW other, NEW S, IsFiniteSet(S),
         \A a \in S : block[a].size = other[a].size
  PROVE  Total(block, S) = Total(other, S)
<1> DEFINE N == {n \in Nat : \A s \in SUBSET S :
                   Cardinality(s) = n => Total(block, s) = Total(other, s)}
<1>1. \A s \in SUBSET S : IsFiniteSet(s) /\ Cardinality(s) \in Nat
  BY FS_Subset, FS_CardinalityType
<1>2. 0 \in N
  <2>1. ASSUME NEW s \in SUBSET S, Cardinality(s) = 0
        PROVE  Total(block, s) = Total(other, s)
    <3>1. s = {} /\ IsFiniteSet(s)
      BY <1>1, <2>1, FS_EmptySet
    <3>2. Total(block, s) = 0 /\ Total(other, s) = 0
      BY <3>1, TotalStep
    <3> QED
      BY <3>2
  <2> QED
    BY <2>1
<1>3. ASSUME NEW n \in Nat, n \in N PROVE n + 1 \in N
  <2>1. ASSUME NEW s \in SUBSET S, Cardinality(s) = n + 1
        PROVE  Total(block, s) = Total(other, s)
    <3>1. s # {} /\ IsFiniteSet(s)
      BY <1>1, <2>1, FS_EmptySet
    <3>2. /\ Cardinality(s \ {Some(s)}) \in Nat /\ Some(s) \in s
          /\ Cardinality(s) = Cardinality(s \ {Some(s)}) + 1
      BY <3>1, Smaller
    <3>3. Total(block, s \ {Some(s)}) = Total(other, s \ {Some(s)})
      <4>1. Cardinality(s \ {Some(s)}) = n /\ s \ {Some(s)} \in SUBSET S
        BY <2>1, <3>2
      <4> QED
        BY <1>3, <4>1
    <3>4. Total(block, s) = block[Some(s)].size + Total(block, s \ {Some(s)})
      BY <3>1, TotalStep
    <3>5. Total(other, s) = other[Some(s)].size + Total(other, s \ {Some(s)})
      BY <3>1, TotalStep
    <3>6. block[Some(s)].size = other[Some(s)].size
      BY <3>2
    <3> QED
      BY <3>3, <3>4, <3>5, <3>6
  <2> QED
    BY <2>1
<1>4. Nat \subseteq N
  <2> HIDE DEF N
  <2> QED
    BY <1>2, <1>3, NatSetInduction
<1>5. Cardinality(S) \in N
  BY <1>1, <1>4
<1> QED
  BY <1>5

(* No blocks have no bytes.                                                *)
LEMMA TotalEmpty == ASSUME NEW block PROVE Total(block, {}) = 0
BY TotalStep, FS_EmptySet

(* A part of the blocks has no more bytes than all of them.                *)
LEMMA TotalPart ==
  ASSUME NEW block, NEW S, IsFiniteSet(S), \A a \in S : block[a].size \in Nat,
         NEW T, T \subseteq S
  PROVE  Total(block, T) <= Total(block, S)
<1> DEFINE N == {n \in Nat : \A t \in SUBSET S :
                   Cardinality(S \ t) = n => Total(block, t) <= Total(block, S)}
<1>1. \A t \in SUBSET S : /\ IsFiniteSet(S \ t) /\ Cardinality(S \ t) \in Nat
                          /\ IsFiniteSet(t) /\ Total(block, t) \in Nat
  <2>1. ASSUME NEW t \in SUBSET S
        PROVE  /\ IsFiniteSet(S \ t) /\ Cardinality(S \ t) \in Nat
               /\ IsFiniteSet(t) /\ Total(block, t) \in Nat
    <3>1. IsFiniteSet(S \ t) /\ IsFiniteSet(t)
      BY FS_Subset
    <3>2. \A a \in t : block[a].size \in Nat
      OBVIOUS
    <3> QED
      BY <3>1, <3>2, FS_CardinalityType, TotalNat
  <2> QED
    BY <2>1
<1>2. 0 \in N
  <2>1. ASSUME NEW t \in SUBSET S, Cardinality(S \ t) = 0
        PROVE  Total(block, t) <= Total(block, S)
    <3>1. S \ t = {}
      BY <1>1, <2>1, FS_EmptySet
    <3>2. t = S
      BY <3>1
    <3>3. Total(block, t) \in Nat
      BY <1>1
    <3>4. Total(block, t) = Total(block, S)
      BY <3>2, Zenon
    <3> QED
      BY ONLY <3>3, <3>4
  <2> QED
    BY <2>1
<1>3. ASSUME NEW n \in Nat, n \in N PROVE n + 1 \in N
  <2>1. ASSUME NEW t \in SUBSET S, Cardinality(S \ t) = n + 1
        PROVE  Total(block, t) <= Total(block, S)
    <3>1. S \ t # {}
      <4> DEFINE d == S \ t
      <4>1. Cardinality(d) = n + 1
        BY <2>1
      <4> HIDE DEF d
      <4>2. d = {} => Cardinality(d) = 0
        BY FS_EmptySet, Zenon
      <4>3. d # {}
        BY ONLY <4>1, <4>2, n \in Nat
      <4> QED
        BY <4>3 DEF d
    <3>2. PICK x \in S \ t : TRUE
      BY <3>1
    <3> DEFINE u == t \cup {x}
    <3>3. u \in SUBSET S /\ S \ u = (S \ t) \ {x} /\ u \ {x} = t /\ x \in u
      BY <3>2
    <3>4. Cardinality(S \ u) = n
      <4>1. IsFiniteSet(S \ t) /\ x \in S \ t
        BY <1>1, <3>2
      <4>2. Cardinality((S \ t) \ {x}) = Cardinality(S \ t) - 1
        BY ONLY <4>1, FS_RemoveElement
      <4>3. Cardinality(S \ u) = Cardinality((S \ t) \ {x})
        BY <3>3, Zenon
      <4> HIDE DEF u
      <4> QED
        BY <2>1, <4>2, <4>3
    <3>5. Total(block, u) <= Total(block, S)
      BY <1>3, <3>3, <3>4
    <3>6. IsFiniteSet(u) /\ \A a \in u : block[a].size \in Nat
      BY <1>1, <3>3
    <3> HIDE DEF u
    <3>7. Total(block, u) = block[x].size + Total(block, u \ {x})
      BY ONLY <3>3, <3>6, TotalTake
    <3>8. Total(block, u) = block[x].size + Total(block, t)
      BY ONLY <3>3, <3>7
    <3>9. Total(block, t) \in Nat /\ block[x].size \in Nat
      BY <1>1, <3>2
    <3>10. Total(block, S) \in Nat
      BY TotalNat
    <3> QED
      BY ONLY <3>5, <3>8, <3>9, <3>10
  <2> QED
    BY <2>1
<1>4. Nat \subseteq N
  <2> HIDE DEF N
  <2> QED
    BY <1>2, <1>3, NatSetInduction
<1>5. Cardinality(S \ T) \in N
  BY <1>1, <1>4
<1> QED
  BY <1>5

(* The bytes stay the same when one block takes over those of another.     *)
LEMMA TotalJoined ==
  ASSUME NEW block, NEW other, NEW S, IsFiniteSet(S),
         \A a \in S : block[a].size \in Nat,
         NEW x \in S, NEW y \in S, x # y,
         other[x].size = block[x].size + block[y].size,
         \A a \in S \ {x, y} : other[a].size = block[a].size
  PROVE  Total(other, S \ {y}) = Total(block, S)
<1> DEFINE rest == S \ {x, y}
<1>1. /\ IsFiniteSet(S \ {y}) /\ IsFiniteSet(rest)
      /\ \A a \in S \ {y} : other[a].size \in Nat
      /\ \A a \in S \ {y} : block[a].size \in Nat
      /\ rest = (S \ {y}) \ {x}
  BY FS_Subset
<1>2. Total(block, S) = block[y].size + Total(block, S \ {y})
  BY TotalTake
<1>3. Total(block, S \ {y}) = block[x].size + Total(block, rest)
  BY <1>1, TotalTake
<1>4. Total(other, S \ {y}) = other[x].size + Total(other, rest)
  BY <1>1, TotalTake
<1>5. Total(other, rest) = Total(block, rest)
  BY <1>1, TotalSame
<1>6. Total(block, rest) \in Nat
  BY <1>1, TotalNat
<1> HIDE DEF rest
<1> QED
  BY <1>2, <1>3, <1>4, <1>5, <1>6

-----------------------------------------------------------------------------
(* The layout of the heap.                                                 *)

(* A multiple leaves no remainder.                                         *)
LEMMA Multiple ==
  ASSUME NEW A \in Nat \ {0}, NEW k \in Int
  PROVE  (A * k) % A = 0
OBVIOUS

(* Aligned rounds down to a multiple of the alignment.                     *)
LEMMA AlignedIs ==
  ASSUME NEW n \in Int
  PROVE  /\ Aligned(n) \in Int
         /\ Aligned(n) <= n /\ n < Aligned(n) + MEMORY_BYTE_ALIGNMENT
         /\ Aligned(n) % MEMORY_BYTE_ALIGNMENT = 0
<1> DEFINE A == MEMORY_BYTE_ALIGNMENT
<1>1. A \in Nat /\ A > 0
  BY HeapAssumption
<1> HIDE DEF A
<1>2. n % A \in 0..(A - 1) /\ n = A * (n \div A) + (n % A) /\ n \div A \in Int
  BY <1>1
<1>3. Aligned(n) = A * (n \div A)
  BY <1>2, <1>1 DEF Aligned, A
<1>4. (A * (n \div A)) % A = 0
  <2> DEFINE k == n \div A
  <2>1. k \in Int /\ A \in Nat \ {0}
    BY <1>1, <1>2
  <2> HIDE DEF k
  <2>2. (A * k) % A = 0
    BY <2>1, Multiple
  <2> QED
    BY <2>2 DEF k
<1> QED
  BY <1>1, <1>2, <1>3, <1>4 DEF A

(* A sum of multiples of the alignment is one.                             *)
LEMMA AlignedSum ==
  ASSUME NEW m \in Int, NEW n \in Int,
         m % MEMORY_BYTE_ALIGNMENT = 0, n % MEMORY_BYTE_ALIGNMENT = 0
  PROVE  (m + n) % MEMORY_BYTE_ALIGNMENT = 0
<1> DEFINE A == MEMORY_BYTE_ALIGNMENT
<1>1. A \in Nat /\ A > 0
  BY HeapAssumption
<1> HIDE DEF A
<1>2. m = A * (m \div A) + (m % A) /\ n = A * (n \div A) + (n % A)
      /\ m \div A \in Int /\ n \div A \in Int
  BY <1>1
<1>3. m + n = A * ((m \div A) + (n \div A))
  BY <1>1, <1>2 DEF A
<1>4. (A * ((m \div A) + (n \div A))) % A = 0
  BY <1>1, <1>2, Multiple
<1> QED
  BY <1>3, <1>4 DEF A

(* Where the heap begins and ends, and how long a header is.               *)
LEMMA Layout ==
  /\ xHeapStructSize \in Nat /\ xHeapStructSize > 0
  /\ xHeapStructSize % MEMORY_BYTE_ALIGNMENT = 0
  /\ MEMORY_HEAP_MINIMUM_BLOCK_SIZE \in Nat /\ MEMORY_HEAP_MINIMUM_BLOCK_SIZE > 0
  /\ pucAlignedHeap \in Nat /\ pucAlignedHeap % MEMORY_BYTE_ALIGNMENT = 0
  /\ HeapAddress <= pucAlignedHeap /\ 0 < pucAlignedHeap
  /\ pucAlignedHeap < pxEnd
  /\ pxEnd \in Nat /\ pxEnd % MEMORY_BYTE_ALIGNMENT = 0
  /\ pxEnd <= HeapAddress + LWCAN_MEM_SIZE - xHeapStructSize
  /\ HeapAddress \in Nat /\ LWCAN_MEM_SIZE \in Nat
<1>1. /\ MEMORY_BYTE_ALIGNMENT \in Nat /\ MEMORY_BYTE_ALIGNMENT > 0
      /\ LinkSize \in Nat /\ LinkSize > 0 /\ HeapAddress \in Nat /\ HeapAddress > 0
      /\ LWCAN_MEM_SIZE \in Nat
  BY HeapAssumption
<1>2. /\ xHeapStructSize \in Int /\ xHeapStructSize % MEMORY_BYTE_ALIGNMENT = 0
      /\ LinkSize <= xHeapStructSize
  BY <1>1, AlignedIs DEF xHeapStructSize, AlignedUp
<1>3. /\ pucAlignedHeap \in Int /\ pucAlignedHeap % MEMORY_BYTE_ALIGNMENT = 0
      /\ HeapAddress <= pucAlignedHeap
  BY <1>1, AlignedIs DEF pucAlignedHeap, AlignedUp
<1>4. /\ pxEnd \in Int /\ pxEnd % MEMORY_BYTE_ALIGNMENT = 0
      /\ pxEnd <= HeapAddress + LWCAN_MEM_SIZE - xHeapStructSize
  BY <1>1, <1>2, AlignedIs DEF pxEnd
<1>5. MEMORY_HEAP_MINIMUM_BLOCK_SIZE = 2 * xHeapStructSize
  BY DEF MEMORY_HEAP_MINIMUM_BLOCK_SIZE
<1> QED
  BY <1>1, <1>2, <1>3, <1>4, <1>5, HeapFits

(* A block is aligned and has room for the request and its header.         *)
LEMMA BlockSizeIs ==
  ASSUME NEW size \in Nat
  PROVE  /\ BlockSize(size) \in Nat
         /\ BlockSize(size) % MEMORY_BYTE_ALIGNMENT = 0
         /\ size = 0 => BlockSize(size) = 0
         /\ size # 0 => BlockSize(size) >= size + xHeapStructSize
<1>1. CASE size = 0
  <2>1. 0 % MEMORY_BYTE_ALIGNMENT = 0
    BY HeapAssumption
  <2> QED
    BY <1>1, <2>1 DEF BlockSize
<1>2. CASE size # 0
  <2>1. MEMORY_BYTE_ALIGNMENT \in Nat
    BY HeapAssumption
  <2> DEFINE n == size + xHeapStructSize + MEMORY_BYTE_ALIGNMENT - 1
  <2>2. n \in Int
    BY <2>1, Layout
  <2>3. BlockSize(size) = Aligned(n)
    BY <1>2 DEF BlockSize, AlignedUp
  <2>4. /\ Aligned(n) \in Int
        /\ n < Aligned(n) + MEMORY_BYTE_ALIGNMENT
        /\ Aligned(n) % MEMORY_BYTE_ALIGNMENT = 0
    BY <2>2, AlignedIs
  <2> QED
    BY <1>2, <2>1, <2>3, <2>4, Layout
<1> QED
  BY <1>1, <1>2

-----------------------------------------------------------------------------
(* The list of free blocks, and the walks along it.                        *)

(* What a header is.                                                       *)
Header == [size : Nat, next : Int, allocated : BOOLEAN]

(* The blocks of the heap, without the two ends of the list.               *)
Inner(block) == DOMAIN block \ {xStart, pxEnd}

(* The headers of a heap, and what its two ends are.                       *)
Shaped(block) ==
  /\ block \in [DOMAIN block -> Header]
  /\ IsFiniteSet(DOMAIN block)
  /\ {xStart, pxEnd} \subseteq DOMAIN block
  /\ block[xStart].size = 0 /\ ~block[xStart].allocated
  /\ block[pxEnd] = Free(0, NULL)

(* The blocks lie one behind the other from the start of the heap to pxEnd.*)
Tiled(block) ==
  /\ pucAlignedHeap \in Inner(block)
  /\ \A a \in Inner(block) :
       /\ a \in pucAlignedHeap..(pxEnd - 1)
       /\ a % MEMORY_BYTE_ALIGNMENT = 0
       /\ block[a].size > 0
       /\ a + block[a].size \in Inner(block) \cup {pxEnd}
       /\ \A b \in Inner(block) : ~(a < b /\ b < a + block[a].size)

(* The list is the blocks of F in the order of their addresses.            *)
Chained(block, F) ==
  /\ F \subseteq Inner(block)
  /\ \A a \in F \cup {xStart} :
       /\ block[a].next \in F \cup {pxEnd}
       /\ a < block[a].next
       /\ \A b \in F : ~(a < b /\ b < block[a].next)

(* No two blocks of F touch: they would have been merged.                  *)
Apart(block, F) == \A a \in F : a + block[a].size \notin F

(* A heap whose list is the blocks of F.                                   *)
Listed(block, F) == Shaped(block) /\ Tiled(block) /\ Chained(block, F)

(* The addresses of the list are numbers below pxEnd.                      *)
LEMMA ChainIs ==
  ASSUME NEW block, NEW F, Tiled(block), Chained(block, F)
  PROVE  /\ F \cup {xStart} \subseteq Nat /\ xStart \notin F /\ pxEnd \notin F
         /\ \A a \in F \cup {xStart} : a < pxEnd
         /\ \A a \in F : a > 0
         /\ \A a \in F \cup {xStart} : block[a].next \in Nat
<1>1. \A a \in F : a \in Nat /\ a > 0 /\ a < pxEnd
  BY Layout DEF Chained, Tiled, Inner
<1>2. xStart \in Nat /\ xStart = 0 /\ 0 < pxEnd /\ pxEnd \in Nat
  BY Layout DEF xStart
<1>3. \A a \in F \cup {xStart} : block[a].next \in F \cup {pxEnd}
  BY DEF Chained
<1> QED
  BY <1>1, <1>2, <1>3

(* The parts of Listed, with the types of the fields.                      *)
LEMMA ListedIs ==
  ASSUME NEW block, NEW F, Listed(block, F)
  PROVE  /\ block \in [DOMAIN block -> Header] /\ IsFiniteSet(DOMAIN block)
         /\ xStart \in DOMAIN block /\ pxEnd \in DOMAIN block /\ xStart # pxEnd
         /\ block[xStart].size = 0 /\ ~block[xStart].allocated
         /\ block[pxEnd] = Free(0, NULL)
         /\ F \subseteq Inner(block) /\ Inner(block) = DOMAIN block \ {xStart, pxEnd}
         /\ IsFiniteSet(Inner(block)) /\ IsFiniteSet(F)
         /\ xStart = 0 /\ pxEnd \in Nat /\ pxEnd > 0
         /\ \A z \in Inner(block) :
              /\ z \in pucAlignedHeap..(pxEnd - 1)
              /\ z \in Nat /\ z < pxEnd /\ z > 0
              /\ z % MEMORY_BYTE_ALIGNMENT = 0
              /\ block[z].size > 0 /\ block[z].size \in Nat
              /\ z + block[z].size \in Inner(block) \cup {pxEnd}
              /\ \A b \in Inner(block) : ~(z < b /\ b < z + block[z].size)
         /\ \A z \in F \cup {xStart} :
              /\ block[z].next \in F \cup {pxEnd} /\ block[z].next \in Nat
              /\ z \in Nat /\ z < block[z].next
              /\ \A b \in F : ~(z < b /\ b < block[z].next)
<1>1. /\ block \in [DOMAIN block -> Header] /\ IsFiniteSet(DOMAIN block)
      /\ xStart \in DOMAIN block /\ pxEnd \in DOMAIN block
      /\ block[xStart].size = 0 /\ ~block[xStart].allocated
      /\ block[pxEnd] = Free(0, NULL)
      /\ F \subseteq Inner(block) /\ Inner(block) = DOMAIN block \ {xStart, pxEnd}
  BY DEF Listed, Shaped, Chained, Inner
<1>2. xStart = 0 /\ pxEnd \in Nat /\ pxEnd > 0
  BY Layout DEF xStart
<1>3. \A z \in Inner(block) : block[z].size \in Nat
  BY <1>1 DEF Header
<1>4. \A z \in Inner(block) : z \in pucAlignedHeap..(pxEnd - 1)
  BY DEF Listed, Tiled
<1>5. \A z \in Inner(block) : z \in Nat /\ z < pxEnd /\ z > 0
  BY <1>4, Layout
<1>6. \A z \in F \cup {xStart} :
        /\ block[z].next \in F \cup {pxEnd} /\ block[z].next \in Nat
        /\ z \in Nat /\ z < block[z].next
        /\ \A b \in F : ~(z < b /\ b < block[z].next)
  BY ChainIs DEF Listed, Chained
<1>7. IsFiniteSet(Inner(block)) /\ IsFiniteSet(F)
  BY <1>1, FS_Subset
<1>8. \A z \in Inner(block) :
        /\ z % MEMORY_BYTE_ALIGNMENT = 0
        /\ block[z].size > 0
        /\ z + block[z].size \in Inner(block) \cup {pxEnd}
        /\ \A b \in Inner(block) : ~(z < b /\ b < z + block[z].size)
  BY DEF Listed, Tiled
<1> QED
  BY <1>1, <1>2, <1>3, <1>4, <1>5, <1>6, <1>7, <1>8

(* The walk of prvInsertBlockIntoFreeList stops at the last block of the   *)
(* list below a.  The walk is a recursive function; which value it has is  *)
(* found by the largest address at which it could be another.              *)
LEMMA BeforeIs ==
  ASSUME NEW block, NEW F, Tiled(block), Chained(block, F),
         {xStart} \cup F \subseteq DOMAIN block,
         NEW a \in 1..pxEnd,
         \A x \in Links(block) : x \in F \cup {xStart} \/ ~(block[x].next < a)
  PROVE  /\ Before(block, a) \in F \cup {xStart}
         /\ Before(block, a) < a
         /\ block[Before(block, a)].next >= a
<1> DEFINE L == F \cup {xStart}
           below == {i \in L : i < a}
           IsWalk(w) == w = [i \in Links(block) |->
                               IF block[i].next < a THEN w[block[i].next] ELSE i]
<1>1. /\ L \subseteq Nat /\ pxEnd \in Nat /\ a \in Nat /\ xStart = 0
      /\ a <= pxEnd /\ 0 < a
  BY ChainIs, Layout DEF xStart
<1>2. \A i \in L : /\ block[i].next \in F \cup {pxEnd} /\ block[i].next \in Nat
                   /\ i < block[i].next
                   /\ \A b \in F : ~(i < b /\ b < block[i].next)
  BY ChainIs DEF Chained
<1>3. PICK m \in below : \A i \in below : i <= m
  <2>1. below \in SUBSET Nat /\ xStart \in below /\ \A i \in below : i <= a
    BY <1>1
  <2> HIDE DEF below
  <2> QED
    BY <1>1, <2>1, GreatestExists
<1>4. L \subseteq Links(block)
  <2>1. ASSUME NEW i \in L PROVE i \in DOMAIN block /\ block[i].next # NULL
    BY <1>1, <1>2 DEF NULL
  <2> QED
    BY <2>1 DEF Links
<1>5. \A i \in L : block[i].next < a => block[i].next \in below /\ block[i].next \in F
  BY <1>1, <1>2
<1>6. block[m].next >= a
  BY <1>1, <1>2, <1>3, <1>5
<1>7. \E w : IsWalk(w)
  <2> DEFINE w == [i \in Links(block) |-> IF i \in below THEN m ELSE i]
  <2>1. ASSUME NEW i \in Links(block)
        PROVE  w[i] = IF block[i].next < a THEN w[block[i].next] ELSE i
    <3>1. CASE i \in below /\ block[i].next < a
      <4>1. block[i].next \in below /\ block[i].next \in Links(block)
        BY <1>4, <1>5, <3>1
      <4> QED
        BY <3>1, <4>1
    <3>2. CASE i \in below /\ ~(block[i].next < a)
      <4>1. i = m
        <5>1. i \in L /\ m \in L /\ i <= m /\ i \in Nat /\ m \in Nat /\ m < a
          BY <1>1, <1>3, <3>2
        <5>2. ASSUME i < m PROVE FALSE
          <6>1. m \in F
            BY <1>1, <5>1, <5>2
          <6>2. ~(i < m /\ m < block[i].next) /\ block[i].next \in Nat
            BY <1>2, <5>1, <6>1
          <6> QED
            BY <1>1, <3>2, <5>1, <5>2, <6>2
        <5> QED
          BY <5>1, <5>2
      <4> QED
        BY <3>2, <4>1
    <3>3. CASE i \notin below
      <4>1. ~(block[i].next < a)
        <5>1. CASE i \in L
          BY <1>1, <1>2, <3>3, <5>1
        <5>2. CASE i \notin L
          BY <5>2
        <5> QED
          BY <5>1, <5>2
      <4> QED
        BY <3>3, <4>1
    <3> QED
      BY <3>1, <3>2, <3>3
  <2>2. IsWalk(w)
    BY <2>1
  <2> HIDE DEF IsWalk, w
  <2> QED
    BY <2>2
<1> DEFINE walk == CHOOSE w : IsWalk(w)
<1>8. Before(block, a) = walk[xStart]
  BY DEF Before
<1>9. \A i \in Links(block) :
        walk[i] = IF block[i].next < a THEN walk[block[i].next] ELSE i
  <2>1. IsWalk(walk)
    <3> HIDE DEF IsWalk
    <3> QED
      BY <1>7, Zenon
  <2> HIDE DEF walk
  <2> QED
    BY <2>1
<1> HIDE DEF walk
<1>10. \A i \in below : walk[i] = m
  <2> DEFINE bad == {i \in below : walk[i] # m}
  <2>1. SUFFICES ASSUME bad # {} PROVE FALSE
    OBVIOUS
  <2>2. PICK i \in bad : \A j \in bad : j <= i
    <3>1. bad \in SUBSET Nat /\ \A j \in bad : j <= a
      BY <1>1
    <3> HIDE DEF bad
    <3> QED
      BY <1>1, <2>1, <3>1, GreatestExists
  <2>3. i \in L /\ i < a /\ walk[i] # m /\ i \in Links(block) /\ i \in Nat
    BY <1>1, <1>4, <2>2
  <2>4. CASE block[i].next < a
    <3>1. block[i].next \in below /\ walk[i] = walk[block[i].next]
      BY <1>5, <1>9, <2>3, <2>4
    <3>2. block[i].next \in bad
      BY <2>3, <3>1
    <3> QED
      BY <1>2, <2>2, <2>3, <3>2
  <2>5. CASE ~(block[i].next < a)
    <3>1. walk[i] = i
      BY <1>9, <2>3, <2>5
    <3>2. i <= m /\ i # m /\ m \in Nat /\ m \in L /\ m < a
      BY <1>1, <1>3, <2>3, <3>1
    <3>3. m \in F
      BY <1>1, <2>3, <3>2
    <3> QED
      BY <1>1, <1>2, <2>3, <2>5, <3>2, <3>3
  <2> QED
    BY <2>4, <2>5
<1>11. Before(block, a) = m
  BY <1>1, <1>8, <1>10
<1> QED
  BY <1>3, <1>6, <1>11

(* The walk of lwcan_malloc stops in front of a block that is large enough,*)
(* or at the end of the list when there is none.                           *)
LEMMA FirstFitIs ==
  ASSUME NEW block, NEW F, Shaped(block), Tiled(block), Chained(block, F),
         Links(block) = F \cup {xStart},
         NEW size \in Nat
  PROVE  /\ FirstFit(block, size) \in F \cup {xStart}
         /\ \/ /\ block[FirstFit(block, size)].next = pxEnd
               /\ \A a \in F : block[a].size < size
            \/ /\ block[FirstFit(block, size)].next \in F
               /\ block[block[FirstFit(block, size)].next].size >= size
<1> DEFINE L == F \cup {xStart}
           next(p) == block[p].next
           goes(p) == block[next(p)].size < size /\ block[next(p)].next # NULL
           stops == {p \in L : ~goes(p)}
           IsWalk(w) == w = [p \in Links(block) |->
                               LET b == block[p].next IN
                               IF block[b].size < size /\ block[b].next # NULL
                               THEN w[b] ELSE p]
<1>1. /\ L \subseteq Nat /\ pxEnd \in Nat /\ xStart = 0 /\ pxEnd \notin F
      /\ \A p \in L : p < pxEnd
  BY ChainIs, Layout DEF xStart
<1>2. \A p \in L : /\ next(p) \in F \cup {pxEnd} /\ next(p) \in Nat
                   /\ p < next(p)
                   /\ \A b \in F : ~(p < b /\ b < next(p))
  BY ChainIs DEF Chained
<1>3. /\ block[pxEnd].next = NULL
      /\ \A a \in F : block[a].next # NULL /\ block[a].size \in Nat
  <2>1. F \subseteq DOMAIN block
    BY DEF Chained, Inner
  <2> QED
    BY <1>2, <2>1 DEF Shaped, Free, NULL, Header
<1>4. \A p \in L : goes(p) <=> next(p) \in F /\ block[next(p)].size < size
  BY <1>1, <1>2, <1>3
<1> HIDE DEF goes
<1>5. PICK last \in L : \A p \in L : p <= last
  <2>1. L \in SUBSET Nat /\ L # {} /\ \A p \in L : p <= pxEnd
    BY <1>1
  <2> HIDE DEF L
  <2> QED
    BY <1>1, <2>1, GreatestExists
<1>6. next(last) = pxEnd
  BY <1>1, <1>2, <1>5
<1>7. last \in stops
  BY <1>1, <1>4, <1>6
<1>8. PICK m \in stops : \A p \in stops : m <= p
  <2>1. stops \in SUBSET Nat /\ stops # {}
    BY <1>1, <1>7
  <2> HIDE DEF stops
  <2> QED
    BY <2>1, LeastExists
<1> DEFINE From(p) == {q \in stops : p <= q}
           w0 == [p \in Links(block) |->
                    CHOOSE q \in From(p) : \A r \in From(p) : q <= r]
<1>9. \A p \in L : /\ w0[p] \in From(p)
                   /\ \A r \in From(p) : w0[p] <= r
  <2>1. SUFFICES ASSUME NEW p \in L
                 PROVE  \E q \in From(p) : \A r \in From(p) : q <= r
    OBVIOUS
  <2>2. From(p) \in SUBSET Nat /\ From(p) # {}
    BY <1>1, <1>5, <1>7
  <2> HIDE DEF From
  <2> QED
    BY <2>2, LeastExists
<1>10. IsWalk(w0)
  <2>1. ASSUME NEW p \in Links(block)
        PROVE  w0[p] = IF goes(p) THEN w0[next(p)] ELSE p
    <3>1. p \in L
      OBVIOUS
    <3>2. CASE goes(p)
      <4>1. next(p) \in F /\ next(p) \in L /\ p \notin stops
        BY <1>4, <3>1, <3>2
      <4>2. From(p) = From(next(p))
        <5>1. ASSUME NEW q \in stops PROVE p <= q <=> next(p) <= q
          <6>1. q \in L /\ q \in Nat /\ p \in Nat /\ next(p) \in Nat
            BY <1>1, <1>2, <3>1
          <6>2. p < next(p) /\ p # q
            BY <1>2, <3>1, <4>1
          <6>3. p < q => q \in F
            BY <1>1, <3>1, <6>1
          <6> QED
            BY <1>2, <3>1, <6>1, <6>2, <6>3
        <5> QED
          BY <5>1
      <4>3. w0[p] = w0[next(p)]
        BY <4>1, <4>2
      <4> HIDE DEF w0, next
      <4> QED
        BY <3>2, <4>3
    <3>3. CASE ~goes(p)
      <4>1. p \in From(p)
        BY <1>1, <3>1, <3>3
      <4>2. w0[p] <= p /\ p <= w0[p] /\ w0[p] \in Nat /\ p \in Nat
        BY <1>1, <1>9, <3>1, <4>1
      <4>3. w0[p] = p
        BY <4>2
      <4> HIDE DEF w0, next
      <4> QED
        BY <3>3, <4>3
    <3> QED
      BY <3>2, <3>3
  <2>2. w0 = [p \in Links(block) |-> w0[p]]
    OBVIOUS
  <2> HIDE DEF w0
  <2> QED
    BY <2>1, <2>2 DEF goes
<1> DEFINE walk == CHOOSE w : IsWalk(w)
<1>11. FirstFit(block, size) = walk[xStart]
  BY DEF FirstFit
<1>12. \A p \in L : walk[p] = IF goes(p) THEN walk[next(p)] ELSE p
  <2>1. IsWalk(walk)
    <3> HIDE DEF IsWalk, w0
    <3> QED
      BY <1>10, Zenon
  <2> HIDE DEF walk
  <2> QED
    BY <2>1 DEF goes
<1> HIDE DEF walk, w0
<1>13. walk[xStart] = m
  <2> DEFINE bad == {p \in L : p <= m /\ walk[p] # m}
  <2>1. SUFFICES ASSUME bad # {} PROVE FALSE
    BY <1>1, <1>8
  <2>2. PICK p \in bad : \A q \in bad : q <= p
    <3>1. bad \in SUBSET Nat /\ m \in Nat /\ \A q \in bad : q <= m
      BY <1>1, <1>8
    <3> HIDE DEF bad
    <3> QED
      BY <2>1, <3>1, GreatestExists
  <2>3. p \in L /\ p <= m /\ walk[p] # m /\ p \in Nat /\ m \in L /\ m \in Nat
    BY <1>1, <1>8, <2>2
  <2>4. CASE p = m
    BY <1>8, <1>12, <2>3, <2>4
  <2>5. CASE p # m
    <3>1. p < m /\ m \in F
      BY <1>1, <2>3, <2>5
    <3>2. goes(p)
      BY <1>8, <2>3, <3>1
    <3>3. next(p) \in L /\ p < next(p) /\ next(p) <= m /\ next(p) \in Nat
      BY <1>2, <1>4, <2>3, <3>1, <3>2
    <3>4. walk[p] = walk[next(p)]
      BY <1>12, <2>3, <3>2
    <3>5. next(p) \in bad
      BY <2>3, <3>3, <3>4
    <3> QED
      BY <2>2, <2>3, <3>3, <3>5
  <2> QED
    BY <2>4, <2>5
<1>14. m \in L /\ ~goes(m)
  BY <1>8
<1>15. CASE next(m) = pxEnd
  <2>1. ASSUME NEW a \in F PROVE block[a].size < size
    <3>1. \E p \in L : next(p) = a /\ p < a
      <4> DEFINE under == {p \in L : p < a}
      <4>1. a \in Nat /\ a # 0
        BY <1>1, ChainIs DEF xStart
      <4>2. PICK p \in under : \A q \in under : q <= p
        <5>1. xStart \in under
          BY <1>1, <4>1
        <5>2. under \in SUBSET Nat
          BY <1>1
        <5>3. \A q \in under : q <= a
          BY <1>1, <4>1
        <5> HIDE DEF under
        <5> QED
          BY <4>1, <5>1, <5>2, <5>3, GreatestExists
      <4>3. p \in L /\ p \in Nat /\ p < a
        BY <1>1, <4>2
      <4>4. next(p) <= a /\ p < next(p) /\ next(p) \in Nat
        BY <1>2, <4>1, <4>3
      <4>5. next(p) < a => next(p) \in under
        BY <1>1, <1>2, <4>3
      <4> QED
        BY <4>1, <4>2, <4>3, <4>4, <4>5
    <3>2. PICK p \in L : next(p) = a /\ p < a
      BY <3>1
    <3>3. a \in Nat /\ m \in Nat /\ a <= m /\ p < m
      BY <1>1, <1>2, <1>14, <1>15, <3>2
    <3>4. goes(p)
      BY <1>1, <1>8, <3>2, <3>3
    <3> QED
      BY <1>4, <3>2, <3>4
  <2> QED
    BY <1>11, <1>13, <1>14, <1>15, <2>1
<1>16. CASE next(m) \in F
  <2>1. block[next(m)].size >= size
    BY <1>3, <1>4, <1>14, <1>16
  <2> QED
    BY <1>11, <1>13, <1>14, <1>16, <2>1
<1> QED
  BY <1>2, <1>14, <1>15, <1>16

-----------------------------------------------------------------------------
(* prvInsertBlockIntoFreeList.                                             *)

(* The block at x takes over the one that lies directly behind it, which   *)
(* follows it in the list.                                                 *)
Joined(block, x) ==
  LET y == x + block[x].size IN
  [z \in DOMAIN block \ {y} |->
     IF z = x THEN [block[x] EXCEPT !.size = @ + block[y].size, !.next = block[y].next]
     ELSE block[z]]

(* Two blocks of the list that touch can be made one: the heap stays tiled *)
(* and listed, and has the same bytes.                                     *)
LEMMA JoinedIs ==
  ASSUME NEW block, NEW F, Listed(block, F),
         NEW x \in F, x + block[x].size \in F
  PROVE  LET y == x + block[x].size
             joined == Joined(block, x)
         IN /\ Listed(joined, F \ {y})
            /\ Inner(joined) = Inner(block) \ {y}
            /\ x # y /\ block[x].next = y
            /\ \A z \in Inner(joined) \ {x} : joined[z] = block[z]
            /\ joined[xStart] = block[xStart]
            /\ joined[x].allocated = block[x].allocated
            /\ joined[x].size = block[x].size + block[y].size
            /\ \A S : /\ S \subseteq Inner(block) /\ x \in S /\ y \in S
                      => Total(joined, S \ {y}) = Total(block, S)
            /\ \A z \in F \ {y} : z + joined[z].size \in F \ {y} =>
                 \/ z # x /\ z + block[z].size \in F
                 \/ z = x /\ y + block[y].size \in F
<1> DEFINE y == x + block[x].size
           joined == Joined(block, x)
           D == DOMAIN block
<1>1. /\ block \in [D -> Header] /\ IsFiniteSet(D) /\ xStart \in D /\ pxEnd \in D
      /\ block[xStart].size = 0 /\ ~block[xStart].allocated
      /\ block[pxEnd] = Free(0, NULL)
      /\ F \subseteq Inner(block) /\ Inner(block) = D \ {xStart, pxEnd}
  BY ListedIs
<1>2. /\ x \in Inner(block) /\ y \in Inner(block) /\ x \in D /\ y \in D /\ y \in F
      /\ x # xStart /\ x # pxEnd /\ y # xStart /\ y # pxEnd
  BY <1>1
<1>3. /\ pucAlignedHeap \in Inner(block) /\ pucAlignedHeap \in Nat /\ pxEnd \in Nat
      /\ \A a \in Inner(block) :
           /\ a \in pucAlignedHeap..(pxEnd - 1)
           /\ a \in Nat /\ pucAlignedHeap <= a /\ a < pxEnd
           /\ a % MEMORY_BYTE_ALIGNMENT = 0
           /\ block[a].size > 0 /\ block[a].size \in Nat
           /\ a + block[a].size \in Inner(block) \cup {pxEnd}
           /\ \A b \in Inner(block) : ~(a < b /\ b < a + block[a].size)
  BY ListedIs, Layout DEF Listed, Tiled
<1>4. /\ x \in Nat /\ y \in Nat /\ x < y /\ x # y
      /\ block[x].size \in Nat /\ block[y].size \in Nat
      /\ block[x].size > 0 /\ block[y].size > 0
  BY <1>2, <1>3
<1>5. /\ F \cup {xStart} \subseteq Nat /\ xStart = 0
      /\ \A a \in F \cup {xStart} :
           /\ block[a].next \in F \cup {pxEnd} /\ block[a].next \in Nat
           /\ a < block[a].next
           /\ \A b \in F : ~(a < b /\ b < block[a].next)
  BY ListedIs
<1>6. block[x].next = y
  <2>1. ~(x < y /\ y < block[x].next)
    BY <1>2, <1>5
  <2>2. ~(block[x].next < y)
    BY <1>1, <1>2, <1>3, <1>4, <1>5
  <2> QED
    BY <1>4, <1>5, <2>1, <2>2
<1>7. /\ joined = [z \in D \ {y} |->
                     IF z = x THEN [block[x] EXCEPT !.size = @ + block[y].size,
                                                    !.next = block[y].next]
                     ELSE block[z]]
      /\ DOMAIN joined = D \ {y}
      /\ Inner(joined) = Inner(block) \ {y}
  BY <1>1 DEF Joined, Inner
<1>8. /\ joined[x] = [size |-> block[x].size + block[y].size,
                      next |-> block[y].next, allocated |-> block[x].allocated]
      /\ \A z \in D \ {x, y} : joined[z] = block[z]
  <2>1. block[x] = [size |-> block[x].size, next |-> block[x].next,
                    allocated |-> block[x].allocated]
    BY <1>1, <1>2 DEF Header
  <2> HIDE DEF joined, y
  <2> QED
    BY <1>2, <1>4, <1>7, <2>1
<1>9. joined[x].next = block[y].next /\ joined[x].size = block[x].size + block[y].size
       /\ joined[x].allocated = block[x].allocated
  BY <1>8
<1> HIDE DEF joined, y, D
<1>10. \A S : /\ S \subseteq Inner(block) /\ x \in S /\ y \in S
             => Total(joined, S \ {y}) = Total(block, S)
  <2>1. SUFFICES ASSUME NEW S, S \subseteq Inner(block), x \in S, y \in S
                 PROVE  Total(joined, S \ {y}) = Total(block, S)
    OBVIOUS
  <2>2. IsFiniteSet(S)
    <3>1. S \subseteq D
      BY <1>1, <2>1
    <3> QED
      BY <1>1, <3>1, FS_Subset
  <2>3. \A a \in S : block[a].size \in Nat
    BY <1>3, <2>1
  <2>4. \A a \in S \ {x, y} : joined[a].size = block[a].size
    BY <1>1, <1>8, <2>1
  <2>5. x # y /\ joined[x].size = block[x].size + block[y].size
    BY <1>4, <1>9
  <2> QED
    BY ONLY <2>1, <2>2, <2>3, <2>4, <2>5, TotalJoined
<1>11. Shaped(joined)
  <2>1. joined \in [DOMAIN joined -> Header]
    <3>1. \A z \in D \ {y} : joined[z] \in Header
      <4>1. joined[x] \in Header
        <5>1. block[y].next \in Int /\ block[x].allocated \in BOOLEAN
          BY <1>1, <1>2 DEF Header
        <5>2. block[x].size + block[y].size \in Nat
          BY <1>4
        <5> QED
          BY <1>8, <5>1, <5>2 DEF Header
      <4> QED
        BY <1>1, <1>8, <4>1
    <3> QED
      BY <1>7, <3>1
  <2>2. IsFiniteSet(DOMAIN joined)
    BY <1>1, <1>7, FS_Subset
  <2>3. {xStart, pxEnd} \subseteq DOMAIN joined
    BY <1>1, <1>2, <1>7
  <2>4. joined[xStart] = block[xStart] /\ joined[pxEnd] = block[pxEnd]
    BY <1>1, <1>2, <1>8
  <2> QED
    BY <1>1, <2>1, <2>2, <2>3, <2>4 DEF Shaped
<1>12. Tiled(joined)
  <2>1. pucAlignedHeap \in Inner(joined)
    <3>1. pucAlignedHeap # y
      BY <1>2, <1>3, <1>4
    <3> QED
      BY <1>3, <1>7, <3>1
  <2>2. ASSUME NEW a \in Inner(joined)
        PROVE  /\ a \in pucAlignedHeap..(pxEnd - 1)
               /\ a % MEMORY_BYTE_ALIGNMENT = 0
               /\ joined[a].size > 0
               /\ a + joined[a].size \in Inner(joined) \cup {pxEnd}
               /\ \A b \in Inner(joined) : ~(a < b /\ b < a + joined[a].size)
    <3>1. a \in Inner(block) /\ a # y /\ a \in D
      BY <1>1, <1>7
    <3>2. a \in pucAlignedHeap..(pxEnd - 1) /\ a % MEMORY_BYTE_ALIGNMENT = 0
      BY <1>3, <3>1
    <3>3. CASE a = x
      <4>1. a + joined[a].size = y + block[y].size
        BY <1>4, <1>9, <3>3 DEF y
      <4>2. y + block[y].size \in Inner(block) \cup {pxEnd} /\ y + block[y].size # y
        BY <1>2, <1>3, <1>4
      <4>3. ASSUME NEW b \in Inner(joined), a < b, b < a + joined[a].size
            PROVE  FALSE
        <5>1. b \in Inner(block) /\ b # y /\ b \in Nat
          BY <1>3, <1>7
        <5>2. ~(x < b /\ b < y)
          BY <1>2, <1>3, <5>1 DEF y
        <5>3. ~(y < b /\ b < y + block[y].size)
          BY <1>2, <1>3, <5>1
        <5> QED
          BY <1>4, <3>3, <4>1, <4>3, <5>1, <5>2, <5>3
      <4>4. joined[a].size > 0
        BY <1>4, <1>9, <3>3
      <4> QED
        BY <1>7, <3>2, <4>1, <4>2, <4>3, <4>4
    <3>4. CASE a # x
      <4>1. joined[a] = block[a]
        BY <1>8, <3>1, <3>4
      <4>2. a + block[a].size # y
        <5>1. ~(a < x /\ x < a + block[a].size) /\ ~(x < a /\ a < x + block[x].size)
          BY <1>2, <1>3, <3>1
        <5>2. a \in Nat /\ block[a].size \in Nat /\ block[a].size > 0
          BY <1>3, <3>1
        <5> QED
          BY <1>4, <3>4, <5>1, <5>2 DEF y
      <4> QED
        BY <1>3, <1>7, <3>1, <3>2, <4>1, <4>2
    <3> QED
      BY <3>3, <3>4
  <2> QED
    BY <2>1, <2>2 DEF Tiled
<1>13. Chained(joined, F \ {y})
  <2>1. F \ {y} \subseteq Inner(joined)
    BY <1>1, <1>7
  <2>2. ASSUME NEW a \in (F \ {y}) \cup {xStart}
        PROVE  /\ joined[a].next \in (F \ {y}) \cup {pxEnd}
               /\ a < joined[a].next
               /\ \A b \in F \ {y} : ~(a < b /\ b < joined[a].next)
    <3>1. a \in Nat /\ a \in F \cup {xStart} /\ a \in D /\ a # y
      BY <1>1, <1>2, <1>5
    <3>2. CASE a = x
      <4>1. joined[a].next = block[y].next /\ y < block[y].next
            /\ block[y].next \in F \cup {pxEnd} /\ block[y].next \in Nat
        BY <1>2, <1>5, <1>9, <3>2
      <4>2. ASSUME NEW b \in F \ {y} PROVE ~(a < b /\ b < joined[a].next)
        <5>1. ~(x < b /\ b < y) /\ ~(y < b /\ b < block[y].next) /\ b \in Nat
          BY <1>2, <1>5, <1>6
        <5> QED
          BY <1>4, <3>2, <4>1, <5>1
      <4> QED
        BY <1>4, <3>2, <4>1, <4>2
    <3>3. CASE a # x
      <4>1. joined[a] = block[a]
        BY <1>8, <3>1, <3>3
      <4>2. block[a].next # y
        <5>1. ~(a < x /\ x < block[a].next) /\ ~(x < a /\ a < block[x].next)
          <6>1. CASE a \in F
            BY <1>5, <6>1
          <6>2. CASE a = xStart
            BY <1>4, <1>5, <6>2
          <6> QED
            BY <3>1, <6>1, <6>2
        <5>2. a < block[a].next /\ block[a].next \in Nat
          BY <1>5, <3>1
        <5> QED
          BY <1>4, <1>6, <3>1, <3>3, <5>1, <5>2
      <4> QED
        BY <1>5, <3>1, <4>1, <4>2
    <3> QED
      BY <3>2, <3>3
  <2> QED
    BY <2>1, <2>2 DEF Chained
<1>14. ASSUME NEW z \in F \ {y}, z + joined[z].size \in F \ {y}
       PROVE  \/ z # x /\ z + block[z].size \in F
              \/ z = x /\ y + block[y].size \in F
  <2>1. CASE z = x
    <3>1. z + joined[z].size = y + block[y].size
      BY <1>4, <1>9, <2>1 DEF y
    <3> QED
      BY <1>14, <2>1, <3>1
  <2>2. CASE z # x
    <3>1. joined[z] = block[z]
      BY <1>1, <1>8, <2>2
    <3> QED
      BY <1>14, <2>2, <3>1
  <2> QED
    BY <2>1, <2>2
<1>15. /\ \A z \in Inner(joined) \ {x} : joined[z] = block[z]
       /\ joined[xStart] = block[xStart]
  BY <1>1, <1>2, <1>7, <1>8
<1> QED
  BY <1>4, <1>6, <1>7, <1>9, <1>10, <1>11, <1>12, <1>13, <1>14, <1>15
     DEF Listed, joined, y

(* A header with another size, with another link, with both.               *)
LEMMA HeaderSize ==
  ASSUME NEW h \in Header, NEW s
  PROVE  [h EXCEPT !.size = s]
           = [size |-> s, next |-> h.next, allocated |-> h.allocated]
BY DEF Header

LEMMA HeaderNext ==
  ASSUME NEW h \in Header, NEW n
  PROVE  [h EXCEPT !.next = n]
           = [size |-> h.size, next |-> n, allocated |-> h.allocated]
BY DEF Header

LEMMA HeaderBoth ==
  ASSUME NEW h \in Header, NEW s, NEW n
  PROVE  [h EXCEPT !.size = s, !.next = n]
           = [size |-> s, next |-> n, allocated |-> h.allocated]
<1> DEFINE k == [h EXCEPT !.size = s]
<1>1. k = [size |-> s, next |-> h.next, allocated |-> h.allocated]
  BY HeaderSize
<1> HIDE DEF k
<1>2. [k EXCEPT !.next = n] = [size |-> s, next |-> n, allocated |-> h.allocated]
  BY <1>1
<1> QED
  BY <1>2 DEF k

(* What Joined makes of the headers, one by one.                           *)
IsJoined(block, x, y, joined) ==
  /\ joined = [z \in DOMAIN block \ {y} |-> joined[z]]
  /\ joined[x] = [size |-> block[x].size + block[y].size, next |-> block[y].next,
                  allocated |-> block[x].allocated]
  /\ \A z \in DOMAIN block \ {x, y} : joined[z] = block[z]

(* Joined is this.                                                         *)
LEMMA JoinedOf ==
  ASSUME NEW block, NEW x \in DOMAIN block, NEW y, y = x + block[x].size, x # y,
         block[x] \in Header
  PROVE  IsJoined(block, x, y, Joined(block, x))
<1> DEFINE h == [block[x] EXCEPT !.size = block[x].size + block[y].size,
                                 !.next = block[y].next]
<1>1. h = [size |-> block[x].size + block[y].size, next |-> block[y].next,
           allocated |-> block[x].allocated]
  BY HeaderBoth, Zenon
<1>2. Joined(block, x)
        = [z \in DOMAIN block \ {y} |-> IF z = x THEN h ELSE block[z]]
  BY DEF Joined
<1> HIDE DEF h
<1> QED
  BY <1>1, <1>2 DEF IsJoined

(* The block at a comes into the list behind the one at i.                 *)
Linked(block, i, a) ==
  [z \in DOMAIN block |-> IF z = i THEN [block[i] EXCEPT !.next = a]
                          ELSE IF z = a THEN [block[a] EXCEPT !.next = block[i].next]
                          ELSE block[z]]

(* prvInsertBlockIntoFreeList, which merges before it links, does what     *)
(* linking the block and then merging it with the one behind it and with   *)
(* the one before it does.                                                 *)
LEMMA InsertIsLinkAndJoin ==
  ASSUME NEW block, NEW D, block \in [D -> Header],
         NEW a \in D, NEW i \in D, i # a, i = Before(block, a), a \in Int,
         NEW n, n = block[i].next, n \in D, n # i, n # a, n \in Int,
         i \in Int
  PROVE  LET linked == Linked(block, i, a)
             front == IF a + block[a].size = n /\ n # pxEnd THEN Joined(linked, a)
                      ELSE linked
         IN prvInsertBlockIntoFreeList(block, a)
              = IF i + block[i].size = a THEN Joined(front, i) ELSE front
<1> DEFINE linked == Linked(block, i, a)
           front == IF a + block[a].size = n /\ n # pxEnd THEN Joined(linked, a)
                    ELSE linked
           H(s, x, p) == [size |-> s, next |-> x, allocated |-> p]
           si == block[i].size
           sa == block[a].size
           sn == block[n].size
<1> SUFFICES prvInsertBlockIntoFreeList(block, a)
               = IF i + si = a THEN Joined(front, i) ELSE front
  OBVIOUS
<1>1. DOMAIN block = D /\ si \in Nat /\ sa \in Nat /\ sn \in Nat
      /\ block[i] \in Header /\ block[a] \in Header /\ block[n] \in Header
      /\ block[n].next \in Int
  BY DEF Header
<1>2. /\ linked = [z \in D |-> linked[z]]
      /\ linked[i] = H(si, a, block[i].allocated)
      /\ linked[a] = H(sa, n, block[a].allocated)
      /\ \A z \in D \ {i, a} : linked[z] = block[z]
  <2>1. linked = [z \in D |-> IF z = i THEN H(si, a, block[i].allocated)
                              ELSE IF z = a THEN H(sa, n, block[a].allocated)
                              ELSE block[z]]
    BY <1>1, HeaderNext DEF Linked
  <2> HIDE DEF linked
  <2> QED
    BY <2>1
<1>3. linked \in [D -> Header] /\ DOMAIN linked = D
  <2>1. \A z \in D : linked[z] \in Header
    BY <1>1, <1>2 DEF Header
  <2> HIDE DEF linked
  <2> QED
    BY <1>2, <2>1
<1> HIDE DEF linked
<1>4. ASSUME a + sa = n, n # pxEnd
      PROVE  /\ Joined(linked, a) = [z \in D \ {n} |-> Joined(linked, a)[z]]
             /\ Joined(linked, a)[a] = H(sa + sn, block[n].next, block[a].allocated)
             /\ \A z \in D \ {n, a} : Joined(linked, a)[z] = linked[z]
  <2>1. /\ linked[a].size = sa /\ linked[n] = block[n]
        /\ linked[a].allocated = block[a].allocated
    BY <1>2
  <2>2. a \in DOMAIN linked /\ linked[a] \in Header /\ n = a + linked[a].size /\ a # n
    BY <1>3, <1>4, <2>1
  <2>3. IsJoined(linked, a, n, Joined(linked, a))
    BY ONLY <2>2, JoinedOf
  <2> QED
    BY <1>3, <2>1, <2>3 DEF IsJoined
<1>5. CASE i + si # a
  <2>1. MergedBefore(block, a) = [block |-> block, at |-> a]
    BY <1>5 DEF MergedBefore
  <2>2. prvInsertBlockIntoFreeList(block, a)
          = [MergedAfter(block, a, n) EXCEPT ![i].next = a]
    BY <2>1 DEF prvInsertBlockIntoFreeList
  <2>3. CASE a + sa = n /\ n # pxEnd
    <3>1. MergedAfter(block, a, n)
            = [Restrict(block, D \ {n}) EXCEPT
                 ![a].size = @ + sn, ![a].next = block[n].next]
      BY <1>1, <2>3 DEF MergedAfter
    <3>2. Restrict(block, D \ {n}) = [z \in D \ {n} |-> block[z]]
      BY DEF Restrict
    <3>3. MergedAfter(block, a, n)
            = [z \in D \ {n} |-> IF z = a THEN H(sa + sn, block[n].next, block[a].allocated)
                                 ELSE block[z]]
      <4> DEFINE f == [z \in D \ {n} |-> block[z]]
                 g == [f EXCEPT ![a].size = @ + sn]
                 h == [g EXCEPT ![a].next = block[n].next]
      <4>1. f \in [D \ {n} -> Header] /\ f[a] = block[a]
        OBVIOUS
      <4>2. g = [z \in D \ {n} |-> IF z = a THEN [block[a] EXCEPT !.size = sa + sn]
                                   ELSE block[z]]
        BY <4>1
      <4>3. [block[a] EXCEPT !.size = sa + sn] = H(sa + sn, block[a].next, block[a].allocated)
        BY <1>1, HeaderSize, Zenon
      <4>4. g = [z \in D \ {n} |-> IF z = a THEN H(sa + sn, block[a].next, block[a].allocated)
                                   ELSE block[z]]
        BY <4>2, <4>3
      <4>5. MergedAfter(block, a, n) = h
        BY <3>1, <3>2
      <4> HIDE DEF f, g
      <4>6. h = [z \in D \ {n} |->
                   IF z = a THEN [H(sa + sn, block[a].next, block[a].allocated)
                                    EXCEPT !.next = block[n].next]
                   ELSE block[z]]
        BY <4>4
      <4> QED
        BY <4>5, <4>6
    <3>4. [MergedAfter(block, a, n) EXCEPT ![i].next = a]
            = [z \in D \ {n} |->
                 IF z = i THEN H(si, a, block[i].allocated)
                 ELSE IF z = a THEN H(sa + sn, block[n].next, block[a].allocated)
                 ELSE block[z]]
      <4> DEFINE f == [z \in D \ {n} |->
                         IF z = a THEN H(sa + sn, block[n].next, block[a].allocated)
                         ELSE block[z]]
      <4>1. f[i] = block[i] /\ i \in D \ {n}
        OBVIOUS
      <4>2. [block[i] EXCEPT !.next = a] = H(si, a, block[i].allocated)
        BY <1>1, HeaderNext, Zenon
      <4>3. [f EXCEPT ![i].next = a]
              = [z \in D \ {n} |-> IF z = i THEN [block[i] EXCEPT !.next = a] ELSE f[z]]
        BY <4>1
      <4> QED
        BY <3>3, <4>2, <4>3
    <3>5. Joined(linked, a)
            = [z \in D \ {n} |->
                 IF z = i THEN H(si, a, block[i].allocated)
                 ELSE IF z = a THEN H(sa + sn, block[n].next, block[a].allocated)
                 ELSE block[z]]
      BY <1>2, <1>4, <2>3
    <3> QED
      BY <1>5, <2>2, <2>3, <3>4, <3>5
  <2>4. CASE ~(a + sa = n /\ n # pxEnd)
    <3>1. MergedAfter(block, a, n) = [block EXCEPT ![a].next = n]
      BY <2>4 DEF MergedAfter
    <3>2. [[block EXCEPT ![a].next = n] EXCEPT ![i].next = a]
            = [z \in D |-> IF z = i THEN [block[i] EXCEPT !.next = a]
                           ELSE IF z = a THEN [block[a] EXCEPT !.next = n]
                           ELSE block[z]]
      OBVIOUS
    <3>3. linked = [[block EXCEPT ![a].next = n] EXCEPT ![i].next = a]
      BY <1>1, <3>2 DEF linked, Linked
    <3> QED
      BY <1>5, <2>2, <2>4, <3>1, <3>3
  <2> QED
    BY <2>3, <2>4
<1>6. CASE i + si = a
  <2> DEFINE behind == [z \in D \ {a} |->
                          IF z = i THEN H(si + sa, n, block[i].allocated)
                          ELSE block[z]]
  <2>1. MergedBefore(block, a) = [block |-> behind, at |-> i]
    <3> DEFINE f == [z \in D \ {a} |-> block[z]]
    <3>1. Restrict(block, D \ {a}) = f
      BY DEF Restrict
    <3>2. f[i] = block[i] /\ i \in D \ {a}
      OBVIOUS
    <3>3. [f EXCEPT ![i].size = @ + sa]
            = [z \in D \ {a} |-> IF z = i THEN [block[i] EXCEPT !.size = si + sa]
                                 ELSE block[z]]
      BY <3>2
    <3>4. [block[i] EXCEPT !.size = si + sa] = H(si + sa, n, block[i].allocated)
      BY <1>1, HeaderSize, Zenon
    <3>5. [f EXCEPT ![i].size = @ + sa] = behind
      BY <3>3, <3>4
    <3> HIDE DEF f, behind
    <3> QED
      BY <1>1, <1>6, <3>1, <3>5 DEF MergedBefore
  <2>2. prvInsertBlockIntoFreeList(block, a) = MergedAfter(behind, i, n)
    <3> HIDE DEF behind
    <3> QED
      BY <2>1 DEF prvInsertBlockIntoFreeList
  <2>3. /\ DOMAIN behind = D \ {a} /\ i \in D \ {a} /\ n \in D \ {a}
        /\ behind[i] = H(si + sa, n, block[i].allocated) /\ behind[n] = block[n]
        /\ \A z \in D \ {a, i} : behind[z] = block[z]
    OBVIOUS
  <2>4. behind[i].size = si + sa /\ i + behind[i].size = a + sa
    BY <1>1, <1>6, <2>3
  <2> HIDE DEF behind
  <2>5. CASE a + sa = n /\ n # pxEnd
    <3> DEFINE result == [z \in D \ {a, n} |->
                            IF z = i THEN H(si + (sa + sn), block[n].next,
                                            block[i].allocated)
                            ELSE block[z]]
    <3>1. MergedAfter(behind, i, n) = result
      <4> DEFINE f == [z \in (D \ {a}) \ {n} |-> behind[z]]
                 g == [f EXCEPT ![i].size = @ + sn]
                 h == [g EXCEPT ![i].next = block[n].next]
      <4>1. MergedAfter(behind, i, n)
              = [Restrict(behind, (D \ {a}) \ {n}) EXCEPT
                   ![i].size = @ + sn, ![i].next = block[n].next]
        BY <2>3, <2>4, <2>5 DEF MergedAfter
      <4>2. Restrict(behind, (D \ {a}) \ {n}) = f
        BY DEF Restrict
      <4>3. /\ f[i] = H(si + sa, n, block[i].allocated) /\ i \in D \ {a, n}
            /\ f[i].size = si + sa
        BY <2>3
      <4>4. g = [z \in D \ {a, n} |->
                   IF z = i THEN [H(si + sa, n, block[i].allocated)
                                    EXCEPT !.size = (si + sa) + sn]
                   ELSE behind[z]]
        <5>1. g = [z \in D \ {a, n} |->
                     IF z = i THEN [f[i] EXCEPT !.size = f[i].size + sn]
                     ELSE behind[z]]
          BY <4>3
        <5> QED
          BY <4>3, <5>1
      <4>5. g = [z \in D \ {a, n} |->
                   IF z = i THEN H(si + (sa + sn), n, block[i].allocated)
                   ELSE block[z]]
        BY <1>1, <2>3, <4>4
      <4>6. MergedAfter(behind, i, n) = h
        BY <4>1, <4>2
      <4> HIDE DEF f, g
      <4>7. h = [z \in D \ {a, n} |->
                   IF z = i THEN [H(si + (sa + sn), n, block[i].allocated)
                                    EXCEPT !.next = block[n].next]
                   ELSE block[z]]
        BY <4>5
      <4> QED
        BY <4>6, <4>7
    <3>2. Joined(front, i) = result
      <4>1. /\ front = Joined(linked, a) /\ DOMAIN front = D \ {n}
            /\ front[a] = H(sa + sn, block[n].next, block[a].allocated)
            /\ front[i] = linked[i]
            /\ \A z \in D \ {n, a} : front[z] = linked[z]
        BY <1>4, <2>5
      <4> HIDE DEF front
      <4>2. /\ front[i] = H(si, a, block[i].allocated) /\ front[i].size = si
            /\ front[a].size = sa + sn /\ front[a].next = block[n].next
            /\ front[i].allocated = block[i].allocated
            /\ front[i] \in Header
        BY <1>1, <1>2, <1>3, <4>1
      <4>3. /\ i \in DOMAIN front /\ front[i] \in Header
            /\ a = i + front[i].size /\ i # a
        BY <1>6, <4>1, <4>2
      <4>4. IsJoined(front, i, a, Joined(front, i))
        BY ONLY <4>3, JoinedOf
      <4>5. /\ Joined(front, i) = [z \in D \ {a, n} |-> Joined(front, i)[z]]
            /\ Joined(front, i)[i] = H(front[i].size + front[a].size, front[a].next,
                                      front[i].allocated)
            /\ \A z \in D \ {a, n, i} : Joined(front, i)[z] = front[z]
        BY <4>1, <4>4 DEF IsJoined
      <4>6. \A z \in D \ {a, n, i} : front[z] = block[z]
        BY <1>2, <4>1
      <4>7. Joined(front, i)[i] = H(si + (sa + sn), block[n].next, block[i].allocated)
        BY <4>2, <4>5
      <4>8. \A z \in D \ {a, n, i} : Joined(front, i)[z] = block[z]
        BY <4>5, <4>6
      <4> QED
        BY <4>5, <4>7, <4>8
    <3> QED
      BY <1>6, <2>2, <3>1, <3>2
  <2>6. CASE ~(a + sa = n /\ n # pxEnd)
    <3>1. MergedAfter(behind, i, n) = [behind EXCEPT ![i].next = n]
      BY <2>4, <2>6 DEF MergedAfter
    <3>2. [behind EXCEPT ![i].next = n]
            = [z \in D \ {a} |-> IF z = i THEN H(si + sa, n, block[i].allocated)
                                 ELSE block[z]]
      BY <2>3 DEF behind
    <3>3. front = linked
      BY <2>6
    <3>4. /\ linked[i].size = si /\ linked[a].size = sa /\ linked[a].next = n
          /\ linked[i].allocated = block[i].allocated /\ linked[i] \in Header
      BY <1>2, <1>3
    <3>5. /\ i \in DOMAIN linked /\ linked[i] \in Header
          /\ a = i + linked[i].size /\ i # a
      BY <1>3, <1>6, <3>4
    <3>6. IsJoined(linked, i, a, Joined(linked, i))
      BY ONLY <3>5, JoinedOf
    <3>7. /\ Joined(linked, i) = [z \in D \ {a} |-> Joined(linked, i)[z]]
          /\ Joined(linked, i)[i] = H(linked[i].size + linked[a].size, linked[a].next,
                                     linked[i].allocated)
          /\ \A z \in D \ {a, i} : Joined(linked, i)[z] = linked[z]
      BY <1>3, <3>6 DEF IsJoined
    <3>8. Joined(linked, i)
            = [z \in D \ {a} |-> IF z = i THEN H(si + sa, n, block[i].allocated)
                                 ELSE block[z]]
      BY <1>2, <1>3, <3>4, <3>7
    <3> QED
      BY <1>6, <2>2, <3>1, <3>2, <3>3, <3>8
  <2> QED
    BY <2>5, <2>6
<1> QED
  BY <1>5, <1>6 DEF linked

(* The heap r has the list H, part of G, and the bytes of before; the      *)
(* blocks of G that are not in H are merged, all others untouched.         *)
Rearranged(block, G, r, H) ==
  /\ Listed(r, H) /\ H \subseteq G
  /\ Inner(r) = Inner(block) \ (G \ H)
  /\ \A z \in Inner(block) \ G : r[z] = block[z]
  /\ \A z \in H : r[z].allocated = block[z].allocated
  /\ Total(r, Inner(r)) = Total(block, Inner(block))
  /\ Total(r, H) = Total(block, G)

(* The blocks of F that another of F lies directly behind.                 *)
Touching(block, F) == {a \in F : a + block[a].size \in F}

(* Two rearrangements are one.                                             *)
LEMMA RearrangedTwice ==
  ASSUME NEW block, NEW G, NEW r, NEW H, NEW q, NEW K, G \subseteq Inner(block),
         Rearranged(block, G, r, H), Rearranged(r, H, q, K)
  PROVE  Rearranged(block, G, q, K)
<1>1. Inner(q) = Inner(block) \ (G \ K)
  BY DEF Rearranged
<1>2. \A z \in Inner(block) \ G : q[z] = block[z]
  BY DEF Rearranged
<1> QED
  BY <1>1, <1>2 DEF Rearranged

(* Merging two blocks rearranges the heap and parts no others.             *)
LEMMA JoinedRearranges ==
  ASSUME NEW block, NEW F, Listed(block, F),
         NEW x \in F, NEW y \in F, y = x + block[x].size
  PROVE  /\ Rearranged(block, F, Joined(block, x), F \ {y})
         /\ \A z \in F \ {x, y} : Joined(block, x)[z] = block[z]
         /\ y \notin Touching(block, F) =>
              Touching(Joined(block, x), F \ {y}) \subseteq Touching(block, F) \ {x, y}
<1> DEFINE joined == Joined(block, x)
<1>1. /\ Listed(joined, F \ {y})
      /\ Inner(joined) = Inner(block) \ {y}
      /\ \A z \in Inner(joined) \ {x} : joined[z] = block[z]
      /\ joined[x].allocated = block[x].allocated
      /\ \A S : /\ S \subseteq Inner(block) /\ x \in S /\ y \in S
                => Total(joined, S \ {y}) = Total(block, S)
      /\ \A z \in F \ {y} : z + joined[z].size \in F \ {y} =>
           \/ z # x /\ z + block[z].size \in F
           \/ z = x /\ y + block[y].size \in F
  BY JoinedIs
<1>2. F \subseteq Inner(block) /\ y \in F
  BY DEF Listed, Chained
<1> HIDE DEF joined
<1>3. Total(joined, F \ {y}) = Total(block, F)
  BY <1>1, <1>2
<1>4. Total(joined, Inner(joined)) = Total(block, Inner(block))
  BY <1>1, <1>2
<1>5. \A z \in Inner(block) \ F : joined[z] = block[z]
  BY <1>1, <1>2
<1>6. \A z \in F \ {y} : joined[z].allocated = block[z].allocated
  BY <1>1, <1>2
<1>7. Inner(joined) = Inner(block) \ (F \ (F \ {y}))
  BY <1>1, <1>2
<1>8. Rearranged(block, F, joined, F \ {y})
  BY <1>1, <1>3, <1>4, <1>5, <1>6, <1>7 DEF Rearranged
<1>9. ASSUME y \notin Touching(block, F)
      PROVE  Touching(joined, F \ {y}) \subseteq Touching(block, F) \ {x, y}
  <2>1. ~(y + block[y].size \in F)
    BY <1>2, <1>9 DEF Touching
  <2> QED
    BY <1>1, <2>1 DEF Touching
<1>10. \A z \in F \ {x, y} : joined[z] = block[z]
  BY <1>1, <1>2
<1> QED
  BY <1>8, <1>9, <1>10 DEF joined

(* Linking a block rearranges the heap, and only the block and the one     *)
(* before it in the list can then touch the next one.                      *)
LEMMA LinkedRearranges ==
  ASSUME NEW block, NEW F, Listed(block, F), Apart(block, F),
         NEW a \in Inner(block) \ F, NEW i \in F \cup {xStart},
         i < a, block[i].next >= a
  PROVE  LET linked == Linked(block, i, a)
             n == block[i].next
         IN /\ Rearranged(block, F \cup {a}, linked, F \cup {a})
            /\ n \in F \cup {pxEnd} /\ a < n
            /\ linked[a].size = block[a].size /\ linked[i].size = block[i].size
            /\ Touching(linked, F \cup {a}) \subseteq {i, a}
            /\ i \in Touching(linked, F \cup {a}) => i + block[i].size = a
            /\ a \in Touching(linked, F \cup {a})
                 => a + block[a].size = n /\ n # pxEnd
<1> DEFINE linked == Linked(block, i, a)
           n == block[i].next
           D == DOMAIN block
           G == F \cup {a}
<1>1. /\ block \in [D -> Header] /\ IsFiniteSet(D) /\ xStart \in D /\ pxEnd \in D
      /\ block[xStart].size = 0 /\ ~block[xStart].allocated
      /\ block[pxEnd] = Free(0, NULL)
      /\ F \subseteq Inner(block) /\ Inner(block) = D \ {xStart, pxEnd}
  BY ListedIs
<1>2. /\ pucAlignedHeap \in Inner(block) /\ pxEnd \in Nat
      /\ \A z \in Inner(block) :
           /\ z \in pucAlignedHeap..(pxEnd - 1)
           /\ z \in Nat /\ z < pxEnd
           /\ z % MEMORY_BYTE_ALIGNMENT = 0
           /\ block[z].size > 0 /\ block[z].size \in Nat
           /\ z + block[z].size \in Inner(block) \cup {pxEnd}
           /\ \A b \in Inner(block) : ~(z < b /\ b < z + block[z].size)
  BY ListedIs DEF Listed, Tiled
<1>3. /\ F \cup {xStart} \subseteq Nat /\ xStart = 0
      /\ \A z \in F \cup {xStart} :
           /\ block[z].next \in F \cup {pxEnd} /\ block[z].next \in Nat
           /\ z < block[z].next
           /\ \A b \in F : ~(z < b /\ b < block[z].next)
  BY ListedIs
<1>4. /\ a \in D /\ a \in Nat /\ a # xStart /\ a # pxEnd /\ a < pxEnd /\ a \notin F
      /\ i \in D /\ i \in Nat /\ i # a /\ i # pxEnd
  BY <1>1, <1>2, <1>3, Layout DEF xStart
<1>5. n \in F \cup {pxEnd} /\ n \in Nat /\ a < n /\ i < n
      /\ \A b \in F : ~(i < b /\ b < n)
  BY <1>3, <1>4
<1>6. /\ DOMAIN linked = D /\ linked = [z \in D |-> linked[z]]
      /\ linked[i] = [size |-> block[i].size, next |-> a,
                      allocated |-> block[i].allocated]
      /\ linked[a] = [size |-> block[a].size, next |-> n,
                      allocated |-> block[a].allocated]
      /\ \A z \in D \ {i, a} : linked[z] = block[z]
  <2>1. block[i] \in Header /\ block[a] \in Header
    BY <1>1, <1>4
  <2>2. /\ [block[i] EXCEPT !.next = a]
             = [size |-> block[i].size, next |-> a, allocated |-> block[i].allocated]
        /\ [block[a] EXCEPT !.next = n]
             = [size |-> block[a].size, next |-> n, allocated |-> block[a].allocated]
    BY <2>1, HeaderNext
  <2> HIDE DEF n, D
  <2>3. linked = [z \in D |-> IF z = i THEN [block[i] EXCEPT !.next = a]
                              ELSE IF z = a THEN [block[a] EXCEPT !.next = n]
                              ELSE block[z]]
    BY DEF Linked, n, D
  <2> HIDE DEF linked
  <2> QED
    BY <1>4, <2>2, <2>3
<1> HIDE DEF linked, n, D
<1>7. /\ linked[i].next = a /\ linked[a].next = n
      /\ \A z \in D : /\ linked[z].size = block[z].size
                      /\ linked[z].allocated = block[z].allocated
  BY <1>6
<1>8. Inner(linked) = Inner(block)
  BY <1>1, <1>6 DEF Inner
<1>9. Shaped(linked)
  <2>1. linked \in [DOMAIN linked -> Header]
    <3>1. \A z \in D : linked[z] \in Header
      <4>1. linked[i] \in Header /\ linked[a] \in Header
        BY <1>1, <1>4, <1>5, <1>6 DEF Header
      <4> QED
        BY <1>1, <1>6, <4>1
    <3> QED
      BY <1>6, <3>1
  <2>2. linked[pxEnd] = block[pxEnd]
    BY <1>1, <1>4, <1>6
  <2> QED
    BY <1>1, <1>6, <1>7, <2>1, <2>2 DEF Shaped
<1>10. Tiled(linked)
  <2>1. \A z \in Inner(block) : linked[z].size = block[z].size
    BY <1>1, <1>7
  <2> QED
    BY <1>2, <1>8, <2>1 DEF Tiled
<1>11. Chained(linked, G)
  <2>1. G \subseteq Inner(linked)
    BY <1>1, <1>8
  <2>2. ASSUME NEW z \in G \cup {xStart}
        PROVE  /\ linked[z].next \in G \cup {pxEnd}
               /\ z < linked[z].next
               /\ \A b \in G : ~(z < b /\ b < linked[z].next)
    <3>1. CASE z = i
      <4>1. \A b \in F : b \in Nat /\ ~(i < b /\ b < n)
        BY <1>3, <1>5
      <4>2. linked[z].next = a /\ a \in G /\ z < a
        BY <1>7, <3>1
      <4>3. \A b \in G : ~(z < b /\ b < a)
        BY <1>4, <1>5, <3>1, <4>1
      <4> QED
        BY <4>2, <4>3
    <3>2. CASE z = a
      <4>1. \A b \in F : b \in Nat
        BY <1>3
      <4> QED
        BY <1>4, <1>5, <1>7, <3>2, <4>1
    <3>3. CASE z # i /\ z # a
      <4>1. z \in F \cup {xStart} /\ z \in D /\ z \in Nat
        BY <1>1, <1>3, <3>3
      <4>2. linked[z] = block[z]
        BY <1>6, <3>3, <4>1
      <4>3. ~(z < a /\ a < block[z].next)
        <5>1. z < i => ~(i < block[z].next)
          <6>1. z < i => i \in F
            BY <1>3, <1>4, <4>1
          <6> QED
            BY <1>3, <4>1, <6>1
        <5>2. i < z => ~(z < n)
          <6>1. i < z => z \in F
            BY <1>3, <1>4, <4>1
          <6> QED
            BY <1>5, <6>1
        <5>3. block[z].next \in Nat
          BY <1>3, <4>1
        <5> QED
          BY <1>4, <1>5, <3>3, <4>1, <5>1, <5>2, <5>3
      <4> QED
        BY <1>3, <4>1, <4>2, <4>3
    <3> QED
      BY <3>1, <3>2, <3>3
  <2> QED
    BY <2>1, <2>2 DEF Chained
<1>12. \A S : S \subseteq Inner(block) => Total(linked, S) = Total(block, S)
  <2>1. SUFFICES ASSUME NEW S, S \subseteq Inner(block)
                 PROVE  Total(linked, S) = Total(block, S)
    OBVIOUS
  <2>2. IsFiniteSet(S)
    <3>1. S \subseteq D
      BY <1>1, <2>1
    <3> QED
      BY <1>1, <3>1, FS_Subset
  <2>3. \A z \in S : linked[z].size = block[z].size
    BY <1>1, <1>7, <2>1
  <2> QED
    BY ONLY <2>2, <2>3, TotalSame
<1>13. Rearranged(block, G, linked, G)
  <2>1. G \subseteq Inner(block)
    BY <1>1
  <2>2. \A z \in Inner(block) \ G : linked[z] = block[z]
    <3>1. ASSUME NEW z \in Inner(block) \ G PROVE linked[z] = block[z]
      <4>1. z \in D /\ z # a /\ z # i
        BY <1>1
      <4> QED
        BY <1>6, <4>1
    <3> QED
      BY <3>1
  <2>3. \A z \in G : linked[z].allocated = block[z].allocated
    BY <1>1, <1>7, <2>1
  <2>4. Total(linked, Inner(linked)) = Total(block, Inner(block))
    BY <1>8, <1>12
  <2>5. Total(linked, G) = Total(block, G)
    BY <1>12, <2>1
  <2> HIDE DEF G
  <2> QED
    BY <1>8, <1>9, <1>10, <1>11, <2>2, <2>3, <2>4, <2>5 DEF Rearranged, Listed
<1>14. ASSUME NEW z \in G, z + block[z].size \in G
       PROVE  \/ z = i /\ i + block[i].size = a
              \/ z = a /\ a + block[a].size = n /\ n # pxEnd
  <2> DEFINE e == z + block[z].size
  <2>1. z \in Inner(block) /\ z \in Nat /\ block[z].size \in Nat /\ block[z].size > 0
        /\ e \in Nat /\ z < e /\ e \in Inner(block)
        /\ \A b \in Inner(block) : ~(z < b /\ b < e)
    BY <1>1, <1>2, <1>14
  <2>2. e \in G
    BY <1>14
  <2>3. CASE z = a
    <3>1. e \in F
      BY <2>1, <2>2, <2>3
    <3>2. ~(i < e /\ e < n)
      BY <1>5, <3>1
    <3>3. n \in Inner(block) => ~(a < n /\ n < e)
      BY <2>1, <2>3
    <3>4. n \in F \/ n = pxEnd
      BY <1>5
    <3>5. e < pxEnd
      BY <1>2, <2>1
    <3>6. e = n /\ n # pxEnd
      BY <1>1, <1>2, <1>4, <1>5, <2>1, <2>3, <3>2, <3>3, <3>4, <3>5
    <3> QED
      BY <2>3, <3>6
  <2>4. CASE z # a
    <3>1. z \in F /\ e \notin F
      BY <1>14, <2>4 DEF Apart
    <3>2. e = a
      BY <2>2, <3>1
    <3>3. i \in Inner(block) => ~(z < i /\ i < e)
      BY <2>1
    <3>4. ~(i < z /\ z < n)
      BY <1>5, <3>1
    <3>5. z = i
      <4>1. i # xStart => i \in Inner(block)
        BY <1>1
      <4>2. i = xStart => i = 0
        BY <1>3
      <4> QED
        BY <1>4, <1>5, <2>1, <3>2, <3>3, <3>4, <4>1, <4>2
    <3> QED
      BY <3>2, <3>5
  <2> QED
    BY <2>3, <2>4
<1>15. /\ Touching(linked, G) \subseteq {i, a}
       /\ i \in Touching(linked, G) => i + block[i].size = a
       /\ a \in Touching(linked, G) => a + block[a].size = n /\ n # pxEnd
  <2>1. G \subseteq D
    BY <1>1
  <2>2. Touching(linked, G) = {z \in G : z + block[z].size \in G}
    BY <1>7, <2>1 DEF Touching
  <2> HIDE DEF G
  <2> QED
    BY <1>4, <1>14, <2>2
<1>16. linked[a].size = block[a].size /\ linked[i].size = block[i].size
  BY <1>4, <1>7
<1> QED
  BY <1>5, <1>13, <1>15, <1>16 DEF linked, n

(* prvInsertBlockIntoFreeList puts the block into the list and leaves no   *)
(* two blocks of it touching.                                              *)
LEMMA InsertIs ==
  ASSUME NEW block, NEW F, Listed(block, F), Apart(block, F),
         NEW a \in Inner(block) \ F,
         \A x \in Links(block) : x \in F \cup {xStart} \/ ~(block[x].next < a)
  PROVE  \E H :
           /\ Rearranged(block, F \cup {a}, prvInsertBlockIntoFreeList(block, a), H)
           /\ Apart(prvInsertBlockIntoFreeList(block, a), H)
<1> DEFINE i == Before(block, a)
           n == block[i].next
           G == F \cup {a}
           linked == Linked(block, i, a)
           front == IF a + block[a].size = n /\ n # pxEnd THEN Joined(linked, a)
                    ELSE linked
           inserted == prvInsertBlockIntoFreeList(block, a)
<1>1. /\ F \subseteq Inner(block) /\ Inner(block) = DOMAIN block \ {xStart, pxEnd}
      /\ block \in [DOMAIN block -> Header] /\ block[xStart].size = 0
      /\ xStart \in DOMAIN block /\ pxEnd \in DOMAIN block
      /\ G \subseteq Inner(block)
  BY DEF Listed, Shaped, Chained, Inner
<1>2. a \in 1..pxEnd /\ a \in Nat /\ a > 0 /\ a < pxEnd /\ a \in DOMAIN block
  <2>1. a \in pucAlignedHeap..(pxEnd - 1) /\ a \in DOMAIN block
    BY <1>1 DEF Listed, Tiled
  <2> QED
    BY <2>1, Layout
<1>3. i \in F \cup {xStart} /\ i < a /\ n >= a
  BY <1>1, <1>2, BeforeIs DEF Listed
<1>4. /\ F \cup {xStart} \subseteq Nat /\ xStart = 0 /\ pxEnd \in Nat
      /\ \A z \in F : z < pxEnd
  BY ChainIs, Layout DEF Listed, xStart
<1> HIDE DEF i, n, linked, front, inserted
<1>5. /\ Rearranged(block, G, linked, G)
      /\ n \in F \cup {pxEnd} /\ a < n
      /\ linked[a].size = block[a].size /\ linked[i].size = block[i].size
      /\ Touching(linked, G) \subseteq {i, a}
      /\ i \in Touching(linked, G) => i + block[i].size = a
      /\ a \in Touching(linked, G) => a + block[a].size = n /\ n # pxEnd
  BY <1>3, LinkedRearranges DEF n, linked
<1>6. inserted = IF i + block[i].size = a THEN Joined(front, i) ELSE front
  <2>1. /\ i \in DOMAIN block /\ i # a /\ a \in Int /\ i \in Int
        /\ n \in DOMAIN block /\ n # i /\ n # a /\ n \in Int
    BY <1>1, <1>2, <1>3, <1>4, <1>5
  <2>2. i = Before(block, a) /\ n = block[i].next
    BY DEF i, n
  <2> QED
    BY <1>1, <1>2, <2>1, <2>2, InsertIsLinkAndJoin DEF front, linked, inserted
<1>7. Listed(linked, G) /\ i \in Nat /\ a \in G /\ i < a
  BY <1>3, <1>4, <1>5 DEF Rearranged
<1>8. \E K : /\ Rearranged(block, G, front, K) /\ a \in K
             /\ Touching(front, K) \subseteq {i}
             /\ i \in Touching(front, K) => i + block[i].size = a
             /\ i \in F => i \in K /\ front[i].size = block[i].size
  <2>1. CASE a + block[a].size = n /\ n # pxEnd
    <3> DEFINE K == G \ {n}
    <3>1. n = a + linked[a].size /\ n \in G /\ n \in Nat /\ i < n
      BY <1>2, <1>3, <1>4, <1>5, <1>7, <2>1
    <3>2. n \notin Touching(linked, G)
      <4>1. n # i /\ n # a
        BY <1>2, <1>5, <1>7, <3>1
      <4> HIDE DEF G
      <4> QED
        BY <1>5, <4>1
    <3>3. front = Joined(linked, a)
      BY <2>1 DEF front
    <3>4. /\ Rearranged(linked, G, front, K)
          /\ Touching(front, K) \subseteq Touching(linked, G) \ {a, n}
          /\ \A z \in G \ {a, n} : front[z] = linked[z]
      <4>1. Listed(linked, G) /\ a \in G /\ n \in G /\ n = a + linked[a].size
        BY <1>7, <3>1
      <4> HIDE DEF G
      <4> QED
        BY <3>2, <3>3, <4>1, JoinedRearranges
    <3>5. Rearranged(block, G, front, K)
      <4>1. G \subseteq Inner(block) /\ Rearranged(block, G, linked, G)
            /\ Rearranged(linked, G, front, K)
        BY <1>1, <1>5, <3>4
      <4> HIDE DEF G, K
      <4> QED
        BY ONLY <4>1, RearrangedTwice
    <3>6. ASSUME i \in F PROVE i \in K /\ front[i].size = block[i].size
      <4>1. i \in K /\ i # a
        BY <1>7, <3>1, <3>6
      <4> QED
        BY <1>5, <3>4, <4>1
    <3>7. a \in K /\ a # n
      BY <1>2, <1>5, <3>1
    <3>8. /\ Touching(front, K) \subseteq {i}
          /\ i \in Touching(front, K) => i + block[i].size = a
      BY <1>5, <3>4
    <3> HIDE DEF K
    <3> QED
      BY <3>5, <3>6, <3>7, <3>8
  <2>2. CASE ~(a + block[a].size = n /\ n # pxEnd)
    <3>1. front = linked
      BY <2>2 DEF front
    <3>2. Touching(front, G) \subseteq {i}
      BY <1>5, <2>2, <3>1
    <3>3. i \in F => i \in G
      OBVIOUS
    <3> HIDE DEF G
    <3> QED
      BY <1>5, <1>7, <3>1, <3>2, <3>3
  <2> QED
    BY <2>1, <2>2
<1>9. PICK K : /\ Rearranged(block, G, front, K) /\ a \in K
               /\ Touching(front, K) \subseteq {i}
               /\ i \in Touching(front, K) => i + block[i].size = a
               /\ i \in F => i \in K /\ front[i].size = block[i].size
  BY <1>8
<1>10. CASE i + block[i].size = a
  <2>1. i \in F
    BY <1>1, <1>2, <1>3, <1>4, <1>10
  <2>2. /\ i \in K /\ a = i + front[i].size /\ a \in K /\ Listed(front, K)
        /\ a \notin Touching(front, K)
    BY <1>7, <1>9, <1>10, <2>1 DEF Rearranged
  <2>3. inserted = Joined(front, i)
    BY <1>6, <1>10
  <2>4. /\ Rearranged(front, K, inserted, K \ {a})
        /\ Touching(inserted, K \ {a}) \subseteq Touching(front, K) \ {i, a}
    BY <2>2, <2>3, JoinedRearranges
  <2>5. Rearranged(block, G, inserted, K \ {a})
    BY <1>1, <1>9, <2>4, RearrangedTwice
  <2>6. Apart(inserted, K \ {a})
    BY <1>9, <2>4 DEF Apart, Touching
  <2> QED
    BY <2>5, <2>6 DEF inserted
<1>11. CASE i + block[i].size # a
  <2>1. inserted = front
    BY <1>6, <1>11
  <2>2. Apart(inserted, K)
    BY <1>9, <1>11, <2>1 DEF Apart, Touching
  <2> QED
    BY <1>9, <2>1, <2>2 DEF inserted
<1> QED
  BY <1>10, <1>11

-----------------------------------------------------------------------------
(* lwcan_malloc and lwcan_free as functions of the heap.                   *)

(* What is written into the allocated bit, or the link of a block that is  *)
(* not in the list, leaves the list as it is.                              *)
LEMMA RemarkedIs ==
  ASSUME NEW block, NEW F, Listed(block, F),
         NEW other \in [DOMAIN block -> Header],
         \A z \in DOMAIN block : other[z].size = block[z].size,
         \A z \in F \cup {xStart} : other[z].next = block[z].next,
         other[xStart].allocated = block[xStart].allocated,
         other[pxEnd] = block[pxEnd]
  PROVE  /\ Listed(other, F) /\ Inner(other) = Inner(block)
         /\ Apart(block, F) => Apart(other, F)
         /\ \A S : S \subseteq Inner(block) => Total(other, S) = Total(block, S)
<1>1. Inner(other) = Inner(block) /\ DOMAIN other = DOMAIN block
      /\ F \subseteq DOMAIN block /\ Inner(block) \subseteq DOMAIN block
  BY ListedIs DEF Inner
<1>2. Shaped(other)
  BY <1>1 DEF Shaped, Listed
<1>3. Tiled(other)
  <2>1. \A z \in Inner(block) : other[z].size = block[z].size
    BY <1>1
  <2> QED
    BY <1>1, <2>1 DEF Tiled, Listed
<1>4. Chained(other, F)
  BY <1>1 DEF Chained, Listed
<1>5. Apart(block, F) => Apart(other, F)
  BY <1>1 DEF Apart
<1>6. ASSUME NEW S, S \subseteq Inner(block) PROVE Total(other, S) = Total(block, S)
  <2>1. IsFiniteSet(S)
    BY <1>6, ListedIs, FS_Subset
  <2>2. \A z \in S : other[z].size = block[z].size
    BY <1>1, <1>6
  <2> QED
    BY ONLY <2>1, <2>2, TotalSame
<1> QED
  BY <1>1, <1>2, <1>3, <1>4, <1>5, <1>6 DEF Listed

(* The heap without b in its list.                                         *)
IsUnlinked(block, F, p, b, unlinked) ==
  /\ Listed(unlinked, F \ {b}) /\ Inner(unlinked) = Inner(block)
  /\ Apart(block, F) => Apart(unlinked, F \ {b})
  /\ \A S : S \subseteq Inner(block) => Total(unlinked, S) = Total(block, S)
  /\ DOMAIN unlinked = DOMAIN block
  /\ \A z \in DOMAIN block \ {p} : unlinked[z] = block[z]
  /\ \A z \in DOMAIN block : /\ unlinked[z].size = block[z].size
                             /\ unlinked[z].allocated = block[z].allocated
  /\ b # p

(* The block before b gets the link of b: b leaves the list.               *)
LEMMA UnlinkedIs ==
  ASSUME NEW block, NEW F, Listed(block, F),
         NEW p \in F \cup {xStart}, NEW b \in F, block[p].next = b
  PROVE  IsUnlinked(block, F, p, b, [block EXCEPT ![p].next = block[b].next])
<1> DEFINE unlinked == [block EXCEPT ![p].next = block[b].next]
           next == block[b].next
<1>1. /\ b \in Nat /\ p \in Nat /\ p < b /\ b < next /\ next \in Nat
      /\ p \in DOMAIN block /\ b \in DOMAIN block /\ p # pxEnd
  BY ListedIs
<1>2. /\ unlinked[p] = [block[p] EXCEPT !.next = next]
      /\ DOMAIN unlinked = DOMAIN block
      /\ \A z \in DOMAIN block \ {p} : unlinked[z] = block[z]
      /\ unlinked = [z \in DOMAIN block |-> unlinked[z]]
  BY <1>1
<1>3. unlinked[p] = [size |-> block[p].size, next |-> next,
                     allocated |-> block[p].allocated]
  <2>1. block[p] \in Header
    BY <1>1, ListedIs
  <2> HIDE DEF unlinked, next
  <2>2. [block[p] EXCEPT !.next = next]
          = [size |-> block[p].size, next |-> next, allocated |-> block[p].allocated]
    BY ONLY <2>1, HeaderNext
  <2> QED
    BY <1>2, <2>2
<1> HIDE DEF unlinked
<1>4. \A z \in DOMAIN block : /\ unlinked[z].size = block[z].size
                              /\ unlinked[z].allocated = block[z].allocated
  BY <1>2, <1>3
<1>5. Inner(unlinked) = Inner(block) /\ Inner(block) \subseteq DOMAIN block
  BY <1>2 DEF Inner
<1>6. Shaped(unlinked)
  <2>1. \A z \in DOMAIN block : unlinked[z] \in Header
    <3>1. unlinked[p] \in Header
      <4>1. block[p] \in Header
        BY <1>1, ListedIs
      <4> QED
        BY <1>1, <1>3, <4>1 DEF Header
    <3> QED
      BY <1>2, <3>1, ListedIs
  <2>2. unlinked[pxEnd] = block[pxEnd]
    BY <1>1, <1>2, ListedIs
  <2> QED
    BY <1>2, <1>4, <2>1, <2>2, ListedIs DEF Shaped
<1>7. Tiled(unlinked)
  <2>1. \A z \in Inner(block) : unlinked[z].size = block[z].size
    BY <1>4, <1>5
  <2> QED
    BY <1>5, <2>1 DEF Tiled, Listed
<1>8. Chained(unlinked, F \ {b})
  <2>1. F \ {b} \subseteq Inner(unlinked)
    BY <1>5, ListedIs
  <2>2. ASSUME NEW z \in (F \ {b}) \cup {xStart}
        PROVE  /\ unlinked[z].next \in (F \ {b}) \cup {pxEnd}
               /\ z < unlinked[z].next
               /\ \A c \in F \ {b} : ~(z < c /\ c < unlinked[z].next)
    <3>1. /\ z \in F \cup {xStart} /\ z \in Nat /\ z # b /\ z \in DOMAIN block
          /\ \A c \in F : c \in Nat
      BY <1>1, ListedIs
    <3>2. CASE z = p
      <4>1. unlinked[z].next = next
        BY <1>3, <3>2
      <4>2. /\ next \in F \cup {pxEnd} /\ next # b
            /\ \A c \in F : ~(p < c /\ c < b) /\ ~(b < c /\ c < next)
        BY <1>1, ListedIs
      <4>3. p \in Nat /\ b \in Nat /\ next \in Nat /\ p < b /\ b < next
        BY <1>1
      <4> HIDE DEF next
      <4>4. ASSUME NEW c \in F \ {b} PROVE ~(p < c /\ c < next)
        <5>1. c \in Nat /\ c # b /\ ~(p < c /\ c < b) /\ ~(b < c /\ c < next)
          BY <3>1, <4>2
        <5> QED
          BY <4>3, <5>1
      <4>5. p < next
        BY <4>3
      <4> QED
        BY <3>2, <4>1, <4>2, <4>4, <4>5
    <3>3. CASE z # p
      <4>1. unlinked[z].next = block[z].next
        BY <1>2, <3>1, <3>3
      <4>2. /\ block[z].next \in F \cup {pxEnd} /\ z < block[z].next
            /\ block[z].next \in Nat
            /\ \A c \in F : ~(z < c /\ c < block[z].next)
        BY <3>1, ListedIs
      <4>3. block[z].next # b
        <5>1. z < p => p \in F
          BY <3>1, ListedIs
        <5>2. p < z => z \in F
          BY <1>1, <3>1, ListedIs
        <5>3. ~(z < p /\ p < block[z].next)
          BY <4>2, <5>1
        <5>4. ~(p < z /\ z < b)
          BY <5>2, ListedIs
        <5> QED
          BY <1>1, <3>1, <3>3, <4>2, <5>3, <5>4
      <4> QED
        BY <4>1, <4>2, <4>3
    <3> QED
      BY <3>2, <3>3
  <2> QED
    BY <2>1, <2>2 DEF Chained
<1>9. Apart(block, F) => Apart(unlinked, F \ {b})
  <2>1. \A z \in F : unlinked[z].size = block[z].size
    BY <1>4, ListedIs
  <2> QED
    BY <2>1 DEF Apart
<1>10. ASSUME NEW S, S \subseteq Inner(block) PROVE Total(unlinked, S) = Total(block, S)
  <2>1. IsFiniteSet(S)
    BY <1>10, ListedIs, FS_Subset
  <2>2. \A z \in S : unlinked[z].size = block[z].size
    BY <1>4, <1>5, <1>10
  <2> QED
    BY ONLY <2>1, <2>2, TotalSame
<1>11. Listed(unlinked, F \ {b}) /\ b # p
  BY <1>1, <1>6, <1>7, <1>8 DEF Listed
<1> QED
  BY <1>2, <1>4, <1>5, <1>9, <1>10, <1>11 DEF IsUnlinked, unlinked

(* The block at b is cut in two, the second in no list yet.                *)
Cut(block, b, size) ==
  [a \in DOMAIN block \cup {b + size} |->
     IF a = b + size THEN Free(block[b].size - size, NULL)
     ELSE IF a = b THEN [block[b] EXCEPT !.size = size]
     ELSE block[a]]

(* What a cut makes of the headers, and what it leaves alone.              *)
IsCut(block, F, b, size, c, cut) ==
  /\ Listed(cut, F) /\ DOMAIN cut = DOMAIN block \cup {c}
  /\ Inner(cut) = Inner(block) \cup {c} /\ c \notin DOMAIN block
  /\ Apart(block, F) => Apart(cut, F)
  /\ Total(cut, Inner(cut)) = Total(block, Inner(block))
  /\ Total(cut, F) = Total(block, F)
  /\ cut[c] = Free(block[b].size - size, NULL)
  /\ cut[b] = [size |-> size, next |-> block[b].next,
               allocated |-> block[b].allocated]
  /\ \A z \in DOMAIN block \ {b} : cut[z] = block[z]

(* A cut at an aligned size below that of the block keeps the heap tiled.  *)
LEMMA CutIs ==
  ASSUME NEW block, NEW F, Listed(block, F),
         NEW b \in Inner(block) \ F, NEW size \in Nat, size > 0,
         size % MEMORY_BYTE_ALIGNMENT = 0, size < block[b].size,
         NEW c, c = b + size
  PROVE  IsCut(block, F, b, size, c, Cut(block, b, size))
<1> DEFINE cut == Cut(block, b, size)
           D == DOMAIN block
           rest == block[b].size - size
<1>1. /\ b \in D /\ b \in Nat /\ b > 0 /\ b < pxEnd /\ block[b].size \in Nat
      /\ b # xStart
      /\ b # pxEnd /\ block[b] \in Header
      /\ \A z \in Inner(block) : ~(b < z /\ z < b + block[b].size)
      /\ b + block[b].size \in Inner(block) \cup {pxEnd}
      /\ b + block[b].size <= pxEnd /\ pxEnd \in Nat /\ xStart = 0
      /\ b \in pucAlignedHeap..(pxEnd - 1)
      /\ Inner(block) = D \ {xStart, pxEnd}
  BY ListedIs
<1>2. /\ c \in Nat /\ b < c /\ c < b + block[b].size /\ c < pxEnd /\ c > 0 /\ c # b
      /\ rest \in Nat /\ rest > 0 /\ c + rest = b + block[b].size
  BY <1>1
<1>3. c \notin D
  BY <1>1, <1>2
<1>4. /\ DOMAIN cut = D \cup {c} /\ cut = [z \in D \cup {c} |-> cut[z]]
      /\ cut[c] = Free(rest, NULL)
      /\ cut[b] = [size |-> size, next |-> block[b].next,
                   allocated |-> block[b].allocated]
      /\ \A z \in D \ {b} : cut[z] = block[z]
  <2>1. [block[b] EXCEPT !.size = size]
          = [size |-> size, next |-> block[b].next, allocated |-> block[b].allocated]
    BY <1>1, HeaderSize
  <2> HIDE DEF D, rest
  <2>2. cut = [a \in D \cup {c} |->
                 IF a = c THEN Free(rest, NULL)
                 ELSE IF a = b THEN [block[b] EXCEPT !.size = size]
                 ELSE block[a]]
    BY DEF Cut, D, rest
  <2> HIDE DEF cut
  <2> QED
    BY <1>1, <1>2, <1>3, <2>1, <2>2
<1> HIDE DEF cut, D, rest
<1>5. Inner(cut) = Inner(block) \cup {c}
  BY <1>1, <1>2, <1>4 DEF Inner
<1>6. cut[c].size = rest /\ cut[b].size = size
  BY <1>4 DEF Free
<1>7. Shaped(cut)
  <2>1. \A z \in D \cup {c} : cut[z] \in Header
    <3>1. cut[c] \in Header
      <4>1. cut[c] = [size |-> rest, next |-> -1, allocated |-> FALSE]
        BY <1>4 DEF Free, NULL
      <4>2. rest \in Nat /\ -1 \in Int
        BY <1>2
      <4> QED
        BY <4>1, <4>2 DEF Header
    <3>2. cut[b] \in Header
      BY <1>1, <1>4 DEF Header
    <3> QED
      BY <1>4, <3>1, <3>2, ListedIs DEF D
  <2>2. IsFiniteSet(D \cup {c})
    BY ListedIs, FS_AddElement DEF D
  <2>3. cut[xStart] = block[xStart] /\ cut[pxEnd] = block[pxEnd]
        /\ xStart \in D /\ pxEnd \in D
    BY <1>1, <1>4, ListedIs DEF D
  <2>4. cut \in [DOMAIN cut -> Header]
    BY <1>4, <2>1
  <2> QED
    BY <1>4, <2>2, <2>3, <2>4, ListedIs DEF Shaped
<1>8. Tiled(cut)
  <2>1. ASSUME NEW a \in Inner(cut)
        PROVE  /\ a \in pucAlignedHeap..(pxEnd - 1)
               /\ a % MEMORY_BYTE_ALIGNMENT = 0
               /\ cut[a].size > 0
               /\ a + cut[a].size \in Inner(cut) \cup {pxEnd}
               /\ \A z \in Inner(cut) : ~(a < z /\ z < a + cut[a].size)
    <3>1. CASE a = c
      <4>1. a \in pucAlignedHeap..(pxEnd - 1)
        BY <1>1, <1>2, <3>1, Layout
      <4>2. a % MEMORY_BYTE_ALIGNMENT = 0
        <5>1. b % MEMORY_BYTE_ALIGNMENT = 0
          BY ListedIs
        <5>2. (b + size) % MEMORY_BYTE_ALIGNMENT = 0
          BY <1>1, <5>1, AlignedSum
        <5> QED
          BY <3>1, <5>2
      <4>3. a + cut[a].size = b + block[b].size
        BY <1>2, <1>6, <3>1
      <4>4. \A z \in Inner(block) : z \in Nat /\ ~(b < z /\ z < b + block[b].size)
        BY <1>1, ListedIs
      <4>5. \A z \in Inner(cut) : ~(a < z /\ z < a + cut[a].size)
        BY <1>1, <1>2, <1>5, <3>1, <4>3, <4>4
      <4> QED
        BY <1>1, <1>2, <1>5, <1>6, <3>1, <4>1, <4>2, <4>3, <4>5
    <3>2. CASE a = b
      <4>1. a + cut[a].size = c
        BY <1>6, <3>2
      <4>2. \A z \in Inner(block) : z \in Nat /\ ~(b < z /\ z < b + block[b].size)
        BY <1>1, ListedIs
      <4>3. \A z \in Inner(cut) : ~(a < z /\ z < c)
        BY <1>1, <1>2, <1>5, <3>2, <4>2
      <4>4. a % MEMORY_BYTE_ALIGNMENT = 0
        BY <3>2, ListedIs
      <4> QED
        BY <1>1, <1>5, <1>6, <3>2, <4>1, <4>3, <4>4
    <3>3. CASE a # b /\ a # c
      <4>1. a \in Inner(block) /\ cut[a] = block[a]
        BY <1>1, <1>4, <1>5, <3>3
      <4>2. /\ a \in pucAlignedHeap..(pxEnd - 1)
            /\ a % MEMORY_BYTE_ALIGNMENT = 0
            /\ a \in Nat /\ block[a].size \in Nat /\ block[a].size > 0
            /\ a + block[a].size \in Inner(block) \cup {pxEnd}
            /\ \A z \in Inner(block) : ~(a < z /\ z < a + block[a].size)
        BY <4>1, ListedIs
      <4>3. ~(a < c /\ c < a + block[a].size)
        <5>1. ~(a < b /\ b < a + block[a].size)
          BY <4>2
        <5>2. ~(b < a /\ a < b + block[b].size)
          BY <1>1, <4>1
        <5> QED
          BY <1>1, <1>2, <3>3, <4>2, <5>1, <5>2
      <4> QED
        BY <1>5, <4>1, <4>2, <4>3
    <3> QED
      BY <3>1, <3>2, <3>3
  <2>2. pucAlignedHeap \in Inner(cut)
    BY <1>5 DEF Listed, Tiled
  <2> QED
    BY <2>1, <2>2 DEF Tiled
<1>9. \A z \in F \cup {xStart} : cut[z] = block[z]
  <2>1. F \subseteq D /\ xStart \in D /\ b \notin F
    BY ListedIs DEF D
  <2> QED
    BY <1>1, <1>4, <2>1
<1>10. Chained(cut, F)
  <2>1. F \subseteq Inner(cut)
    BY <1>5, ListedIs
  <2> QED
    BY <1>9, <2>1 DEF Chained, Listed
<1>11. Apart(block, F) => Apart(cut, F)
  BY <1>9 DEF Apart
<1>12. Total(cut, F) = Total(block, F)
  <2>1. IsFiniteSet(F) /\ \A z \in F : cut[z].size = block[z].size
    BY <1>9, ListedIs
  <2> QED
    BY ONLY <2>1, TotalSame
<1>13. Total(cut, Inner(cut)) = Total(block, Inner(block))
  <2>1. IsFiniteSet(Inner(cut))
    BY <1>5, ListedIs, FS_AddElement
  <2>2. /\ \A z \in Inner(cut) : cut[z].size \in Nat
    <3>1. \A z \in Inner(block) : z \in D /\ block[z].size \in Nat
      BY ListedIs DEF D
    <3> QED
      BY <1>2, <1>4, <1>5, <1>6, <3>1
  <2>3. /\ b \in Inner(cut) /\ c \in Inner(cut) /\ b # c
        /\ block[b].size = cut[b].size + cut[c].size
    BY <1>1, <1>2, <1>5, <1>6 DEF rest
  <2>4. \A z \in Inner(cut) \ {b, c} : block[z].size = cut[z].size
    BY <1>1, <1>4, <1>5
  <2>5. Total(block, Inner(cut) \ {c}) = Total(cut, Inner(cut))
    BY ONLY <2>1, <2>2, <2>3, <2>4, TotalJoined
  <2>6. Inner(cut) \ {c} = Inner(block)
    BY <1>1, <1>3, <1>5
  <2> QED
    BY <2>5, <2>6
<1>14. Listed(cut, F)
  BY <1>7, <1>8, <1>10 DEF Listed
<1> QED
  BY <1>3, <1>4, <1>5, <1>11, <1>12, <1>13, <1>14 DEF IsCut, cut, D, rest

(* The free and the allocated blocks of a heap.                            *)
FreeIn(block) == {a \in Inner(block) : ~block[a].allocated}
AllocatedIn(block) == Inner(block) \ FreeIn(block)

(* A heap as lwcan_malloc and lwcan_free expect and leave it: the list     *)
(* holds exactly the free blocks, no two of them touch, the counter is     *)
(* their bytes, and all blocks together are the heap.                      *)
HeapOK(h) ==
  /\ h = [block |-> h.block, xFreeBytesRemaining |-> h.xFreeBytesRemaining]
  /\ Listed(h.block, FreeIn(h.block))
  /\ Apart(h.block, FreeIn(h.block))
  /\ \A a \in AllocatedIn(h.block) : h.block[a].next = NULL
  /\ h.xFreeBytesRemaining = Total(h.block, FreeIn(h.block))
  /\ Total(h.block, Inner(h.block)) = pxEnd - pucAlignedHeap

(* The headers that have a link are those of the list.                     *)
LEMMA LinksAre ==
  ASSUME NEW block, Listed(block, FreeIn(block)),
         \A a \in AllocatedIn(block) : block[a].next = NULL
  PROVE  Links(block) = FreeIn(block) \cup {xStart}
<1> DEFINE F == FreeIn(block)
<1>1. DOMAIN block = Inner(block) \cup {xStart, pxEnd}
  <2>1. xStart \in DOMAIN block /\ pxEnd \in DOMAIN block
    BY DEF Listed, Shaped
  <2> QED
    BY <2>1 DEF Inner
<1>2. \A a \in F \cup {xStart} : block[a].next \in Nat /\ a \in DOMAIN block
  BY ListedIs
<1>3. block[pxEnd].next = NULL
  BY ListedIs DEF Free
<1>4. \A a \in F \cup {xStart} : block[a].next # NULL
  BY <1>2 DEF NULL
<1> QED
  BY <1>1, <1>2, <1>3, <1>4 DEF Links, AllocatedIn

(* The block at b, out of the list, has what was wanted of it; what it had *)
(* more is free.                                                           *)
IsSplit(h, F, b, wanted, r) ==
  /\ r = [block |-> r.block, xFreeBytesRemaining |-> h.xFreeBytesRemaining]
  /\ \E H : /\ Listed(r.block, H) /\ Apart(r.block, H)
            /\ \A a \in H : ~r.block[a].allocated
            /\ Inner(r.block) \ H = Inner(h.block) \ F
            /\ \A a \in Inner(h.block) \ (F \cup {b}) : r.block[a] = h.block[a]
            /\ r.block[b].size >= wanted
            /\ Total(r.block, Inner(r.block)) = Total(h.block, Inner(h.block))
            /\ Total(r.block, H) + r.block[b].size = Total(h.block, F) + h.block[b].size

(* Split gives what is left of a block back to the list.                   *)
LEMMA SplitIs ==
  ASSUME NEW h, h = [block |-> h.block, xFreeBytesRemaining |-> h.xFreeBytesRemaining],
         NEW F, Listed(h.block, F), Apart(h.block, F),
         NEW b \in Inner(h.block) \ F,
         Links(h.block) \subseteq F \cup {xStart, b},
         ~(h.block[b].next < b + h.block[b].size),
         \A a \in F : ~h.block[a].allocated,
         NEW wanted \in Nat, wanted > 0, wanted % MEMORY_BYTE_ALIGNMENT = 0,
         wanted <= h.block[b].size
  PROVE  IsSplit(h, F, b, wanted, Split(h, b, wanted))
<1> DEFINE block == h.block
           rest == block[b].size - wanted
           c == b + wanted
           cut == Cut(block, b, wanted)
           r == Split(h, b, wanted)
<1>1. /\ b \in Nat /\ block[b].size \in Nat /\ IsFiniteSet(F)
      /\ F \subseteq Inner(block) /\ b \in DOMAIN block
      /\ Total(block, F) \in Nat
  <2>1. \A a \in F : block[a].size \in Nat
    BY ListedIs
  <2>2. IsFiniteSet(F)
    BY ListedIs
  <2>3. Total(block, F) \in Nat
    BY ONLY <2>1, <2>2, TotalNat
  <2> QED
    BY <2>2, <2>3, ListedIs
<1>2. CASE rest > MEMORY_HEAP_MINIMUM_BLOCK_SIZE
  <2> DEFINE q == prvInsertBlockIntoFreeList(cut, c)
  <2>1. r = [block |-> q, xFreeBytesRemaining |-> h.xFreeBytesRemaining]
    <3>1. r = [h EXCEPT !.block = q]
      BY <1>2 DEF Split, Cut
    <3> HIDE DEF q, r
    <3> QED
      BY <3>1
  <2>2. wanted < block[b].size /\ rest \in Nat /\ rest > 0
    BY <1>1, <1>2, Layout
  <2>3. /\ Listed(cut, F) /\ DOMAIN cut = DOMAIN block \cup {c}
        /\ Inner(cut) = Inner(block) \cup {c} /\ c \notin DOMAIN block
        /\ Apart(cut, F)
        /\ Total(cut, Inner(cut)) = Total(block, Inner(block))
        /\ Total(cut, F) = Total(block, F)
        /\ cut[c] = Free(rest, NULL)
        /\ cut[b] = [size |-> wanted, next |-> block[b].next,
                     allocated |-> block[b].allocated]
        /\ \A z \in DOMAIN block \ {b} : cut[z] = block[z]
    <3>1. /\ Listed(block, F) /\ b \in Inner(block) \ F
          /\ wanted \in Nat /\ wanted > 0 /\ wanted % MEMORY_BYTE_ALIGNMENT = 0
          /\ wanted < block[b].size /\ c = b + wanted
      BY <2>2
    <3> HIDE DEF c, block
    <3>2. IsCut(block, F, b, wanted, c, cut)
      BY ONLY <3>1, CutIs
    <3> QED
      BY <3>2 DEF IsCut, block
  <2>4. /\ c \in Inner(cut) \ F /\ b \in Inner(cut)
        /\ b # c /\ b \notin F /\ c \notin Inner(block)
    BY <1>1, <2>3, ListedIs
  <2> HIDE DEF cut, c, q, r
  <2>5. \A x \in Links(cut) : x \in F \cup {xStart} \/ ~(cut[x].next < c)
    <3>1. ASSUME NEW x \in Links(cut), x \notin F \cup {xStart}
          PROVE  ~(cut[x].next < c)
      <4>1. x \in DOMAIN block \cup {c} /\ cut[x].next # NULL
        BY <2>3 DEF Links
      <4>2. x # c
        BY <2>3, <4>1 DEF Free
      <4>3. block[x].next # NULL
        BY <2>3, <4>1, <4>2
      <4>4. x = b
        BY <3>1, <4>1, <4>2, <4>3 DEF Links
      <4>5. cut[x].next = block[b].next
        BY <2>3, <4>4
      <4>6. block[b].next \in Int
        BY <1>1, ListedIs DEF Header
      <4> QED
        BY <1>1, <2>2, <4>5, <4>6 DEF c
    <3> QED
      BY <3>1
  <2>6. PICK H : Rearranged(cut, F \cup {c}, q, H) /\ Apart(q, H)
    BY <2>3, <2>4, <2>5, InsertIs DEF q
  <2>7. /\ Listed(q, H) /\ H \subseteq F \cup {c}
        /\ Inner(q) = Inner(cut) \ ((F \cup {c}) \ H)
        /\ \A z \in Inner(cut) \ (F \cup {c}) : q[z] = cut[z]
        /\ \A z \in H : q[z].allocated = cut[z].allocated
        /\ Total(q, Inner(q)) = Total(cut, Inner(cut))
        /\ Total(q, H) = Total(cut, F \cup {c})
    BY <2>6 DEF Rearranged
  <2>8. \A a \in H : ~q[a].allocated
    <3>1. ASSUME NEW a \in F PROVE ~cut[a].allocated
      <4>1. a \in DOMAIN block /\ a # b
        BY <1>1, ListedIs
      <4> QED
        BY <2>3, <4>1
    <3>2. ~cut[c].allocated
      BY <2>3 DEF Free
    <3> QED
      BY <2>7, <3>1, <3>2
  <2>9. Inner(q) \ H = Inner(block) \ F
    BY <1>1, <2>3, <2>4, <2>7
  <2>10. \A a \in Inner(block) \ (F \cup {b}) : q[a] = block[a]
    <3>1. Inner(block) \subseteq DOMAIN block
      BY DEF Inner
    <3> QED
      BY <2>3, <2>4, <2>7, <3>1
  <2>11. q[b].size = wanted
    BY <2>3, <2>4, <2>7
  <2>12. Total(q, H) = rest + Total(block, F)
    <3> DEFINE G == F \cup {c}
    <3>1. IsFiniteSet(G) /\ c \in G /\ G \ {c} = F
      BY <1>1, <2>4, FS_AddElement
    <3>2. \A a \in G : cut[a].size \in Nat
      BY <2>3, <2>4, ListedIs
    <3> HIDE DEF G
    <3>3. Total(cut, G) = cut[c].size + Total(cut, G \ {c})
      BY ONLY <3>1, <3>2, TotalTake
    <3>4. cut[c].size = rest
      BY <2>3 DEF Free
    <3> QED
      BY <2>3, <2>7, <3>1, <3>3, <3>4 DEF G
  <2>13. Total(q, H) + q[b].size = Total(block, F) + block[b].size
    BY <1>1, <2>2, <2>11, <2>12
  <2>14. q[b].size >= wanted
    BY <2>11
  <2>15. r.block = q
    BY <2>1
  <2> QED
    BY <2>1, <2>3, <2>6, <2>7, <2>8, <2>9, <2>10, <2>13, <2>14, <2>15 DEF IsSplit, r
<1>3. CASE ~(rest > MEMORY_HEAP_MINIMUM_BLOCK_SIZE)
  <2>1. r = h
    BY <1>3 DEF Split
  <2> HIDE DEF r
  <2>2. r.block = block
    BY <2>1
  <2> QED
    BY <1>1, <2>1, <2>2 DEF IsSplit, r
<1> QED
  BY <1>2, <1>3

(* lwcan_malloc took the block at b, to which the one at p leads.          *)
Taken(h, size, p, b, got) ==
  /\ p \in FreeIn(h.block) \cup {xStart} /\ b = h.block[p].next
  /\ b \in FreeIn(h.block) /\ h.block[b].size >= BlockSize(size)
  /\ BlockSize(size) # 0 /\ size # 0
  /\ got.ptr = b + xHeapStructSize
  /\ got.heap = Take(h, p, BlockSize(size))

(* lwcan_malloc returns NULL for the reasons the code names, and then      *)
(* changes nothing, or it takes a block that is large enough.              *)
LEMMA RefusalIs ==
  ASSUME NEW h, HeapOK(h), NEW size \in Nat
  PROVE  LET got == lwcan_malloc(h, size) IN
         /\ got.ptr = NULL =>
              /\ got.heap = h
              /\ \/ size >= xBlockAllocatedBit
                 \/ BlockSize(size) = 0
                 \/ BlockSize(size) > h.xFreeBytesRemaining
                 \/ \A a \in FreeIn(h.block) : h.block[a].size < BlockSize(size)
         /\ got.ptr # NULL => \E p, b : Taken(h, size, p, b, got)
<1> DEFINE wanted == BlockSize(size)
           F == FreeIn(h.block)
           previous == FirstFit(h.block, wanted)
           b == h.block[previous].next
           marked == Take(h, previous, wanted)
           got == lwcan_malloc(h, size)
           refused == \/ size >= xBlockAllocatedBit
                      \/ wanted = 0 \/ wanted > h.xFreeBytesRemaining
                      \/ b = pxEnd
<1>1. /\ refused => got = [heap |-> h, ptr |-> NULL]
      /\ ~refused => got = [heap |-> marked, ptr |-> b + xHeapStructSize]
  <2>1. got = IF refused THEN [heap |-> h, ptr |-> NULL]
              ELSE [heap |-> marked, ptr |-> b + xHeapStructSize]
    BY DEF lwcan_malloc
  <2> HIDE DEF refused, got, marked, b
  <2> QED
    BY <2>1
<1>2. /\ previous \in F \cup {xStart}
      /\ \/ /\ b = pxEnd
            /\ \A a \in F : h.block[a].size < wanted
         \/ b \in F /\ h.block[b].size >= wanted
  <2>1. /\ Shaped(h.block) /\ Tiled(h.block) /\ Chained(h.block, F)
        /\ Links(h.block) = F \cup {xStart}
    BY LinksAre DEF HeapOK, Listed
  <2>2. wanted \in Nat
    BY BlockSizeIs
  <2> HIDE DEF F, wanted
  <2> QED
    BY <2>1, <2>2, FirstFitIs
<1>3. F \subseteq Nat /\ \A a \in F : a > 0 /\ a # pxEnd
  BY ListedIs DEF HeapOK
<1>4. xHeapStructSize \in Nat
  BY Layout
<1> HIDE DEF marked, b, F, previous, got
<1>5. CASE refused
  <2>1. got = [heap |-> h, ptr |-> NULL]
    BY <1>1, <1>5
  <2>2. got.ptr = NULL /\ got.heap = h
    BY <2>1
  <2>3. \/ size >= xBlockAllocatedBit \/ wanted = 0 \/ wanted > h.xFreeBytesRemaining
        \/ \A a \in F : h.block[a].size < wanted
    BY <1>2, <1>3, <1>5
  <2> QED
    BY <2>2, <2>3 DEF got, F
<1>6. CASE ~refused
  <2>1. got = [heap |-> marked, ptr |-> b + xHeapStructSize]
    BY <1>1, <1>6
  <2>2. got.heap = marked /\ got.ptr = b + xHeapStructSize
    BY <2>1
  <2>3. b \in F /\ h.block[b].size >= wanted /\ wanted # 0
    BY <1>2, <1>6
  <2>4. size # 0
    BY <2>3, BlockSizeIs
  <2>5. got.ptr # NULL
    <3>1. b \in Nat /\ xHeapStructSize \in Nat /\ got.ptr = b + xHeapStructSize
      BY <1>3, <1>4, <2>2, <2>3
    <3> QED
      BY ONLY <3>1 DEF NULL
  <2>6. b = h.block[previous].next
    BY DEF b
  <2>7. got.heap = Take(h, previous, wanted)
    BY <2>2 DEF marked
  <2>8. Taken(h, size, previous, b, got)
    BY <1>2, <2>2, <2>3, <2>4, <2>6, <2>7 DEF Taken, F
  <2> QED
    BY <2>5, <2>8 DEF got
<1> QED
  BY <1>5, <1>6

(* What lwcan_malloc does to a heap: one free block more is allocated, with*)
(* room for the request, and all other allocated blocks stay as they are.  *)
LEMMA MallocIs ==
  ASSUME NEW h, HeapOK(h), NEW size \in Nat,
         lwcan_malloc(h, size).ptr # NULL,
         NEW r, r = lwcan_malloc(h, size).heap,
         NEW b, b = lwcan_malloc(h, size).ptr - xHeapStructSize
  PROVE  /\ HeapOK(r) /\ size # 0
         /\ lwcan_malloc(h, size).ptr = b + xHeapStructSize
         /\ b \in FreeIn(h.block)
         /\ AllocatedIn(r.block) = AllocatedIn(h.block) \cup {b}
         /\ \A a \in AllocatedIn(h.block) : r.block[a] = h.block[a]
         /\ r.block[b].size >= size + xHeapStructSize
<1> DEFINE block == h.block
           F == FreeIn(block)
           wanted == BlockSize(size)
           got == lwcan_malloc(h, size)
<1>1. \E p, link : Taken(h, size, p, link, got)
  BY RefusalIs
<1>2. PICK p, link : Taken(h, size, p, link, got)
  BY <1>1
<1> DEFINE unlinked == [block EXCEPT ![p].next = block[b].next]
           u == [h EXCEPT !.block[p].next = block[b].next]
           s == Split(u, b, wanted)
<1>3. /\ p \in F \cup {xStart} /\ block[p].next = b /\ b \in F /\ b \in Nat
      /\ block[b].size >= wanted /\ wanted # 0 /\ size # 0
      /\ got.ptr = b + xHeapStructSize
      /\ r = [s EXCEPT !.xFreeBytesRemaining = @ - s.block[b].size,
                       !.block[b].next = NULL,
                       !.block[b].allocated = TRUE]
  <2> HIDE DEF got
  <2>1. got.ptr = link + xHeapStructSize /\ link \in F
    BY <1>2 DEF Taken
  <2>2. link \in Nat /\ xHeapStructSize \in Nat
    BY <2>1, ListedIs, Layout DEF HeapOK
  <2>3. b = link
    BY <2>1, <2>2 DEF got
  <2>4. Taken(h, size, p, b, got) /\ r = got.heap
    BY <1>2, <2>3 DEF got
  <2>5. r = Take(h, p, wanted) /\ block[p].next = b
    BY <2>4 DEF Taken
  <2>6. r = [s EXCEPT !.xFreeBytesRemaining = @ - s.block[b].size,
                      !.block[b].next = NULL,
                      !.block[b].allocated = TRUE]
    BY <2>5 DEF Take
  <2> QED
    BY <2>2, <2>3, <2>4, <2>5, <2>6 DEF Taken
<1>4. u = [block |-> unlinked, xFreeBytesRemaining |-> h.xFreeBytesRemaining]
      /\ u.block = unlinked /\ u.xFreeBytesRemaining = h.xFreeBytesRemaining
  <2>1. h = [block |-> block, xFreeBytesRemaining |-> h.xFreeBytesRemaining]
    BY DEF HeapOK
  <2> HIDE DEF block
  <2> QED
    BY <2>1
<1>5. /\ Listed(block, F) /\ Apart(block, F) /\ b \notin F \ {b}
      /\ \A a \in AllocatedIn(block) : block[a].next = NULL
      /\ h.xFreeBytesRemaining = Total(block, F)
      /\ Total(block, Inner(block)) = pxEnd - pucAlignedHeap
      /\ Links(block) = F \cup {xStart}
  BY LinksAre DEF HeapOK
<1> HIDE DEF F, wanted, unlinked, u, s, block, got
<1>6. /\ Listed(unlinked, F \ {b}) /\ Inner(unlinked) = Inner(block)
      /\ Apart(unlinked, F \ {b})
      /\ Total(unlinked, F \ {b}) = Total(block, F \ {b})
      /\ Total(unlinked, Inner(block)) = Total(block, Inner(block))
      /\ DOMAIN unlinked = DOMAIN block
      /\ \A z \in DOMAIN block \ {p} : unlinked[z] = block[z]
      /\ \A z \in DOMAIN block : /\ unlinked[z].size = block[z].size
                                 /\ unlinked[z].allocated = block[z].allocated
      /\ b # p
  <2>1. block[p].next = b
    BY <1>3
  <2>2. IsUnlinked(block, F, p, b, unlinked)
    BY <1>3, <1>5, <2>1, UnlinkedIs DEF unlinked
  <2>3. F \ {b} \subseteq Inner(block)
    BY <1>5, ListedIs
  <2> QED
    BY <1>5, <2>2, <2>3 DEF IsUnlinked
<1>7. /\ b \in Inner(block) /\ b \in DOMAIN block /\ unlinked[b] = block[b]
      /\ F \subseteq DOMAIN block /\ Inner(block) \subseteq DOMAIN block
      /\ xStart \notin Inner(block) /\ block[b].size \in Nat
  <2>1. F \subseteq Inner(block) /\ Inner(block) = DOMAIN block \ {xStart, pxEnd}
        /\ \A z \in Inner(block) : block[z].size \in Nat
    BY <1>5, ListedIs
  <2> QED
    BY <1>3, <1>6, <2>1
<1>8. ~(block[b].next < b + block[b].size)
  <2>1. /\ block[b].next \in F \cup {pxEnd} /\ b < block[b].next
        /\ F \subseteq Inner(block)
        /\ block[b].next \in Nat
        /\ b + block[b].size \in Inner(block) \cup {pxEnd}
        /\ \A z \in Inner(block) : ~(b < z /\ z < b + block[b].size) /\ z < pxEnd
        /\ pxEnd \in Nat
    BY <1>3, <1>5, <1>7, ListedIs
  <2>2. CASE block[b].next = pxEnd
    <3>1. b + block[b].size <= pxEnd
      BY <1>3, <1>7, <2>1
    <3> QED
      BY <1>3, <1>7, <2>1, <2>2, <3>1
  <2>3. CASE block[b].next \in Inner(block)
    <3>1. ~(b < block[b].next /\ block[b].next < b + block[b].size)
      BY <2>1, <2>3
    <3> QED
      BY <2>1, <3>1
  <2> QED
    BY <2>1, <2>2, <2>3
<1>9. Links(unlinked) \subseteq (F \ {b}) \cup {xStart, b}
  <2>1. ASSUME NEW z \in Links(unlinked) PROVE z \in F \cup {xStart}
    <3>1. z \in DOMAIN block /\ unlinked[z].next # NULL
      BY <1>6 DEF Links
    <3>2. z # p => z \in Links(block)
      BY <1>6, <3>1 DEF Links
    <3> QED
      BY <1>3, <1>5, <3>2
  <2> QED
    BY <2>1
<1>10. \A a \in F \ {b} : ~unlinked[a].allocated
  <2>1. \A a \in F : ~block[a].allocated
    BY DEF F, FreeIn
  <2> QED
    BY <1>6, <1>7, <2>1
<1>11. /\ wanted \in Nat /\ wanted > 0 /\ wanted % MEMORY_BYTE_ALIGNMENT = 0
      /\ wanted >= size + xHeapStructSize
  BY <1>3, BlockSizeIs DEF wanted
<1> DEFINE q == s.block
<1>12. /\ s = [block |-> q, xFreeBytesRemaining |-> h.xFreeBytesRemaining]
       /\ \E H : /\ Listed(q, H) /\ Apart(q, H)
                 /\ \A a \in H : ~q[a].allocated
                 /\ Inner(q) \ H = Inner(block) \ (F \ {b})
                 /\ \A a \in Inner(block) \ F : q[a] = unlinked[a]
                 /\ q[b].size >= wanted
                 /\ Total(q, Inner(q)) = Total(unlinked, Inner(unlinked))
                 /\ Total(q, H) + q[b].size = Total(unlinked, F \ {b}) + block[b].size
  <2>1. /\ u = [block |-> u.block, xFreeBytesRemaining |-> u.xFreeBytesRemaining]
        /\ Listed(u.block, F \ {b}) /\ Apart(u.block, F \ {b})
        /\ b \in Inner(u.block) \ (F \ {b})
        /\ Links(u.block) \subseteq (F \ {b}) \cup {xStart, b}
        /\ ~(u.block[b].next < b + u.block[b].size)
        /\ \A a \in F \ {b} : ~u.block[a].allocated
        /\ wanted <= u.block[b].size
    BY <1>3, <1>4, <1>5, <1>6, <1>7, <1>8, <1>9, <1>10, <1>11
  <2> DEFINE K == F \ {b}
  <2>2. K \cup {b} = F
    BY <1>3
  <2> HIDE DEF K
  <2>3. /\ Listed(u.block, K) /\ Apart(u.block, K)
        /\ b \in Inner(u.block) \ K /\ Links(u.block) \subseteq K \cup {xStart, b}
        /\ \A a \in K : ~u.block[a].allocated
    BY <2>1 DEF K
  <2>4. IsSplit(u, K, b, wanted, s)
    BY <1>11, <2>1, <2>3, SplitIs DEF s
  <2>5. u.block = unlinked /\ u.xFreeBytesRemaining = h.xFreeBytesRemaining
    BY <1>4
  <2> HIDE DEF q
  <2> QED
    BY <1>6, <1>7, <2>2, <2>4, <2>5 DEF IsSplit, K, q
<1>13. PICK H : /\ Listed(q, H) /\ Apart(q, H)
                /\ \A a \in H : ~q[a].allocated
                /\ Inner(q) \ H = Inner(block) \ (F \ {b})
                /\ \A a \in Inner(block) \ F : q[a] = unlinked[a]
                /\ q[b].size >= wanted
                /\ Total(q, Inner(q)) = Total(unlinked, Inner(unlinked))
                /\ Total(q, H) + q[b].size = Total(unlinked, F \ {b}) + block[b].size
  BY <1>12
<1> HIDE DEF q
<1>14. /\ q \in [DOMAIN q -> Header] /\ H \subseteq Inner(q)
       /\ Inner(q) = DOMAIN q \ {xStart, pxEnd}
       /\ b \in Inner(q) \ H /\ b \in DOMAIN q /\ q[b] \in Header /\ q[b].size \in Nat
       /\ b # xStart /\ b # pxEnd /\ Inner(q) \subseteq DOMAIN q
  BY <1>7, <1>13, ListedIs
<1> DEFINE final == [z \in DOMAIN q |->
                       IF z = b
                       THEN [size |-> q[b].size, next |-> NULL, allocated |-> TRUE]
                       ELSE q[z]]
           left == h.xFreeBytesRemaining - q[b].size
<1>15. r = [block |-> final, xFreeBytesRemaining |-> left]
  <2>1. s = [block |-> q, xFreeBytesRemaining |-> h.xFreeBytesRemaining]
    BY <1>12
  <2> DEFINE q1 == [q EXCEPT ![b].next = NULL]
             q2 == [q1 EXCEPT ![b].allocated = TRUE]
  <2>2. r = [block |-> q2, xFreeBytesRemaining |-> left]
    <3>1. r = [s EXCEPT !.xFreeBytesRemaining = @ - s.block[b].size,
                        !.block[b].next = NULL,
                        !.block[b].allocated = TRUE]
      BY <1>3
    <3> DEFINE s1 == [s EXCEPT !.xFreeBytesRemaining = @ - s.block[b].size]
               s2 == [s1 EXCEPT !.block[b].next = NULL]
               s3 == [s2 EXCEPT !.block[b].allocated = TRUE]
    <3>2. s1 = [block |-> q, xFreeBytesRemaining |-> left]
      BY <2>1
    <3>3. r = s3
      BY <3>1
    <3> HIDE DEF s1, left
    <3>4. s2 = [block |-> q1, xFreeBytesRemaining |-> left]
      BY <3>2
    <3> HIDE DEF s2, q1
    <3>5. s3 = [block |-> q2, xFreeBytesRemaining |-> left]
      BY <3>4
    <3> QED
      BY <3>3, <3>5
  <2>3. q2 = final
    <3> DEFINE size_b == q[b].size
               alloc_b == q[b].allocated
    <3>1. q[b] = [size |-> size_b, next |-> q[b].next, allocated |-> alloc_b]
      BY <1>14 DEF Header
    <3> HIDE DEF size_b, alloc_b
    <3>2. q1 = [z \in DOMAIN q |->
                  IF z = b THEN [size |-> size_b, next |-> NULL, allocated |-> alloc_b]
                  ELSE q[z]]
      BY <1>14, <3>1
    <3> HIDE DEF q1
    <3>3. q2 = [z \in DOMAIN q |->
                  IF z = b THEN [size |-> size_b, next |-> NULL, allocated |-> TRUE]
                  ELSE q[z]]
      <4> DEFINE k == [size |-> size_b, next |-> NULL, allocated |-> alloc_b]
      <4>1. [k EXCEPT !.allocated = TRUE]
              = [size |-> size_b, next |-> NULL, allocated |-> TRUE]
        <5>1. ASSUME NEW t
              PROVE  [k EXCEPT !.allocated = t]
                       = [size |-> size_b, next |-> NULL, allocated |-> t]
          OBVIOUS
        <5> QED
          BY ONLY <5>1, Zenon
      <4> HIDE DEF k
      <4>2. q1 = [z \in DOMAIN q |-> IF z = b THEN k ELSE q[z]]
        BY <3>2 DEF k
      <4>3. q2 = [z \in DOMAIN q |->
                    IF z = b THEN [k EXCEPT !.allocated = TRUE] ELSE q[z]]
        BY <1>14, <4>2
      <4> QED
        BY <4>1, <4>3
    <3> HIDE DEF q2
    <3> QED
      BY <3>3 DEF size_b
  <2> HIDE DEF q2, final
  <2> QED
    BY <2>2, <2>3
<1>16. /\ DOMAIN final = DOMAIN q
       /\ final[b] = [size |-> q[b].size, next |-> NULL, allocated |-> TRUE]
       /\ \A z \in DOMAIN q \ {b} : final[z] = q[z]
       /\ final = [z \in DOMAIN q |-> final[z]]
  BY <1>14
<1> HIDE DEF final, left
<1>17. final[b] \in Header /\ final[b].size = q[b].size /\ final[b].next = NULL
       /\ final[b].allocated = TRUE
  <2>1. /\ NULL \in Int /\ q[b].size \in Nat /\ TRUE \in BOOLEAN
    BY <1>14 DEF NULL
  <2> QED
    BY <1>16, <2>1 DEF Header
<1>18. final \in [DOMAIN q -> Header]
  <2>1. \A z \in DOMAIN q : final[z] \in Header
    BY <1>14, <1>16, <1>17
  <2> QED
    BY <1>16, <2>1
<1>19. /\ Listed(final, H) /\ Inner(final) = Inner(q) /\ Apart(final, H)
       /\ Total(final, H) = Total(q, H) /\ Total(final, Inner(q)) = Total(q, Inner(q))
  <2>1. \A z \in DOMAIN q : final[z].size = q[z].size
    BY <1>16, <1>17
  <2>2. \A z \in H \cup {xStart} : final[z].next = q[z].next
    <3>1. \A z \in H \cup {xStart} : z \in DOMAIN q /\ z # b
      BY <1>13, <1>14, ListedIs
    <3> QED
      BY <1>16, <3>1
  <2>3. final[xStart].allocated = q[xStart].allocated /\ final[pxEnd] = q[pxEnd]
    <3>1. xStart \in DOMAIN q /\ pxEnd \in DOMAIN q
      BY <1>13, ListedIs
    <3> QED
      BY <1>14, <1>16, <3>1
  <2>4. /\ Listed(final, H) /\ Inner(final) = Inner(q)
        /\ Apart(q, H) => Apart(final, H)
        /\ \A S : S \subseteq Inner(q) => Total(final, S) = Total(q, S)
    BY <1>13, <1>18, <2>1, <2>2, <2>3, RemarkedIs
  <2> QED
    BY <1>13, <1>14, <2>4
<1>20. \A a \in Inner(block) \ F : /\ final[a] = block[a] /\ a \in Inner(q) \ H
                                   /\ block[a].allocated
  <2>1. ASSUME NEW a \in Inner(block) \ F
        PROVE  final[a] = block[a] /\ a \in Inner(q) \ H /\ block[a].allocated
    <3>1. a # b /\ a # p /\ a \in DOMAIN block /\ a \in Inner(q) \ H
      BY <1>3, <1>7, <1>13
    <3>2. final[a] = q[a] /\ q[a] = unlinked[a] /\ unlinked[a] = block[a]
      BY <1>6, <1>13, <1>14, <1>16, <3>1
    <3>3. block[a].allocated
      BY DEF F, FreeIn
    <3> QED
      BY <3>1, <3>2, <3>3
  <2> QED
    BY <2>1
<1>21. Inner(q) \ H = (Inner(block) \ F) \cup {b}
  BY <1>3, <1>7, <1>13
<1>22. FreeIn(final) = H /\ AllocatedIn(final) = AllocatedIn(block) \cup {b}
  <2>1. \A a \in H : a # b /\ final[a] = q[a] /\ ~final[a].allocated
    BY <1>13, <1>14, <1>16
  <2>2. \A a \in Inner(q) \ H : final[a].allocated
    BY <1>17, <1>20, <1>21
  <2>3. FreeIn(final) = H
    BY <1>14, <1>19, <2>1, <2>2 DEF FreeIn
  <2>4. AllocatedIn(block) = Inner(block) \ F
    BY DEF AllocatedIn, F
  <2> QED
    BY <1>19, <1>21, <2>3, <2>4 DEF AllocatedIn
<1>23. \A a \in AllocatedIn(block) : final[a] = block[a]
  BY <1>20 DEF AllocatedIn, F
<1>24. left = Total(final, H)
  <2>1. IsFiniteSet(F) /\ \A a \in F : block[a].size \in Nat
    BY <1>5, ListedIs
  <2>2. Total(block, F) = block[b].size + Total(block, F \ {b})
    BY <1>3, <2>1, TotalTake
  <2>3. Total(block, F) \in Nat /\ Total(q, H) \in Nat
    <3>1. IsFiniteSet(H) /\ \A a \in H : q[a].size \in Nat
      BY <1>13, ListedIs
    <3> QED
      BY <2>1, <3>1, TotalNat
  <2>4. Total(q, H) + q[b].size = Total(block, F)
    <3>1. IsFiniteSet(F \ {b}) /\ \A a \in F \ {b} : block[a].size \in Nat
      BY <2>1, FS_Subset
    <3>2. Total(block, F \ {b}) \in Nat
      BY <3>1, TotalNat
    <3> QED
      BY <1>6, <1>7, <1>13, <2>2, <3>2
  <2> QED
    BY <1>5, <1>14, <1>19, <2>3, <2>4 DEF left
<1>25. HeapOK(r)
  <2>1. r.block = final /\ r.xFreeBytesRemaining = left
    BY <1>15
  <2>2. r = [block |-> r.block, xFreeBytesRemaining |-> r.xFreeBytesRemaining]
    BY <1>15, <2>1
  <2>3. \A a \in AllocatedIn(final) : final[a].next = NULL
    BY <1>5, <1>17, <1>22, <1>23
  <2>4. Total(final, Inner(final)) = pxEnd - pucAlignedHeap
    BY <1>5, <1>6, <1>13, <1>19
  <2> QED
    BY <1>19, <1>22, <1>24, <2>1, <2>2, <2>3, <2>4 DEF HeapOK
<1>26. /\ r.block = final
       /\ r.block[b].size >= size + xHeapStructSize
  <2>1. r.block = final
    BY <1>15
  <2>2. final[b].size >= wanted /\ final[b].size \in Nat /\ xHeapStructSize \in Nat
    BY <1>13, <1>14, <1>17, Layout
  <2> QED
    BY <1>11, <2>1, <2>2
<1> QED
  BY <1>3, <1>22, <1>23, <1>25, <1>26 DEF block, F, got

(* What lwcan_free does to a heap: the block is not allocated any more, all*)
(* other allocated blocks stay as they are.                                *)
LEMMA FreeIs ==
  ASSUME NEW h, HeapOK(h), NEW b \in AllocatedIn(h.block),
         NEW ptr, ptr = b + xHeapStructSize,
         NEW r, r = lwcan_free(h, ptr)
  PROVE  /\ HeapOK(r)
         /\ AllocatedIn(r.block) = AllocatedIn(h.block) \ {b}
         /\ \A a \in AllocatedIn(h.block) \ {b} : r.block[a] = h.block[a]
<1> DEFINE block == h.block
           F == FreeIn(block)
           G == F \cup {b}
           freed == [block EXCEPT ![b].allocated = FALSE]
           q == prvInsertBlockIntoFreeList(freed, b)
           left == h.xFreeBytesRemaining + block[b].size
<1>1. /\ Listed(block, F) /\ Apart(block, F)
      /\ \A a \in AllocatedIn(block) : block[a].next = NULL
      /\ h.xFreeBytesRemaining = Total(block, F)
      /\ Total(block, Inner(block)) = pxEnd - pucAlignedHeap
      /\ Links(block) = F \cup {xStart}
  BY LinksAre DEF HeapOK
<1> HIDE DEF block, F, G
<1>2. /\ b \in Inner(block) \ F /\ b \in DOMAIN block /\ b \in Nat /\ b > 0
      /\ b # xStart /\ b # pxEnd
      /\ block[b] \in Header /\ block[b].size \in Nat /\ block[b].next = NULL
      /\ F \subseteq DOMAIN block /\ Inner(block) \subseteq DOMAIN block
      /\ F \subseteq Inner(block) /\ IsFiniteSet(F)
      /\ xStart \in DOMAIN block /\ pxEnd \in DOMAIN block
  <2>1. b \in Inner(block) \ F /\ block[b].next = NULL
    BY <1>1 DEF AllocatedIn, F, block
  <2> QED
    BY <1>1, <2>1, ListedIs
<1>3. /\ DOMAIN freed = DOMAIN block
      /\ freed[b] = [size |-> block[b].size, next |-> NULL, allocated |-> FALSE]
      /\ \A z \in DOMAIN block \ {b} : freed[z] = block[z]
      /\ freed = [z \in DOMAIN block |-> freed[z]]
  <2> DEFINE k == [block[b] EXCEPT !.allocated = FALSE]
  <2>1. k = [size |-> block[b].size, next |-> block[b].next, allocated |-> FALSE]
    <3>1. ASSUME NEW g \in Header, NEW t
          PROVE  [g EXCEPT !.allocated = t]
                   = [size |-> g.size, next |-> g.next, allocated |-> t]
      BY DEF Header
    <3>2. block[b] \in Header
      BY <1>2
    <3> QED
      BY ONLY <3>1, <3>2, Zenon
  <2> HIDE DEF k
  <2>2. freed = [z \in DOMAIN block |-> IF z = b THEN k ELSE block[z]]
    BY <1>2 DEF k
  <2> HIDE DEF freed
  <2> QED
    BY <1>2, <2>1, <2>2
<1> HIDE DEF freed
<1>4. freed[b].size = block[b].size /\ ~freed[b].allocated /\ freed[b].next = NULL
  BY <1>3
<1>5. freed \in [DOMAIN block -> Header]
  <2>1. freed[b] \in Header
    <3>1. NULL \in Int /\ FALSE \in BOOLEAN
      BY DEF NULL
    <3> QED
      BY <1>2, <1>3, <3>1 DEF Header
  <2>2. \A z \in DOMAIN block : freed[z] \in Header
    BY <1>1, <1>3, <2>1, ListedIs
  <2> QED
    BY <1>3, <2>2
<1>6. /\ Listed(freed, F) /\ Inner(freed) = Inner(block) /\ Apart(freed, F)
      /\ \A S : S \subseteq Inner(block) => Total(freed, S) = Total(block, S)
  <2>1. \A z \in DOMAIN block : freed[z].size = block[z].size
    BY <1>3, <1>4
  <2>2. \A z \in F \cup {xStart} : freed[z].next = block[z].next
    BY <1>2, <1>3
  <2>3. freed[xStart].allocated = block[xStart].allocated /\ freed[pxEnd] = block[pxEnd]
    BY <1>2, <1>3
  <2> QED
    BY <1>1, <1>5, <2>1, <2>2, <2>3, RemarkedIs
<1>7. Links(freed) \subseteq F \cup {xStart}
  <2>1. ASSUME NEW z \in Links(freed) PROVE z \in Links(block)
    <3>1. z \in DOMAIN block /\ freed[z].next # NULL /\ z # b
      BY <1>3, <1>4 DEF Links
    <3> QED
      BY <1>3, <3>1 DEF Links
  <2> QED
    BY <1>1, <2>1
<1>8. PICK H : Rearranged(freed, G, q, H) /\ Apart(q, H)
  BY <1>2, <1>6, <1>7, InsertIs DEF G
<1> HIDE DEF q
<1>9. /\ Listed(q, H) /\ H \subseteq G
      /\ Inner(q) = Inner(block) \ (G \ H)
      /\ \A z \in Inner(block) \ G : q[z] = freed[z]
      /\ \A z \in H : q[z].allocated = freed[z].allocated
      /\ Total(q, Inner(q)) = Total(freed, Inner(block))
      /\ Total(q, H) = Total(freed, G)
  BY <1>6, <1>8 DEF Rearranged
<1>10. r = [block |-> q, xFreeBytesRemaining |-> left]
  <2>1. ptr - xHeapStructSize = b /\ ptr # NULL
    BY <1>2, Layout DEF NULL
  <2> QED
    BY <2>1 DEF lwcan_free, q, freed, block
<1>11. \A a \in Inner(block) \ G :
         q[a] = block[a] /\ a \in Inner(q) \ H /\ block[a].allocated
  <2>1. ASSUME NEW a \in Inner(block) \ G
        PROVE  q[a] = block[a] /\ a \in Inner(q) \ H /\ block[a].allocated
    <3>1. a # b /\ a \in DOMAIN block /\ a \notin F
      BY <1>2 DEF G
    <3>2. q[a] = block[a] /\ a \in Inner(q) \ H
      BY <1>3, <1>9, <3>1
    <3>3. block[a].allocated
      BY <3>1 DEF F, FreeIn
    <3> QED
      BY <3>2, <3>3
  <2> QED
    BY <2>1
<1>12. FreeIn(q) = H
  <2>1. \A a \in H : ~q[a].allocated
    <3>1. ASSUME NEW a \in G PROVE ~freed[a].allocated
      <4>1. CASE a = b
        BY <1>4, <4>1
      <4>2. CASE a # b
        <5>1. a \in F /\ freed[a] = block[a]
          BY <1>2, <1>3, <4>2 DEF G
        <5> QED
          BY <5>1 DEF F, FreeIn
      <4> QED
        BY <4>1, <4>2
    <3> QED
      BY <1>9, <3>1
  <2>2. \A a \in Inner(q) \ H : q[a].allocated
    <3>1. \A a \in Inner(q) \ H : a \in Inner(block) \ G
      BY <1>9
    <3> QED
      BY <1>11, <3>1
  <2>3. H \subseteq Inner(q)
    BY <1>9, ListedIs
  <2> QED
    BY <2>1, <2>2, <2>3 DEF FreeIn
<1>13. AllocatedIn(q) = AllocatedIn(block) \ {b}
  <2>1. AllocatedIn(block) = Inner(block) \ F
    BY DEF AllocatedIn, F
  <2>2. Inner(q) \ H = Inner(block) \ G
    BY <1>9
  <2> QED
    BY <1>12, <2>1, <2>2 DEF AllocatedIn, G
<1>14. \A a \in AllocatedIn(block) \ {b} : q[a] = block[a]
  BY <1>11 DEF AllocatedIn, F, G
<1>15. Total(q, H) = left
  <2>1. IsFiniteSet(G) /\ b \in G /\ G \ {b} = F /\ G \subseteq Inner(block)
    BY <1>2, FS_AddElement DEF G
  <2>2. \A a \in G : block[a].size \in Nat
    BY <1>1, <2>1, ListedIs
  <2>3. Total(block, G) = block[b].size + Total(block, G \ {b})
    BY ONLY <2>1, <2>2, TotalTake
  <2>4. Total(block, F) \in Nat
    <3>1. \A a \in F : block[a].size \in Nat
      BY <2>1, <2>2
    <3> QED
      BY <1>2, <3>1, TotalNat
  <2>5. Total(q, H) = Total(block, G)
    BY <1>6, <1>9, <2>1
  <2>6. left = Total(block, F) + block[b].size
    BY <1>1 DEF left, block
  <2>7. G \ {b} = F
    BY <2>1
  <2>8. Total(block, G) = block[b].size + Total(block, F)
    BY ONLY <2>3, <2>7
  <2> QED
    BY <1>2, <2>4, <2>5, <2>6, <2>8
<1>16. HeapOK(r)
  <2>1. r.block = q /\ r.xFreeBytesRemaining = left
    BY <1>10
  <2>2. r = [block |-> r.block, xFreeBytesRemaining |-> r.xFreeBytesRemaining]
    BY <1>10, <2>1
  <2>3. \A a \in AllocatedIn(q) : q[a].next = NULL
    BY <1>1, <1>13, <1>14
  <2>4. Total(q, Inner(q)) = pxEnd - pucAlignedHeap
    BY <1>1, <1>6, <1>9
  <2> QED
    BY <1>8, <1>9, <1>12, <1>15, <2>1, <2>2, <2>3, <2>4 DEF HeapOK
<1> QED
  BY <1>10, <1>13, <1>14, <1>16 DEF block

(* prvHeapInit makes such a heap, with nothing allocated.                  *)
LEMMA InitIs == HeapOK(prvHeapInit) /\ AllocatedIn(prvHeapInit.block) = {}
<1> DEFINE h == prvHeapInit
           block == h.block
           size == pxEnd - pucAlignedHeap
           a == pucAlignedHeap
<1>1. /\ a \in Nat /\ a > 0 /\ a < pxEnd /\ pxEnd \in Nat /\ xStart = 0 /\ size \in Nat
      /\ size > 0 /\ a + size = pxEnd /\ a % MEMORY_BYTE_ALIGNMENT = 0
      /\ NULL \in Int
  BY Layout DEF xStart, NULL
<1>2. /\ h = [block |-> block, xFreeBytesRemaining |-> size]
      /\ h.xFreeBytesRemaining = size
      /\ DOMAIN block = {xStart, a, pxEnd}
      /\ block[xStart] = Free(0, a) /\ block[a] = Free(size, pxEnd)
      /\ block[pxEnd] = Free(0, NULL)
      /\ block = [z \in {xStart, a, pxEnd} |-> block[z]]
  BY <1>1 DEF prvHeapInit
<1> HIDE DEF h, block, size
<1>3. /\ block[xStart].size = 0 /\ ~block[xStart].allocated /\ block[xStart].next = a
      /\ block[a].size = size /\ ~block[a].allocated /\ block[a].next = pxEnd
  BY <1>2 DEF Free
<1>4. Inner(block) = {a}
  BY <1>1, <1>2 DEF Inner
<1>5. FreeIn(block) = {a}
  BY <1>3, <1>4 DEF FreeIn
<1>6. Shaped(block)
  <2>1. \A n \in Nat, x \in Int : Free(n, x) \in Header
    <3>1. FALSE \in BOOLEAN
      OBVIOUS
    <3> QED
      BY <3>1 DEF Free, Header
  <2>2. \A z \in {xStart, a, pxEnd} : block[z] \in Header
    BY <1>1, <1>2, <2>1
  <2>3. IsFiniteSet(DOMAIN block)
    <3>1. IsFiniteSet({xStart})
      BY FS_Singleton, Zenon
    <3>2. IsFiniteSet({xStart} \cup {a})
      BY <3>1, FS_AddElement, Zenon
    <3>3. IsFiniteSet(({xStart} \cup {a}) \cup {pxEnd})
      BY <3>2, FS_AddElement, Zenon
    <3>4. DOMAIN block = ({xStart} \cup {a}) \cup {pxEnd}
      BY <1>2
    <3> QED
      BY <3>3, <3>4
  <2> QED
    BY <1>2, <1>3, <2>2, <2>3 DEF Shaped
<1>7. Tiled(block)
  BY <1>1, <1>3, <1>4 DEF Tiled
<1>8. Chained(block, {a})
  BY <1>1, <1>3, <1>4 DEF Chained
<1>9. Apart(block, {a})
  BY <1>1, <1>3 DEF Apart
<1>10. Total(block, {a}) = size
  <2>1. /\ IsFiniteSet({a}) /\ a \in {a} /\ {a} \ {a} = {}
        /\ \A z \in {a} : block[z].size \in Nat
    <3>1. IsFiniteSet({a})
      BY FS_Singleton, Zenon
    <3> QED
      BY <1>1, <1>3, <3>1
  <2>2. Total(block, {a}) = block[a].size + Total(block, {a} \ {a})
    BY ONLY <2>1, TotalTake
  <2>3. Total(block, {}) = 0
    BY TotalEmpty, Zenon
  <2>4. {a} \ {a} = {}
    OBVIOUS
  <2>5. Total(block, {a}) = block[a].size + 0
    BY ONLY <2>2, <2>3, <2>4
  <2> QED
    BY <1>1, <1>3, <2>5
<1>11. AllocatedIn(block) = {}
  BY <1>4, <1>5 DEF AllocatedIn
<1> QED
  BY <1>2, <1>4, <1>5, <1>6, <1>7, <1>8, <1>9, <1>10, <1>11
     DEF HeapOK, Listed, h, block, size

-----------------------------------------------------------------------------
(* Who holds the blocks, and the inductive invariant.                      *)

(* S are holders of the allocated blocks, each of one of its own that is   *)
(* large enough.                                                           *)
Holds(h, S) ==
  /\ AllocatedIn(h.block) = {x.ptr - xHeapStructSize : x \in S}
  /\ \A x \in S : /\ x.ptr \in Nat /\ x.size \in Nat \ {0}
                  /\ x.ptr - xHeapStructSize \in Nat
                  /\ x.size + xHeapStructSize <= h.block[x.ptr - xHeapStructSize].size
  /\ \A x, y \in S : x.ptr = y.ptr => x = y

(* lwcan_malloc gains a holder.                                            *)
LEMMA HoldsMore ==
  ASSUME NEW h, HeapOK(h), NEW S, Holds(h, S), NEW size \in Nat,
         lwcan_malloc(h, size).ptr # NULL,
         NEW x, x.ptr = lwcan_malloc(h, size).ptr, x.size = size
  PROVE  /\ HeapOK(lwcan_malloc(h, size).heap)
         /\ Holds(lwcan_malloc(h, size).heap, S \cup {x})
         /\ x \notin S
<1> DEFINE r == lwcan_malloc(h, size).heap
           b == lwcan_malloc(h, size).ptr - xHeapStructSize
           T == S \cup {x}
<1>1. /\ HeapOK(r) /\ size # 0
      /\ lwcan_malloc(h, size).ptr = b + xHeapStructSize
      /\ b \in FreeIn(h.block)
      /\ AllocatedIn(r.block) = AllocatedIn(h.block) \cup {b}
      /\ \A a \in AllocatedIn(h.block) : r.block[a] = h.block[a]
      /\ r.block[b].size >= size + xHeapStructSize
  BY MallocIs
<1>2. b \in Nat /\ xHeapStructSize \in Nat /\ x.ptr - xHeapStructSize = b
      /\ x.ptr = b + xHeapStructSize /\ x.ptr \in Nat
  <2>1. b \in Nat
    BY <1>1, ListedIs DEF HeapOK
  <2> HIDE DEF b
  <2> QED
    BY <1>1, <2>1, Layout
<1> HIDE DEF r, b
<1>3. \A y \in S : /\ y.ptr - xHeapStructSize \in AllocatedIn(h.block)
                   /\ y.ptr \in Nat /\ y.ptr - xHeapStructSize # b
  <2>1. \A y \in S : y.ptr - xHeapStructSize \in AllocatedIn(h.block) /\ y.ptr \in Nat
    BY DEF Holds
  <2> QED
    BY <1>1, <2>1 DEF AllocatedIn
<1>4. AllocatedIn(r.block) = {y.ptr - xHeapStructSize : y \in T}
  <2>1. AllocatedIn(h.block) = {y.ptr - xHeapStructSize : y \in S}
    BY DEF Holds
  <2> QED
    BY <1>1, <1>2, <2>1
<1>5. \A y \in T : /\ y.ptr \in Nat /\ y.size \in Nat \ {0}
                   /\ y.ptr - xHeapStructSize \in Nat
                   /\ y.size + xHeapStructSize <= r.block[y.ptr - xHeapStructSize].size
  <2>1. \A y \in S : /\ y.ptr \in Nat /\ y.size \in Nat \ {0}
                     /\ y.ptr - xHeapStructSize \in Nat
                     /\ y.size + xHeapStructSize <= r.block[y.ptr - xHeapStructSize].size
    BY <1>1, <1>3 DEF Holds
  <2>2. size + xHeapStructSize <= r.block[b].size
    <3>1. r.block[b].size \in Nat
      <4>1. b \in Inner(r.block)
        BY <1>1 DEF AllocatedIn
      <4> QED
        BY <1>1, <4>1, ListedIs DEF HeapOK
    <3> QED
      BY <1>1, <1>2, <3>1
  <2> QED
    BY <1>1, <1>2, <2>1, <2>2
<1>6. \A y, z \in T : y.ptr = z.ptr => y = z
  <2>1. \A y, z \in S : y.ptr = z.ptr => y = z
    BY DEF Holds
  <2>2. \A y \in S : y.ptr # x.ptr
    BY <1>2, <1>3
  <2> QED
    BY <2>1, <2>2
<1>7. x \notin S
  BY <1>2, <1>3
<1> HIDE DEF T
<1>8. Holds(r, T)
  BY <1>4, <1>5, <1>6 DEF Holds
<1> QED
  BY <1>1, <1>7, <1>8 DEF r, T

(* lwcan_free loses one.                                                   *)
LEMMA HoldsLess ==
  ASSUME NEW h, HeapOK(h), NEW S, Holds(h, S), NEW x \in S
  PROVE  /\ HeapOK(lwcan_free(h, x.ptr))
         /\ Holds(lwcan_free(h, x.ptr), S \ {x})
<1> DEFINE r == lwcan_free(h, x.ptr)
           b == x.ptr - xHeapStructSize
           T == S \ {x}
<1>1. /\ b \in AllocatedIn(h.block) /\ b \in Nat /\ x.ptr = b + xHeapStructSize
      /\ xHeapStructSize \in Nat
  BY Layout DEF Holds
<1> HIDE DEF b
<1>2. /\ HeapOK(r)
      /\ AllocatedIn(r.block) = AllocatedIn(h.block) \ {b}
      /\ \A a \in AllocatedIn(h.block) \ {b} : r.block[a] = h.block[a]
  BY <1>1, FreeIs
<1> HIDE DEF r
<1>3. \A y \in T : /\ y.ptr - xHeapStructSize \in AllocatedIn(h.block)
                   /\ y.ptr \in Nat /\ y.ptr - xHeapStructSize # b
  <2>1. \A y \in S : y.ptr - xHeapStructSize \in AllocatedIn(h.block) /\ y.ptr \in Nat
    BY DEF Holds
  <2>2. \A y \in T : y.ptr # x.ptr
    BY DEF Holds
  <2> QED
    BY <1>1, <2>1, <2>2
<1>4. AllocatedIn(r.block) = {y.ptr - xHeapStructSize : y \in T}
  <2>1. AllocatedIn(h.block) = {y.ptr - xHeapStructSize : y \in S}
    BY DEF Holds
  <2> QED
    BY <1>2, <1>3, <2>1 DEF b
<1>5. \A y \in T : /\ y.ptr \in Nat /\ y.size \in Nat \ {0}
                   /\ y.ptr - xHeapStructSize \in Nat
                   /\ y.size + xHeapStructSize <= r.block[y.ptr - xHeapStructSize].size
  BY <1>2, <1>3 DEF Holds
<1>6. \A y, z \in T : y.ptr = z.ptr => y = z
  BY DEF Holds
<1> HIDE DEF T
<1>7. Holds(r, T)
  BY <1>4, <1>5, <1>6 DEF Holds
<1> QED
  BY <1>2, <1>7 DEF r, T

(* Who holds a block: a caller of lwcan_malloc, the structure of a buffer, *)
(* the payload of a buffer.                                                *)
OfRegion(region) ==
  [ptr |-> region.ptr, size |-> region.size, of |-> <<region, "region">>]
OfHeader(b) == [ptr |-> b.header, size |-> BufferSize, of |-> <<b, "header">>]
OfPayload(b) == [ptr |-> b.payload, size |-> b.length, of |-> <<b, "payload">>]

(* All that hold a block.  InUse would not do: two things that hold the    *)
(* same block by mistake would be one element of it.                       *)
Holders ==
  {OfRegion(region) : region \in regions}
    \cup {OfHeader(b) : b \in buffers} \cup {OfPayload(b) : b \in buffers}

(* The inductive invariant.                                                *)
IInv == HeapOK(heap) /\ Holds(heap, Holders)

(* It holds at first.                                                      *)
LEMMA IInvInit == Init => IInv
<1> SUFFICES ASSUME Init PROVE IInv
  OBVIOUS
<1>1. Holders = {}
  BY DEF Init, Holders
<1>2. HeapOK(heap) /\ AllocatedIn(heap.block) = {}
  BY InitIs DEF Init
<1> QED
  BY <1>1, <1>2 DEF IInv, Holds

(* A region more keeps the invariant.                                      *)
LEMMA GainRegion ==
  ASSUME IInv, NEW size \in Nat, lwcan_malloc(heap, size).ptr # NULL,
         heap' = lwcan_malloc(heap, size).heap,
         regions' = regions \cup {[ptr |-> lwcan_malloc(heap, size).ptr, size |-> size]},
         buffers' = buffers
  PROVE  IInv'
<1> DEFINE region == [ptr |-> lwcan_malloc(heap, size).ptr, size |-> size]
           x == OfRegion(region)
<1>1. x.ptr = lwcan_malloc(heap, size).ptr /\ x.size = size
  BY DEF OfRegion
<1>2. Holders' = Holders \cup {x}
  BY DEF Holders
<1> HIDE DEF x
<1>3. HeapOK(heap') /\ Holds(heap', Holders \cup {x})
  BY <1>1, HoldsMore DEF IInv
<1> QED
  BY <1>2, <1>3 DEF IInv

(* lwcan_malloc keeps it.                                                  *)
LEMMA MallocKeeps ==
  ASSUME IInv, NEW size \in Requests, Malloc(size)
  PROVE  IInv'
<1>1. size \in Nat
  BY HeapAssumption
<1> QED
  BY <1>1, GainRegion DEF Malloc

(* lwcan_calloc keeps it, while the product fits 32 bits.                  *)
LEMMA CallocKeeps ==
  ASSUME IInv, NEW number \in Numbers, NEW size \in Requests, Calloc(number, size)
  PROVE  IInv'
<1> DEFINE product == number * size
<1>1. product \in Nat /\ product < CallocRange /\ CallocRange \in Nat
  <2>1. number \in Nat /\ size \in Nat
    BY HeapAssumption
  <2> QED
    BY <2>1, HeapAssumption DEF Calloc
<1>2. lwcan_calloc(heap, number, size) = lwcan_malloc(heap, product)
  <2>1. lwcan_calloc(heap, number, size) = lwcan_malloc(heap, product % CallocRange)
    BY DEF lwcan_calloc
  <2> HIDE DEF product
  <2>2. product % CallocRange = product
    BY <1>1
  <2> QED
    BY <2>1, <2>2
<1>3. /\ lwcan_malloc(heap, product).ptr # NULL
      /\ heap' = lwcan_malloc(heap, product).heap
      /\ regions' = regions \cup {[ptr |-> lwcan_malloc(heap, product).ptr,
                                   size |-> product]}
      /\ buffers' = buffers
  BY <1>2 DEF Calloc
<1> HIDE DEF product
<1> QED
  BY <1>1, <1>3, GainRegion

(* lwcan_free keeps it.                                                    *)
LEMMA ReleaseKeeps ==
  ASSUME IInv, NEW region \in regions, Release(region)
  PROVE  IInv'
<1> DEFINE x == OfRegion(region)
<1>1. x \in Holders /\ x.ptr = region.ptr
  BY DEF Holders, OfRegion
<1>2. Holders' = Holders \ {x}
  <2>1. \A r \in regions : OfRegion(r) = x => r = region
    <3>1. ASSUME NEW r \in regions, OfRegion(r) = x PROVE r = region
      <4>1. OfRegion(r).of = x.of
        BY <3>1
      <4> QED
        BY <4>1 DEF OfRegion
    <3> QED
      BY <3>1
  <2>2. \A b \in buffers : OfHeader(b) # x /\ OfPayload(b) # x
    <3>1. ASSUME NEW b \in buffers PROVE OfHeader(b).of # x.of /\ OfPayload(b).of # x.of
      BY DEF OfHeader, OfPayload, OfRegion
    <3> QED
      BY <3>1
  <2> HIDE DEF x
  <2>3. OfRegion(region) = x
    BY DEF x
  <2>4. regions' = regions \ {region} /\ buffers' = buffers
    BY DEF Release
  <2> QED
    BY <2>1, <2>2, <2>3, <2>4 DEF Holders
<1> HIDE DEF x
<1>3. heap' = lwcan_free(heap, x.ptr)
  BY <1>1 DEF Release
<1>4. HeapOK(heap') /\ Holds(heap', Holders \ {x})
  BY <1>1, <1>3, HoldsLess DEF IInv
<1> QED
  BY <1>2, <1>4 DEF IInv

(* lwcan_buffer_new keeps it, when the payload is refused too.             *)
LEMMA BufferKeeps ==
  ASSUME IInv, NEW length \in Requests, lwcan_buffer_new(length)
  PROVE  IInv'
<1> DEFINE header == lwcan_malloc(heap, BufferSize)
           payload == lwcan_malloc(header.heap, length)
           b == [header |-> header.ptr, payload |-> payload.ptr, length |-> length]
           x == OfHeader(b)
           y == OfPayload(b)
<1>1. BufferSize \in Nat /\ length \in Nat /\ header.ptr # NULL
  BY HeapAssumption DEF lwcan_buffer_new
<1>2. /\ x.ptr = header.ptr /\ x.size = BufferSize
      /\ y.ptr = payload.ptr /\ y.size = length
  BY DEF OfHeader, OfPayload
<1>3. /\ payload.ptr = NULL => /\ heap' = lwcan_free(payload.heap, header.ptr)
                               /\ buffers' = buffers
      /\ payload.ptr # NULL => heap' = payload.heap /\ buffers' = buffers \cup {b}
      /\ regions' = regions
  BY DEF lwcan_buffer_new, BufferGivenUp
<1>4. Holders \cup {x, y} = {OfRegion(region) : region \in regions}
                              \cup {OfHeader(c) : c \in buffers \cup {b}}
                              \cup {OfPayload(c) : c \in buffers \cup {b}}
  BY DEF Holders
<1> HIDE DEF x, y, header, payload, b
<1>5. /\ HeapOK(header.heap) /\ Holds(header.heap, Holders \cup {x})
      /\ x \notin Holders
  BY <1>1, <1>2, HoldsMore DEF IInv, header
<1>6. CASE payload.ptr = NULL
  <2>1. payload.heap = header.heap
    BY <1>1, <1>5, <1>6, RefusalIs DEF payload
  <2>2. heap' = lwcan_free(header.heap, x.ptr)
    BY <1>2, <1>3, <1>6, <2>1
  <2>3. HeapOK(heap') /\ Holds(heap', (Holders \cup {x}) \ {x})
    BY <1>5, <2>2, HoldsLess
  <2>4. (Holders \cup {x}) \ {x} = Holders
    BY <1>5
  <2>5. Holders' = Holders
    BY <1>3, <1>6 DEF Holders
  <2> QED
    BY <2>3, <2>4, <2>5 DEF IInv
<1>7. CASE payload.ptr # NULL
  <2>1. HeapOK(payload.heap) /\ Holds(payload.heap, (Holders \cup {x}) \cup {y})
    BY <1>1, <1>2, <1>5, <1>7, HoldsMore DEF payload
  <2>2. (Holders \cup {x}) \cup {y} = Holders \cup {x, y}
    OBVIOUS
  <2>3. Holders' = Holders \cup {x, y}
    BY <1>3, <1>4, <1>7 DEF Holders
  <2> QED
    BY <1>3, <1>7, <2>1, <2>2, <2>3 DEF IInv
<1> QED
  BY <1>6, <1>7

(* lwcan_buffer_delete keeps it.                                           *)
LEMMA DeleteKeeps ==
  ASSUME IInv, NEW b \in buffers, DeleteBuffer(b)
  PROVE  IInv'
<1> DEFINE x == OfHeader(b)
           y == OfPayload(b)
<1>1. x \in Holders /\ y \in Holders /\ x.ptr = b.header /\ y.ptr = b.payload /\ x # y
  <2>1. x.of # y.of
    BY DEF OfHeader, OfPayload
  <2>2. x \in Holders /\ y \in Holders
    BY DEF Holders
  <2> QED
    BY <2>1, <2>2 DEF OfHeader, OfPayload
<1>2. Holders' = (Holders \ {y}) \ {x}
  <2>1. \A c \in buffers : (OfHeader(c) = x => c = b) /\ OfHeader(c) # y
    <3>1. ASSUME NEW c \in buffers
          PROVE  (OfHeader(c).of = x.of => c = b) /\ OfHeader(c).of # y.of
      BY DEF OfHeader, OfPayload
    <3> QED
      BY <3>1
  <2>2. \A c \in buffers : (OfPayload(c) = y => c = b) /\ OfPayload(c) # x
    <3>1. ASSUME NEW c \in buffers
          PROVE  (OfPayload(c).of = y.of => c = b) /\ OfPayload(c).of # x.of
      BY DEF OfHeader, OfPayload
    <3> QED
      BY <3>1
  <2>3. \A r \in regions : OfRegion(r) # x /\ OfRegion(r) # y
    <3>1. ASSUME NEW r \in regions PROVE OfRegion(r).of # x.of /\ OfRegion(r).of # y.of
      BY DEF OfHeader, OfPayload, OfRegion
    <3> QED
      BY <3>1
  <2>4. OfHeader(b) = x /\ OfPayload(b) = y
    OBVIOUS
  <2>5. regions' = regions /\ buffers' = buffers \ {b}
    BY DEF DeleteBuffer
  <2> HIDE DEF x, y
  <2> QED
    BY <2>1, <2>2, <2>3, <2>4, <2>5 DEF Holders
<1> HIDE DEF x, y
<1>3. heap' = lwcan_free(lwcan_free(heap, y.ptr), x.ptr)
  BY <1>1 DEF DeleteBuffer, lwcan_buffer_delete
<1> DEFINE h == lwcan_free(heap, y.ptr)
<1>4. HeapOK(h) /\ Holds(h, Holders \ {y})
  BY <1>1, HoldsLess DEF IInv
<1> HIDE DEF h
<1>5. x \in Holders \ {y} /\ heap' = lwcan_free(h, x.ptr)
  BY <1>1, <1>3 DEF h
<1>6. HeapOK(heap') /\ Holds(heap', (Holders \ {y}) \ {x})
  BY <1>4, <1>5, HoldsLess
<1> QED
  BY <1>2, <1>6 DEF IInv

(* Every step keeps it.                                                    *)
LEMMA IInvStep == IInv /\ [Next]_vars => IInv'
<1> SUFFICES ASSUME IInv, [Next]_vars PROVE IInv'
  OBVIOUS
<1>1. ASSUME NEW size \in Requests, Malloc(size) PROVE IInv'
  BY <1>1, MallocKeeps
<1>2. ASSUME NEW number \in Numbers, NEW size \in Requests, Calloc(number, size)
      PROVE  IInv'
  BY <1>2, CallocKeeps
<1>3. ASSUME NEW region \in regions, Release(region) PROVE IInv'
  BY <1>3, ReleaseKeeps
<1>4. ASSUME NEW length \in Requests, lwcan_buffer_new(length) PROVE IInv'
  BY <1>4, BufferKeeps
<1>5. ASSUME NEW buffer \in buffers, DeleteBuffer(buffer) PROVE IInv'
  BY <1>5, DeleteKeeps
<1>6. CASE UNCHANGED vars
  BY <1>6 DEF IInv, Holders, vars
<1> QED
  BY <1>1, <1>2, <1>3, <1>4, <1>5, <1>6 DEF Next

(* It holds in every state.                                                *)
LEMMA Inductive == Spec => []IInv
BY IInvInit, IInvStep, PTL DEF Spec

-----------------------------------------------------------------------------
(* The properties of Heap.                                                 *)

(* The sets of blocks of Heap are those of the lemmas.                     *)
LEMMA NamesAre ==
  /\ Blocks = Inner(heap.block) /\ FreeBlocks = FreeIn(heap.block)
  /\ Allocated = AllocatedIn(heap.block)
BY DEF Blocks, FreeBlocks, Allocated, Inner, FreeIn, AllocatedIn

(* What is in use has a holder, and what is held is in use.                *)
LEMMA InUseAreHolders ==
  /\ \A region \in InUse : \E x \in Holders : x.ptr = region.ptr /\ x.size = region.size
  /\ \A x \in Holders : \E region \in InUse : x.ptr = region.ptr /\ x.size = region.size
<1>1. ASSUME NEW region \in InUse
      PROVE  \E x \in Holders : x.ptr = region.ptr /\ x.size = region.size
  <2>1. CASE region \in regions
    <3>1. /\ OfRegion(region) \in Holders /\ OfRegion(region).ptr = region.ptr
          /\ OfRegion(region).size = region.size
      BY <2>1 DEF Holders, OfRegion
    <3> QED
      BY <3>1
  <2>2. ASSUME NEW b \in buffers, region = [ptr |-> b.header, size |-> BufferSize]
        PROVE  \E x \in Holders : x.ptr = region.ptr /\ x.size = region.size
    <3>1. /\ OfHeader(b) \in Holders /\ OfHeader(b).ptr = region.ptr
          /\ OfHeader(b).size = region.size
      BY <2>2 DEF Holders, OfHeader
    <3> QED
      BY <3>1
  <2>3. ASSUME NEW b \in buffers, region = [ptr |-> b.payload, size |-> b.length]
        PROVE  \E x \in Holders : x.ptr = region.ptr /\ x.size = region.size
    <3>1. /\ OfPayload(b) \in Holders /\ OfPayload(b).ptr = region.ptr
          /\ OfPayload(b).size = region.size
      BY <2>3 DEF Holders, OfPayload
    <3> QED
      BY <3>1
  <2> QED
    BY <2>1, <2>2, <2>3 DEF InUse
<1>2. ASSUME NEW x \in Holders
      PROVE  \E region \in InUse : x.ptr = region.ptr /\ x.size = region.size
  <2>1. ASSUME NEW region \in regions, x = OfRegion(region)
        PROVE  \E r \in InUse : x.ptr = r.ptr /\ x.size = r.size
    <3>1. region \in InUse /\ x.ptr = region.ptr /\ x.size = region.size
      BY <2>1 DEF InUse, OfRegion
    <3> QED
      BY <3>1
  <2>2. ASSUME NEW b \in buffers, x = OfHeader(b)
        PROVE  \E r \in InUse : x.ptr = r.ptr /\ x.size = r.size
    <3> DEFINE r == [ptr |-> b.header, size |-> BufferSize]
    <3>1. r \in InUse /\ x.ptr = r.ptr /\ x.size = r.size
      BY <2>2 DEF InUse, OfHeader
    <3> QED
      BY <3>1
  <2>3. ASSUME NEW b \in buffers, x = OfPayload(b)
        PROVE  \E r \in InUse : x.ptr = r.ptr /\ x.size = r.size
    <3> DEFINE r == [ptr |-> b.payload, size |-> b.length]
    <3>1. r \in InUse /\ x.ptr = r.ptr /\ x.size = r.size
      BY <2>3 DEF InUse, OfPayload
    <3> QED
      BY <3>1
  <2> QED
    BY <2>1, <2>2, <2>3 DEF Holders
<1> QED
  BY <1>1, <1>2

(* What is in use lies inside an allocated block of its own.               *)
LEMMA InUseIs ==
  ASSUME IInv, NEW region \in InUse
  PROVE  LET b == region.ptr - xHeapStructSize IN
         /\ region.ptr \in Nat /\ region.size \in Nat \ {0} /\ b \in Nat
         /\ b \in AllocatedIn(heap.block) /\ b \in Inner(heap.block)
         /\ region.size + xHeapStructSize <= heap.block[b].size
         /\ heap.block[b].size \in Nat
         /\ \A other \in InUse : other.ptr = region.ptr => other.size = region.size
<1>1. PICK x \in Holders : x.ptr = region.ptr /\ x.size = region.size
  BY InUseAreHolders
<1>2. Holds(heap, Holders)
  BY DEF IInv
<1>3. x.ptr - xHeapStructSize \in AllocatedIn(heap.block)
  BY <1>2 DEF Holds
<1>4. x.ptr - xHeapStructSize \in Inner(heap.block)
      /\ heap.block[x.ptr - xHeapStructSize].size \in Nat
  BY <1>3, ListedIs DEF AllocatedIn, IInv, HeapOK
<1>5. \A other \in InUse : other.ptr = region.ptr => other.size = region.size
  BY <1>1, <1>2, InUseAreHolders DEF Holds
<1> QED
  BY <1>1, <1>2, <1>3, <1>4, <1>5 DEF Holds

(* What the invariant says of the blocks of the heap.                      *)
LEMMA BlocksAre ==
  ASSUME IInv
  PROVE  /\ Listed(heap.block, FreeBlocks) /\ Apart(heap.block, FreeBlocks)
         /\ heap.xFreeBytesRemaining = Total(heap.block, FreeBlocks)
         /\ IsFiniteSet(Blocks) /\ IsFiniteSet(FreeBlocks)
         /\ FreeBlocks \subseteq Blocks
         /\ \A a \in Blocks :
              /\ a \in Nat /\ pucAlignedHeap <= a /\ a < pxEnd
              /\ a % MEMORY_BYTE_ALIGNMENT = 0
              /\ heap.block[a].size \in Nat /\ heap.block[a].size > 0
              /\ a + heap.block[a].size \in Blocks \cup {pxEnd}
              /\ a + heap.block[a].size <= pxEnd
              /\ \A b \in Blocks : ~(a < b /\ b < a + heap.block[a].size)
<1>1. /\ Listed(heap.block, FreeBlocks) /\ Apart(heap.block, FreeBlocks)
      /\ heap.xFreeBytesRemaining = Total(heap.block, FreeBlocks)
      /\ Blocks = Inner(heap.block)
  BY NamesAre DEF IInv, HeapOK
<1>2. \A a \in Blocks :
        /\ a \in pucAlignedHeap..(pxEnd - 1)
        /\ a \in Nat /\ a < pxEnd
        /\ a % MEMORY_BYTE_ALIGNMENT = 0
        /\ heap.block[a].size \in Nat /\ heap.block[a].size > 0
        /\ a + heap.block[a].size \in Blocks \cup {pxEnd}
        /\ \A b \in Blocks : ~(a < b /\ b < a + heap.block[a].size)
  BY <1>1, ListedIs
<1>3. pucAlignedHeap \in Nat /\ pxEnd \in Nat
  BY Layout
<1>4. ASSUME NEW a \in Blocks
      PROVE  pucAlignedHeap <= a /\ a + heap.block[a].size <= pxEnd
  <2>1. pucAlignedHeap <= a
    BY <1>2, <1>3
  <2> DEFINE e == a + heap.block[a].size
  <2>2. e = pxEnd \/ (e \in Nat /\ e < pxEnd)
    BY <1>2
  <2> HIDE DEF e
  <2>3. e <= pxEnd
    BY <1>3, <2>2
  <2> QED
    BY <2>1, <2>3 DEF e
<1>5. IsFiniteSet(Blocks) /\ IsFiniteSet(FreeBlocks) /\ FreeBlocks \subseteq Blocks
  BY <1>1, ListedIs
<1> QED
  BY <1>1, <1>2, <1>4, <1>5

(* The free bytes are no more than those of the heap.                      *)
LEMMA TotalFits ==
  ASSUME IInv
  PROVE  Total(heap.block, FreeBlocks) \in 0..(pxEnd - pucAlignedHeap)
<1>1. Total(heap.block, Inner(heap.block)) = pxEnd - pucAlignedHeap
  BY DEF IInv, HeapOK
<1>2. Total(heap.block, Blocks) = pxEnd - pucAlignedHeap
  BY <1>1, NamesAre
<1>3. /\ IsFiniteSet(Blocks) /\ \A a \in Blocks : heap.block[a].size \in Nat
      /\ IsFiniteSet(FreeBlocks) /\ \A a \in FreeBlocks : heap.block[a].size \in Nat
      /\ FreeBlocks \subseteq Blocks
  BY BlocksAre
<1>4. Total(heap.block, FreeBlocks) <= Total(heap.block, Blocks)
  BY ONLY <1>3, TotalPart
<1>5. Total(heap.block, FreeBlocks) \in Nat
  BY ONLY <1>3, TotalNat
<1> QED
  BY <1>2, <1>4, <1>5, Layout

(* The variables keep their types: the headers are aligned and inside      *)
(* memory_heap, their links lead to headers (memory.c).                    *)
THEOREM TypeCorrect == Spec => []TypeOK
<1>1. ASSUME IInv PROVE TypeOK
  <2>1. /\ pucAlignedHeap \in Nat /\ pxEnd \in Nat /\ HeapAddress \in Nat
        /\ LWCAN_MEM_SIZE \in Nat /\ xHeapStructSize \in Nat /\ xHeapStructSize > 0
        /\ HeapAddress <= pucAlignedHeap /\ pucAlignedHeap < pxEnd
        /\ pxEnd <= HeapAddress + LWCAN_MEM_SIZE - xHeapStructSize
    BY Layout
  <2>2. ASSUME NEW a \in Blocks
        PROVE  /\ a % MEMORY_BYTE_ALIGNMENT = 0 /\ a \in Address
               /\ heap.block[a].size \in 0..LWCAN_MEM_SIZE
    <3>1. /\ a \in Nat /\ pucAlignedHeap <= a /\ a < pxEnd
          /\ a % MEMORY_BYTE_ALIGNMENT = 0 /\ heap.block[a].size \in Nat
          /\ a + heap.block[a].size <= pxEnd
      BY <1>1, BlocksAre
    <3> QED
      BY <2>1, <3>1 DEF Address
  <2>3. ASSUME NEW a \in DOMAIN heap.block
        PROVE  /\ heap.block[a].size \in 0..LWCAN_MEM_SIZE
               /\ heap.block[a].next \in DOMAIN heap.block \cup {NULL}
               /\ heap.block[a].allocated \in BOOLEAN
    <3>1. /\ heap.block \in [DOMAIN heap.block -> Header]
          /\ heap.block[xStart].size = 0 /\ heap.block[pxEnd] = Free(0, NULL)
          /\ FreeBlocks \subseteq DOMAIN heap.block /\ pxEnd \in DOMAIN heap.block
          /\ \A z \in FreeBlocks \cup {xStart} :
               heap.block[z].next \in FreeBlocks \cup {pxEnd}
      <4>1. Listed(heap.block, FreeBlocks)
        BY <1>1, BlocksAre
      <4> QED
        BY <4>1, ListedIs
    <3>2. heap.block[a].allocated \in BOOLEAN
      BY <3>1 DEF Header
    <3>3. CASE a = xStart
      BY <2>1, <3>1, <3>2, <3>3
    <3>4. CASE a = pxEnd
      BY <2>1, <3>1, <3>2, <3>4 DEF Free
    <3>5. CASE a \in FreeBlocks
      <4>1. a \in Blocks
        BY <3>5 DEF FreeBlocks
      <4> QED
        BY <2>2, <3>1, <3>2, <3>5, <4>1
    <3>6. CASE a \in AllocatedIn(heap.block)
      <4>1. a \in Blocks /\ heap.block[a].next = NULL
        BY <1>1, <3>6, NamesAre DEF IInv, HeapOK, AllocatedIn
      <4> QED
        BY <2>2, <3>2, <4>1
    <3> QED
      BY <3>3, <3>4, <3>5, <3>6, NamesAre DEF AllocatedIn, Inner
  <2>4. heap.xFreeBytesRemaining \in 0..LWCAN_MEM_SIZE
    BY <1>1, <2>1, BlocksAre, TotalFits
  <2>5. ASSUME NEW region \in InUse PROVE region.ptr \in Address
    <3> DEFINE b == region.ptr - xHeapStructSize
    <3>1. b \in Blocks /\ region.ptr \in Nat
      BY <1>1, InUseIs, NamesAre
    <3>2. /\ b \in Nat /\ pucAlignedHeap <= b /\ b < pxEnd
      BY <1>1, <3>1, BlocksAre
    <3> QED
      BY <2>1, <3>1, <3>2 DEF Address
  <2> QED
    BY <2>2, <2>3, <2>4, <2>5 DEF TypeOK
<1> QED
  BY <1>1, Inductive, PTL

(* Whatever is allocated and freed in whatever order, the blocks cover the *)
(* heap without gap or overlap and every request ends inside its block.    *)
THEOREM HeapStaysTiled == Spec => []BlocksTile
<1>1. ASSUME IInv PROVE BlocksTile
  <2>1. pucAlignedHeap \in Blocks
    BY <1>1, NamesAre DEF IInv, HeapOK, Listed, Tiled
  <2>2. ASSUME NEW region \in InUse
        PROVE  LET b == region.ptr - xHeapStructSize IN
               region.ptr + region.size <= b + heap.block[b].size
    <3> DEFINE b == region.ptr - xHeapStructSize
    <3>1. /\ region.ptr \in Nat /\ region.size \in Nat
          /\ region.size + xHeapStructSize <= heap.block[b].size
          /\ heap.block[b].size \in Nat
      BY <1>1, InUseIs
    <3> QED
      BY <3>1, Layout
  <2> QED
    BY <1>1, <2>1, <2>2, BlocksAre DEF BlocksTile
<1> QED
  BY <1>1, Inductive, PTL

(* The list of lwcan_free and lwcan_malloc holds each free block once, in  *)
(* the order of addresses, and xFreeBytesRemaining is their bytes.         *)
THEOREM FreeListStaysInOrder == Spec => []FreeListInOrder
<1>1. ASSUME IInv PROVE FreeListInOrder
  <2>1. ASSUME NEW a \in FreeBlocks \cup {xStart}
        PROVE  heap.block[a].next = Min({b \in FreeBlocks \cup {pxEnd} : b > a})
    <3> DEFINE S == {b \in FreeBlocks \cup {pxEnd} : b > a}
               n == heap.block[a].next
    <3>1. /\ n \in FreeBlocks \cup {pxEnd} /\ n \in Nat /\ a \in Nat /\ a < n
          /\ \A b \in FreeBlocks : ~(a < b /\ b < n) /\ b \in Nat /\ b < pxEnd
          /\ pxEnd \in Nat
      <4>1. Listed(heap.block, FreeBlocks)
        BY <1>1, BlocksAre
      <4>2. \A b \in FreeBlocks : b \in Nat /\ b < pxEnd
        BY <1>1, BlocksAre
      <4> QED
        BY <4>1, <4>2, ListedIs
    <3>2. S \in SUBSET Nat /\ n \in S
      BY <3>1
    <3>3. \A b \in S : n <= b
      BY <3>1
    <3> HIDE DEF S, n
    <3>4. Min(S) \in S /\ Min(S) <= n
      BY <3>2, MinIsLeast
    <3>5. Min(S) \in Nat /\ n \in Nat /\ n <= Min(S)
      BY <3>2, <3>3, <3>4
    <3>6. n = Min(S)
      BY ONLY <3>4, <3>5
    <3> QED
      BY <3>6 DEF S, n
  <2>2. heap.xFreeBytesRemaining
          = MapThenSumSet(LAMBDA a : heap.block[a].size, FreeBlocks)
    BY <1>1, BlocksAre DEF Total
  <2> QED
    BY <2>1, <2>2 DEF FreeListInOrder
<1> QED
  BY <1>1, Inductive, PTL

(* A block is allocated exactly as long as somebody has a pointer to it;   *)
(* lwcan_buffer_new that gets no payload leaves none behind.               *)
THEOREM NoBlockLost == Spec => []NothingLeaked
<1>1. ASSUME IInv PROVE NothingLeaked
  <2>1. Allocated = {x.ptr - xHeapStructSize : x \in Holders}
    BY <1>1, NamesAre DEF IInv, Holds
  <2>2. {x.ptr - xHeapStructSize : x \in Holders}
          = {region.ptr - xHeapStructSize : region \in InUse}
    BY InUseAreHolders
  <2> QED
    BY <2>1, <2>2 DEF NothingLeaked
<1> QED
  BY <1>1, Inductive, PTL

(* lwcan_malloc refuses a request only when no stretch between allocated   *)
(* blocks is long enough: free blocks are always merged.                   *)
THEOREM RefusedOnlyWhenFull == Spec => []RoomIsFound
<1>1. ASSUME IInv PROVE RoomIsFound
  <2>1. SUFFICES ASSUME NEW size \in Requests, NEW a \in Blocks,
                        BlockSize(size) \in 1..(pxEnd - a),
                        \A b \in Allocated :
                          \/ b + heap.block[b].size <= a
                          \/ a + BlockSize(size) <= b,
                        lwcan_malloc(heap, size).ptr = NULL
                 PROVE  FALSE
    BY DEF RoomIsFound
  <2> DEFINE w == BlockSize(size)
             e == a + heap.block[a].size
  <2>2. /\ a \in Nat /\ pucAlignedHeap <= a /\ a < pxEnd
        /\ heap.block[a].size \in Nat /\ heap.block[a].size > 0
        /\ e \in Blocks \cup {pxEnd} /\ e <= pxEnd
    BY <1>1, <2>1, BlocksAre
  <2>3. size \in Nat /\ w \in Nat /\ w > 0 /\ a + w <= pxEnd /\ pxEnd \in Nat
    <3>1. size \in Nat
      BY HeapAssumption
    <3>2. pxEnd \in Nat
      BY Layout
    <3>3. w \in 1..(pxEnd - a)
      BY <2>1
    <3> HIDE DEF w
    <3> QED
      BY <2>2, <3>1, <3>2, <3>3
  <2>4. a \notin Allocated
    BY <2>1, <2>2, <2>3
  <2>5. a \in FreeBlocks
    BY <2>4 DEF Allocated
  <2>6. heap.block[a].size >= w
    <3>1. SUFFICES ASSUME e < a + w PROVE FALSE
      BY <2>2, <2>3
    <3>2. e \in Blocks /\ e \in Nat /\ a < e
      BY <2>2, <2>3, <3>1
    <3>3. e \notin FreeBlocks
      BY <1>1, <2>5, BlocksAre DEF Apart
    <3>4. e \in Allocated
      BY <3>2, <3>3 DEF Allocated
    <3>5. heap.block[e].size \in Nat /\ heap.block[e].size > 0
      BY <1>1, <3>2, BlocksAre
    <3>6. e + heap.block[e].size <= a \/ a + w <= e
      BY <2>1, <3>4
    <3> HIDE DEF e, w
    <3> QED
      BY <2>2, <2>3, <3>1, <3>2, <3>5, <3>6
  <2>7. size < xBlockAllocatedBit
    <3>1. w >= size + xHeapStructSize
      BY <2>3, BlockSizeIs
    <3>2. /\ HeapAddress \in Nat /\ HeapAddress <= pucAlignedHeap
          /\ LWCAN_MEM_SIZE \in Nat /\ xHeapStructSize \in Nat
          /\ pxEnd <= HeapAddress + LWCAN_MEM_SIZE - xHeapStructSize
          /\ pucAlignedHeap \in Nat
      BY Layout
    <3>3. LWCAN_MEM_SIZE < xBlockAllocatedBit
      BY HeapFits
    <3>4. xBlockAllocatedBit \in Int
      BY HeapAssumption DEF xBlockAllocatedBit
    <3> HIDE DEF w
    <3> QED
      BY <2>2, <2>3, <3>1, <3>2, <3>3, <3>4
  <2>8. w <= heap.xFreeBytesRemaining
    <3>1. IsFiniteSet(FreeBlocks) /\ \A b \in FreeBlocks : heap.block[b].size \in Nat
      BY <1>1, BlocksAre
    <3>2. Total(heap.block, FreeBlocks)
            = heap.block[a].size + Total(heap.block, FreeBlocks \ {a})
      BY <2>5, <3>1, TotalTake
    <3>3. Total(heap.block, FreeBlocks \ {a}) \in Nat
      <4>1. IsFiniteSet(FreeBlocks \ {a})
            /\ \A b \in FreeBlocks \ {a} : heap.block[b].size \in Nat
        BY <3>1, FS_Subset
      <4> QED
        BY ONLY <4>1, TotalNat
    <3>4. heap.xFreeBytesRemaining = Total(heap.block, FreeBlocks)
      BY <1>1, BlocksAre
    <3> HIDE DEF w
    <3> QED
      BY <2>2, <2>3, <2>6, <3>2, <3>3, <3>4
  <2>9. \/ size >= xBlockAllocatedBit \/ w = 0 \/ w > heap.xFreeBytesRemaining
        \/ \A b \in FreeBlocks : heap.block[b].size < w
    BY <1>1, <2>1, <2>3, RefusalIs, NamesAre DEF IInv
  <2>10. heap.xFreeBytesRemaining \in Int /\ xBlockAllocatedBit \in Int
    BY <1>1, BlocksAre, TotalFits, Layout, HeapAssumption DEF xBlockAllocatedBit
  <2> HIDE DEF w
  <2> QED
    BY <2>2, <2>3, <2>5, <2>6, <2>7, <2>8, <2>9, <2>10
<1> QED
  BY <1>1, Inductive, PTL

-----------------------------------------------------------------------------
(* The heap implements Allocator.                                          *)

(* What the heap promises of, as Promise sees it: the regions in use with  *)
(* the headers in front of them.                                           *)
Handed ==
  {[ptr |-> region.ptr - xHeapStructSize, size |-> region.size + xHeapStructSize]
     : region \in InUse}

(* They are aligned, inside memory_heap and apart from one another.        *)
HandedOK ==
  \A p \in Handed :
    /\ p \in [ptr : Address, size : 1..LWCAN_MEM_SIZE]
    /\ p.ptr % MEMORY_BYTE_ALIGNMENT = 0
    /\ p.ptr..(p.ptr + p.size - 1) \subseteq Address
    /\ \A q \in Handed \ {p} :
         (p.ptr..(p.ptr + p.size - 1)) \cap (q.ptr..(q.ptr + q.size - 1)) = {}

(* The invariant says so.                                                  *)
LEMMA HandedIs ==
  ASSUME IInv
  PROVE  HandedOK
<1>1. ASSUME NEW q \in Handed
      PROVE  /\ q = [ptr |-> q.ptr, size |-> q.size]
             /\ q.ptr \in Blocks /\ q.size \in Nat /\ q.size > 0
             /\ q.size <= heap.block[q.ptr].size
             /\ \A o \in Handed : o.ptr = q.ptr => o.size = q.size
  <2>1. PICK region \in InUse :
          q = [ptr |-> region.ptr - xHeapStructSize, size |-> region.size + xHeapStructSize]
    BY DEF Handed
  <2> DEFINE b == region.ptr - xHeapStructSize
  <2>2. /\ region.ptr \in Nat /\ region.size \in Nat \ {0} /\ b \in Nat
        /\ b \in Inner(heap.block)
        /\ region.size + xHeapStructSize <= heap.block[b].size
        /\ \A other \in InUse : other.ptr = region.ptr => other.size = region.size
    BY <1>1, InUseIs
  <2>3. ASSUME NEW o \in Handed, o.ptr = q.ptr PROVE o.size = q.size
    <3>1. PICK other \in InUse :
            o = [ptr |-> other.ptr - xHeapStructSize, size |-> other.size + xHeapStructSize]
      BY DEF Handed
    <3>2. other.ptr \in Nat
      BY InUseIs
    <3>3. other.ptr - xHeapStructSize = region.ptr - xHeapStructSize
      BY <2>1, <2>3, <3>1
    <3>4. other.ptr = region.ptr
      BY <2>2, <3>2, <3>3, Layout
    <3>5. other.size = region.size
      BY <2>2, <3>4
    <3> QED
      BY <2>1, <3>1, <3>5
  <2>4. xHeapStructSize \in Nat
    BY Layout
  <2>5. q.ptr = b /\ q.size = region.size + xHeapStructSize
    BY <2>1
  <2> QED
    BY <2>1, <2>2, <2>3, <2>4, <2>5, NamesAre
<1>2. \A q \in Handed : /\ q.ptr \in Nat /\ q.size \in Nat /\ q.size > 0
                        /\ pucAlignedHeap <= q.ptr
                        /\ q.ptr % MEMORY_BYTE_ALIGNMENT = 0
                        /\ q.ptr + q.size <= pxEnd
                        /\ q.ptr + q.size <= q.ptr + heap.block[q.ptr].size
                        /\ heap.block[q.ptr].size \in Nat
  <2>1. SUFFICES ASSUME NEW q \in Handed
                 PROVE  /\ q.ptr \in Nat /\ q.size \in Nat /\ q.size > 0
                        /\ pucAlignedHeap <= q.ptr
                        /\ q.ptr % MEMORY_BYTE_ALIGNMENT = 0
                        /\ q.ptr + q.size <= pxEnd
                        /\ q.ptr + q.size <= q.ptr + heap.block[q.ptr].size
                        /\ heap.block[q.ptr].size \in Nat
    OBVIOUS
  <2>2. /\ q.ptr \in Blocks /\ q.size \in Nat /\ q.size > 0
        /\ q.size <= heap.block[q.ptr].size
    BY <1>1, <2>1
  <2>3. /\ q.ptr \in Nat /\ pucAlignedHeap <= q.ptr
        /\ q.ptr % MEMORY_BYTE_ALIGNMENT = 0
        /\ heap.block[q.ptr].size \in Nat
        /\ q.ptr + heap.block[q.ptr].size <= pxEnd
    BY <2>2, BlocksAre
  <2> QED
    BY <2>2, <2>3, Layout
<1>3. /\ pucAlignedHeap \in Nat /\ pxEnd \in Nat /\ HeapAddress \in Nat
      /\ LWCAN_MEM_SIZE \in Nat /\ xHeapStructSize \in Nat /\ xHeapStructSize > 0
      /\ HeapAddress <= pucAlignedHeap
      /\ pxEnd <= HeapAddress + LWCAN_MEM_SIZE - xHeapStructSize
  BY Layout
<1>4. ASSUME NEW p \in Handed
      PROVE  p \in [ptr : Address, size : 1..LWCAN_MEM_SIZE]
             /\ p.ptr..(p.ptr + p.size - 1) \subseteq Address
  <2>1. p.ptr \in Address /\ p.size \in 1..LWCAN_MEM_SIZE
    BY <1>2, <1>3 DEF Address
  <2>2. p \in [ptr : Address, size : 1..LWCAN_MEM_SIZE]
    BY <1>1, <2>1
  <2> QED
    BY <1>2, <1>3, <2>2 DEF Address
<1>5. ASSUME NEW p \in Handed, NEW q \in Handed \ {p}
      PROVE  (p.ptr..(p.ptr + p.size - 1)) \cap (q.ptr..(q.ptr + q.size - 1)) = {}
  <2>1. p.ptr # q.ptr
    <3>1. p.ptr = q.ptr => p.size = q.size
      BY <1>1
    <3>2. p = [ptr |-> p.ptr, size |-> p.size] /\ q = [ptr |-> q.ptr, size |-> q.size]
      BY <1>1
    <3> QED
      BY <3>1, <3>2
  <2>2. p.ptr \in Blocks /\ q.ptr \in Blocks
    BY <1>1
  <2>3. /\ ~(p.ptr < q.ptr /\ q.ptr < p.ptr + heap.block[p.ptr].size)
        /\ ~(q.ptr < p.ptr /\ p.ptr < q.ptr + heap.block[q.ptr].size)
    BY <2>2, BlocksAre
  <2>4. p.ptr + p.size <= q.ptr \/ q.ptr + q.size <= p.ptr
    BY <1>2, <2>1, <2>3
  <2> QED
    BY <1>2, <2>4
<1> QED
  BY <1>2, <1>4, <1>5 DEF HandedOK

(* A step that only gains regions is an allocation, one that only loses    *)
(* some a release.                                                         *)
LEMMA HandedStep ==
  ASSUME HandedOK', Next
  PROVE  Promise!Next \/ UNCHANGED Handed
<1>1. ASSUME Handed \subseteq Handed' PROVE Promise!Allocate
  BY <1>1 DEF HandedOK, Promise!Allocate, Promise!Region, Promise!Bytes, Handed
<1>2. ASSUME Handed' \subseteq Handed PROVE Promise!Release
  BY <1>2 DEF Promise!Release, Handed
<1>3. InUse \subseteq InUse' => Handed \subseteq Handed'
  BY DEF Handed
<1>4. InUse' \subseteq InUse => Handed' \subseteq Handed
  BY DEF Handed
<1>5. InUse \subseteq InUse' \/ InUse' \subseteq InUse
  <2>1. ASSUME regions \subseteq regions', buffers \subseteq buffers'
        PROVE  InUse \subseteq InUse'
    BY <2>1 DEF InUse
  <2>2. ASSUME regions' \subseteq regions, buffers' \subseteq buffers
        PROVE  InUse' \subseteq InUse
    BY <2>2 DEF InUse
  <2>3. ASSUME NEW size \in Requests, Malloc(size)
        PROVE  regions \subseteq regions' /\ buffers \subseteq buffers'
    BY <2>3 DEF Malloc
  <2>4. ASSUME NEW number \in Numbers, NEW size \in Requests, Calloc(number, size)
        PROVE  regions \subseteq regions' /\ buffers \subseteq buffers'
    BY <2>4 DEF Calloc
  <2>5. ASSUME NEW region \in regions, Release(region)
        PROVE  regions' \subseteq regions /\ buffers' \subseteq buffers
    BY <2>5 DEF Release
  <2>6. ASSUME NEW length \in Requests, lwcan_buffer_new(length)
        PROVE  regions \subseteq regions' /\ buffers \subseteq buffers'
    BY <2>6 DEF lwcan_buffer_new
  <2>7. ASSUME NEW buffer \in buffers, DeleteBuffer(buffer)
        PROVE  regions' \subseteq regions /\ buffers' \subseteq buffers
    BY <2>7 DEF DeleteBuffer
  <2> QED
    BY <2>1, <2>2, <2>3, <2>4, <2>5, <2>6, <2>7 DEF Next
<1> QED
  BY <1>1, <1>2, <1>3, <1>4, <1>5 DEF Promise!Next

(* The heap implements Allocator: every allocation is aligned, inside      *)
(* memory_heap and apart from all others, and stays as it is until it is   *)
(* freed.                                                                  *)
THEOREM ImplementsAllocator == Spec => AllocatorSafe
<1>1. Init => Promise!Init
  BY DEF Init, Promise!Init, InUse
<1>2. ASSUME HandedOK', [Next]_vars PROVE Promise!Next \/ UNCHANGED Handed
  <2>1. CASE Next
    BY <1>2, <2>1, HandedStep
  <2>2. CASE UNCHANGED vars
    BY <2>2 DEF vars, Handed, InUse
  <2> QED
    BY <1>2, <2>1, <2>2
<1>3. HandedOK' /\ [Next]_vars => [Promise!Next]_Handed
  BY <1>2
<1>4. IInv => HandedOK
  BY HandedIs
<1> QED
  BY <1>1, <1>3, <1>4, Inductive, PTL DEF Spec, AllocatorSafe, Promise!Spec, Handed
=============================================================================
