--------------------------- MODULE DispatchProofs ---------------------------
(***************************************************************************)
(* What holds of Dispatch for every number of interfaces and connections.  *)
(* RouteInv is inductive by itself: the list of interfaces gives each      *)
(* index to one interface, and connections bound to an interface reach it  *)
(* by their index. TablesInv, which needs it, says that the lists of       *)
(* connections are chains (PcbTableProofs) while the documented rules of   *)
(* use are kept.                                                           *)
(***************************************************************************)
EXTENDS Dispatch, Lemmas, FiniteSetTheorems

(* The lemmas about the two tables.                                        *)
RawP   == INSTANCE PcbTableProofs WITH MaxPcbNum <- CANRAW_MAX_PCB_NUM,
                                       ChunkSize <- RawChunkSize
IsoTpP == INSTANCE PcbTableProofs WITH MaxPcbNum <- ISOTP_MAX_PCB_NUM,
                                       ChunkSize <- IsoTpChunkSize

(* The offsets of both pools fit the uint8_t they are kept in, as they do  *)
(* for the numbers of connections options.h sets.                          *)
PoolsFit == RawP!PoolFits /\ IsoTpP!PoolFits
-----------------------------------------------------------------------------
(* No two entries share a number or an interface.                          *)
Distinct(list) ==
  \A i, j \in 1..Len(list) :
    i # j => list[i].num # list[j].num /\ list[i].canif # list[j].canif

(* The interface is the first of the list with that index.                 *)
Reaches(list, index, canif) ==
  \E i \in 1..Len(list) :
    /\ list[i].canif = canif
    /\ list[i].num + 1 = index
    /\ \A j \in 1..(i - 1) : list[j].num + 1 # index

(* The list of interfaces, as long as none was added twice.                *)
ListOK ==
  /\ canif_list \in Seq(Numbered)
  /\ Len(canif_list) <= MAX_CANIF_NUM
  /\ canif_num \in 0..(MAX_CANIF_NUM - 1)
  /\ misuse # "init" => Distinct(canif_list)

(* The fields of the entries of a list of interfaces.                      *)
LEMMA Entries ==
  ASSUME NEW list \in Seq(Numbered)
  PROVE  /\ Len(list) \in Nat
         /\ DOMAIN list = 1..Len(list)
         /\ \A i \in 1..Len(list) :
              /\ list[i] \in Numbered
              /\ list[i].canif \in Interface
              /\ list[i].canif # None
              /\ list[i].num \in 0..(MAX_CANIF_NUM - 1)
<1>1. /\ Len(list) \in Nat /\ DOMAIN list = 1..Len(list)
      /\ \A i \in 1..Len(list) : list[i] \in Numbered
  OBVIOUS
<1> QED
  BY <1>1, CanifAssumption DEF Numbered

(* The place of a listed interface in the list holds it.                   *)
LEMMA AtPosition ==
  ASSUME canif_list \in Seq(Numbered), NEW canif \in Listed
  PROVE  /\ Position(canif) \in 1..Len(canif_list)
         /\ canif_list[Position(canif)].canif = canif
<1>1. \E i \in DOMAIN canif_list : canif_list[i].canif = canif
  BY DEF Listed
<1> QED
  BY <1>1, Entries DEF Position

(* canif_add finds a number no interface has, by the pigeonhole principle: *)
(* there are more numbers than interfaces.                                 *)
LEMMA FreeNumber ==
  ASSUME NEW list \in Seq(Numbered), Len(list) < MAX_CANIF_NUM,
         canif_num \in 0..(MAX_CANIF_NUM - 1)
  PROVE  /\ FirstFree(list) \in 0..(MAX_CANIF_NUM - 1)
         /\ \A j \in 1..Len(list) : list[j].num # FirstFree(list)
<1> DEFINE M == MAX_CANIF_NUM
           at(i) == (canif_num + i) % M
           free == {i \in 0..(M - 1) : \A j \in DOMAIN list : list[j].num # at(i)}
<1>1. M \in Nat /\ M > 0 /\ canif_num \in 0..(M - 1)
  BY CanifAssumption
<1>2. Len(list) \in Nat /\ DOMAIN list = 1..Len(list) /\ Len(list) < M
  BY Entries
<1> HIDE DEF M
<1>3. ASSUME NEW i \in 0..(M - 1)
      PROVE  at(i) \in 0..(M - 1) /\ at(i) = IF canif_num + i < M THEN canif_num + i
                                             ELSE canif_num + i - M
  BY <1>1, Wrapped
<1>4. ASSUME NEW i \in 0..(M - 1), NEW k \in 0..(M - 1), at(i) = at(k) PROVE i = k
  BY <1>1, <1>3, <1>4
<1> HIDE DEF at
<1>5. free # {}
  <2> SUFFICES ASSUME free = {} PROVE FALSE
    OBVIOUS
  <2> DEFINE f == [i \in 0..(M - 1) |->
                     CHOOSE j \in 1..Len(list) : list[j].num = at(i)]
  <2>1. ASSUME NEW i \in 0..(M - 1)
        PROVE  f[i] \in 1..Len(list) /\ list[f[i]].num = at(i)
    <3>1. \E j \in 1..Len(list) : list[j].num = at(i)
      BY <1>2
    <3> QED
      BY <3>1
  <2>2. f \in [0..(M - 1) -> 1..Len(list)]
    BY <2>1
  <2> HIDE DEF f
  <2>3. IsFiniteSet(0..(M - 1)) /\ Cardinality(0..(M - 1)) = M
    <3>1. /\ IsFiniteSet(0..(M - 1))
          /\ Cardinality(0..(M - 1)) = IF 0 > M - 1 THEN 0 ELSE (M - 1) - 0 + 1
      BY <1>1, FS_Interval
    <3> QED
      BY <1>1, <3>1
  <2>4. IsFiniteSet(1..Len(list)) /\ Cardinality(1..Len(list)) = Len(list)
    <3>1. /\ IsFiniteSet(1..Len(list))
          /\ Cardinality(1..Len(list)) = IF 1 > Len(list) THEN 0 ELSE Len(list) - 1 + 1
      <4>1. 1 \in Int /\ Len(list) \in Int
        BY <1>2
      <4> QED
        BY <4>1, FS_Interval, Zenon
    <3> QED
      BY <1>2, <3>1
  <2>5. \E x, y \in 0..(M - 1) : x # y /\ f[x] = f[y]
    <3> DEFINE S == 0..(M - 1)
               T == 1..Len(list)
    <3>1. Cardinality(T) < Cardinality(S)
      BY <1>2, <2>3, <2>4
    <3>2. f \in [S -> T] /\ IsFiniteSet(S) /\ IsFiniteSet(T)
      BY <2>2, <2>3, <2>4
    <3> HIDE DEF S, T, free
    <3>3. \A g \in [S -> T] : \E x, y \in S : x # y /\ g[x] = g[y]
      BY <3>1, <3>2, FS_PigeonHole
    <3>4. \E x, y \in S : x # y /\ f[x] = f[y]
      BY <3>2, <3>3
    <3> QED
      BY <3>4 DEF S
  <2> QED
    BY <1>4, <2>1, <2>5
<1>6. free \subseteq Nat
  BY <1>1
<1>7. Min(free) \in free
  <2> HIDE DEF free
  <2> QED
    BY <1>5, <1>6, MinIsLeast
<1>8. FirstFree(list) = at(Min(free))
  BY DEF FirstFree, at, M
<1>9. Min(free) \in 0..(M - 1)
      /\ \A j \in DOMAIN list : list[j].num # at(Min(free))
  BY <1>7
<1> QED
  BY <1>2, <1>3, <1>8, <1>9 DEF M

(* What canif_get_by_index finds.                                          *)
LEMMA FoundByIndex ==
  ASSUME canif_list \in Seq(Numbered), NEW index, NEW canif,
         Reaches(canif_list, index, canif)
  PROVE  canif_get_by_index(index) = canif
<1>1. PICK i \in 1..Len(canif_list) :
        /\ canif_list[i].canif = canif
        /\ canif_list[i].num + 1 = index
        /\ \A j \in 1..(i - 1) : canif_list[j].num + 1 # index
  BY DEF Reaches
<1> DEFINE with == {j \in DOMAIN canif_list : canif_list[j].num + 1 = index}
<1>2. Len(canif_list) \in Nat /\ DOMAIN canif_list = 1..Len(canif_list)
  BY Entries
<1>3. i \in with /\ with \subseteq Nat
  BY <1>1, <1>2
<1>4. Min(with) \in with /\ \A j \in with : Min(with) <= j
  <2> HIDE DEF with
  <2> QED
    BY <1>3, MinIsLeast
<1>5. Min(with) = i
  <2>1. /\ Min(with) \in 1..Len(canif_list) /\ Min(with) <= i
        /\ canif_list[Min(with)].num + 1 = index
    BY <1>2, <1>3, <1>4
  <2>2. Min(with) \notin 1..(i - 1)
    BY <1>1, <2>1
  <2> HIDE DEF with
  <2> QED
    BY <1>1, <1>2, <2>1, <2>2
<1>6. with # {}
  BY <1>3
<1>7. canif_get_by_index(index) = canif_list[Min(with)].canif
  BY <1>6 DEF canif_get_by_index
<1> HIDE DEF with
<1> QED
  BY <1>1, <1>5, <1>7

(* A listed interface is reached by its index.                             *)
LEMMA ReachesListed ==
  ASSUME canif_list \in Seq(Numbered), Distinct(canif_list), NEW canif \in Listed
  PROVE  Reaches(canif_list, canif_get_index(canif), canif)
<1> DEFINE i == Position(canif)
<1>1. i \in 1..Len(canif_list) /\ canif_list[i].canif = canif
  BY AtPosition
<1>2. canif_get_index(canif) = canif_list[i].num + 1
  BY DEF canif_get_index
<1> HIDE DEF i
<1>3. ASSUME NEW j \in 1..(i - 1) PROVE canif_list[j].num + 1 # canif_list[i].num + 1
  <2>1. j \in 1..Len(canif_list) /\ j # i
    BY <1>1, Entries
  <2>2. canif_list[j].num # canif_list[i].num
    BY <1>1, <2>1 DEF Distinct
  <2> QED
    BY <1>1, <2>1, <2>2, Entries
<1> QED
  BY <1>1, <1>2, <1>3 DEF Reaches

(* An index that reaches something reaches an interface only if it is the  *)
(* index of that interface.                                                *)
LEMMA ReachedIs ==
  ASSUME canif_list \in Seq(Numbered), Distinct(canif_list),
         NEW canif \in Listed, NEW index, NEW other,
         Reaches(canif_list, index, other)
  PROVE  index = canif_get_index(canif) <=> other = canif
<1> DEFINE i == Position(canif)
<1>1. i \in 1..Len(canif_list) /\ canif_list[i].canif = canif
  BY AtPosition
<1>2. canif_get_index(canif) = canif_list[i].num + 1
  BY DEF canif_get_index
<1> HIDE DEF i
<1>3. PICK j \in 1..Len(canif_list) :
        canif_list[j].canif = other /\ canif_list[j].num + 1 = index
  BY DEF Reaches
<1>4. j # i => /\ canif_list[j].num # canif_list[i].num
               /\ canif_list[j].canif # canif_list[i].canif
  BY <1>1, <1>3 DEF Distinct
<1>5. canif_list[j].num \in Int /\ canif_list[i].num \in Int
  BY <1>1, <1>3, Entries
<1> QED
  BY <1>1, <1>2, <1>3, <1>4, <1>5
-----------------------------------------------------------------------------
(* canif_add of one that is not listed keeps numbers distinct and changes  *)
(* nobody's index.                                                         *)
LEMMA AddedList ==
  ASSUME ListOK, misuse = "none", NEW canif \in Interface, canif_add(canif)
  PROVE  /\ canif_list' \in Seq(Numbered) /\ Len(canif_list') <= MAX_CANIF_NUM
         /\ canif_num' \in 0..(MAX_CANIF_NUM - 1)
         /\ Distinct(canif_list')
         /\ \A index, c : Reaches(canif_list, index, c)
                            => Reaches(canif_list', index, c)
<1> DEFINE N == Len(canif_list)
           num == FirstFree(canif_list)
           e == [canif |-> canif, num |-> num]
           new == <<e>> \o canif_list
<1>1. /\ canif_list \in Seq(Numbered) /\ N \in Nat /\ DOMAIN canif_list = 1..N
      /\ N < MAX_CANIF_NUM /\ MAX_CANIF_NUM \in Nat /\ MAX_CANIF_NUM > 0
      /\ canif \notin Listed
      /\ canif_list' = new
      /\ canif_num' = IF num = MAX_CANIF_NUM - 1 THEN 0 ELSE num + 1
  BY Entries, CanifAssumption DEF ListOK, canif_add
<1>2. /\ num \in 0..(MAX_CANIF_NUM - 1)
      /\ \A j \in 1..N : canif_list[j].num # num
  BY <1>1, FreeNumber DEF ListOK
<1>3. /\ canif_num' \in 0..(MAX_CANIF_NUM - 1)
  BY <1>1, <1>2
<1>4. e \in Numbered /\ e.num = num /\ e.canif = canif
  BY <1>2 DEF Numbered
<1> HIDE DEF e, num
<1>5. /\ new \in Seq(Numbered) /\ Len(new) = N + 1
      /\ \A i \in 1..(N + 1) : new[i] = IF i = 1 THEN e ELSE canif_list[i - 1]
  <2>1. <<e>> \in Seq(Numbered) /\ Len(<<e>>) = 1 /\ <<e>>[1] = e
    BY <1>4
  <2>2. /\ new \in Seq(Numbered) /\ Len(new) = 1 + N
        /\ \A i \in 1..(1 + N) :
             new[i] = IF i <= 1 THEN <<e>>[i] ELSE canif_list[i - 1]
    BY <1>1, <2>1, ConcatIs
  <2> QED
    BY <1>1, <2>1, <2>2
<1> HIDE DEF new, N
<1>6. \A j \in 1..N : canif_list[j].canif # canif
  BY <1>1 DEF Listed
<1>7. \A i, j \in 1..N : i # j => /\ canif_list[i].num # canif_list[j].num
                                 /\ canif_list[i].canif # canif_list[j].canif
  BY DEF ListOK, Distinct, N
<1>8. ASSUME NEW i \in 1..(N + 1), i # 1
      PROVE  i - 1 \in 1..N /\ new[i] = canif_list[i - 1]
  BY <1>1, <1>5, <1>8
<1>9. 1 \in 1..(N + 1) /\ new[1] = e
  BY <1>1, <1>5
<1>10. Distinct(new)
  <2> SUFFICES ASSUME NEW i \in 1..(N + 1), NEW j \in 1..(N + 1), i # j
               PROVE  new[i].num # new[j].num /\ new[i].canif # new[j].canif
    BY <1>5 DEF Distinct
  <2>1. CASE i = 1
    BY <1>2, <1>4, <1>6, <1>8, <1>9, <2>1
  <2>2. CASE j = 1
    BY <1>2, <1>4, <1>6, <1>8, <1>9, <2>2
  <2>3. CASE i # 1 /\ j # 1
    <3>1. i - 1 # j - 1
      OBVIOUS
    <3> QED
      BY <1>7, <1>8, <2>3, <3>1
  <2> QED
    BY <2>1, <2>2, <2>3
<1>11. ASSUME NEW index, NEW c, Reaches(canif_list, index, c)
       PROVE  Reaches(new, index, c)
  <2>1. PICK i \in 1..N :
          /\ canif_list[i].canif = c
          /\ canif_list[i].num + 1 = index
          /\ \A j \in 1..(i - 1) : canif_list[j].num + 1 # index
    BY <1>11 DEF Reaches, N
  <2>2. i + 1 \in 1..(N + 1) /\ new[i + 1] = canif_list[i]
    BY <1>1, <1>5
  <2>3. ASSUME NEW j \in 1..((i + 1) - 1) PROVE new[j].num + 1 # index
    <3>1. CASE j = 1
      <4>1. canif_list[i].num # num /\ canif_list[i].num \in Int /\ num \in Int
        BY <1>1, <1>2, <2>1, Entries DEF N
      <4>2. new[j].num = num
        BY <1>4, <1>9, <3>1
      <4> QED
        BY <2>1, <4>1, <4>2
    <3>2. CASE j # 1
      <4>1. j - 1 \in 1..(i - 1) /\ j \in 1..(N + 1)
        BY <1>1, <2>1, <3>2
      <4> QED
        BY <1>8, <2>1, <3>2, <4>1
    <3> QED
      BY <3>1, <3>2
  <2> QED
    BY <1>5, <2>1, <2>2, <2>3 DEF Reaches
<1>12. Len(new) <= MAX_CANIF_NUM
  BY <1>1, <1>5
<1> QED
  BY <1>1, <1>3, <1>5, <1>10, <1>11, <1>12

(* The list up to an interface.                                            *)
LEMMA CutIs ==
  ASSUME ListOK, NEW canif \in Listed
  PROVE  /\ Cut(canif) \in Seq(Numbered)
         /\ Len(Cut(canif)) = Position(canif) - 1
         /\ \A i \in 1..(Position(canif) - 1) : Cut(canif)[i] = canif_list[i]
<1>1. canif_list \in Seq(Numbered) /\ Len(canif_list) \in Nat
  BY Entries DEF ListOK
<1>2. Position(canif) \in 1..Len(canif_list)
  BY <1>1, AtPosition
<1> DEFINE P == Position(canif)
<1> HIDE DEF P
<1>3. P \in 1..Len(canif_list)
  BY <1>2 DEF P
<1>4. /\ SubSeq(canif_list, 1, P - 1) \in Seq(Numbered)
      /\ Len(SubSeq(canif_list, 1, P - 1)) = P - 1
      /\ \A i \in 1..(P - 1) : SubSeq(canif_list, 1, P - 1)[i] = canif_list[i]
  BY <1>1, <1>3
<1> QED
  BY <1>4 DEF Cut, P

(* canif_add of one that is listed cuts the list at it.                    *)
LEMMA AgainList ==
  ASSUME ListOK, misuse = "none", NEW canif \in Interface, canif \in Listed,
         NEW num \in 0..(MAX_CANIF_NUM - 1),
         canif_list' = Append(Cut(canif), [canif |-> canif, num |-> num])
  PROVE  /\ canif_list' \in Seq(Numbered) /\ Len(canif_list') <= MAX_CANIF_NUM
         /\ (\A j \in 1..Len(Cut(canif)) : Cut(canif)[j].num # num)
              => Distinct(canif_list')
         /\ \A index, c :
              /\ Reaches(canif_list, index, c)
              /\ c \notin {canif_list[i].canif : i \in Position(canif)..Len(canif_list)}
              => Reaches(canif_list', index, c)
<1> DEFINE P == Position(canif)
           N == Len(canif_list)
           e == [canif |-> canif, num |-> num]
           cut == Cut(canif)
           new == Append(cut, e)
<1>1. /\ canif_list \in Seq(Numbered) /\ N \in Nat /\ N <= MAX_CANIF_NUM
      /\ MAX_CANIF_NUM \in Nat
      /\ P \in 1..N /\ canif_list[P].canif = canif
  BY Entries, AtPosition, CanifAssumption DEF ListOK
<1>2. /\ cut \in Seq(Numbered) /\ Len(cut) = P - 1
      /\ \A i \in 1..(P - 1) : cut[i] = canif_list[i]
  BY CutIs
<1>3. e \in Numbered /\ e.num = num /\ e.canif = canif
  BY DEF Numbered
<1> HIDE DEF e, P, N, cut
<1>4. /\ new \in Seq(Numbered) /\ Len(new) = P
      /\ new[P] = e
      /\ \A i \in 1..(P - 1) : new[i] = canif_list[i]
  <2>1. new \in Seq(Numbered) /\ Len(new) = Len(cut) + 1
    BY <1>2, <1>3
  <2>2. new[Len(cut) + 1] = e
    BY <1>2, <1>3
  <2>3. \A i \in 1..Len(cut) : new[i] = cut[i]
    BY <1>2, <1>3
  <2>4. Len(cut) + 1 = P /\ 1..Len(cut) = 1..(P - 1)
    BY <1>1, <1>2
  <2> HIDE DEF new
  <2> QED
    BY <1>2, <2>1, <2>2, <2>3, <2>4
<1> HIDE DEF new
<1>5. \A i, j \in 1..N : i # j => /\ canif_list[i].num # canif_list[j].num
                                 /\ canif_list[i].canif # canif_list[j].canif
  BY DEF ListOK, Distinct, N
<1>6. ASSUME \A j \in 1..Len(cut) : cut[j].num # num
      PROVE  Distinct(new)
  <2>1. ASSUME NEW i \in 1..(P - 1) PROVE /\ canif_list[i].num # num
                                          /\ canif_list[i].canif # canif
    <3>1. i \in 1..Len(cut) /\ i \in 1..N /\ i # P
      BY <1>1, <1>2
    <3> QED
      BY <1>1, <1>2, <1>5, <1>6, <3>1
  <2>2. ASSUME NEW i \in 1..P, NEW j \in 1..P, i # j
        PROVE  new[i].num # new[j].num /\ new[i].canif # new[j].canif
    <3>1. CASE i = P
      <4>1. j \in 1..(P - 1)
        BY <1>1, <2>2, <3>1
      <4> QED
        BY <1>3, <1>4, <2>1, <3>1, <4>1
    <3>2. CASE j = P
      <4>1. i \in 1..(P - 1)
        BY <1>1, <2>2, <3>2
      <4> QED
        BY <1>3, <1>4, <2>1, <3>2, <4>1
    <3>3. CASE i # P /\ j # P
      <4>1. i \in 1..(P - 1) /\ j \in 1..(P - 1) /\ i \in 1..N /\ j \in 1..N
        BY <1>1, <3>3
      <4> QED
        BY <1>4, <1>5, <2>2, <4>1
    <3> QED
      BY <3>1, <3>2, <3>3
  <2> QED
    BY <1>4, <2>2 DEF Distinct
<1>7. ASSUME NEW index, NEW c, Reaches(canif_list, index, c),
             c \notin {canif_list[i].canif : i \in P..N}
      PROVE  Reaches(new, index, c)
  <2>1. PICK i \in 1..N :
          /\ canif_list[i].canif = c
          /\ canif_list[i].num + 1 = index
          /\ \A j \in 1..(i - 1) : canif_list[j].num + 1 # index
    BY <1>7 DEF Reaches, N
  <2>2. i \in 1..(P - 1) /\ i \in 1..P
    <3>1. i \notin P..N
      BY <1>7, <2>1
    <3> QED
      BY <1>1, <3>1
  <2>3. \A j \in 1..(i - 1) : j \in 1..(P - 1) /\ new[j].num + 1 # index
    BY <1>1, <1>4, <2>1, <2>2
  <2> QED
    BY <1>4, <2>1, <2>2, <2>3 DEF Reaches
<1>8. Len(new) <= MAX_CANIF_NUM
  BY <1>1, <1>4
<1> QED
  BY <1>4, <1>6, <1>7, <1>8 DEF e, P, N, cut, new

(* canif_remove leaves the others their numbers.                           *)
LEMMA RemovedList ==
  ASSUME ListOK, misuse = "none", NEW canif \in Interface, canif_remove(canif)
  PROVE  /\ canif_list' \in Seq(Numbered) /\ Len(canif_list') <= MAX_CANIF_NUM
         /\ Distinct(canif_list')
         /\ \A index, c : Reaches(canif_list, index, c) /\ c # canif
                            => Reaches(canif_list', index, c)
<1> DEFINE P == Position(canif)
           N == Len(canif_list)
           new == RemovedAt(canif_list, P)
           was(i) == IF i < P THEN i ELSE i + 1
<1>1. /\ canif_list \in Seq(Numbered) /\ N \in Nat /\ N <= MAX_CANIF_NUM
      /\ MAX_CANIF_NUM \in Nat
      /\ P \in 1..N /\ canif_list[P].canif = canif
  BY Entries, AtPosition, CanifAssumption DEF ListOK, canif_remove
<1>2. canif_list' = new
  BY DEF canif_remove, Unlinked, RemoveAt, RemovedAt
<1>3. /\ new \in Seq(Numbered) /\ Len(new) = N - 1
      /\ \A i \in 1..(N - 1) :
           new[i] = IF i < P THEN canif_list[i] ELSE canif_list[i + 1]
  <2>1. P \in 1..Len(canif_list) /\ canif_list \in Seq(Numbered)
    BY <1>1
  <2> HIDE DEF P
  <2> QED
    BY <2>1, RemovedAtIs, Zenon
<1> HIDE DEF P, N, new
<1>4. ASSUME NEW i \in 1..(N - 1)
      PROVE  was(i) \in 1..N /\ new[i] = canif_list[was(i)]
  BY <1>1, <1>3
<1>5. Distinct(new)
  <2> SUFFICES ASSUME NEW i \in 1..(N - 1), NEW j \in 1..(N - 1), i # j
               PROVE  new[i].num # new[j].num /\ new[i].canif # new[j].canif
    BY <1>3 DEF Distinct
  <2>1. was(i) # was(j)
    BY <1>1
  <2> HIDE DEF was
  <2> QED
    BY <1>4, <2>1 DEF ListOK, Distinct, N
<1>6. ASSUME NEW index, NEW c, Reaches(canif_list, index, c), c # canif
      PROVE  Reaches(new, index, c)
  <2>1. PICK k \in 1..N :
          /\ canif_list[k].canif = c
          /\ canif_list[k].num + 1 = index
          /\ \A j \in 1..(k - 1) : canif_list[j].num + 1 # index
    BY <1>6 DEF Reaches, N
  <2>2. k # P
    BY <1>1, <1>6, <2>1
  <2> DEFINE i == IF k < P THEN k ELSE k - 1
  <2>3. i \in 1..(N - 1) /\ was(i) = k
    BY <1>1, <2>2
  <2> HIDE DEF i
  <2>4. ASSUME NEW j \in 1..(i - 1) PROVE new[j].num + 1 # index
    <3>1. j \in 1..(N - 1) /\ was(j) \in 1..(k - 1)
      BY <1>1, <2>3
    <3> HIDE DEF was
    <3> QED
      BY <1>4, <2>1, <3>1
  <2>5. new[i] = canif_list[k] /\ i \in 1..Len(new)
    BY <1>3, <1>4, <2>3
  <2> QED
    BY <2>1, <2>4, <2>5 DEF Reaches
<1>7. Len(new) <= MAX_CANIF_NUM
  BY <1>1, <1>3
<1> QED
  BY <1>2, <1>3, <1>5, <1>6, <1>7
-----------------------------------------------------------------------------
(* The types of what connections are bound to.                             *)
BindingTypes ==
  /\ raw_index \in [Raw!Pcb -> Index]
  /\ isotp_index \in [IsoTp!Pcb -> Index]
  /\ isotp_rx \in [IsoTp!Pcb -> CanId \cup {None}]
  /\ bound \in [raw : [Raw!Pcb -> Interface \cup {None}],
                isotp : [IsoTp!Pcb -> Interface \cup {None}]]

(* A raw connection bound to a listed interface reaches it.                *)
RawReach ==
  \A p \in Raw!Pcb :
    bound.raw[p] # None => Reaches(canif_list, raw_index[p], bound.raw[p])

(* So does an ISO-TP connection.                                           *)
IsoTpReach ==
  \A p \in IsoTp!Pcb :
    bound.isotp[p] # None => Reaches(canif_list, isotp_index[p], bound.isotp[p])

(* What is kept of the send that waits for the driver.                     *)
SendOK ==
  /\ waiting \in Raw!Pcb \cup {NULL}
  /\ with_driver \in BOOLEAN
  /\ sent \subseteq Raw!Pcb
  /\ misuse \in {"none", "callback", "init"}
  /\ with_driver => waiting # NULL
  /\ ReturnsConfirmed

(* What connections are bound to.                                          *)
Bindings == BindingTypes /\ RawReach /\ IsoTpReach

(* The inductive invariant of interfaces, bindings and sends.              *)
RouteInv == ListOK /\ Bindings /\ SendOK

(* Bindings stay good when connections of the interfaces that are lost are *)
(* released and the others are reached as before.                          *)
LEMMA ReleaseKeeps ==
  ASSUME Bindings, NEW lost, ReleasedFrom(lost),
         UNCHANGED <<raw_index, isotp_index, isotp_rx>>,
         \A index, c : Reaches(canif_list, index, c) /\ c \notin lost
                      => Reaches(canif_list', index, c)
  PROVE  Bindings'
<1>1. bound \in [raw : [Raw!Pcb -> Interface \cup {None}],
                isotp : [IsoTp!Pcb -> Interface \cup {None}]]
  BY DEF Bindings, BindingTypes
<1> DEFINE r == [p \in Raw!Pcb |->
                   IF bound.raw[p] \in lost THEN None ELSE bound.raw[p]]
           i == [p \in IsoTp!Pcb |->
                   IF bound.isotp[p] \in lost THEN None ELSE bound.isotp[p]]
<1>2. /\ DOMAIN bound = {"raw", "isotp"}
      /\ DOMAIN bound["raw"] = Raw!Pcb /\ DOMAIN bound["isotp"] = IsoTp!Pcb
      /\ bound.raw = bound["raw"] /\ bound.isotp = bound["isotp"]
  BY <1>1
<1>3. bound'["raw"] = r /\ bound'["isotp"] = i /\ DOMAIN bound' = {"raw", "isotp"}
  BY <1>2 DEF ReleasedFrom
<1>4. bound' = [raw |-> r, isotp |-> i]
  <2>1. bound' = [kind \in {"raw", "isotp"} |-> bound'[kind]]
    BY <1>2 DEF ReleasedFrom
  <2> HIDE DEF r, i
  <2> QED
    BY <1>3, <2>1
<1>5. /\ r \in [Raw!Pcb -> Interface \cup {None}]
      /\ i \in [IsoTp!Pcb -> Interface \cup {None}]
  BY <1>1
<1>6. BindingTypes'
  <2> HIDE DEF r, i
  <2> QED
    BY <1>4, <1>5 DEF Bindings, BindingTypes
<1>7. RawReach'
  <2> SUFFICES ASSUME NEW p \in Raw!Pcb, r[p] # None
               PROVE  Reaches(canif_list', raw_index[p], r[p])
    BY <1>4 DEF RawReach
  <2>1. r[p] = bound.raw[p] /\ bound.raw[p] \notin lost
    OBVIOUS
  <2>2. Reaches(canif_list, raw_index[p], bound.raw[p])
    BY <2>1 DEF Bindings, RawReach
  <2> HIDE DEF r
  <2> QED
    BY <2>1, <2>2
<1>8. IsoTpReach'
  <2> SUFFICES ASSUME NEW p \in IsoTp!Pcb, i[p] # None
               PROVE  Reaches(canif_list', isotp_index[p], i[p])
    BY <1>4 DEF IsoTpReach
  <2>1. i[p] = bound.isotp[p] /\ bound.isotp[p] \notin lost
    OBVIOUS
  <2>2. Reaches(canif_list, isotp_index[p], bound.isotp[p])
    BY <2>1 DEF Bindings, IsoTpReach
  <2> HIDE DEF i
  <2> QED
    BY <2>1, <2>2
<1> QED
  BY <1>6, <1>7, <1>8 DEF Bindings

(* Adding an interface keeps the invariant.                                *)
LEMMA AddKeeps ==
  ASSUME RouteInv, misuse = "none", NEW canif \in Interface, AddInterface(canif)
  PROVE  RouteInv'
<1>1. ListOK /\ Bindings /\ SendOK /\ canif_add(canif)
  BY DEF RouteInv, AddInterface
<1>2. /\ canif_list' \in Seq(Numbered) /\ Len(canif_list') <= MAX_CANIF_NUM
      /\ canif_num' \in 0..(MAX_CANIF_NUM - 1)
      /\ Distinct(canif_list')
      /\ \A index, c : Reaches(canif_list, index, c)
                         => Reaches(canif_list', index, c)
  BY <1>1, AddedList
<1>3. ListOK'
  BY <1>2 DEF ListOK
<1>4. /\ UNCHANGED <<bound, raw_index, isotp_index, isotp_rx>>
      /\ UNCHANGED <<sending, misuse>>
  BY DEF AddInterface, connections
<1>5. Bindings'
  BY <1>1, <1>2, <1>4 DEF Bindings, BindingTypes, RawReach, IsoTpReach
<1>6. SendOK'
  BY <1>1, <1>4 DEF SendOK, ReturnsConfirmed, sending
<1> QED
  BY <1>3, <1>5, <1>6 DEF RouteInv

(* Adding one again keeps the invariant.                                   *)
LEMMA AddAgainKeeps ==
  ASSUME RouteInv, misuse = "none", NEW canif \in Interface, AddAgain(canif)
  PROVE  RouteInv'
<1> DEFINE lost == {canif_list[i].canif : i \in Position(canif)..Len(canif_list)}
<1>1. ListOK /\ Bindings /\ SendOK /\ canif \in Listed
  BY DEF RouteInv, AddAgain, canif_add_again, canif_add_again_failed
<1>2. /\ Cut(canif) \in Seq(Numbered) /\ Len(Cut(canif)) < MAX_CANIF_NUM
      /\ canif_num \in 0..(MAX_CANIF_NUM - 1) /\ canif_num' = canif_num
  <2>1. /\ canif_list \in Seq(Numbered) /\ Len(canif_list) <= MAX_CANIF_NUM
        /\ canif_num \in 0..(MAX_CANIF_NUM - 1)
    BY <1>1 DEF ListOK
  <2>2. Position(canif) \in 1..Len(canif_list) /\ Len(canif_list) \in Nat
    BY <1>1, <2>1, AtPosition, Entries
  <2>3. Cut(canif) \in Seq(Numbered) /\ Len(Cut(canif)) = Position(canif) - 1
    BY <1>1, CutIs
  <2>4. canif_num' = canif_num
    BY DEF AddAgain, canif_add_again, canif_add_again_failed
  <2>5. Len(Cut(canif)) < MAX_CANIF_NUM
    BY <2>1, <2>2, <2>3, CanifAssumption
  <2> QED
    BY <2>1, <2>3, <2>4, <2>5
<1>3. PICK num \in 0..(MAX_CANIF_NUM - 1) :
        /\ canif_list' = Append(Cut(canif), [canif |-> canif, num |-> num])
        /\ \/ misuse' = "init"
           \/ /\ misuse' = misuse
              /\ \A j \in 1..Len(Cut(canif)) : Cut(canif)[j].num # num
  <2>1. CASE canif_add_again(canif) /\ UNCHANGED misuse
    <3>1. /\ FirstFree(Cut(canif)) \in 0..(MAX_CANIF_NUM - 1)
          /\ \A j \in 1..Len(Cut(canif)) : Cut(canif)[j].num # FirstFree(Cut(canif))
      BY <1>2, FreeNumber
    <3>2. canif_list' = Append(Cut(canif), [canif |-> canif,
                                            num |-> FirstFree(Cut(canif))])
      BY <2>1 DEF canif_add_again
    <3> QED
      BY <2>1, <3>1, <3>2
  <2>2. CASE canif_add_again_failed(canif) /\ misuse' = "init"
    BY <1>2, <2>2 DEF canif_add_again_failed
  <2> QED
    BY <2>1, <2>2 DEF AddAgain
<1>4. /\ canif_list' \in Seq(Numbered) /\ Len(canif_list') <= MAX_CANIF_NUM
      /\ (\A j \in 1..Len(Cut(canif)) : Cut(canif)[j].num # num)
            => Distinct(canif_list')
      /\ \A index, c : Reaches(canif_list, index, c) /\ c \notin lost
                         => Reaches(canif_list', index, c)
  BY <1>1, <1>3, AgainList
<1>5. ListOK'
  BY <1>2, <1>3, <1>4 DEF ListOK
<1>6. ReleasedFrom(lost) /\ UNCHANGED <<raw_index, isotp_index, isotp_rx, sending>>
  BY DEF AddAgain, connections
<1>7. Bindings'
  <2> HIDE DEF lost
  <2> QED
    BY <1>1, <1>4, <1>6, ReleaseKeeps
<1>8. SendOK'
  BY <1>1, <1>3, <1>6 DEF SendOK, ReturnsConfirmed, sending
<1> QED
  BY <1>5, <1>7, <1>8 DEF RouteInv

(* Removing one keeps the invariant.                                       *)
LEMMA RemoveKeeps ==
  ASSUME RouteInv, misuse = "none", NEW canif \in Interface, RemoveInterface(canif)
  PROVE  RouteInv'
<1>1. ListOK /\ Bindings /\ SendOK /\ canif_remove(canif)
  BY DEF RouteInv, RemoveInterface
<1>2. /\ canif_list' \in Seq(Numbered) /\ Len(canif_list') <= MAX_CANIF_NUM
      /\ Distinct(canif_list')
      /\ \A index, c : Reaches(canif_list, index, c) /\ c # canif
                         => Reaches(canif_list', index, c)
  BY <1>1, RemovedList
<1>3. /\ UNCHANGED <<raw_index, isotp_index, isotp_rx, sending, misuse, canif_num>>
      /\ ReleasedFrom({canif})
  BY DEF RemoveInterface, connections, canif_remove
<1>4. ListOK'
  BY <1>1, <1>2, <1>3 DEF ListOK
<1>5. Bindings'
  BY <1>1, <1>2, <1>3, ReleaseKeeps
<1>6. SendOK'
  BY <1>1, <1>3 DEF SendOK, ReturnsConfirmed, sending
<1> QED
  BY <1>4, <1>5, <1>6 DEF RouteInv

(* The index of a listed interface reaches it.                             *)
LEMMA IndexIs ==
  ASSUME ListOK, misuse = "none", NEW canif \in Listed
  PROVE  /\ canif_get_index(canif) \in Index
         /\ Reaches(canif_list, canif_get_index(canif), canif)
<1>1. canif_list \in Seq(Numbered) /\ Distinct(canif_list)
  BY DEF ListOK
<1>2. Position(canif) \in 1..Len(canif_list)
  BY <1>1, AtPosition
<1>3. canif_list[Position(canif)].num \in 0..(MAX_CANIF_NUM - 1)
  BY <1>1, <1>2, Entries
<1>4. canif_get_index(canif) \in Index
  BY <1>3, CanifAssumption DEF canif_get_index, Index
<1> QED
  BY <1>1, <1>4, ReachesListed

(* canraw_bind keeps the bindings good.                                    *)
LEMMA RawBindKeeps ==
  ASSUME RouteInv, misuse = "none", NEW p \in Raw!Pcb, NEW canif \in Interface,
         canraw_bind(p, canif)
  PROVE  Bindings'
<1>1. /\ canif_get_index(canif) \in Index
      /\ Reaches(canif_list, canif_get_index(canif), canif)
  BY IndexIs DEF RouteInv, canraw_bind
<1>2. BindingTypes /\ RawReach /\ IsoTpReach
  BY DEF RouteInv, Bindings
<1>3. /\ raw_index' = [raw_index EXCEPT ![p] = canif_get_index(canif)]
      /\ bound' = [bound EXCEPT !.raw[p] = canif]
      /\ UNCHANGED <<canif_list, isotp_index, isotp_rx>>
  BY DEF canraw_bind, interfaces
<1>4. /\ bound'.raw = [bound.raw EXCEPT ![p] = canif]
      /\ bound'.isotp = bound.isotp
      /\ bound' \in [raw : [Raw!Pcb -> Interface \cup {None}],
                    isotp : [IsoTp!Pcb -> Interface \cup {None}]]
  BY <1>2, <1>3 DEF BindingTypes
<1>5. BindingTypes'
  BY <1>1, <1>2, <1>3, <1>4 DEF BindingTypes
<1>6. RawReach'
  BY <1>1, <1>2, <1>3, <1>4 DEF RawReach, BindingTypes
<1>7. IsoTpReach'
  BY <1>2, <1>3, <1>4 DEF IsoTpReach
<1> QED
  BY <1>5, <1>6, <1>7 DEF Bindings

(* isotp_bind keeps the bindings good.                                     *)
LEMMA IsoTpBindKeeps ==
  ASSUME RouteInv, misuse = "none", NEW p \in IsoTp!Pcb,
         NEW canif \in Interface, NEW id \in CanId, isotp_bind(p, canif, id)
  PROVE  Bindings'
<1>1. /\ canif_get_index(canif) \in Index
      /\ Reaches(canif_list, canif_get_index(canif), canif)
  BY IndexIs DEF RouteInv, isotp_bind
<1>2. BindingTypes /\ RawReach /\ IsoTpReach
  BY DEF RouteInv, Bindings
<1>3. /\ isotp_index' = [isotp_index EXCEPT ![p] = canif_get_index(canif)]
      /\ isotp_rx' = [isotp_rx EXCEPT ![p] = id]
      /\ bound' = [bound EXCEPT !.isotp[p] = canif]
      /\ UNCHANGED <<canif_list, raw_index>>
  BY DEF isotp_bind, interfaces
<1>4. /\ bound'.isotp = [bound.isotp EXCEPT ![p] = canif]
      /\ bound'.raw = bound.raw
      /\ bound' \in [raw : [Raw!Pcb -> Interface \cup {None}],
                    isotp : [IsoTp!Pcb -> Interface \cup {None}]]
  BY <1>2, <1>3 DEF BindingTypes
<1>5. BindingTypes'
  BY <1>1, <1>2, <1>3, <1>4 DEF BindingTypes
<1>6. IsoTpReach'
  BY <1>1, <1>2, <1>3, <1>4 DEF IsoTpReach, BindingTypes
<1>7. RawReach'
  BY <1>2, <1>3, <1>4 DEF RawReach
<1> QED
  BY <1>5, <1>6, <1>7 DEF Bindings

(* canraw_remove keeps the bindings good.                                  *)
LEMMA RawRemoveKeeps ==
  ASSUME RouteInv, NEW p \in Raw!Pcb, canraw_remove(p)
  PROVE  Bindings'
<1>2. BindingTypes /\ RawReach /\ IsoTpReach
  BY DEF RouteInv, Bindings
<1>3. /\ raw_index' = [raw_index EXCEPT ![p] = 0]
      /\ bound' = [bound EXCEPT !.raw[p] = None]
      /\ UNCHANGED <<canif_list, isotp_index, isotp_rx>>
  BY DEF canraw_remove, interfaces
<1>4. /\ bound'.raw = [bound.raw EXCEPT ![p] = None]
      /\ bound'.isotp = bound.isotp
      /\ bound' \in [raw : [Raw!Pcb -> Interface \cup {None}],
                    isotp : [IsoTp!Pcb -> Interface \cup {None}]]
  BY <1>2, <1>3 DEF BindingTypes
<1>5. BindingTypes'
  BY <1>2, <1>3, <1>4, CanifAssumption DEF BindingTypes, Index
<1>6. RawReach'
  BY <1>2, <1>3, <1>4 DEF RawReach, BindingTypes
<1>7. IsoTpReach'
  BY <1>2, <1>3, <1>4 DEF IsoTpReach
<1> QED
  BY <1>5, <1>6, <1>7 DEF Bindings

(* isotp_remove keeps the bindings good.                                   *)
LEMMA IsoTpRemoveKeeps ==
  ASSUME RouteInv, NEW p \in IsoTp!Pcb, isotp_remove(p)
  PROVE  Bindings'
<1>2. BindingTypes /\ RawReach /\ IsoTpReach
  BY DEF RouteInv, Bindings
<1>3. /\ isotp_index' = [isotp_index EXCEPT ![p] = 0]
      /\ isotp_rx' = [isotp_rx EXCEPT ![p] = None]
      /\ bound' = [bound EXCEPT !.isotp[p] = None]
      /\ UNCHANGED <<canif_list, raw_index>>
  BY DEF isotp_remove, interfaces
<1>4. /\ bound'.isotp = [bound.isotp EXCEPT ![p] = None]
      /\ bound'.raw = bound.raw
      /\ bound' \in [raw : [Raw!Pcb -> Interface \cup {None}],
                    isotp : [IsoTp!Pcb -> Interface \cup {None}]]
  BY <1>2, <1>3 DEF BindingTypes
<1>5. BindingTypes'
  BY <1>2, <1>3, <1>4, CanifAssumption DEF BindingTypes, Index
<1>6. IsoTpReach'
  BY <1>2, <1>3, <1>4 DEF IsoTpReach, BindingTypes
<1>7. RawReach'
  BY <1>2, <1>3, <1>4 DEF RawReach
<1> QED
  BY <1>5, <1>6, <1>7 DEF Bindings

(* A frame that a raw connection is called for.                            *)
LEMMA ForgottenKeeps ==
  ASSUME RouteInv, NEW removed, Forgotten(removed),
         UNCHANGED <<canif_list, isotp_index, isotp_rx>>
  PROVE  Bindings'
<1>2. BindingTypes /\ RawReach /\ IsoTpReach
  BY DEF RouteInv, Bindings
<1> DEFINE r == [p \in Raw!Pcb |-> IF p \in removed THEN None ELSE bound.raw[p]]
<1>3. /\ raw_index' = [p \in Raw!Pcb |-> IF p \in removed THEN 0 ELSE raw_index[p]]
      /\ bound' = [bound EXCEPT !.raw = r]
  BY DEF Forgotten
<1>4. r \in [Raw!Pcb -> Interface \cup {None}]
  BY <1>2 DEF BindingTypes
<1> HIDE DEF r
<1>5. /\ bound'.raw = r
      /\ bound'.isotp = bound.isotp
      /\ bound' \in [raw : [Raw!Pcb -> Interface \cup {None}],
                    isotp : [IsoTp!Pcb -> Interface \cup {None}]]
  BY <1>2, <1>3, <1>4 DEF BindingTypes
<1>6. raw_index' \in [Raw!Pcb -> Index]
  BY <1>2, <1>3, CanifAssumption DEF BindingTypes, Index
<1>7. BindingTypes'
  BY <1>2, <1>5, <1>6 DEF BindingTypes
<1>8. RawReach'
  <2> SUFFICES ASSUME NEW p \in Raw!Pcb, r[p] # None
               PROVE  Reaches(canif_list, raw_index'[p], r[p])
    BY <1>5 DEF RawReach
  <2>1. r[p] = bound.raw[p] /\ raw_index'[p] = raw_index[p]
    BY <1>3 DEF r
  <2> QED
    BY <1>2, <2>1 DEF RawReach
<1>9. IsoTpReach'
  BY <1>2, <1>5 DEF IsoTpReach
<1> QED
  BY <1>7, <1>8, <1>9 DEF Bindings

(* A send starts unconfirmed.                                              *)
LEMMA SendKeeps ==
  ASSUME SendOK, waiting = NULL, NEW p \in Raw!Pcb, canraw_send(p)
  PROVE  SendOK'
<1>1. NULL \notin Raw!Pcb
  BY DEF NULL, Raw!Pcb
<1>2. p # NULL /\ sent = {}
  BY <1>1 DEF SendOK, ReturnsConfirmed
<1> QED
  BY <1>2 DEF SendOK, ReturnsConfirmed, canraw_send

(* A confirmation is kept with the send that waits.                        *)
LEMMA RawSentKeeps ==
  ASSUME SendOK, raw_sent
  PROVE  SendOK'
<1>1. waiting # NULL /\ waiting \in Raw!Pcb
  BY DEF SendOK, raw_sent
<1> QED
  BY <1>1 DEF SendOK, ReturnsConfirmed, raw_sent, SentMarked

(* A send that returns was confirmed.                                      *)
LEMMA ReturnKeeps ==
  ASSUME SendOK, canraw_send_returns
  PROVE  SendOK'
<1>1. ~with_driver /\ sent = {waiting}
  BY DEF SendOK, ReturnsConfirmed, canraw_send_returns
<1> QED
  BY <1>1 DEF SendOK, ReturnsConfirmed, canraw_send_returns, SentCleared

(* Every step keeps RouteInv.                                              *)
LEMMA RouteInductive == RouteInv /\ [Next]_vars => RouteInv'
<1> SUFFICES ASSUME RouteInv, [Next]_vars PROVE RouteInv'
  OBVIOUS
<1>1. ASSUME UNCHANGED interfaces, misuse' # "init" => misuse # "init"
      PROVE  ListOK'
  BY <1>1 DEF RouteInv, ListOK, interfaces
<1>2. ASSUME UNCHANGED <<interfaces, raw_index, isotp_index, isotp_rx, bound>>
      PROVE  Bindings'
  BY <1>2 DEF RouteInv, Bindings, BindingTypes, RawReach, IsoTpReach, interfaces
<1>3. ASSUME UNCHANGED <<sending, misuse>>
      PROVE  SendOK'
  BY <1>3 DEF RouteInv, SendOK, ReturnsConfirmed, sending
<1>4. CASE UNCHANGED vars
  BY <1>1, <1>2, <1>3, <1>4 DEF vars, connections, RouteInv
<1>5. CASE misuse = "none" /\ waiting = NULL /\ Application
  <2>1. CASE \E c \in Interface : AddInterface(c)
    BY <1>5, <2>1, AddKeeps
  <2>2. CASE \E c \in Interface : AddAgain(c)
    BY <1>5, <2>2, AddAgainKeeps
  <2>3. CASE \E c \in Interface : RemoveInterface(c)
    BY <1>5, <2>3, RemoveKeeps
  <2>4. CASE canraw_new \/ isotp_new
    BY <1>1, <1>2, <1>3, <2>4 DEF canraw_new, isotp_new, RouteInv
  <2>5. CASE \E p \in Raw!Pcb, c \in Interface : canraw_bind(p, c)
    <3>1. UNCHANGED <<interfaces, sending, misuse>>
      BY <2>5 DEF canraw_bind
    <3>2. Bindings'
      BY <1>5, <2>5, RawBindKeeps
    <3> QED
      BY <1>1, <1>3, <3>1, <3>2 DEF RouteInv
  <2>6. CASE \E p \in Raw!Pcb : canraw_remove(p)
    <3>1. UNCHANGED <<interfaces, sending, misuse>>
      BY <2>6 DEF canraw_remove
    <3>2. Bindings'
      BY <2>6, RawRemoveKeeps
    <3> QED
      BY <1>1, <1>3, <3>1, <3>2 DEF RouteInv
  <2>7. CASE \E p \in IsoTp!Pcb, c \in Interface, id \in CanId : isotp_bind(p, c, id)
    <3>1. UNCHANGED <<interfaces, sending, misuse>>
      BY <2>7 DEF isotp_bind
    <3>2. Bindings'
      BY <1>5, <2>7, IsoTpBindKeeps
    <3> QED
      BY <1>1, <1>3, <3>1, <3>2 DEF RouteInv
  <2>8. CASE \E p \in IsoTp!Pcb : isotp_remove(p)
    <3>1. UNCHANGED <<interfaces, sending, misuse>>
      BY <2>8 DEF isotp_remove
    <3>2. Bindings'
      BY <2>8, IsoTpRemoveKeeps
    <3> QED
      BY <1>1, <1>3, <3>1, <3>2 DEF RouteInv
  <2>9. CASE \E p \in Raw!Pcb : canraw_send(p)
    <3>1. UNCHANGED <<interfaces, connections, bound, misuse>>
      BY <2>9 DEF canraw_send
    <3>2. SendOK'
      BY <1>5, <2>9, SendKeeps DEF RouteInv
    <3> QED
      BY <1>1, <1>2, <3>1, <3>2 DEF RouteInv, connections
  <2> QED
    BY <1>5, <2>1, <2>2, <2>3, <2>4, <2>5, <2>6, <2>7, <2>8, <2>9
       DEF Application
<1>6. CASE misuse = "none" /\ \E c \in Interface :
             canraw_input_none(c) \/ canraw_input_eaten(c)
  <2>1. PICK removed : Forgotten(removed)
    BY <1>6 DEF canraw_input_none, canraw_input_eaten
  <2>2. /\ UNCHANGED <<interfaces, isotp_index, isotp_rx, sending>>
        /\ misuse' \in {"callback", misuse}
    BY <1>6 DEF canraw_input_none, canraw_input_eaten
  <2>3. Bindings'
    BY <2>1, <2>2, ForgottenKeeps DEF interfaces
  <2>4. SendOK'
    BY <2>2 DEF RouteInv, SendOK, ReturnsConfirmed, sending
  <2> QED
    BY <1>1, <1>6, <2>2, <2>3, <2>4 DEF RouteInv
<1>7. CASE raw_sent \/ canraw_send_returns
  <2>1. UNCHANGED <<interfaces, connections, bound, misuse>>
    BY <1>7 DEF raw_sent, canraw_send_returns
  <2>2. SendOK'
    BY <1>7, RawSentKeeps, ReturnKeeps DEF RouteInv
  <2> QED
    BY <1>1, <1>2, <2>1, <2>2 DEF RouteInv, connections
<1> QED
  BY <1>4, <1>5, <1>6, <1>7 DEF Next, Step, Driver, Misused

(* RouteInv holds initially.                                               *)
LEMMA RouteInitially == Init => RouteInv
<1> SUFFICES ASSUME Init PROVE RouteInv
  OBVIOUS
<1>1. ListOK
  BY CanifAssumption DEF Init, ListOK, Distinct
<1>2. BindingTypes
  BY CanifAssumption DEF Init, BindingTypes, Index
<1>3. RawReach /\ IsoTpReach
  BY DEF Init, RawReach, IsoTpReach
<1>4. SendOK
  BY DEF Init, SendOK, ReturnsConfirmed
<1> QED
  BY <1>1, <1>2, <1>3, <1>4 DEF RouteInv, Bindings

(* RouteInv always holds.                                                  *)
LEMMA RouteInvariance == Spec => []RouteInv
<1>1. Init => RouteInv
  BY RouteInitially
<1>2. RouteInv /\ [Next]_vars => RouteInv'
  BY RouteInductive
<1> QED
  BY <1>1, <1>2, PTL DEF Spec

(* No two interfaces have the same number, so long as none is added twice. *)
THEOREM NoNumberTwice == Spec => []NumbersUnique
<1>1. RouteInv => NumbersUnique
  BY Entries DEF RouteInv, ListOK, NumbersUnique, Distinct
<1> QED
  BY <1>1, RouteInvariance, PTL

(* canraw_send returns only when its frame was confirmed.                  *)
THEOREM ReturnsOnlyConfirmed == Spec => []ReturnsConfirmed
<1>1. RouteInv => ReturnsConfirmed
  BY DEF RouteInv, SendOK
<1> QED
  BY <1>1, RouteInvariance, PTL
-----------------------------------------------------------------------------
(* The operators of the table of raw connections are those the lemmas are  *)
(* about.                                                                  *)
LEMMA SameRaw ==
  /\ Raw!Pcb = RawP!Pcb /\ Raw!NULL = RawP!NULL /\ Raw!NULL = NULL
  /\ Raw!Table = RawP!Table /\ Raw!EmptyTable = RawP!EmptyTable
  /\ \A t : /\ Raw!CanAdd(t) <=> RawP!CanAdd(t)
            /\ Raw!Added(t) = RawP!Added(t)
            /\ Raw!Intact(t) <=> RawP!Intact(t)
  /\ \A t, p : /\ Raw!Removed(t, p) = RawP!Removed(t, p)
               /\ Raw!Previous(t, p) = RawP!Previous(t, p)
               /\ Raw!FirstOf(t, p) = RawP!FirstOf(t, p)
<1>1. Raw!Pcb = RawP!Pcb /\ Raw!NULL = RawP!NULL /\ Raw!NULL = NULL
  BY DEF Raw!Pcb, RawP!Pcb, Raw!NULL, RawP!NULL, NULL
<1>2. Raw!Table = RawP!Table /\ Raw!EmptyTable = RawP!EmptyTable
  BY <1>1 DEF Raw!Table, RawP!Table, Raw!EmptyTable, RawP!EmptyTable
<1>3. ASSUME NEW t
      PROVE  /\ Raw!Walk(t) = RawP!Walk(t)
             /\ Raw!Linked(t) = RawP!Linked(t)
             /\ Raw!Intact(t) <=> RawP!Intact(t)
             /\ Raw!CanAdd(t) <=> RawP!CanAdd(t)
             /\ Raw!Added(t) = RawP!Added(t)
  <2>1. Raw!Walk(t) = RawP!Walk(t)
    BY DEF Raw!Walk, RawP!Walk, Raw!NULL, RawP!NULL
  <2>2. Raw!Linked(t) = RawP!Linked(t)
    BY <1>1, <2>1 DEF Raw!Linked, RawP!Linked
  <2>3. Raw!Intact(t) <=> RawP!Intact(t)
    BY <1>1, <2>2 DEF Raw!Intact, RawP!Intact, Raw!Cardinality, RawP!Cardinality
  <2>4. Raw!CanAdd(t) <=> RawP!CanAdd(t)
    BY <1>1 DEF Raw!CanAdd, RawP!CanAdd
  <2>5. Raw!NewPcb(t) = RawP!NewPcb(t)
    BY <1>1 DEF Raw!NewPcb, RawP!NewPcb, Raw!Min, RawP!Min
  <2>6. Raw!Added(t) = RawP!Added(t)
    BY <2>5 DEF Raw!Added, RawP!Added
  <2> QED
    BY <2>1, <2>2, <2>3, <2>4, <2>6
<1>4. ASSUME NEW t, NEW p
      PROVE  /\ Raw!Removed(t, p) = RawP!Removed(t, p)
             /\ Raw!Previous(t, p) = RawP!Previous(t, p)
             /\ Raw!FirstOf(t, p) = RawP!FirstOf(t, p)
  <2>1. Raw!Walk(t) = RawP!Walk(t) /\ Raw!Linked(t) = RawP!Linked(t)
    BY <1>3
  <2>2. Raw!Previous(t, p) = RawP!Previous(t, p)
    BY <1>1, <2>1 DEF Raw!Previous, RawP!Previous
  <2>3. Raw!FirstOf(t, p) = RawP!FirstOf(t, p)
    BY <1>1, <2>1 DEF Raw!FirstOf, RawP!FirstOf, Raw!Min, RawP!Min
  <2>4. Raw!Freed(t, p) = RawP!Freed(t, p)
    BY DEF Raw!Freed, RawP!Freed
  <2>5. Raw!Removed(t, p) = RawP!Removed(t, p)
    BY <1>1, <2>1, <2>2, <2>4 DEF Raw!Removed, RawP!Removed
  <2> QED
    BY <2>2, <2>3, <2>5
<1> QED
  BY <1>1, <1>2, <1>3, <1>4

(* So are those of the table of ISO-TP connections.                        *)
LEMMA SameIsoTp ==
  /\ IsoTp!Pcb = IsoTpP!Pcb /\ IsoTp!NULL = IsoTpP!NULL /\ IsoTp!NULL = NULL
  /\ IsoTp!Table = IsoTpP!Table /\ IsoTp!EmptyTable = IsoTpP!EmptyTable
  /\ \A t : /\ IsoTp!CanAdd(t) <=> IsoTpP!CanAdd(t)
            /\ IsoTp!Added(t) = IsoTpP!Added(t)
            /\ IsoTp!Intact(t) <=> IsoTpP!Intact(t)
  /\ \A t, p : /\ IsoTp!Removed(t, p) = IsoTpP!Removed(t, p)
               /\ IsoTp!Previous(t, p) = IsoTpP!Previous(t, p)
               /\ IsoTp!FirstOf(t, p) = IsoTpP!FirstOf(t, p)
<1>1. IsoTp!Pcb = IsoTpP!Pcb /\ IsoTp!NULL = IsoTpP!NULL /\ IsoTp!NULL = NULL
  BY DEF IsoTp!Pcb, IsoTpP!Pcb, IsoTp!NULL, IsoTpP!NULL, NULL
<1>2. IsoTp!Table = IsoTpP!Table /\ IsoTp!EmptyTable = IsoTpP!EmptyTable
  BY <1>1 DEF IsoTp!Table, IsoTpP!Table, IsoTp!EmptyTable, IsoTpP!EmptyTable
<1>3. ASSUME NEW t
      PROVE  /\ IsoTp!Walk(t) = IsoTpP!Walk(t)
             /\ IsoTp!Linked(t) = IsoTpP!Linked(t)
             /\ IsoTp!Intact(t) <=> IsoTpP!Intact(t)
             /\ IsoTp!CanAdd(t) <=> IsoTpP!CanAdd(t)
             /\ IsoTp!Added(t) = IsoTpP!Added(t)
  <2>1. IsoTp!Walk(t) = IsoTpP!Walk(t)
    BY DEF IsoTp!Walk, IsoTpP!Walk, IsoTp!NULL, IsoTpP!NULL
  <2>2. IsoTp!Linked(t) = IsoTpP!Linked(t)
    BY <1>1, <2>1 DEF IsoTp!Linked, IsoTpP!Linked
  <2>3. IsoTp!Intact(t) <=> IsoTpP!Intact(t)
    BY <1>1, <2>2 DEF IsoTp!Intact, IsoTpP!Intact, IsoTp!Cardinality, IsoTpP!Cardinality
  <2>4. IsoTp!CanAdd(t) <=> IsoTpP!CanAdd(t)
    BY <1>1 DEF IsoTp!CanAdd, IsoTpP!CanAdd
  <2>5. IsoTp!NewPcb(t) = IsoTpP!NewPcb(t)
    BY <1>1 DEF IsoTp!NewPcb, IsoTpP!NewPcb, IsoTp!Min, IsoTpP!Min
  <2>6. IsoTp!Added(t) = IsoTpP!Added(t)
    BY <2>5 DEF IsoTp!Added, IsoTpP!Added
  <2> QED
    BY <2>1, <2>2, <2>3, <2>4, <2>6
<1>4. ASSUME NEW t, NEW p
      PROVE  /\ IsoTp!Removed(t, p) = IsoTpP!Removed(t, p)
             /\ IsoTp!Previous(t, p) = IsoTpP!Previous(t, p)
             /\ IsoTp!FirstOf(t, p) = IsoTpP!FirstOf(t, p)
  <2>1. IsoTp!Walk(t) = IsoTpP!Walk(t) /\ IsoTp!Linked(t) = IsoTpP!Linked(t)
    BY <1>3
  <2>2. IsoTp!Previous(t, p) = IsoTpP!Previous(t, p)
    BY <1>1, <2>1 DEF IsoTp!Previous, IsoTpP!Previous
  <2>3. IsoTp!FirstOf(t, p) = IsoTpP!FirstOf(t, p)
    BY <1>1, <2>1 DEF IsoTp!FirstOf, IsoTpP!FirstOf, IsoTp!Min, IsoTpP!Min
  <2>4. IsoTp!Freed(t, p) = IsoTpP!Freed(t, p)
    BY DEF IsoTp!Freed, IsoTpP!Freed
  <2>5. IsoTp!Removed(t, p) = IsoTpP!Removed(t, p)
    BY <1>1, <2>1, <2>2, <2>4 DEF IsoTp!Removed, IsoTpP!Removed
  <2> QED
    BY <2>2, <2>3, <2>5
<1> QED
  BY <1>1, <1>2, <1>3, <1>4
-----------------------------------------------------------------------------
(* The table of raw connections has a chain.                               *)
RawChain(t) == t \in Raw!Table /\ \E s : RawP!IsChain(t, s)

(* What is assumed of the pool of raw connections.                         *)
LEMMA RawConstants ==
  /\ CANRAW_MAX_PCB_NUM \in Nat
  /\ RawChunkSize \in Nat \ {0}
BY DispatchAssumption

(* It starts with the empty one.                                           *)
LEMMA RawEmpty == RawChain(Raw!EmptyTable)
<1>1. RawP!IsChain(Raw!EmptyTable, <<>>)
  BY SameRaw, RawP!EmptyChain
<1>2. Raw!EmptyTable \in Raw!Table
  BY RawConstants DEF Raw!EmptyTable, Raw!Table
<1> QED
  BY <1>1, <1>2 DEF RawChain

(* canraw_new keeps a chain.                                               *)
LEMMA RawAddedChain ==
  ASSUME NEW t, RawChain(t), Raw!CanAdd(t)
  PROVE  RawChain(Raw!Added(t))
<1>1. t \in RawP!Table /\ RawP!CanAdd(t) /\ CANRAW_MAX_PCB_NUM \in Nat
  BY SameRaw, RawConstants DEF RawChain
<1>2. PICK s : RawP!IsChain(t, s)
  BY DEF RawChain
<1>3. RawP!Added(t) \in RawP!Table
  BY <1>1, RawP!AddedInTable
<1>4. RawP!IsChain(RawP!Added(t), <<RawP!NewPcb(t)>> \o s)
  BY <1>1, <1>2, RawP!AddedChain
<1> QED
  BY <1>3, <1>4, SameRaw DEF RawChain

(* canraw_remove keeps a chain.                                            *)
LEMMA RawRemovedChain ==
  ASSUME PoolsFit, NEW t, RawChain(t), NEW p \in t.used
  PROVE  RawChain(Raw!Removed(t, p))
<1>1. /\ t \in RawP!Table /\ RawP!PoolFits /\ CANRAW_MAX_PCB_NUM \in Nat
      /\ RawChunkSize \in Nat \ {0}
  BY SameRaw, RawConstants DEF RawChain, PoolsFit
<1>2. PICK s : RawP!IsChain(t, s)
  BY DEF RawChain
<1>3. PICK k \in 1..Len(s) : p = s[k]
  <2>1. t.used = {s[i] : i \in 1..Len(s)}
    BY <1>2, RawP!ChainIs
  <2> QED
    BY <2>1
<1>4. RawP!Removed(t, s[k]) \in RawP!Table
  BY <1>1, <1>2, <1>3, RawP!RemovedFields
<1>5. RawP!IsChain(RawP!Removed(t, s[k]), RawP!RemovedAt(s, k))
  BY <1>1, <1>2, <1>3, RawP!RemovedChain
<1> QED
  BY <1>3, <1>4, <1>5, SameRaw DEF RawChain

(* A chain is intact.                                                      *)
LEMMA RawChainIntact ==
  ASSUME NEW t, RawChain(t)
  PROVE  Raw!Intact(t)
<1>1. PICK s : RawP!IsChain(t, s)
  BY DEF RawChain
<1>2. RawP!Intact(t)
  BY <1>1, RawConstants, RawP!ChainIntact
<1> QED
  BY <1>2, SameRaw

(* The first raw connection looked for is found.                           *)
LEMMA RawFirstOfIs ==
  ASSUME NEW t, RawChain(t), NEW matching \in SUBSET t.used
  PROVE  /\ Raw!FirstOf(t, matching) = NULL => matching = {}
         /\ Raw!FirstOf(t, matching) # NULL => Raw!FirstOf(t, matching) \in matching
<1>1. PICK s : RawP!IsChain(t, s)
  BY DEF RawChain
<1>2. /\ RawP!FirstOf(t, matching) = RawP!NULL => matching = {}
      /\ RawP!FirstOf(t, matching) # RawP!NULL => RawP!FirstOf(t, matching) \in matching
  BY <1>1, RawConstants, RawP!FirstOfIs
<1> QED
  BY <1>2, SameRaw
-----------------------------------------------------------------------------
(* The table of ISO-TP connections has a chain.                            *)
IsoTpChain(t) == t \in IsoTp!Table /\ \E s : IsoTpP!IsChain(t, s)

(* What is assumed of the pool of ISO-TP connections.                      *)
LEMMA IsoTpConstants ==
  /\ ISOTP_MAX_PCB_NUM \in Nat
  /\ IsoTpChunkSize \in Nat \ {0}
BY DispatchAssumption

(* It starts with the empty one.                                           *)
LEMMA IsoTpEmpty == IsoTpChain(IsoTp!EmptyTable)
<1>1. IsoTpP!IsChain(IsoTp!EmptyTable, <<>>)
  BY SameIsoTp, IsoTpP!EmptyChain
<1>2. IsoTp!EmptyTable \in IsoTp!Table
  BY IsoTpConstants DEF IsoTp!EmptyTable, IsoTp!Table
<1> QED
  BY <1>1, <1>2 DEF IsoTpChain

(* isotp_new keeps a chain.                                                *)
LEMMA IsoTpAddedChain ==
  ASSUME NEW t, IsoTpChain(t), IsoTp!CanAdd(t)
  PROVE  IsoTpChain(IsoTp!Added(t))
<1>1. t \in IsoTpP!Table /\ IsoTpP!CanAdd(t) /\ ISOTP_MAX_PCB_NUM \in Nat
  BY SameIsoTp, IsoTpConstants DEF IsoTpChain
<1>2. PICK s : IsoTpP!IsChain(t, s)
  BY DEF IsoTpChain
<1>3. IsoTpP!Added(t) \in IsoTpP!Table
  BY <1>1, IsoTpP!AddedInTable
<1>4. IsoTpP!IsChain(IsoTpP!Added(t), <<IsoTpP!NewPcb(t)>> \o s)
  BY <1>1, <1>2, IsoTpP!AddedChain
<1> QED
  BY <1>3, <1>4, SameIsoTp DEF IsoTpChain

(* isotp_remove keeps a chain.                                             *)
LEMMA IsoTpRemovedChain ==
  ASSUME PoolsFit, NEW t, IsoTpChain(t), NEW p \in t.used
  PROVE  IsoTpChain(IsoTp!Removed(t, p))
<1>1. /\ t \in IsoTpP!Table /\ IsoTpP!PoolFits /\ ISOTP_MAX_PCB_NUM \in Nat
      /\ IsoTpChunkSize \in Nat \ {0}
  BY SameIsoTp, IsoTpConstants DEF IsoTpChain, PoolsFit
<1>2. PICK s : IsoTpP!IsChain(t, s)
  BY DEF IsoTpChain
<1>3. PICK k \in 1..Len(s) : p = s[k]
  <2>1. t.used = {s[i] : i \in 1..Len(s)}
    BY <1>2, IsoTpP!ChainIs
  <2> QED
    BY <2>1
<1>4. IsoTpP!Removed(t, s[k]) \in IsoTpP!Table
  BY <1>1, <1>2, <1>3, IsoTpP!RemovedFields
<1>5. IsoTpP!IsChain(IsoTpP!Removed(t, s[k]), IsoTpP!RemovedAt(s, k))
  BY <1>1, <1>2, <1>3, IsoTpP!RemovedChain
<1> QED
  BY <1>3, <1>4, <1>5, SameIsoTp DEF IsoTpChain

(* A chain is intact.                                                      *)
LEMMA IsoTpChainIntact ==
  ASSUME NEW t, IsoTpChain(t)
  PROVE  IsoTp!Intact(t)
<1>1. PICK s : IsoTpP!IsChain(t, s)
  BY DEF IsoTpChain
<1>2. IsoTpP!Intact(t)
  BY <1>1, IsoTpConstants, IsoTpP!ChainIntact
<1> QED
  BY <1>2, SameIsoTp

(* The first ISO-TP connection looked for is found.                        *)
LEMMA IsoTpFirstOfIs ==
  ASSUME NEW t, IsoTpChain(t), NEW matching \in SUBSET t.used
  PROVE  /\ IsoTp!FirstOf(t, matching) = NULL => matching = {}
         /\ IsoTp!FirstOf(t, matching) # NULL => IsoTp!FirstOf(t, matching) \in matching
<1>1. PICK s : IsoTpP!IsChain(t, s)
  BY DEF IsoTpChain
<1>2. /\ IsoTpP!FirstOf(t, matching) = IsoTpP!NULL => matching = {}
      /\ IsoTpP!FirstOf(t, matching) # IsoTpP!NULL
           => IsoTpP!FirstOf(t, matching) \in matching
  BY <1>1, IsoTpConstants, IsoTpP!FirstOfIs
<1> QED
  BY <1>2, SameIsoTp
-----------------------------------------------------------------------------
(* What a frame that a connection eats makes of the list of raw connections.*)
LEMMA RawFields ==
  ASSUME NEW t, RawChain(t)
  PROVE  t.used \subseteq Raw!Pcb /\ NULL \notin Raw!Pcb
<1>1. t \in RawP!Table
  BY SameRaw DEF RawChain
<1>2. t.used \subseteq RawP!Pcb
  BY <1>1, RawP!TableFields
<1>3. NULL \notin Raw!Pcb
  BY DEF Raw!Pcb, NULL
<1> QED
  BY <1>2, <1>3, SameRaw

(* The connections of its list are connections.                            *)
LEMMA IsoTpFields ==
  ASSUME NEW t, IsoTpChain(t)
  PROVE  t.used \subseteq IsoTp!Pcb
<1>1. t \in IsoTpP!Table
  BY SameIsoTp DEF IsoTpChain
<1> QED
  BY <1>1, SameIsoTp, IsoTpP!TableFields

(* What canraw_input does when its callback ate a frame is the move of     *)
(* PcbTableProofs.                                                         *)
LEMMA FrontIs ==
  ASSUME NEW t, NEW q, NEW p, q # NULL
  PROVE  MovedToFront(t, q, p) = RawP!Moved(t, q, p)
BY DEF MovedToFront, RawP!Moved

(* It keeps a chain if the callback removed neither connection.            *)
LEMMA FrontChain ==
  ASSUME NEW t, RawChain(t), NEW q, q # NULL, NEW p, RawP!Adjacent(t, q, p)
  PROVE  RawChain(MovedToFront(t, q, p))
<1>1. /\ t \in RawP!Table /\ CANRAW_MAX_PCB_NUM \in Nat
  BY SameRaw, RawConstants DEF RawChain
<1>2. PICK s : RawP!IsChain(t, s)
  BY DEF RawChain
<1>3. \E r : RawP!IsChain(RawP!Moved(t, q, p), r)
  BY <1>1, <1>2, RawP!MovedChain
<1>4. p \in RawP!Pcb /\ q \in RawP!Pcb
  BY <1>1, RawP!TableFields DEF RawP!Adjacent
<1>5. RawP!Moved(t, q, p) \in RawP!Table
  BY <1>1, <1>4, RawP!MovedFields
<1> QED
  BY <1>3, <1>5, FrontIs, SameRaw DEF RawChain

(* It breaks the list if the callback removed either.                      *)
LEMMA FrontBroken ==
  ASSUME PoolsFit, NEW t, RawChain(t), NEW q, q # NULL, NEW p,
         RawP!Adjacent(t, q, p), NEW m \in {p, q}
  PROVE  LET broken == MovedToFront(Raw!Removed(t, m), q, p)
         IN  broken \in Raw!Table /\ ~Raw!Intact(broken)
<1>1. /\ t \in RawP!Table /\ RawP!PoolFits /\ CANRAW_MAX_PCB_NUM \in Nat
      /\ RawChunkSize \in Nat \ {0}
  BY SameRaw, RawConstants DEF RawChain, PoolsFit
<1>2. PICK s : RawP!IsChain(t, s)
  BY DEF RawChain
<1>3. p \in RawP!Pcb /\ q \in RawP!Pcb /\ m \in t.used
  BY <1>1, RawP!TableFields DEF RawP!Adjacent
<1>4. RawP!Removed(t, m) \in RawP!Table
  BY <1>3, RawRemovedChain, SameRaw DEF RawChain
<1>5. RawP!Moved(RawP!Removed(t, m), q, p) \in RawP!Table
  BY <1>3, <1>4, RawP!MovedFields
<1>6. ~RawP!Intact(RawP!Moved(RawP!Removed(t, m), q, p))
  <2>1. CASE m = p
    <3>1. ~RawP!Intact(RawP!Moved(RawP!Removed(t, p), q, p))
      BY <1>1, <1>2, RawP!BrokenByOwn
    <3> QED
      BY <2>1, <3>1
  <2>2. CASE m = q
    <3>1. ~RawP!Intact(RawP!Moved(RawP!Removed(t, q), q, p))
      BY <1>1, <1>2, RawP!BrokenByPrevious
    <3> QED
      BY <2>2, <3>1
  <2> QED
    BY <2>1, <2>2
<1>7. MovedToFront(Raw!Removed(t, m), q, p)
        = RawP!Moved(RawP!Removed(t, m), q, p)
  BY FrontIs, SameRaw
<1> QED
  BY <1>5, <1>6, <1>7, SameRaw

(* What the callback leaves.                                               *)
LEMMA CallbackTable ==
  ASSUME PoolsFit, RawChain(raw), NEW after \in AfterCallback
  PROVE  RawChain(after.table)
<1>1. CASE after = [table |-> raw, removed |-> {}]
  BY <1>1
<1>2. CASE Raw!CanAdd(raw) /\ after = [table |-> Raw!Added(raw), removed |-> {}]
  BY <1>2, RawAddedChain
<1>3. ASSUME NEW m \in raw.used \ {waiting},
             after = [table |-> Raw!Removed(raw, m), removed |-> {m}]
      PROVE  RawChain(after.table)
  BY <1>3, RawRemovedChain
<1> QED
  BY <1>1, <1>2, <1>3 DEF AfterCallback

(* Two connections the callback removed neither of still follow each       *)
(* other.                                                                  *)
LEMMA CallbackAdjacent ==
  ASSUME PoolsFit, RawChain(raw), NEW after \in AfterCallback, NEW q, NEW p,
         RawP!Adjacent(raw, q, p), after.removed \cap {p, q} = {}
  PROVE  RawP!Adjacent(after.table, q, p)
<1>1. /\ raw \in RawP!Table /\ RawP!PoolFits /\ CANRAW_MAX_PCB_NUM \in Nat
      /\ RawChunkSize \in Nat \ {0}
  BY SameRaw, RawConstants DEF RawChain, PoolsFit
<1>2. PICK s : RawP!IsChain(raw, s)
  BY DEF RawChain
<1>3. CASE after = [table |-> raw, removed |-> {}]
  BY <1>3
<1>4. CASE Raw!CanAdd(raw) /\ after = [table |-> Raw!Added(raw), removed |-> {}]
  <2>1. RawP!Adjacent(RawP!Added(raw), q, p)
    BY <1>1, <1>4, SameRaw, RawP!AddedAdjacent
  <2> QED
    BY <1>4, <2>1, SameRaw
<1>5. ASSUME NEW m \in raw.used \ {waiting},
             after = [table |-> Raw!Removed(raw, m), removed |-> {m}]
      PROVE  RawP!Adjacent(after.table, q, p)
  <2>1. m # p /\ m # q /\ m \in raw.used
    BY <1>5
  <2>2. RawP!Adjacent(RawP!Removed(raw, m), q, p)
    BY <1>1, <1>2, <2>1, RawP!RemovedAdjacent
  <2> QED
    BY <1>5, <2>2, SameRaw
<1> QED
  BY <1>3, <1>4, <1>5 DEF AfterCallback

(* A callback removes at most one connection.                              *)
LEMMA CallbackRemoved ==
  ASSUME NEW after \in AfterCallback, NEW x \in after.removed
  PROVE  after.table = Raw!Removed(raw, x)
BY DEF AfterCallback

(* The lists are chains, or broken in the one way that is documented as a  *)
(* misuse.                                                                 *)
TablesInv ==
  /\ IsoTpChain(isotp)
  /\ raw \in Raw!Table
  /\ IF misuse = "callback" THEN ~Raw!Intact(raw) ELSE RawChain(raw)

(* A frame that is eaten keeps TablesInv, though the callback changes the  *)
(* list under canraw_input.                                                *)
LEMMA EatenKeeps ==
  ASSUME PoolsFit, RouteInv, TablesInv, misuse = "none",
         NEW canif \in Interface, canraw_input_eaten(canif)
  PROVE  TablesInv'
<1> DEFINE p == RawReceiver(canif)
           q == Raw!Previous(raw, p)
<1>1. RawChain(raw) /\ IsoTpChain(isotp) /\ isotp' = isotp
  BY DEF TablesInv, canraw_input_eaten
<1>2. PICK after \in AfterCallback :
        /\ raw' = MovedToFront(after.table, q, p)
        /\ misuse' = IF q # NULL /\ after.removed \cap {p, q} # {}
                     THEN "callback" ELSE misuse
  BY DEF canraw_input_eaten
<1>3. p # NULL
  BY DEF canraw_input_eaten
<1> DEFINE matching == {x \in raw.used : raw_index[x] = canif_get_index(canif)}
<1>4. p \in raw.used
  <2>1. Raw!FirstOf(raw, matching) # NULL => Raw!FirstOf(raw, matching) \in matching
    BY <1>1, RawFirstOfIs
  <2> QED
    BY <1>3, <2>1 DEF RawReceiver
<1> HIDE DEF p, q
<1>5. RawChain(after.table)
  BY <1>1, CallbackTable
<1>6. CASE q = NULL
  <2>1. raw' = after.table /\ misuse' = misuse
    BY <1>2, <1>6 DEF MovedToFront
  <2> QED
    BY <1>1, <1>5, <2>1 DEF TablesInv, RawChain
<1>7. CASE q # NULL
  <2>1. RawP!Adjacent(raw, q, p)
    <3>1. PICK s : RawP!IsChain(raw, s)
      BY <1>1 DEF RawChain
    <3>2. q = RawP!Previous(raw, p) /\ RawP!Previous(raw, p) # RawP!NULL
      BY <1>7, SameRaw DEF q
    <3> QED
      BY <1>4, <3>1, <3>2, RawConstants, RawP!PreviousAdjacent
  <2>2. CASE after.removed \cap {p, q} = {}
    <3>1. RawP!Adjacent(after.table, q, p)
      BY <1>1, <2>1, <2>2, CallbackAdjacent
    <3>2. RawChain(raw')
      BY <1>2, <1>5, <1>7, <3>1, FrontChain
    <3>3. misuse' = misuse
      BY <1>2, <2>2
    <3> QED
      BY <1>1, <3>2, <3>3 DEF TablesInv, RawChain
  <2>3. CASE after.removed \cap {p, q} # {}
    <3>1. PICK m \in {p, q} : m \in after.removed
      BY <2>3
    <3>2. after.table = Raw!Removed(raw, m)
      BY <3>1, CallbackRemoved
    <3>3. raw' \in Raw!Table /\ ~Raw!Intact(raw')
      BY <1>1, <1>2, <1>7, <2>1, <3>2, FrontBroken
    <3>4. misuse' = "callback"
      BY <1>2, <1>7, <2>3
    <3> QED
      BY <1>1, <3>3, <3>4 DEF TablesInv
  <2> QED
    BY <2>2, <2>3
<1> QED
  BY <1>6, <1>7

(* Every step keeps TablesInv.                                             *)
LEMMA TablesInductive ==
  ASSUME PoolsFit
  PROVE  RouteInv /\ TablesInv /\ [Next]_vars => TablesInv'
<1> SUFFICES ASSUME RouteInv, TablesInv, [Next]_vars PROVE TablesInv'
  OBVIOUS
<1>1. ASSUME misuse = "none" PROVE RawChain(raw) /\ IsoTpChain(isotp)
  BY <1>1 DEF TablesInv
<1>2. ASSUME UNCHANGED <<raw, isotp, misuse>> PROVE TablesInv'
  BY <1>2 DEF TablesInv
<1>3. CASE UNCHANGED vars
  BY <1>2, <1>3 DEF vars, connections
<1>4. CASE misuse = "none" /\ Application
  <2>1. CASE \E c \in Interface : AddInterface(c) \/ RemoveInterface(c)
    BY <1>2, <2>1 DEF AddInterface, RemoveInterface, connections
  <2>2. CASE \E c \in Interface : AddAgain(c)
    <3>1. UNCHANGED <<raw, isotp>> /\ misuse' # "callback"
      BY <1>4, <2>2 DEF AddAgain, connections
    <3> QED
      BY <1>1, <1>4, <3>1 DEF TablesInv, RawChain
  <2>3. CASE canraw_new
    <3>1. RawChain(raw') /\ UNCHANGED <<isotp, misuse>>
      BY <1>1, <1>4, <2>3, RawAddedChain DEF canraw_new
    <3> QED
      BY <1>1, <1>4, <3>1 DEF TablesInv, RawChain
  <2>4. CASE isotp_new
    <3>1. IsoTpChain(isotp') /\ UNCHANGED <<raw, misuse>>
      BY <1>1, <1>4, <2>4, IsoTpAddedChain DEF isotp_new
    <3> QED
      BY <1>1, <1>4, <3>1 DEF TablesInv, RawChain
  <2>5. CASE \E p \in Raw!Pcb, c \in Interface : canraw_bind(p, c)
    BY <1>2, <2>5 DEF canraw_bind
  <2>6. CASE \E p \in Raw!Pcb : canraw_remove(p)
    <3>1. RawChain(raw') /\ UNCHANGED <<isotp, misuse>>
      BY <1>1, <1>4, <2>6, RawRemovedChain DEF canraw_remove
    <3> QED
      BY <1>1, <1>4, <3>1 DEF TablesInv, RawChain
  <2>7. CASE \E p \in IsoTp!Pcb, c \in Interface, id \in CanId : isotp_bind(p, c, id)
    BY <1>2, <2>7 DEF isotp_bind
  <2>8. CASE \E p \in IsoTp!Pcb : isotp_remove(p)
    <3>1. IsoTpChain(isotp') /\ UNCHANGED <<raw, misuse>>
      BY <1>1, <1>4, <2>8, IsoTpRemovedChain DEF isotp_remove
    <3> QED
      BY <1>1, <1>4, <3>1 DEF TablesInv, RawChain
  <2>9. CASE \E p \in Raw!Pcb : canraw_send(p)
    BY <1>2, <2>9 DEF canraw_send, connections
  <2> QED
    BY <1>4, <2>1, <2>2, <2>3, <2>4, <2>5, <2>6, <2>7, <2>8, <2>9
       DEF Application
<1>5. CASE misuse = "none" /\ \E c \in Interface : canraw_input_none(c)
  <2>1. PICK after \in AfterCallback : raw' = after.table
    BY <1>5 DEF canraw_input_none
  <2>2. RawChain(raw') /\ UNCHANGED <<isotp, misuse>>
    BY <1>1, <1>5, <2>1, CallbackTable DEF canraw_input_none
  <2> QED
    BY <1>1, <1>5, <2>2 DEF TablesInv, RawChain
<1>6. CASE misuse = "none" /\ \E c \in Interface : canraw_input_eaten(c)
  BY <1>6, EatenKeeps
<1>7. CASE raw_sent \/ canraw_send_returns
  BY <1>2, <1>7 DEF raw_sent, canraw_send_returns, connections
<1> QED
  BY <1>3, <1>4, <1>5, <1>6, <1>7 DEF Next, Step, Driver, Misused

(* TablesInv always holds.                                                 *)
LEMMA TablesInvariance ==
  ASSUME PoolsFit
  PROVE  Spec => [](RouteInv /\ TablesInv)
<1>1. Init => RouteInv /\ TablesInv
  <2> SUFFICES ASSUME Init PROVE TablesInv
    BY RouteInitially
  <2>1. RawChain(raw) /\ IsoTpChain(isotp) /\ misuse # "callback"
    BY RawEmpty, IsoTpEmpty DEF Init
  <2> QED
    BY <2>1 DEF TablesInv, RawChain
<1>2. RouteInv /\ TablesInv /\ [Next]_vars => (RouteInv /\ TablesInv)'
  BY RouteInductive, TablesInductive
<1> QED
  BY <1>1, <1>2, PTL DEF Spec

(* The variables keep their types, as long as the rules of use are kept.   *)
THEOREM TypeCorrect ==
  ASSUME PoolsFit
  PROVE  Spec => []TypeOK
<1>1. RouteInv /\ TablesInv => TypeOK
  BY DEF RouteInv, TablesInv, ListOK, Bindings, BindingTypes, SendOK, TypeOK,
         IsoTpChain
<1> QED
  BY <1>1, TablesInvariance, PTL

(* The lists of connections end and hold exactly the chunks in use, unless *)
(* a callback removed the connection that ate the frame or the one before  *)
(* it.                                                                     *)
THEOREM ListsStayIntact ==
  ASSUME PoolsFit
  PROVE  Spec => []ListsIntact
<1>1. TablesInv => ListsIntact
  BY RawChainIntact, IsoTpChainIntact DEF TablesInv, ListsIntact
<1> QED
  BY <1>1, TablesInvariance, PTL

(* A frame goes to the connection of the interface it came in on that is   *)
(* bound to it, whatever interfaces were removed and added before.         *)
THEOREM FramesGoRight ==
  ASSUME PoolsFit
  PROVE  Spec => []FramesRouted
<1>1. RouteInv /\ TablesInv => FramesRouted
  <2> SUFFICES ASSUME RouteInv, TablesInv, misuse = "none", NEW c \in Listed
               PROVE  /\ LET p == RawReceiver(c) IN
                           IF p = NULL THEN \A q \in raw.used : bound.raw[q] # c
                           ELSE p \in raw.used /\ bound.raw[p] \in {c, None}
                      /\ \A id \in CanId :
                           LET p == isotp_input(c, id) IN
                           IF p = NULL
                           THEN \A q \in isotp.used :
                                  ~(bound.isotp[q] = c /\ isotp_rx[q] = id)
                           ELSE /\ p \in isotp.used /\ isotp_rx[p] = id
                                /\ bound.isotp[p] \in {c, None}
    BY DEF FramesRouted
  <2>1. /\ canif_list \in Seq(Numbered) /\ Distinct(canif_list)
        /\ RawReach /\ IsoTpReach /\ RawChain(raw) /\ IsoTpChain(isotp)
    BY DEF RouteInv, ListOK, Bindings, TablesInv
  <2>2. raw.used \subseteq Raw!Pcb /\ isotp.used \subseteq IsoTp!Pcb
    BY <2>1, RawFields, IsoTpFields
  <2>3. c # None
    <3>1. Position(c) \in 1..Len(canif_list) /\ canif_list[Position(c)].canif = c
      BY <2>1, AtPosition
    <3> QED
      BY <2>1, <3>1, Entries
  <2>4. ASSUME NEW p \in raw.used, bound.raw[p] # None
        PROVE  raw_index[p] = canif_get_index(c) <=> bound.raw[p] = c
    <3>1. Reaches(canif_list, raw_index[p], bound.raw[p])
      BY <2>1, <2>2, <2>4 DEF RawReach
    <3> QED
      BY <2>1, <3>1, ReachedIs
  <2>5. ASSUME NEW p \in isotp.used, bound.isotp[p] # None
        PROVE  isotp_index[p] = canif_get_index(c) <=> bound.isotp[p] = c
    <3>1. Reaches(canif_list, isotp_index[p], bound.isotp[p])
      BY <2>1, <2>2, <2>5 DEF IsoTpReach
    <3> QED
      BY <2>1, <3>1, ReachedIs
  <2>6. IF RawReceiver(c) = NULL THEN \A q \in raw.used : bound.raw[q] # c
        ELSE /\ RawReceiver(c) \in raw.used
             /\ bound.raw[RawReceiver(c)] \in {c, None}
    <3> DEFINE matching == {p \in raw.used : raw_index[p] = canif_get_index(c)}
    <3>1. /\ RawReceiver(c) = NULL => matching = {}
          /\ RawReceiver(c) # NULL => RawReceiver(c) \in matching
      BY <2>1, RawFirstOfIs DEF RawReceiver
    <3>2. CASE RawReceiver(c) = NULL
      <4>1. \A q \in raw.used : raw_index[q] # canif_get_index(c)
        BY <3>1, <3>2
      <4> QED
        BY <2>3, <2>4, <3>2, <4>1
    <3>3. CASE RawReceiver(c) # NULL
      <4>1. /\ RawReceiver(c) \in raw.used
            /\ raw_index[RawReceiver(c)] = canif_get_index(c)
        BY <3>1, <3>3
      <4> QED
        BY <2>4, <3>3, <4>1
    <3> QED
      BY <3>2, <3>3
  <2>7. ASSUME NEW id \in CanId
        PROVE  IF isotp_input(c, id) = NULL
               THEN \A q \in isotp.used :
                      ~(bound.isotp[q] = c /\ isotp_rx[q] = id)
               ELSE /\ isotp_input(c, id) \in isotp.used
                    /\ isotp_rx[isotp_input(c, id)] = id
                    /\ bound.isotp[isotp_input(c, id)] \in {c, None}
    <3> DEFINE r == isotp_input(c, id)
               matching == {p \in isotp.used : /\ isotp_index[p] = canif_get_index(c)
                                              /\ isotp_rx[p] = id}
    <3>1. /\ r = NULL => matching = {}
          /\ r # NULL => r \in matching
      BY <2>1, IsoTpFirstOfIs DEF isotp_input
    <3> HIDE DEF r
    <3>2. CASE r = NULL
      <4>1. \A q \in isotp.used :
              ~(isotp_index[q] = canif_get_index(c) /\ isotp_rx[q] = id)
        BY <3>1, <3>2
      <4> QED
        BY <2>3, <2>5, <3>2, <4>1 DEF r
    <3>3. CASE r # NULL
      <4>1. /\ r \in isotp.used
            /\ isotp_index[r] = canif_get_index(c) /\ isotp_rx[r] = id
        BY <3>1, <3>3
      <4> QED
        BY <2>5, <3>3, <4>1 DEF r
    <3> QED
      BY <3>2, <3>3 DEF r
  <2> QED
    BY <2>6, <2>7, Zenon
<1> QED
  BY <1>1, TablesInvariance, PTL
-----------------------------------------------------------------------------
(* Whatever has become of the pools, connections stay chunks of theirs.     *)
Shapes == raw \in RawP!Shaped /\ isotp \in IsoTpP!Shaped

(* Every step keeps the shapes.                                            *)
LEMMA ShapesInductive == Shapes /\ [Next]_vars => Shapes'
<1> SUFFICES ASSUME Shapes, [Next]_vars PROVE Shapes'
  OBVIOUS
<1>1. raw \in RawP!Shaped /\ isotp \in IsoTpP!Shaped
      /\ raw.used \subseteq RawP!Pcb /\ isotp.used \subseteq IsoTpP!Pcb
  BY RawP!ShapedFields, IsoTpP!ShapedFields DEF Shapes
<1>2. ASSUME UNCHANGED <<raw, isotp>> PROVE Shapes'
  BY <1>2 DEF Shapes
<1>3. ASSUME Raw!CanAdd(raw) PROVE Raw!Added(raw) \in RawP!Shaped
  BY <1>1, <1>3, SameRaw, RawConstants, RawP!AddedShaped
<1>4. ASSUME NEW p \in raw.used PROVE Raw!Removed(raw, p) \in RawP!Shaped
  BY <1>1, SameRaw, RawP!RemovedShaped
<1>5. ASSUME IsoTp!CanAdd(isotp) PROVE IsoTp!Added(isotp) \in IsoTpP!Shaped
  BY <1>1, <1>5, SameIsoTp, IsoTpConstants, IsoTpP!AddedShaped
<1>6. ASSUME NEW p \in isotp.used PROVE IsoTp!Removed(isotp, p) \in IsoTpP!Shaped
  BY <1>1, SameIsoTp, IsoTpP!RemovedShaped
<1>7. ASSUME NEW after \in AfterCallback PROVE after.table \in RawP!Shaped
  <2>1. CASE after = [table |-> raw, removed |-> {}]
    BY <1>1, <2>1
  <2>2. CASE Raw!CanAdd(raw) /\ after = [table |-> Raw!Added(raw), removed |-> {}]
    BY <1>3, <2>2
  <2>3. ASSUME NEW m \in raw.used \ {waiting},
               after = [table |-> Raw!Removed(raw, m), removed |-> {m}]
        PROVE  after.table \in RawP!Shaped
    BY <1>4, <2>3
  <2> QED
    BY <2>1, <2>2, <2>3 DEF AfterCallback
<1>8. CASE Application
  <2>1. CASE canraw_new
    BY <1>1, <1>3, <2>1 DEF canraw_new, Shapes
  <2>2. CASE isotp_new
    BY <1>1, <1>5, <2>2 DEF isotp_new, Shapes
  <2>3. CASE \E p \in Raw!Pcb : canraw_remove(p)
    BY <1>1, <1>4, <2>3 DEF canraw_remove, Shapes
  <2>4. CASE \E p \in IsoTp!Pcb : isotp_remove(p)
    BY <1>1, <1>6, <2>4 DEF isotp_remove, Shapes
  <2>5. CASE UNCHANGED <<raw, isotp>>
    BY <1>2, <2>5
  <2> QED
    BY <1>8, <2>1, <2>2, <2>3, <2>4, <2>5
       DEF Application, AddInterface, AddAgain, RemoveInterface, canraw_bind,
           isotp_bind, canraw_send, connections
<1>9. CASE \E c \in Interface : canraw_input_none(c)
  BY <1>1, <1>7, <1>9 DEF canraw_input_none, Shapes
<1>10. CASE \E c \in Interface : canraw_input_eaten(c)
  <2>1. PICK c \in Interface : canraw_input_eaten(c)
    BY <1>10
  <2> DEFINE p == RawReceiver(c)
             q == Raw!Previous(raw, p)
  <2>2. PICK after \in AfterCallback : raw' = MovedToFront(after.table, q, p)
    BY <2>1 DEF canraw_input_eaten
  <2>3. p # NULL /\ isotp' = isotp
    BY <2>1 DEF canraw_input_eaten
  <2>4. p \in raw.used
    <3> DEFINE matching == {x \in raw.used : raw_index[x] = canif_get_index(c)}
    <3>1. p = RawP!FirstOf(raw, matching) /\ p # RawP!NULL
      BY <2>3, SameRaw DEF RawReceiver
    <3>2. RawP!FirstOf(raw, matching) \in matching
      BY <3>1, RawP!FirstOfMatches
    <3> QED
      BY <3>1, <3>2
  <2> HIDE DEF p, q
  <2>5. CASE q = NULL
    BY <1>7, <2>2, <2>3, <2>5 DEF MovedToFront, Shapes
  <2>6. CASE q # NULL
    <3>1. RawP!Moved(after.table, q, p) \in RawP!Shaped
      BY <1>1, <1>7, <2>4, RawP!MovedShaped
    <3> QED
      BY <1>1, <2>2, <2>3, <2>6, <3>1, FrontIs DEF Shapes
  <2> QED
    BY <2>5, <2>6
<1>11. CASE UNCHANGED vars \/ raw_sent \/ canraw_send_returns
  BY <1>2, <1>11 DEF vars, raw_sent, canraw_send_returns, connections
<1> QED
  BY <1>8, <1>9, <1>10, <1>11 DEF Next, Step, Driver, Misused

(* A bound connection reaches its interface by its index. This holds of    *)
(* broken lists too, and of pools whose offsets do not fit.                *)
THEOREM BoundIsReached == Spec => []BoundReached
<1>1. Init => Shapes
  BY RawConstants, IsoTpConstants
     DEF Init, Shapes, RawP!Shaped, IsoTpP!Shaped, Raw!EmptyTable, IsoTp!EmptyTable,
         Raw!Pcb, RawP!Pcb, Raw!NULL, RawP!NULL,
         IsoTp!Pcb, IsoTpP!Pcb, IsoTp!NULL, IsoTpP!NULL
<1>2. Shapes /\ [Next]_vars => Shapes'
  BY ShapesInductive
<1>3. RouteInv /\ Shapes => BoundReached
  <2> SUFFICES ASSUME RouteInv, Shapes PROVE BoundReached
    OBVIOUS
  <2>1. raw.used \subseteq Raw!Pcb /\ isotp.used \subseteq IsoTp!Pcb
    BY SameRaw, SameIsoTp, RawP!ShapedFields, IsoTpP!ShapedFields DEF Shapes
  <2>2. canif_list \in Seq(Numbered) /\ RawReach /\ IsoTpReach
    BY DEF RouteInv, ListOK, Bindings
  <2>3. ASSUME NEW p \in raw.used, bound.raw[p] # None
        PROVE  canif_get_by_index(raw_index[p]) = bound.raw[p]
    BY <2>1, <2>2, <2>3, FoundByIndex DEF RawReach
  <2>4. ASSUME NEW p \in isotp.used, bound.isotp[p] # None
        PROVE  canif_get_by_index(isotp_index[p]) = bound.isotp[p]
    BY <2>1, <2>2, <2>4, FoundByIndex DEF IsoTpReach
  <2> QED
    BY <2>3, <2>4 DEF BoundReached
<1> QED
  BY <1>1, <1>2, <1>3, RouteInvariance, PTL DEF Spec
=============================================================================
