--------------------------- MODULE PcbTableProofs ---------------------------
(***************************************************************************)
(* Lemmas about the table of connections, as it is used by raw.c and       *)
(* isotp.c. The list is described by the sequence of its connections, its  *)
(* chain; each operation of the table is shown to do to the chain what it  *)
(* should. The sets a walk of the list visits are found by induction over  *)
(* its steps.                                                              *)
(***************************************************************************)
EXTENDS PcbTable, Lemmas, FiniteSetTheorems

(* The list of t is s: it starts at the first of s, leads from each to the *)
(* one behind it, and ends.                                                *)
IsList(t, s) ==
  /\ s \in Seq(Pcb)
  /\ \A i, j \in 1..Len(s) : s[i] = s[j] => i = j
  /\ t.list = IF Len(s) = 0 THEN NULL ELSE s[1]
  /\ \A i \in 1..Len(s) : t.next[s[i]] = IF i = Len(s) THEN NULL ELSE s[i + 1]

(* It holds the chunks that are marked as used, and their number is kept.  *)
IsChain(t, s) ==
  /\ IsList(t, s)
  /\ t.used = {s[i] : i \in 1..Len(s)}
  /\ t.num = Len(s)

(* The offset of every chunk fits the uint8_t it is kept in.               *)
PoolFits == \A p \in Pcb : p * ChunkSize < 256

(* The parts of IsList, with the types of the elements.                    *)
LEMMA ListIs ==
  ASSUME NEW t, NEW s, IsList(t, s)
  PROVE  /\ s \in Seq(Pcb) /\ Len(s) \in Nat
         /\ \A i \in 1..Len(s) : s[i] \in Pcb /\ s[i] # NULL
         /\ \A i, j \in 1..Len(s) : s[i] = s[j] => i = j
         /\ t.list = IF Len(s) = 0 THEN NULL ELSE s[1]
         /\ \A i \in 1..Len(s) :
              t.next[s[i]] = IF i = Len(s) THEN NULL ELSE s[i + 1]
<1>1. \A p \in Pcb : p # NULL
  BY DEF Pcb, NULL
<1> QED
  BY <1>1 DEF IsList

(* The parts of IsChain, with the types of the elements.                   *)
LEMMA ChainIs ==
  ASSUME NEW t, NEW s, IsChain(t, s)
  PROVE  /\ s \in Seq(Pcb) /\ Len(s) \in Nat
         /\ \A i \in 1..Len(s) : s[i] \in Pcb /\ s[i] # NULL
         /\ \A i, j \in 1..Len(s) : s[i] = s[j] => i = j
         /\ t.list = IF Len(s) = 0 THEN NULL ELSE s[1]
         /\ \A i \in 1..Len(s) :
              t.next[s[i]] = IF i = Len(s) THEN NULL ELSE s[i + 1]
         /\ t.used = {s[i] : i \in 1..Len(s)}
         /\ t.num = Len(s)
<1>1. IsList(t, s) /\ t.used = {s[i] : i \in 1..Len(s)} /\ t.num = Len(s)
  BY DEF IsChain
<1> QED
  BY <1>1, ListIs

(* A list that repeats no connection is no longer than the pool.           *)
LEMMA ListShort ==
  ASSUME MaxPcbNum \in Nat, NEW s \in Seq(Pcb),
         \A i, j \in 1..Len(s) : s[i] = s[j] => i = j
  PROVE  /\ Len(s) <= MaxPcbNum
         /\ Cardinality({s[i] : i \in 1..Len(s)}) = Len(s)
<1> DEFINE f == [i \in 1..Len(s) |-> s[i]]
           used == {s[i] : i \in 1..Len(s)}
<1>1. Len(s) \in Nat /\ \A i \in 1..Len(s) : s[i] \in Pcb
  OBVIOUS
<1>2. f \in Injection(1..Len(s), Pcb)
  <2>1. f \in [1..Len(s) -> Pcb]
    BY <1>1
  <2>2. \A i, j \in 1..Len(s) : f[i] = f[j] => i = j
    OBVIOUS
  <2> QED
    BY <2>1, <2>2 DEF Injection, IsInjective
<1>3. IsFiniteSet(Pcb) /\ Cardinality(Pcb) = MaxPcbNum
  <2>1. 0 \in Int /\ MaxPcbNum - 1 \in Int
    OBVIOUS
  <2>2. /\ IsFiniteSet(0..(MaxPcbNum - 1))
        /\ Cardinality(0..(MaxPcbNum - 1)) =
             IF 0 > MaxPcbNum - 1 THEN 0 ELSE (MaxPcbNum - 1) - 0 + 1
    BY <2>1, FS_Interval
  <2> QED
    BY <2>2 DEF Pcb
<1>4. Cardinality(1..Len(s)) <= Cardinality(Pcb)
  BY <1>2, <1>3, FS_Injection
<1>5. Cardinality(1..Len(s)) = Len(s)
  <2>1. Cardinality(1..Len(s)) = IF 1 > Len(s) THEN 0 ELSE Len(s) - 1 + 1
    BY <1>1, FS_Interval
  <2> QED
    BY <1>1, <2>1
<1>6. f \in Bijection(1..Len(s), used)
  <2>1. f \in [1..Len(s) -> used]
    OBVIOUS
  <2>2. \A i, j \in 1..Len(s) : f[i] = f[j] => i = j
    OBVIOUS
  <2>3. \A u \in used : \E i \in 1..Len(s) : f[i] = u
    OBVIOUS
  <2> QED
    BY <2>1, <2>2, <2>3 DEF Bijection, Injection, Surjection, IsInjective
<1>7. Cardinality(used) = Len(s)
  <2> HIDE DEF used, f
  <2> QED
    BY <1>1, <1>6, FS_CountingElements DEF ExistsBijection
<1> QED
  BY <1>3, <1>4, <1>5, <1>7
-----------------------------------------------------------------------------
(* The definition of a walk is met, for any table.                         *)
LEMMA WalkEquation ==
  ASSUME MaxPcbNum \in Nat, NEW t
  PROVE  Walk(t) = [i \in 0..MaxPcbNum |->
                      IF i = 0 THEN t.list
                      ELSE IF Walk(t)[i - 1] = NULL THEN NULL
                           ELSE t.next[Walk(t)[i - 1]]]
<1> DEFINE IsWalk(at, n) ==
             at = [i \in 0..n |->
                     IF i = 0 THEN t.list
                     ELSE IF at[i - 1] = NULL THEN NULL ELSE t.next[at[i - 1]]]
           S == {n \in Nat : \E at : IsWalk(at, n)}
<1>1. 0 \in S
  <2> DEFINE w == [i \in 0..0 |-> t.list]
  <2>1. IsWalk(w, 0)
    OBVIOUS
  <2> QED
    BY <2>1
<1>2. ASSUME NEW n \in Nat, n \in S PROVE n + 1 \in S
  <2>1. PICK at : IsWalk(at, n)
    BY <1>2
  <2> DEFINE last == IF at[n] = NULL THEN NULL ELSE t.next[at[n]]
             w == [i \in 0..(n + 1) |-> IF i <= n THEN at[i] ELSE last]
  <2>2. ASSUME NEW i \in 0..(n + 1)
        PROVE  w[i] = IF i = 0 THEN t.list
                      ELSE IF w[i - 1] = NULL THEN NULL ELSE t.next[w[i - 1]]
    <3>1. CASE i = 0
      BY <2>1, <3>1
    <3>2. CASE i \in 1..n
      <4>1. w[i] = at[i] /\ w[i - 1] = at[i - 1] /\ i # 0 /\ i \in 0..n
        BY <3>2
      <4>2. at[i] = IF at[i - 1] = NULL THEN NULL ELSE t.next[at[i - 1]]
        BY <2>1, <4>1
      <4> QED
        BY <4>1, <4>2
    <3>3. CASE i = n + 1
      <4>1. w[i] = last /\ w[i - 1] = at[n] /\ i # 0
        BY <3>3
      <4> QED
        BY <4>1
    <3> QED
      BY <3>1, <3>2, <3>3
  <2>3. IsWalk(w, n + 1)
    BY <2>2
  <2> HIDE DEF IsWalk, w
  <2>4. n + 1 \in Nat
    OBVIOUS
  <2> QED
    BY <2>3, <2>4
<1> HIDE DEF IsWalk
<1>3. \E at : IsWalk(at, MaxPcbNum)
  <2> HIDE DEF S
  <2>1. Nat \subseteq S
    BY <1>1, <1>2, NatSetInduction
  <2>2. MaxPcbNum \in S
    BY <2>1
  <2> QED
    BY <2>2 DEF S
<1>4. Walk(t) = CHOOSE at : IsWalk(at, MaxPcbNum)
  BY DEF Walk, IsWalk
<1>5. IsWalk(Walk(t), MaxPcbNum)
  BY <1>3, <1>4, Zenon
<1> QED
  BY <1>5 DEF IsWalk

(* The steps of a walk.                                                    *)
LEMMA WalkSteps ==
  ASSUME MaxPcbNum \in Nat, NEW t
  PROVE  /\ Walk(t)[0] = t.list
         /\ \A i \in 1..MaxPcbNum :
              Walk(t)[i] = IF Walk(t)[i - 1] = NULL THEN NULL
                           ELSE t.next[Walk(t)[i - 1]]
<1> DEFINE w == Walk(t)
<1>1. w = [i \in 0..MaxPcbNum |->
             IF i = 0 THEN t.list
             ELSE IF w[i - 1] = NULL THEN NULL ELSE t.next[w[i - 1]]]
  BY WalkEquation
<1> HIDE DEF w
<1>2. w[0] = t.list
  BY <1>1
<1>3. ASSUME NEW i \in 1..MaxPcbNum
      PROVE  w[i] = IF w[i - 1] = NULL THEN NULL ELSE t.next[w[i - 1]]
  <2>1. i \in 0..MaxPcbNum /\ i # 0
    OBVIOUS
  <2> QED
    BY <1>1, <2>1
<1> QED
  BY <1>2, <1>3 DEF w

(* A walk along a list meets its connections in turn, and then NULL.       *)
LEMMA WalkIs ==
  ASSUME MaxPcbNum \in Nat, NEW t, NEW s, IsList(t, s)
  PROVE  \A i \in 0..MaxPcbNum :
           Walk(t)[i] = IF i < Len(s) THEN s[i + 1] ELSE NULL
<1> DEFINE at(i) == IF i < Len(s) THEN s[i + 1] ELSE NULL
           S == {n \in Nat : n \in 0..MaxPcbNum => Walk(t)[n] = at(n)}
<1>1. /\ Len(s) \in Nat
      /\ \A i \in 1..Len(s) : s[i] # NULL
      /\ t.list = IF Len(s) = 0 THEN NULL ELSE s[1]
      /\ \A i \in 1..Len(s) : t.next[s[i]] = IF i = Len(s) THEN NULL ELSE s[i + 1]
  BY ListIs
<1>2. 0 \in S
  BY <1>1, WalkSteps
<1>3. ASSUME NEW n \in Nat, n \in S PROVE n + 1 \in S
  <2>1. CASE n + 1 \in 0..MaxPcbNum
    <3>1. Walk(t)[n] = at(n) /\ n + 1 \in 1..MaxPcbNum /\ (n + 1) - 1 = n
      BY <1>3, <2>1
    <3>2. Walk(t)[n + 1] = IF at(n) = NULL THEN NULL ELSE t.next[at(n)]
      BY <3>1, WalkSteps
    <3>3. CASE n < Len(s)
      <4>1. n + 1 \in 1..Len(s) /\ at(n) = s[n + 1]
        BY <1>1, <3>3
      <4>2. Walk(t)[n + 1] = t.next[s[n + 1]]
        BY <1>1, <3>2, <4>1
      <4> QED
        BY <1>1, <3>3, <4>1, <4>2
    <3>4. CASE n >= Len(s)
      BY <1>1, <3>2, <3>4
    <3> QED
      BY <1>1, <3>3, <3>4
  <2> QED
    BY <2>1
<1>4. Nat \subseteq S
  <2> HIDE DEF S
  <2> QED
    BY <1>2, <1>3, NatSetInduction
<1>5. \A i \in 0..MaxPcbNum : i \in S
  BY <1>4
<1> QED
  BY <1>5

(* The connections met are those of the list.                              *)
LEMMA LinkedIs ==
  ASSUME MaxPcbNum \in Nat, NEW t, NEW s, IsList(t, s)
  PROVE  Linked(t) = {s[i] : i \in 1..Len(s)}
<1> DEFINE used == {s[i] : i \in 1..Len(s)}
<1>1. /\ Len(s) \in Nat /\ Len(s) <= MaxPcbNum
      /\ \A i \in 1..Len(s) : s[i] # NULL
  BY ListIs, ListShort
<1>2. \A i \in 0..MaxPcbNum :
        Walk(t)[i] = IF i < Len(s) THEN s[i + 1] ELSE NULL
  BY WalkIs
<1>3. ASSUME NEW p \in Linked(t) PROVE p \in used
  <2>1. PICK i \in 0..MaxPcbNum : p = Walk(t)[i] /\ p # NULL
    BY DEF Linked
  <2>2. i + 1 \in 1..Len(s) /\ p = s[i + 1]
    BY <1>1, <1>2, <2>1
  <2> QED
    BY <2>2
<1>4. ASSUME NEW i \in 1..Len(s) PROVE s[i] \in Linked(t)
  <2>1. i - 1 \in 0..MaxPcbNum /\ i - 1 < Len(s) /\ (i - 1) + 1 = i
    BY <1>1
  <2>2. Walk(t)[i - 1] = s[i] /\ s[i] # NULL
    BY <1>1, <1>2, <2>1
  <2> QED
    BY <2>1, <2>2 DEF Linked
<1> QED
  BY <1>3, <1>4

(* There are as many chunks in use as the list is long, and they are those *)
(* met on it.                                                              *)
LEMMA ChainShort ==
  ASSUME MaxPcbNum \in Nat, NEW t, NEW s, IsChain(t, s)
  PROVE  /\ Len(s) <= MaxPcbNum
         /\ Cardinality(t.used) = Len(s)
         /\ Linked(t) = t.used
<1>1. /\ s \in Seq(Pcb) /\ \A i, j \in 1..Len(s) : s[i] = s[j] => i = j
      /\ t.used = {s[i] : i \in 1..Len(s)}
  BY ChainIs
<1>2. IsList(t, s)
  BY DEF IsChain
<1>3. Linked(t) = {s[i] : i \in 1..Len(s)}
  BY <1>2, LinkedIs
<1>4. Len(s) <= MaxPcbNum /\ Cardinality({s[i] : i \in 1..Len(s)}) = Len(s)
  BY <1>1, ListShort
<1> QED
  BY <1>1, <1>3, <1>4

(* A table with a chain is intact.                                         *)
LEMMA ChainIntact ==
  ASSUME MaxPcbNum \in Nat, NEW t, NEW s, IsChain(t, s)
  PROVE  Intact(t)
<1>1. /\ Len(s) \in Nat /\ t.used = {s[i] : i \in 1..Len(s)} /\ t.num = Len(s)
      /\ \A i \in 1..Len(s) : t.next[s[i]] = IF i = Len(s) THEN NULL ELSE s[i + 1]
  BY ChainIs
<1>2. ASSUME t.used # {} PROVE \E p \in t.used : t.next[p] = NULL
  <2>1. Len(s) \in 1..Len(s)
    BY <1>1, <1>2
  <2>2. s[Len(s)] \in t.used /\ t.next[s[Len(s)]] = NULL
    BY <1>1, <2>1
  <2> QED
    BY <2>2
<1>3. t.num = Cardinality(t.used) /\ Linked(t) = t.used
  BY <1>1, ChainShort
<1> QED
  BY <1>2, <1>3 DEF Intact

(* The table starts with the empty list.                                   *)
LEMMA EmptyChain == IsChain(EmptyTable, <<>>)
BY DEF IsChain, IsList, EmptyTable

-----------------------------------------------------------------------------
(* The chunk that is taken was free.                                       *)
LEMMA NewPcbIs ==
  ASSUME MaxPcbNum \in Nat, NEW t, CanAdd(t)
  PROVE  NewPcb(t) \in Pcb /\ NewPcb(t) \notin t.used
<1>1. Pcb \ t.used # {} /\ Pcb \ t.used \subseteq Nat
  BY DEF CanAdd, Pcb
<1>2. NewPcb(t) \in Pcb \ t.used
  BY <1>1, MinIsLeast DEF NewPcb
<1> QED
  BY <1>2

(* The fields of a table.                                                  *)
LEMMA TableFields ==
  ASSUME NEW t \in Table
  PROVE  /\ t = [list |-> t.list, next |-> t.next, used |-> t.used, num |-> t.num]
         /\ t.list \in Pcb \cup {NULL}
         /\ t.next \in [Pcb -> Pcb \cup {NULL}]
         /\ t.used \subseteq Pcb
         /\ t.num \in 0..MaxPcbNum
BY DEF Table

(* A table stays one when a connection is added.                           *)
LEMMA AddedInTable ==
  ASSUME MaxPcbNum \in Nat, NEW t \in Table, CanAdd(t)
  PROVE  Added(t) \in Table
<1> DEFINE p == NewPcb(t)
<1>1. p \in Pcb
  BY NewPcbIs
<1>2. /\ t.list \in Pcb \cup {NULL} /\ t.next \in [Pcb -> Pcb \cup {NULL}]
      /\ t.used \subseteq Pcb /\ t.num \in 0..MaxPcbNum
  BY TableFields
<1>3. t.num + 1 \in 0..MaxPcbNum
  BY <1>2 DEF CanAdd
<1> HIDE DEF p
<1>4. [list |-> p, next |-> [t.next EXCEPT ![p] = t.list],
       used |-> t.used \cup {p}, num |-> t.num + 1] \in Table
  BY <1>1, <1>2, <1>3 DEF Table
<1> QED
  BY <1>4 DEF Added, p

(* A new connection comes before those of the list.                        *)
LEMMA AddedChain ==
  ASSUME MaxPcbNum \in Nat, NEW t \in Table, CanAdd(t), NEW s, IsChain(t, s)
  PROVE  IsChain(Added(t), <<NewPcb(t)>> \o s)
<1> DEFINE p == NewPcb(t)
           r == <<p>> \o s
           u == Added(t)
<1>1. p \in Pcb /\ p \notin t.used
  BY NewPcbIs
<1>2. /\ s \in Seq(Pcb) /\ Len(s) \in Nat
      /\ \A i \in 1..Len(s) : s[i] \in Pcb
      /\ \A i, j \in 1..Len(s) : s[i] = s[j] => i = j
      /\ t.list = IF Len(s) = 0 THEN NULL ELSE s[1]
      /\ \A i \in 1..Len(s) :
           t.next[s[i]] = IF i = Len(s) THEN NULL ELSE s[i + 1]
      /\ t.used = {s[i] : i \in 1..Len(s)}
      /\ t.num = Len(s)
      /\ t.next \in [Pcb -> Pcb \cup {NULL}]
  BY ChainIs, TableFields
<1>3. /\ u.list = p /\ u.next = [t.next EXCEPT ![p] = t.list]
      /\ u.used = t.used \cup {p} /\ u.num = t.num + 1
  BY DEF Added
<1> HIDE DEF p, u
<1>4. /\ r \in Seq(Pcb) /\ Len(r) = Len(s) + 1
      /\ \A i \in 1..(Len(s) + 1) : r[i] = IF i = 1 THEN p ELSE s[i - 1]
  <2>1. <<p>> \in Seq(Pcb) /\ Len(<<p>>) = 1 /\ <<p>>[1] = p
    BY <1>1
  <2>2. /\ r \in Seq(Pcb) /\ Len(r) = 1 + Len(s)
        /\ \A i \in 1..(1 + Len(s)) :
             r[i] = IF i <= 1 THEN <<p>>[i] ELSE s[i - 1]
    BY <1>2, <2>1, ConcatIs
  <2> QED
    BY <1>2, <2>1, <2>2
<1> HIDE DEF r
<1>5. \A i \in 1..Len(s) : s[i] # p
  BY <1>1, <1>2
<1>6. ASSUME NEW i \in 1..Len(r), NEW j \in 1..Len(r), r[i] = r[j] PROVE i = j
  <2>1. /\ r[i] = IF i = 1 THEN p ELSE s[i - 1]
        /\ r[j] = IF j = 1 THEN p ELSE s[j - 1]
    BY <1>4
  <2>2. /\ i # 1 => i - 1 \in 1..Len(s)
        /\ j # 1 => j - 1 \in 1..Len(s)
    BY <1>2, <1>4
  <2>3. i = 1 <=> j = 1
    BY <1>5, <1>6, <2>1, <2>2
  <2>4. i # 1 => i - 1 = j - 1
    BY <1>2, <1>6, <2>1, <2>2, <2>3
  <2> QED
    BY <2>3, <2>4
<1>7. \A i \in 1..Len(r) : u.next[r[i]] = IF i = Len(r) THEN NULL ELSE r[i + 1]
  <2> SUFFICES ASSUME NEW i \in 1..Len(r)
               PROVE  u.next[r[i]] = IF i = Len(r) THEN NULL ELSE r[i + 1]
    OBVIOUS
  <2>1. CASE i = 1
    BY <1>1, <1>2, <1>3, <1>4, <2>1
  <2>2. CASE i > 1
    <3>1. i - 1 \in 1..Len(s) /\ r[i] = s[i - 1] /\ (i - 1) + 1 = i
      <4>1. i \in 1..(Len(s) + 1) /\ i # 1
        BY <1>4, <2>2
      <4>2. r[i] = s[i - 1]
        BY <1>4, <4>1
      <4> QED
        BY <1>2, <4>1, <4>2
    <3>2. u.next[r[i]] = t.next[s[i - 1]]
      BY <1>1, <1>2, <1>3, <1>5, <3>1
    <3>3. t.next[s[i - 1]] = IF i - 1 = Len(s) THEN NULL ELSE s[i]
      BY <1>2, <3>1
    <3> QED
      BY <1>2, <1>4, <2>2, <3>1, <3>2, <3>3
  <2> QED
    BY <1>2, <1>4, <2>1, <2>2
<1>8. u.used = {r[i] : i \in 1..Len(r)}
  <2>1. ASSUME NEW q \in u.used PROVE \E i \in 1..Len(r) : q = r[i]
    <3>1. CASE q = p
      <4>1. 1 \in 1..Len(r) /\ r[1] = p
        BY <1>2, <1>4
      <4> QED
        BY <3>1, <4>1
    <3>2. CASE q \in t.used
      <4>1. PICK i \in 1..Len(s) : q = s[i]
        BY <1>2, <3>2
      <4>2. i + 1 \in 1..Len(r) /\ r[i + 1] = q
        BY <1>2, <1>4, <4>1
      <4> QED
        BY <4>2
    <3> QED
      BY <1>3, <3>1, <3>2
  <2>2. ASSUME NEW i \in 1..Len(r) PROVE r[i] \in u.used
    BY <1>2, <1>3, <1>4
  <2> QED
    BY <2>1, <2>2
<1>9. Len(r) # 0 /\ u.list = r[1] /\ u.num = Len(r)
  <2>1. 1 \in 1..(Len(s) + 1)
    BY <1>2
  <2> QED
    BY <1>2, <1>3, <1>4, <2>1
<1>10. IsChain(u, r)
  BY <1>4, <1>6, <1>7, <1>8, <1>9 DEF IsChain, IsList
<1> QED
  BY <1>10 DEF p, r, u

(* The connection before one of the list.                                  *)
LEMMA PreviousIs ==
  ASSUME MaxPcbNum \in Nat, NEW t, NEW s, IsChain(t, s), NEW k \in 1..Len(s)
  PROVE  Previous(t, s[k]) = IF k = 1 THEN NULL ELSE s[k - 1]
<1>1. /\ s \in Seq(Pcb) /\ Len(s) \in Nat
      /\ \A i \in 1..Len(s) : s[i] \in Pcb /\ s[i] # NULL
      /\ \A i, j \in 1..Len(s) : s[i] = s[j] => i = j
      /\ t.list = IF Len(s) = 0 THEN NULL ELSE s[1]
      /\ \A i \in 1..Len(s) :
           t.next[s[i]] = IF i = Len(s) THEN NULL ELSE s[i + 1]
      /\ t.used = {s[i] : i \in 1..Len(s)}
      /\ Linked(t) = t.used
  BY ChainIs, ChainShort
<1>2. CASE k = 1
  <2>1. t.list = s[k]
    BY <1>1, <1>2
  <2> QED
    BY <1>2, <2>1 DEF Previous
<1>3. CASE k > 1
  <2>1. k - 1 \in 1..Len(s) /\ (k - 1) + 1 = k /\ 1 \in 1..Len(s) /\ k - 1 # Len(s)
    BY <1>1, <1>3
  <2>2. t.list # s[k]
    BY <1>1, <1>3, <2>1
  <2>3. s[k - 1] \in Linked(t) /\ t.next[s[k - 1]] = s[k]
    BY <1>1, <2>1
  <2>4. ASSUME NEW q \in Linked(t), t.next[q] = s[k] PROVE q = s[k - 1]
    <3>1. PICK i \in 1..Len(s) : q = s[i]
      BY <1>1
    <3>2. i # Len(s) /\ s[i + 1] = s[k]
      BY <1>1, <2>4, <3>1
    <3>3. i + 1 \in 1..Len(s)
      BY <1>1, <3>2
    <3>4. i + 1 = k
      BY <1>1, <3>2, <3>3
    <3> QED
      BY <3>1, <3>4
  <2>5. (CHOOSE q \in Linked(t) : t.next[q] = s[k]) = s[k - 1]
    BY <2>3, <2>4
  <2> QED
    BY <1>3, <2>2, <2>5 DEF Previous
<1> QED
  BY <1>1, <1>2, <1>3

(* The chunk given back is the one of the connection, when its offset      *)
(* fits.                                                                   *)
LEMMA FreedIs ==
  ASSUME MaxPcbNum \in Nat, ChunkSize \in Nat \ {0}, PoolFits, NEW t, NEW p \in Pcb
  PROVE  Freed(t, p) = t.used \ {p}
<1>1. p \in Nat /\ ChunkSize \in Nat /\ ChunkSize > 0 /\ p * ChunkSize < 256
  BY DEF PoolFits, Pcb
<1>2. (p * ChunkSize) % 256 = p * ChunkSize
  <2>1. p * ChunkSize \in Nat
    BY <1>1
  <2> QED
    BY <1>1, <2>1
<1>3. (p * ChunkSize) % ChunkSize = 0
  BY <1>1
<1>4. (p * ChunkSize) \div ChunkSize = p
  BY <1>1
<1> QED
  BY <1>2, <1>3, <1>4 DEF Freed

(* A table stays one when a connection is removed.                         *)
LEMMA RemovedInTable ==
  ASSUME MaxPcbNum \in Nat, NEW t \in Table, NEW p \in Pcb,
         p \in Linked(t) => t.num > 0
  PROVE  Removed(t, p) \in Table
<1>1. /\ t.list \in Pcb \cup {NULL} /\ t.next \in [Pcb -> Pcb \cup {NULL}]
      /\ t.used \subseteq Pcb /\ t.num \in 0..MaxPcbNum
      /\ t = [list |-> t.list, next |-> t.next, used |-> t.used, num |-> t.num]
  BY TableFields
<1>2. CASE p \notin Linked(t)
  BY <1>2 DEF Removed
<1>3. CASE p \in Linked(t)
  <2> DEFINE n == [q \in Pcb |-> IF q = Previous(t, p) THEN t.next[p] ELSE t.next[q]]
             l == IF t.list = p THEN t.next[p] ELSE t.list
             u == [list |-> l, next |-> n, used |-> Freed(t, p), num |-> t.num - 1]
  <2>1. Removed(t, p) = u
    BY <1>1, <1>3 DEF Removed
  <2>2. l \in Pcb \cup {NULL} /\ n \in [Pcb -> Pcb \cup {NULL}]
    BY <1>1
  <2>3. Freed(t, p) \subseteq Pcb
    BY <1>1 DEF Freed
  <2>4. t.num - 1 \in 0..MaxPcbNum
    BY <1>1, <1>3
  <2> HIDE DEF n, l
  <2>5. u \in Table
    BY <2>2, <2>3, <2>4 DEF Table
  <2> QED
    BY <2>1, <2>5
<1> QED
  BY <1>2, <1>3

(* The fields of a table a connection of the list was removed from.        *)
LEMMA RemovedFields ==
  ASSUME MaxPcbNum \in Nat, ChunkSize \in Nat \ {0}, PoolFits,
         NEW t \in Table, NEW s, IsChain(t, s), NEW k \in 1..Len(s)
  PROVE  LET u == Removed(t, s[k])
         IN  /\ u.list = IF k = 1 THEN t.next[s[k]] ELSE t.list
             /\ \A q \in Pcb : u.next[q] = IF k # 1 /\ q = s[k - 1]
                                         THEN t.next[s[k]] ELSE t.next[q]
             /\ u.used = t.used \ {s[k]}
             /\ u.num = t.num - 1
             /\ u \in Table
<1>1. /\ Len(s) \in Nat
      /\ \A i \in 1..Len(s) : s[i] \in Pcb /\ s[i] # NULL
      /\ \A i, j \in 1..Len(s) : s[i] = s[j] => i = j
      /\ t.list = IF Len(s) = 0 THEN NULL ELSE s[1]
      /\ t.used = {s[i] : i \in 1..Len(s)}
      /\ t.num = Len(s)
  BY ChainIs
<1>2. s[k] \in Linked(t) /\ s[k] \in Pcb
  BY <1>1, ChainShort
<1>3. t = [list |-> t.list, next |-> t.next, used |-> t.used, num |-> t.num]
  BY TableFields
<1>4. Previous(t, s[k]) = IF k = 1 THEN NULL ELSE s[k - 1]
  BY PreviousIs
<1>5. Freed(t, s[k]) = t.used \ {s[k]}
  BY <1>2, FreedIs
<1>6. t.list = s[k] <=> k = 1
  <2>1. 1 \in 1..Len(s) /\ Len(s) # 0
    BY <1>1
  <2> QED
    BY <1>1, <2>1
<1> DEFINE n == [q \in Pcb |-> IF q = Previous(t, s[k])
                              THEN t.next[s[k]] ELSE t.next[q]]
<1>7. Removed(t, s[k]) =
        [list |-> IF t.list = s[k] THEN t.next[s[k]] ELSE t.list,
         next |-> n, used |-> Freed(t, s[k]), num |-> t.num - 1]
  BY <1>2, <1>3 DEF Removed
<1>8. n = [q \in Pcb |-> IF k # 1 /\ q = s[k - 1]
                        THEN t.next[s[k]] ELSE t.next[q]]
  <2>1. \A q \in Pcb : q = Previous(t, s[k]) <=> k # 1 /\ q = s[k - 1]
    <3>1. \A q \in Pcb : q # NULL
      BY DEF Pcb, NULL
    <3> QED
      BY <1>4, <3>1
  <2> QED
    BY <2>1
<1> HIDE DEF n
<1>9. Removed(t, s[k]) \in Table
  <2>1. t.num > 0
    BY <1>1
  <2> QED
    BY <1>2, <2>1, RemovedInTable
<1> QED
  BY <1>5, <1>6, <1>7, <1>8, <1>9

(* Removing takes the connection out of the list, and no other.            *)
LEMMA RemovedChain ==
  ASSUME MaxPcbNum \in Nat, ChunkSize \in Nat \ {0}, PoolFits,
         NEW t \in Table, NEW s, IsChain(t, s), NEW k \in 1..Len(s)
  PROVE  IsChain(Removed(t, s[k]), RemovedAt(s, k))
<1> DEFINE u == Removed(t, s[k])
           r == RemovedAt(s, k)
           N == Len(s)
<1>1. /\ s \in Seq(Pcb) /\ N \in Nat
      /\ \A i \in 1..N : s[i] \in Pcb /\ s[i] # NULL
      /\ \A i, j \in 1..N : s[i] = s[j] => i = j
      /\ t.list = IF N = 0 THEN NULL ELSE s[1]
      /\ \A i \in 1..N : t.next[s[i]] = IF i = N THEN NULL ELSE s[i + 1]
      /\ t.used = {s[i] : i \in 1..N}
      /\ t.num = N
  BY ChainIs
<1>2. /\ u.list = IF k = 1 THEN t.next[s[k]] ELSE t.list
      /\ \A q \in Pcb : u.next[q] = IF k # 1 /\ q = s[k - 1]
                                  THEN t.next[s[k]] ELSE t.next[q]
      /\ u.used = t.used \ {s[k]}
      /\ u.num = t.num - 1
  BY RemovedFields
<1>3. /\ r \in Seq(Pcb) /\ Len(r) = N - 1
      /\ \A i \in 1..(N - 1) : r[i] = IF i < k THEN s[i] ELSE s[i + 1]
  <2>1. s \in Seq(Pcb)
    BY <1>1
  <2> QED
    BY <2>1, RemovedAtIs, Zenon
<1> HIDE DEF u, r, N
<1> DEFINE was(i) == IF i < k THEN i ELSE i + 1
<1>4. k \in 1..N
  BY DEF N
<1>5. ASSUME NEW i \in 1..(N - 1)
      PROVE  was(i) \in 1..N /\ was(i) # k /\ r[i] = s[was(i)]
  BY <1>1, <1>3, <1>4
<1>6. ASSUME NEW i \in 1..Len(r), NEW j \in 1..Len(r), r[i] = r[j] PROVE i = j
  <2>1. i \in 1..(N - 1) /\ j \in 1..(N - 1)
    BY <1>3
  <2>2. was(i) = was(j)
    <3>1. /\ was(i) \in 1..N /\ was(j) \in 1..N
          /\ s[was(i)] = s[was(j)]
      BY <1>5, <1>6, <2>1
    <3> HIDE DEF was
    <3> QED
      BY <1>1, <3>1
  <2> QED
    BY <1>1, <1>4, <2>1, <2>2
<1>7. u.list = IF Len(r) = 0 THEN NULL ELSE r[1]
  <2>1. CASE k = 1
    <3>1. u.list = IF 1 = N THEN NULL ELSE s[2]
      BY <1>1, <1>2, <1>4, <2>1
    <3>2. N # 1 => 1 \in 1..(N - 1) /\ r[1] = s[2]
      BY <1>1, <1>3, <1>4, <2>1
    <3> QED
      BY <1>3, <3>1, <3>2
  <2>2. CASE k > 1
    <3>1. N > 1 /\ 1 \in 1..(N - 1)
      BY <1>1, <1>4, <2>2
    <3>2. u.list = s[1] /\ r[1] = s[1] /\ Len(r) # 0
      BY <1>1, <1>2, <1>3, <2>2, <3>1
    <3> QED
      BY <3>2
  <2> QED
    BY <1>4, <2>1, <2>2
<1>8. ASSUME NEW i \in 1..Len(r)
      PROVE  u.next[r[i]] = IF i = Len(r) THEN NULL ELSE r[i + 1]
  <2>1. i \in 1..(N - 1) /\ was(i) \in 1..N /\ was(i) # k /\ r[i] = s[was(i)]
    BY <1>3, <1>5
  <2>2. u.next[r[i]] = IF k # 1 /\ s[was(i)] = s[k - 1] THEN t.next[s[k]]
                       ELSE t.next[s[was(i)]]
    <3> HIDE DEF was
    <3>1. s[was(i)] \in Pcb
      BY <1>1, <2>1
    <3> QED
      BY <1>2, <2>1, <3>1
  <2>3. CASE i = k - 1
    <3>1. was(i) = k - 1 /\ k # 1
      BY <1>4, <2>3, <2>1
    <3>2. u.next[r[i]] = IF k = N THEN NULL ELSE s[k + 1]
      BY <1>1, <1>4, <2>2, <3>1
    <3>3. k # N => r[i + 1] = s[k + 1]
      <4>1. k # N => i + 1 \in 1..(N - 1) /\ i + 1 = k
        BY <1>1, <1>4, <2>3
      <4> QED
        BY <1>3, <4>1
    <3>4. i = Len(r) <=> k = N
      BY <1>1, <1>3, <1>4, <2>3
    <3> QED
      BY <3>2, <3>3, <3>4
  <2>4. CASE i # k - 1
    <3>1. ~(k # 1 /\ s[was(i)] = s[k - 1])
      <4>1. ASSUME k # 1 PROVE s[was(i)] # s[k - 1]
        <5>1. k - 1 \in 1..N /\ was(i) # k - 1
          BY <1>1, <1>4, <2>1, <2>4, <4>1
        <5> QED
          BY <1>1, <2>1, <5>1
      <4> QED
        BY <4>1
    <3>2. u.next[r[i]] = IF was(i) = N THEN NULL ELSE s[was(i) + 1]
      BY <1>1, <2>1, <2>2, <3>1
    <3>3. i # N - 1 => was(i) # N /\ r[i + 1] = s[was(i) + 1]
      <4>1. i # N - 1 => /\ i + 1 \in 1..(N - 1) /\ was(i) # N
                         /\ was(i + 1) = was(i) + 1
        BY <1>1, <1>4, <2>1, <2>4
      <4> HIDE DEF was
      <4> QED
        BY <1>5, <4>1
    <3>4. i = N - 1 => was(i) = N
      BY <1>1, <1>4, <2>1, <2>4
    <3> QED
      BY <1>3, <3>2, <3>3, <3>4
  <2> QED
    BY <2>3, <2>4, Zenon
<1>9. u.used = {r[i] : i \in 1..Len(r)}
  <2>1. ASSUME NEW q \in u.used PROVE \E i \in 1..Len(r) : q = r[i]
    <3>1. PICK j \in 1..N : q = s[j] /\ j # k
      BY <1>1, <1>2, <1>4
    <3> DEFINE i == IF j < k THEN j ELSE j - 1
    <3>2. i \in 1..(N - 1) /\ was(i) = j
      BY <1>1, <1>4, <3>1
    <3> HIDE DEF i
    <3> QED
      BY <1>3, <1>5, <3>1, <3>2
  <2>2. ASSUME NEW i \in 1..Len(r) PROVE r[i] \in u.used
    <3>1. i \in 1..(N - 1) /\ was(i) \in 1..N /\ was(i) # k /\ r[i] = s[was(i)]
      BY <1>3, <1>5
    <3>2. s[was(i)] # s[k]
      BY <1>1, <1>4, <3>1
    <3> QED
      BY <1>1, <1>2, <3>1, <3>2
  <2> QED
    BY <2>1, <2>2
<1>10. u.num = Len(r)
  BY <1>1, <1>2, <1>3
<1>11. IsChain(u, r)
  BY <1>3, <1>6, <1>7, <1>8, <1>9, <1>10 DEF IsChain, IsList
<1> QED
  BY <1>11 DEF u, r
-----------------------------------------------------------------------------
(* The first connection looked for is found when there is one.             *)
LEMMA FirstOfIs ==
  ASSUME MaxPcbNum \in Nat, NEW t, NEW s, IsChain(t, s),
         NEW matching \in SUBSET t.used
  PROVE  /\ FirstOf(t, matching) = NULL => matching = {}
         /\ FirstOf(t, matching) # NULL => FirstOf(t, matching) \in matching
<1> DEFINE met == {i \in 0..MaxPcbNum : Walk(t)[i] \in matching}
<1>1. Linked(t) = t.used
  BY ChainShort
<1>2. CASE met = {}
  <2>1. FirstOf(t, matching) = NULL
    BY <1>2 DEF FirstOf
  <2>2. ASSUME NEW p \in matching PROVE FALSE
    <3>1. PICK i \in 0..MaxPcbNum : p = Walk(t)[i]
      BY <1>1 DEF Linked
    <3> QED
      BY <1>2, <3>1
  <2> QED
    BY <2>1, <2>2
<1>3. CASE met # {}
  <2>1. met \subseteq Nat
    OBVIOUS
  <2> HIDE DEF met
  <2>2. Min(met) \in met
    BY <1>3, <2>1, MinIsLeast
  <2>3. Walk(t)[Min(met)] \in matching
    BY <2>2 DEF met
  <2>4. FirstOf(t, matching) = Walk(t)[Min(met)]
    BY <1>3 DEF FirstOf, met
  <2>5. NULL \notin t.used
    BY <1>1 DEF Linked
  <2> QED
    BY <2>3, <2>4, <2>5
<1> QED
  BY <1>2, <1>3

(* The connections q and p follow each other in the list.                  *)
Adjacent(t, q, p) == q \in t.used /\ p \in t.used /\ t.next[q] = p

(* The connection before p is followed by p.                               *)
LEMMA PreviousAdjacent ==
  ASSUME MaxPcbNum \in Nat, NEW t, NEW s, IsChain(t, s), NEW p \in t.used,
         Previous(t, p) # NULL
  PROVE  Adjacent(t, Previous(t, p), p)
<1>1. /\ Len(s) \in Nat
      /\ \A i \in 1..Len(s) :
           t.next[s[i]] = IF i = Len(s) THEN NULL ELSE s[i + 1]
      /\ t.used = {s[i] : i \in 1..Len(s)}
  <2>1. IsChain(t, s)
    OBVIOUS
  <2> QED
    BY ONLY <2>1, ChainIs
<1>2. PICK k \in 1..Len(s) : p = s[k]
  BY <1>1
<1>3. k # 1 /\ Previous(t, p) = s[k - 1]
  BY <1>2, PreviousIs
<1>4. k - 1 \in 1..Len(s) /\ k - 1 # Len(s) /\ (k - 1) + 1 = k
  BY <1>1, <1>3
<1> QED
  BY <1>1, <1>2, <1>3, <1>4 DEF Adjacent

(* Connections that follow each other have places in the list that do.     *)
LEMMA AdjacentAt ==
  ASSUME MaxPcbNum \in Nat, NEW t, NEW s, IsChain(t, s), NEW p, NEW q,
         Adjacent(t, q, p)
  PROVE  \E k \in 2..Len(s) : s[k - 1] = q /\ s[k] = p
<1>1. /\ Len(s) \in Nat
      /\ \A i \in 1..Len(s) : s[i] # NULL
      /\ \A i \in 1..Len(s) :
           t.next[s[i]] = IF i = Len(s) THEN NULL ELSE s[i + 1]
      /\ t.used = {s[i] : i \in 1..Len(s)}
  BY ChainIs
<1>2. PICK i \in 1..Len(s) : q = s[i]
  BY <1>1 DEF Adjacent
<1>3. i # Len(s) /\ s[i + 1] = p
  BY <1>1, <1>2 DEF Adjacent
<1>4. i + 1 \in 2..Len(s) /\ (i + 1) - 1 = i
  BY <1>1, <1>3
<1> QED
  BY <1>2, <1>3, <1>4

(* Adding a connection leaves those that follow each other together.       *)
LEMMA AddedAdjacent ==
  ASSUME MaxPcbNum \in Nat, NEW t \in Table, CanAdd(t), NEW p, NEW q,
         Adjacent(t, q, p)
  PROVE  Adjacent(Added(t), q, p)
<1>1. NewPcb(t) \notin t.used /\ t.next \in [Pcb -> Pcb \cup {NULL}]
      /\ t.used \subseteq Pcb
  BY NewPcbIs, TableFields
<1> QED
  BY <1>1 DEF Adjacent, Added

(* So does removing a third one.                                           *)
LEMMA RemovedAdjacent ==
  ASSUME MaxPcbNum \in Nat, ChunkSize \in Nat \ {0}, PoolFits,
         NEW t \in Table, NEW s, IsChain(t, s), NEW p, NEW q,
         Adjacent(t, q, p), NEW m \in t.used, m # p, m # q
  PROVE  Adjacent(Removed(t, m), q, p)
<1>1. /\ Len(s) \in Nat /\ t.used = {s[i] : i \in 1..Len(s)}
      /\ \A i \in 1..Len(s) :
           t.next[s[i]] = IF i = Len(s) THEN NULL ELSE s[i + 1]
  BY ChainIs
<1>2. PICK k \in 1..Len(s) : m = s[k]
  BY <1>1
<1>3. /\ Removed(t, m).used = t.used \ {m}
      /\ \A r \in Pcb : Removed(t, m).next[r] = IF k # 1 /\ r = s[k - 1]
                                              THEN t.next[m] ELSE t.next[r]
  BY <1>2, RemovedFields
<1>4. ~(k # 1 /\ q = s[k - 1])
  <2> SUFFICES ASSUME k # 1, q = s[k - 1] PROVE FALSE
    OBVIOUS
  <2>1. k - 1 \in 1..Len(s) /\ k - 1 # Len(s) /\ (k - 1) + 1 = k
    BY <1>1
  <2>2. t.next[q] = m
    BY <1>1, <1>2, <2>1
  <2> QED
    BY <2>2 DEF Adjacent
<1>5. q \in Pcb
  BY TableFields DEF Adjacent
<1> QED
  BY <1>3, <1>4, <1>5 DEF Adjacent

(* canraw_input moving p, which is behind q, to the front of the list.     *)
Moved(t, q, p) ==
  [t EXCEPT !.next = [@ EXCEPT ![q] = t.next[p], ![p] = t.list], !.list = p]

(* The fields of a table after a move to the front.                        *)
LEMMA MovedFields ==
  ASSUME NEW t \in Table, NEW p \in Pcb, NEW q \in Pcb
  PROVE  /\ Moved(t, q, p) \in Table
         /\ Moved(t, q, p).list = p
         /\ \A r \in Pcb :
              Moved(t, q, p).next[r] = IF r = p THEN t.list
                                       ELSE IF r = q THEN t.next[p] ELSE t.next[r]
         /\ Moved(t, q, p).used = t.used
         /\ Moved(t, q, p).num = t.num
<1>1. /\ t.list \in Pcb \cup {NULL} /\ t.next \in [Pcb -> Pcb \cup {NULL}]
      /\ t.used \subseteq Pcb /\ t.num \in 0..MaxPcbNum
      /\ t = [list |-> t.list, next |-> t.next, used |-> t.used, num |-> t.num]
  BY TableFields
<1> DEFINE n == [r \in Pcb |-> IF r = p THEN t.list
                              ELSE IF r = q THEN t.next[p] ELSE t.next[r]]
<1>2. [t.next EXCEPT ![q] = t.next[p], ![p] = t.list] = n
  BY <1>1
<1>3. n \in [Pcb -> Pcb \cup {NULL}]
  BY <1>1
<1> HIDE DEF n
<1>4. Moved(t, q, p) = [list |-> p, next |-> n, used |-> t.used, num |-> t.num]
  <2> DEFINE m == [t.next EXCEPT ![q] = t.next[p], ![p] = t.list]
  <2>1. m = n
    BY <1>2
  <2>2. Moved(t, q, p) = [t EXCEPT !.next = m, !.list = p]
    BY DEF Moved
  <2> HIDE DEF m
  <2>3. [t EXCEPT !.next = m]
          = [list |-> t.list, next |-> m, used |-> t.used, num |-> t.num]
    BY DEF Table
  <2>4. [t EXCEPT !.next = m, !.list = p] = [[t EXCEPT !.next = m] EXCEPT !.list = p]
    OBVIOUS
  <2>5. [[list |-> t.list, next |-> m, used |-> t.used, num |-> t.num]
           EXCEPT !.list = p]
          = [list |-> p, next |-> m, used |-> t.used, num |-> t.num]
    OBVIOUS
  <2> QED
    BY <2>1, <2>2, <2>3, <2>4, <2>5
<1>5. Moved(t, q, p) \in Table
  BY <1>1, <1>3, <1>4 DEF Table
<1> QED
  BY <1>4, <1>5 DEF n

(* Moving a connection to the front reorders the list.                     *)
LEMMA MovedChain ==
  ASSUME MaxPcbNum \in Nat, NEW t \in Table, NEW s, IsChain(t, s),
         NEW p, NEW q, Adjacent(t, q, p)
  PROVE  \E r : IsChain(Moved(t, q, p), r)
<1>1. PICK k \in 2..Len(s) : s[k - 1] = q /\ s[k] = p
  BY AdjacentAt
<1> DEFINE u == Moved(t, q, p)
           N == Len(s)
           was(i) == IF i = 1 THEN k ELSE IF i <= k THEN i - 1 ELSE i
           r == [i \in 1..N |-> s[was(i)]]
<1>2. /\ s \in Seq(Pcb) /\ N \in Nat
      /\ \A i \in 1..N : s[i] \in Pcb /\ s[i] # NULL
      /\ \A i, j \in 1..N : s[i] = s[j] => i = j
      /\ t.list = IF N = 0 THEN NULL ELSE s[1]
      /\ \A i \in 1..N : t.next[s[i]] = IF i = N THEN NULL ELSE s[i + 1]
      /\ t.used = {s[i] : i \in 1..N}
      /\ t.num = N
  BY ChainIs
<1>3. k \in 2..N /\ k \in 1..N /\ k - 1 \in 1..N /\ 1 \in 1..N
  BY <1>2
<1>4. p \in Pcb /\ q \in Pcb /\ p # q
  BY <1>1, <1>2, <1>3
<1>5. /\ u.list = p
      /\ \A x \in Pcb : u.next[x] = IF x = p THEN t.list
                                  ELSE IF x = q THEN t.next[p] ELSE t.next[x]
      /\ u.used = t.used
      /\ u.num = t.num
  BY <1>4, MovedFields
<1> HIDE DEF u, N
<1>6. \A i \in 1..N : was(i) \in 1..N
  BY <1>2, <1>3
<1>7. r \in Seq(Pcb) /\ Len(r) = N /\ \A i \in 1..N : r[i] = s[was(i)]
  <2>1. r \in [1..N -> Pcb]
    BY <1>2, <1>6
  <2> QED
    BY <1>2, <2>1, FunctionIsSequence
<1> HIDE DEF r
<1>8. ASSUME NEW i \in 1..N, NEW j \in 1..N, r[i] = r[j] PROVE i = j
  <2>1. was(i) = was(j)
    <3> HIDE DEF was
    <3>1. /\ was(i) \in 1..N /\ was(j) \in 1..N
          /\ s[was(i)] = s[was(j)]
      BY <1>6, <1>7, <1>8
    <3> QED
      BY <1>2, <3>1
  <2> QED
    BY <1>2, <1>3, <2>1
<1>9. r[1] = p
  BY <1>1, <1>3, <1>7
<1>10. ASSUME NEW i \in 1..N
       PROVE  u.next[r[i]] = IF i = N THEN NULL ELSE r[i + 1]
  <2>1. r[i] = s[was(i)] /\ s[was(i)] \in Pcb /\ was(i) \in 1..N
    BY <1>2, <1>6, <1>7
  <2>2. i # N => i + 1 \in 1..N /\ r[i + 1] = s[was(i + 1)]
    <3>1. i # N => i + 1 \in 1..N
      BY <1>2
    <3> HIDE DEF was
    <3> QED
      BY <1>7, <3>1
  <2>3. CASE i = 1
    <3>1. was(i) = k /\ u.next[r[i]] = s[1]
      BY <1>1, <1>2, <1>3, <1>4, <1>5, <2>1, <2>3
    <3>2. i # N /\ was(i + 1) = 1
      BY <1>2, <1>3, <2>3
    <3> HIDE DEF was
    <3> QED
      BY <2>2, <3>1, <3>2
  <2>4. CASE i = k
    <3>1. was(i) = k - 1 /\ r[i] = q
      BY <1>1, <1>3, <2>1, <2>4
    <3>2. u.next[r[i]] = IF k = N THEN NULL ELSE s[k + 1]
      BY <1>1, <1>2, <1>3, <1>4, <1>5, <3>1
    <3>3. was(i + 1) = k + 1
      BY <1>3, <2>4
    <3> QED
      BY <2>2, <2>4, <3>2, <3>3
  <2>5. CASE i # 1 /\ i # k
    <3>1. was(i) # k /\ was(i) # k - 1 /\ was(i + 1) = was(i) + 1
          /\ (was(i) = N <=> i = N)
      BY <1>2, <1>3, <2>5
    <3>2. s[was(i)] # p /\ s[was(i)] # q
      BY <1>1, <1>2, <1>3, <2>1, <3>1
    <3>3. u.next[r[i]] = t.next[s[was(i)]]
      BY <1>5, <2>1, <3>2
    <3>4. u.next[r[i]] = IF was(i) = N THEN NULL ELSE s[was(i) + 1]
      BY <1>2, <2>1, <3>3
    <3> QED
      BY <2>2, <3>1, <3>4
  <2> QED
    BY <2>3, <2>4, <2>5, Zenon
<1>11. u.used = {r[i] : i \in 1..N}
  <2>1. ASSUME NEW x \in u.used PROVE \E i \in 1..N : x = r[i]
    <3>1. PICK j \in 1..N : x = s[j]
      BY <1>2, <1>5
    <3> DEFINE i == IF j = k THEN 1 ELSE IF j < k THEN j + 1 ELSE j
    <3>2. i \in 1..N /\ was(i) = j
      BY <1>2, <1>3, <3>1
    <3> HIDE DEF i, was
    <3> QED
      BY <1>7, <3>1, <3>2
  <2>2. ASSUME NEW i \in 1..N PROVE r[i] \in u.used
    <3> HIDE DEF was
    <3>1. r[i] = s[was(i)] /\ was(i) \in 1..N
      BY <1>6, <1>7
    <3> QED
      BY <1>2, <1>5, <3>1
  <2> QED
    BY <2>1, <2>2
<1>12. N # 0 /\ u.list = r[1] /\ u.num = N
  BY <1>2, <1>3, <1>5, <1>9
<1>13. IsChain(u, r)
  BY <1>7, <1>8, <1>10, <1>11, <1>12 DEF IsChain, IsList
<1> QED
  BY <1>13 DEF u
-----------------------------------------------------------------------------
(* Moving a connection that was removed meanwhile breaks the list: it      *)
(* leads to a chunk that is not in use.                                    *)
LEMMA BrokenByOwn ==
  ASSUME MaxPcbNum \in Nat, ChunkSize \in Nat \ {0}, PoolFits,
         NEW t \in Table, NEW s, IsChain(t, s), NEW p, NEW q,
         Adjacent(t, q, p)
  PROVE  ~Intact(Moved(Removed(t, p), q, p))
<1>1. PICK k \in 1..Len(s) : p = s[k]
  BY ChainIs DEF Adjacent
<1> DEFINE u == Removed(t, p)
           v == Moved(u, q, p)
<1>2. p \in Pcb /\ q \in Pcb /\ p # NULL
  BY TableFields DEF Adjacent, Pcb, NULL
<1>3. u \in Table /\ u.used = t.used \ {p}
  <2>1. /\ Removed(t, s[k]) \in Table
        /\ Removed(t, s[k]).used = t.used \ {s[k]}
    BY <1>1, RemovedFields
  <2> QED
    BY <1>1, <2>1
<1>4. v.list = p /\ v.used = t.used \ {p}
  <2> DEFINE w == u
  <2>1. w \in Table /\ w.used = t.used \ {p}
    BY <1>3
  <2> HIDE DEF w
  <2>2. w \in Table
    BY <2>1
  <2>3. Moved(w, q, p).list = p /\ Moved(w, q, p).used = w.used
    BY ONLY <1>2, <2>2, MovedFields
  <2> QED
    BY <2>1, <2>3 DEF w
<1> HIDE DEF u, v
<1>5. p \in Linked(v)
  <2>1. Walk(v)[0] = p /\ 0 \in 0..MaxPcbNum
    BY <1>4, WalkSteps
  <2> QED
    BY <1>2, <2>1 DEF Linked
<1>6. Linked(v) # v.used
  BY <1>4, <1>5
<1>7. ~Intact(v)
  BY <1>6 DEF Intact
<1> QED
  BY <1>7 DEF u, v

(* Moving one whose predecessor was removed meanwhile breaks the list: it  *)
(* has no end.                                                             *)
LEMMA BrokenByPrevious ==
  ASSUME MaxPcbNum \in Nat, ChunkSize \in Nat \ {0}, PoolFits,
         NEW t \in Table, NEW s, IsChain(t, s), NEW p, NEW q,
         Adjacent(t, q, p)
  PROVE  ~Intact(Moved(Removed(t, q), q, p))
<1>1. PICK k \in 2..Len(s) : s[k - 1] = q /\ s[k] = p
  BY AdjacentAt
<1> DEFINE u == Removed(t, q)
           v == Moved(u, q, p)
           N == Len(s)
           C == {p} \cup {s[i] : i \in 1..(k - 2)}
<1>2. /\ N \in Nat
      /\ \A i \in 1..N : s[i] \in Pcb /\ s[i] # NULL
      /\ \A i, j \in 1..N : s[i] = s[j] => i = j
      /\ t.list = IF N = 0 THEN NULL ELSE s[1]
      /\ \A i \in 1..N : t.next[s[i]] = IF i = N THEN NULL ELSE s[i + 1]
  BY ChainIs
<1>3. k \in 2..N /\ k \in 1..N /\ k - 1 \in 1..N /\ 1 \in 1..N
  BY <1>2
<1>4. p \in Pcb /\ q \in Pcb /\ p # q
  BY <1>1, <1>2, <1>3
<1>5. /\ u \in Table
      /\ u.list = IF k - 1 = 1 THEN t.next[q] ELSE t.list
      /\ \A x \in Pcb : u.next[x] = IF k - 1 # 1 /\ x = s[(k - 1) - 1]
                                  THEN t.next[q] ELSE t.next[x]
  BY <1>1, <1>3, RemovedFields
<1>6. /\ v.list = p
      /\ \A x \in Pcb : v.next[x] = IF x = p THEN u.list
                                  ELSE IF x = q THEN u.next[p] ELSE u.next[x]
  <2> HIDE DEF u
  <2> QED
    BY <1>4, <1>5, MovedFields
<1> HIDE DEF u, v, N
<1>7. t.next[q] = p
  BY DEF Adjacent
<1>8. v.next[p] \in C
  <2>1. v.next[p] = IF k = 2 THEN p ELSE s[1]
    BY <1>2, <1>3, <1>4, <1>5, <1>6, <1>7
  <2>2. k # 2 => 1 \in 1..(k - 2)
    BY <1>3
  <2> QED
    BY <2>1, <2>2
<1>9. ASSUME NEW i \in 1..(k - 2) PROVE v.next[s[i]] \in C
  <2>1. i \in 1..N /\ i # k /\ i # k - 1 /\ k - 2 \in 1..N /\ i # N
    BY <1>2, <1>3
  <2>2. s[i] \in Pcb /\ s[i] # p /\ s[i] # q
    BY <1>1, <1>2, <1>3, <2>1
  <2>3. v.next[s[i]] = u.next[s[i]]
    BY <1>6, <2>2
  <2>4. CASE i = k - 2
    <3>1. k - 1 # 1 /\ s[i] = s[(k - 1) - 1]
      <4>1. k - 1 # 1 /\ (k - 1) - 1 = k - 2
        BY <1>3
      <4> QED
        BY <2>4, <4>1
    <3>2. u.next[s[i]] = p
      BY <1>5, <1>7, <2>2, <3>1
    <3> QED
      BY <2>3, <3>2
  <2>5. CASE i # k - 2
    <3>1. s[i] # s[(k - 1) - 1]
      <4>1. (k - 1) - 1 \in 1..N /\ (k - 1) - 1 = k - 2
        BY <1>3, <2>1
      <4> QED
        BY <1>2, <2>1, <2>5, <4>1
    <3>2. u.next[s[i]] = s[i + 1]
      BY <1>2, <1>5, <2>1, <2>2, <3>1
    <3>3. i + 1 \in 1..(k - 2)
      BY <1>3, <2>5
    <3> QED
      BY <2>3, <3>2, <3>3
  <2> QED
    BY <2>4, <2>5
<1>10. \A x \in C : v.next[x] \in C /\ x # NULL
  <2>1. p # NULL /\ \A i \in 1..(k - 2) : s[i] # NULL
    BY <1>1, <1>2, <1>3
  <2> QED
    BY <1>8, <1>9, <2>1
<1>11. p \in C
  OBVIOUS
<1> HIDE DEF C
<1> DEFINE S == {n \in Nat : n \in 0..MaxPcbNum => Walk(v)[n] \in C}
<1>12. Nat \subseteq S
  <2>1. 0 \in S
    BY <1>6, <1>11, WalkSteps
  <2>2. ASSUME NEW n \in Nat, n \in S PROVE n + 1 \in S
    <3>1. CASE n + 1 \in 0..MaxPcbNum
      <4>1. n \in 0..MaxPcbNum /\ n + 1 \in 1..MaxPcbNum /\ (n + 1) - 1 = n
        BY <3>1
      <4>2. Walk(v)[n] \in C
        BY <2>2, <4>1
      <4>3. Walk(v)[n + 1] = IF Walk(v)[n] = NULL THEN NULL
                             ELSE v.next[Walk(v)[n]]
        BY <4>1, WalkSteps
      <4> QED
        BY <1>10, <4>2, <4>3
    <3> QED
      BY <3>1
  <2> HIDE DEF S
  <2> QED
    BY <2>1, <2>2, NatSetInduction
<1>13. \A n \in 0..MaxPcbNum : Walk(v)[n] \in C
  <2>1. \A n \in 0..MaxPcbNum : n \in S
    BY <1>12
  <2> QED
    BY <2>1
<1>14. Linked(v) \subseteq C
  BY <1>13 DEF Linked
<1>15. p \in Linked(v)
  <2>1. Walk(v)[0] = p /\ 0 \in 0..MaxPcbNum
    BY <1>6, WalkSteps
  <2>2. p # NULL
    BY <1>10, <1>11
  <2> QED
    BY <2>1, <2>2 DEF Linked
<1>16. NULL \notin C
  BY <1>10
<1>17. ~Intact(v)
  BY <1>10, <1>14, <1>15, <1>16 DEF Intact
<1> QED
  BY <1>17 DEF u, v
-----------------------------------------------------------------------------
(* A table of which only the shape is known.                               *)
Shaped == [list : Pcb \cup {NULL}, next : [Pcb -> Pcb \cup {NULL}],
           used : SUBSET Pcb, num : Int]

(* The fields of a shaped table.                                           *)
LEMMA ShapedFields ==
  ASSUME NEW t \in Shaped
  PROVE  /\ t = [list |-> t.list, next |-> t.next, used |-> t.used, num |-> t.num]
         /\ t.list \in Pcb \cup {NULL}
         /\ t.next \in [Pcb -> Pcb \cup {NULL}]
         /\ t.used \subseteq Pcb
         /\ t.num \in Int
BY DEF Shaped

(* Adding keeps the shape of any table.                                    *)
LEMMA AddedShaped ==
  ASSUME MaxPcbNum \in Nat, NEW t \in Shaped, CanAdd(t)
  PROVE  Added(t) \in Shaped
<1> DEFINE p == NewPcb(t)
<1>1. p \in Pcb
  BY NewPcbIs
<1>2. /\ t.list \in Pcb \cup {NULL} /\ t.next \in [Pcb -> Pcb \cup {NULL}]
      /\ t.used \subseteq Pcb /\ t.num + 1 \in Int
  BY ShapedFields
<1> HIDE DEF p
<1>3. [list |-> p, next |-> [t.next EXCEPT ![p] = t.list],
       used |-> t.used \cup {p}, num |-> t.num + 1] \in Shaped
  BY <1>1, <1>2 DEF Shaped
<1> QED
  BY <1>3 DEF Added, p

(* Removing keeps the shape of any table.                                  *)
LEMMA RemovedShaped ==
  ASSUME NEW t \in Shaped, NEW p \in Pcb
  PROVE  Removed(t, p) \in Shaped
<1>1. /\ t.list \in Pcb \cup {NULL} /\ t.next \in [Pcb -> Pcb \cup {NULL}]
      /\ t.used \subseteq Pcb /\ t.num \in Int
      /\ t = [list |-> t.list, next |-> t.next, used |-> t.used, num |-> t.num]
  BY ShapedFields
<1>2. CASE p \notin Linked(t)
  BY <1>2 DEF Removed
<1>3. CASE p \in Linked(t)
  <2> DEFINE n == [q \in Pcb |-> IF q = Previous(t, p) THEN t.next[p] ELSE t.next[q]]
             l == IF t.list = p THEN t.next[p] ELSE t.list
             u == [list |-> l, next |-> n, used |-> Freed(t, p), num |-> t.num - 1]
  <2>1. Removed(t, p) = u
    BY <1>1, <1>3 DEF Removed
  <2>2. l \in Pcb \cup {NULL} /\ n \in [Pcb -> Pcb \cup {NULL}]
    BY <1>1
  <2>3. Freed(t, p) \subseteq Pcb /\ t.num - 1 \in Int
    BY <1>1 DEF Freed
  <2> HIDE DEF n, l
  <2>4. u \in Shaped
    BY <2>2, <2>3 DEF Shaped
  <2> QED
    BY <2>1, <2>4
<1> QED
  BY <1>2, <1>3

(* Moving keeps the shape of any table.                                    *)
LEMMA MovedShaped ==
  ASSUME NEW t \in Shaped, NEW p \in Pcb, NEW q
  PROVE  Moved(t, q, p) \in Shaped
<1>1. /\ t.list \in Pcb \cup {NULL} /\ t.next \in [Pcb -> Pcb \cup {NULL}]
      /\ t.used \subseteq Pcb /\ t.num \in Int
  BY ShapedFields
<1> DEFINE m == [t.next EXCEPT ![q] = t.next[p], ![p] = t.list]
<1>2. m \in [Pcb -> Pcb \cup {NULL}]
  BY <1>1
<1>3. Moved(t, q, p) = [t EXCEPT !.next = m, !.list = p]
  BY DEF Moved
<1> HIDE DEF m
<1>4. [t EXCEPT !.next = m]
        = [list |-> t.list, next |-> m, used |-> t.used, num |-> t.num]
  BY DEF Shaped
<1>5. [t EXCEPT !.next = m, !.list = p] = [[t EXCEPT !.next = m] EXCEPT !.list = p]
  OBVIOUS
<1>6. [[list |-> t.list, next |-> m, used |-> t.used, num |-> t.num]
         EXCEPT !.list = p]
        = [list |-> p, next |-> m, used |-> t.used, num |-> t.num]
  OBVIOUS
<1>7. [list |-> p, next |-> m, used |-> t.used, num |-> t.num] \in Shaped
  BY <1>1, <1>2 DEF Shaped
<1> QED
  BY <1>3, <1>4, <1>5, <1>6, <1>7

(* Whatever the list is like, one of those looked for is found.            *)
LEMMA FirstOfMatches ==
  ASSUME NEW t, NEW matching, FirstOf(t, matching) # NULL
  PROVE  FirstOf(t, matching) \in matching
<1> DEFINE met == {i \in 0..MaxPcbNum : Walk(t)[i] \in matching}
<1>1. met # {} /\ FirstOf(t, matching) = Walk(t)[Min(met)]
  BY DEF FirstOf
<1>2. met \subseteq Nat
  OBVIOUS
<1>3. Min(met) \in met
  <2> HIDE DEF met
  <2> QED
    BY <1>1, <1>2, MinIsLeast
<1>4. Walk(t)[Min(met)] \in matching
  <2> DEFINE m == Min(met)
  <2>1. m \in met
    BY <1>3
  <2> HIDE DEF m
  <2>2. Walk(t)[m] \in matching
    BY <2>1
  <2> QED
    BY <2>2 DEF m
<1> QED
  BY <1>1, <1>4
=============================================================================
