--------------------------- MODULE TimeoutsProofs ---------------------------
(***************************************************************************)
(* What holds of Timeouts for every value of its constants. The times of   *)
(* the list wrap around, so that it is in order cannot be read off them;   *)
(* the inductive invariant uses the time each timeout has left, which the  *)
(* model keeps beside its time.                                            *)
(***************************************************************************)
EXTENDS Timeouts, Lemmas

(* The offset of a chunk of the pool fits the uint8_t lwcan_untimeout and  *)
(* the handler keep it in.                                                 *)
PoolFits == \A slot \in Slot : slot * ChunkSize < 256

(* The time of a timeout is what it has left behind the clock, and no      *)
(* timeout is further late than one tick of the port.                      *)
TimesConsistent ==
  \A i \in DOMAIN next_timeout :
    /\ next_timeout[i].left \in -MaxLateness..(MAX_TIMEOUT - MaxLateness)
    /\ next_timeout[i].time = (clock + next_timeout[i].left) % TimeRange

(* The list is ordered by what is left.                                    *)
InOrder ==
  \A i, j \in DOMAIN next_timeout :
    i <= j => next_timeout[i].left <= next_timeout[j].left

(* The pass of the handler that is going on read the clock not long ago.   *)
PassShort == running # None => (clock - now) % TimeRange <= MaxLateness

(* The inductive invariant of the list.                                    *)
OrderInv == TypeOK /\ TimesConsistent /\ InOrder /\ PassShort

(* The clock wraps around after twice the longest timeout, and two.        *)
LEMMA ClockRange ==
  /\ TimeRange \in Nat /\ MAX_TIMEOUT \in Nat /\ TimeRange = 2 * MAX_TIMEOUT + 2
  /\ MaxLateness \in Nat
  /\ Time = 0..(TimeRange - 1)
BY TimeAssumption DEF MAX_TIMEOUT, Time

(* The comparison of two times that lie within MAX_TIMEOUT of each other,  *)
(* and of the clock, is that of what is left of them.                      *)
LEMMA Comparable ==
  ASSUME NEW c \in Time, NEW a \in Int, NEW b \in Int,
         -MAX_TIMEOUT <= a, a <= MAX_TIMEOUT,
         -MAX_TIMEOUT <= b, b <= MAX_TIMEOUT,
         -MAX_TIMEOUT <= a - b, a - b <= MAX_TIMEOUT
  PROVE  TIME_LESS_THAN((c + a) % TimeRange, (c + b) % TimeRange) <=> a < b
<1> DEFINE R == TimeRange
           x == (c + a) % R
           y == (c + b) % R
<1>1. /\ R \in Nat /\ MAX_TIMEOUT \in Nat /\ R = 2 * MAX_TIMEOUT + 2 /\ c \in 0..(R - 1)
  BY ClockRange
<1> HIDE DEF R
<1>2. /\ x \in 0..(R - 1)
      /\ x = IF c + a < 0 THEN c + a + R
             ELSE IF c + a < R THEN c + a ELSE c + a - R
  BY <1>1, Wrapped
<1>3. /\ y \in 0..(R - 1)
      /\ y = IF c + b < 0 THEN c + b + R
             ELSE IF c + b < R THEN c + b ELSE c + b - R
  BY <1>1, Wrapped
<1> HIDE DEF x, y
<1>4. /\ (x - y) % R = IF x - y < 0 THEN x - y + R ELSE x - y
  BY <1>1, <1>2, <1>3, Wrapped
<1>5. (x - y) % R > MAX_TIMEOUT <=> a < b
  BY <1>1, <1>2, <1>3, <1>4
<1> QED
  BY <1>5 DEF TIME_LESS_THAN, x, y, R

(* The chunk lwcan_timeout takes is free.                                  *)
LEMMA SlotsLeast ==
  ASSUME FreeSlots # {}
  PROVE  Min(FreeSlots) \in FreeSlots
<1>1. FreeSlots \subseteq Nat
  BY PoolAssumption DEF FreeSlots, Slot
<1> QED
  BY <1>1, MinIsLeast

(* The place the walk of lwcan_timeout stops at: none before it is later   *)
(* than the new time, the one after it is.                                 *)
LEMMA BehindIs ==
  ASSUME TypeOK, NEW time
  PROVE  /\ Behind(time) \in 0..Len(next_timeout)
         /\ \A i \in 1..Behind(time) : ~TIME_LESS_THAN(time, next_timeout[i].time)
         /\ Behind(time) < Len(next_timeout) =>
              TIME_LESS_THAN(time, next_timeout[Behind(time) + 1].time)
<1> DEFINE later == {i \in DOMAIN next_timeout :
                       TIME_LESS_THAN(time, next_timeout[i].time)}
<1>1. /\ Len(next_timeout) \in Nat /\ DOMAIN next_timeout = 1..Len(next_timeout)
  BY DEF TypeOK
<1>2. CASE later = {}
  <2>1. Behind(time) = Len(next_timeout)
    BY <1>2 DEF Behind
  <2> QED
    BY <1>1, <1>2, <2>1
<1>3. CASE later # {}
  <2>1. Behind(time) = Min(later) - 1
    BY <1>3 DEF Behind
  <2>2. later \subseteq Nat
    BY <1>1
  <2>3. Min(later) \in later /\ \A n \in later : Min(later) <= n
    BY <1>3, <2>2, MinIsLeast
  <2>4. /\ Min(later) \in 1..Len(next_timeout)
        /\ TIME_LESS_THAN(time, next_timeout[Min(later)].time)
    BY <1>1, <2>3
  <2>5. /\ Behind(time) \in 0..Len(next_timeout)
        /\ Behind(time) + 1 = Min(later)
    BY <1>1, <2>1, <2>4
  <2>6. ASSUME NEW i \in 1..Behind(time)
        PROVE  ~TIME_LESS_THAN(time, next_timeout[i].time)
    <3>1. i \in DOMAIN next_timeout /\ ~(Min(later) <= i)
      BY <1>1, <2>1, <2>4
    <3> QED
      BY <2>3, <3>1
  <2> QED
    BY <2>4, <2>5, <2>6
<1> QED
  BY <1>2, <1>3

(* The fields of the entries of the list.                                  *)
LEMMA ListTypes ==
  ASSUME TypeOK
  PROVE  /\ Len(next_timeout) \in Nat
         /\ DOMAIN next_timeout = 1..Len(next_timeout)
         /\ \A i \in 1..Len(next_timeout) :
              /\ next_timeout[i] \in Timeout
              /\ next_timeout[i].slot \in Slot
              /\ next_timeout[i].time \in Time
              /\ next_timeout[i].handler \in Handler
              /\ next_timeout[i].left \in Int
<1>1. /\ Len(next_timeout) \in Nat
      /\ DOMAIN next_timeout = 1..Len(next_timeout)
      /\ \A i \in 1..Len(next_timeout) : next_timeout[i] \in Timeout
  BY DEF TypeOK
<1> QED
  BY <1>1 DEF Timeout

(* What lwcan_timeout does to the list.                                    *)
LEMMA StartedList ==
  ASSUME OrderInv, NEW d \in Delays, NEW h \in Handler, lwcan_timeout(d, h)
  PROVE  \E n \in 0..Len(next_timeout), e \in Timeout :
           /\ next_timeout' \in Seq(Timeout)
           /\ Len(next_timeout') = Len(next_timeout) + 1
           /\ \A i \in 1..(Len(next_timeout) + 1) :
                next_timeout'[i] = IF i <= n THEN next_timeout[i]
                                   ELSE IF i = n + 1 THEN e ELSE next_timeout[i - 1]
           /\ e.slot = Min(FreeSlots) /\ e.slot \in FreeSlots
           /\ e.left = d /\ e.time = (clock + d) % TimeRange
           /\ \A i \in 1..n : next_timeout[i].left <= d
           /\ \A i \in (n + 1)..Len(next_timeout) : next_timeout[i].left > d
<1> DEFINE time == Deadline(d)
           n == Behind(time)
           e == [slot |-> Min(FreeSlots), time |-> time, handler |-> h, left |-> d]
<1>1. TypeOK /\ TimesConsistent /\ InOrder
  BY DEF OrderInv
<1>2. /\ d \in 0..MAX_TIMEOUT /\ d + MaxLateness <= MAX_TIMEOUT
      /\ MAX_TIMEOUT \in Nat /\ MaxLateness \in Nat
      /\ TimeRange = 2 * MAX_TIMEOUT + 2
  BY ClockRange, TimeAssumption
<1>3. clock \in Time /\ clock \in 0..(TimeRange - 1)
  BY <1>1, ClockRange DEF TypeOK
<1>4. time = (clock + d) % TimeRange /\ time \in Time
  <2>1. (clock + d) % TimeRange \in 0..(TimeRange - 1)
    BY <1>2, <1>3, ClockRange, Wrapped
  <2> QED
    BY <2>1, ClockRange DEF Deadline
<1>5. Min(FreeSlots) \in FreeSlots /\ FreeSlots \subseteq Slot
  BY SlotsLeast DEF lwcan_timeout, FreeSlots
<1>6. e \in Timeout
  BY <1>2, <1>4, <1>5 DEF Timeout
<1>7. /\ n \in 0..Len(next_timeout)
      /\ \A i \in 1..n : ~TIME_LESS_THAN(time, next_timeout[i].time)
      /\ n < Len(next_timeout) => TIME_LESS_THAN(time, next_timeout[n + 1].time)
  BY <1>1, BehindIs
<1>8. next_timeout' = InsertedAt(next_timeout, n, e)
  BY DEF lwcan_timeout, Inserted, InsertedAt
<1> HIDE DEF time, n, e
<1>9. ASSUME NEW i \in 1..Len(next_timeout)
      PROVE  /\ TIME_LESS_THAN(time, next_timeout[i].time) <=> d < next_timeout[i].left
             /\ next_timeout[i].left \in Int
  <2>1. /\ next_timeout[i].left \in -MaxLateness..(MAX_TIMEOUT - MaxLateness)
        /\ next_timeout[i].time = (clock + next_timeout[i].left) % TimeRange
    BY <1>1, ListTypes DEF TimesConsistent
  <2>2. /\ next_timeout[i].left \in Int
        /\ -MAX_TIMEOUT <= next_timeout[i].left /\ next_timeout[i].left <= MAX_TIMEOUT
        /\ -MAX_TIMEOUT <= d - next_timeout[i].left
        /\ d - next_timeout[i].left <= MAX_TIMEOUT
        /\ d \in Int /\ -MAX_TIMEOUT <= d /\ d <= MAX_TIMEOUT
    BY <1>2, <2>1, TimeAssumption
  <2> QED
    BY <1>3, <1>4, <2>1, <2>2, Comparable
<1>10. \A i \in 1..n : next_timeout[i].left <= d
  <2> TAKE i \in 1..n
  <2>1. i \in 1..Len(next_timeout)
    BY <1>1, <1>7, ListTypes
  <2>2. ~(d < next_timeout[i].left) /\ next_timeout[i].left \in Int
    BY <1>7, <1>9, <2>1
  <2> QED
    BY <1>2, <2>2
<1>11. \A i \in (n + 1)..Len(next_timeout) : next_timeout[i].left > d
  <2> TAKE i \in (n + 1)..Len(next_timeout)
  <2>1. /\ i \in 1..Len(next_timeout) /\ n + 1 \in 1..Len(next_timeout)
        /\ n + 1 <= i /\ n < Len(next_timeout)
    BY <1>1, <1>7, ListTypes
  <2>2. next_timeout[n + 1].left > d
    <3>1. d < next_timeout[n + 1].left /\ next_timeout[n + 1].left \in Int
      BY <1>7, <1>9, <2>1
    <3> QED
      BY <1>2, <3>1
  <2>3. next_timeout[n + 1].left <= next_timeout[i].left
    BY <1>1, <2>1, ListTypes DEF InOrder
  <2>4. next_timeout[n + 1].left \in Int /\ next_timeout[i].left \in Int
    BY <1>9, <2>1
  <2> QED
    BY <1>2, <2>2, <2>3, <2>4
<1>12. /\ e.slot = Min(FreeSlots) /\ e.left = d /\ e.time = (clock + d) % TimeRange
  BY <1>4 DEF e
<1>13. next_timeout \in Seq(Timeout) /\ n \in 0..Len(next_timeout) /\ e \in Timeout
  BY <1>1, <1>6, <1>7 DEF TypeOK
<1>14. /\ InsertedAt(next_timeout, n, e) \in Seq(Timeout)
       /\ Len(InsertedAt(next_timeout, n, e)) = Len(next_timeout) + 1
       /\ \A i \in 1..(Len(next_timeout) + 1) :
            InsertedAt(next_timeout, n, e)[i]
              = IF i <= n THEN next_timeout[i]
                ELSE IF i = n + 1 THEN e ELSE next_timeout[i - 1]
  BY ONLY <1>13, InsertedAtIs
<1> QED
  BY <1>5, <1>6, <1>7, <1>8, <1>10, <1>11, <1>12, <1>14

(* lwcan_timeout keeps the invariant.                                      *)
LEMMA StartKeeps ==
  ASSUME OrderInv, NEW d \in Delays, NEW h \in Handler, lwcan_timeout(d, h)
  PROVE  OrderInv'
<1>1. TypeOK /\ TimesConsistent /\ InOrder /\ PassShort
  BY DEF OrderInv
<1>2. PICK n \in 0..Len(next_timeout), e \in Timeout :
           /\ next_timeout' \in Seq(Timeout)
           /\ Len(next_timeout') = Len(next_timeout) + 1
           /\ \A i \in 1..(Len(next_timeout) + 1) :
                next_timeout'[i] = IF i <= n THEN next_timeout[i]
                                   ELSE IF i = n + 1 THEN e ELSE next_timeout[i - 1]
           /\ e.slot = Min(FreeSlots) /\ e.slot \in FreeSlots
           /\ e.left = d /\ e.time = (clock + d) % TimeRange
           /\ \A i \in 1..n : next_timeout[i].left <= d
           /\ \A i \in (n + 1)..Len(next_timeout) : next_timeout[i].left > d
  BY StartedList
<1>3. /\ next_timeout' \in Seq(Timeout)
      /\ Len(next_timeout') = Len(next_timeout) + 1
      /\ \A i \in 1..(Len(next_timeout) + 1) :
           next_timeout'[i] = IF i <= n THEN next_timeout[i]
                              ELSE IF i = n + 1 THEN e ELSE next_timeout[i - 1]
  BY <1>2
<1>4. /\ clock' = clock /\ now' = now /\ running' = running
      /\ allocated' = allocated \cup {Min(FreeSlots)}
  BY DEF lwcan_timeout
<1>5. TypeOK'
  BY <1>1, <1>2, <1>3, <1>4 DEF TypeOK, FreeSlots
<1>6. /\ Len(next_timeout) \in Nat
      /\ DOMAIN next_timeout' = 1..(Len(next_timeout) + 1)
  BY <1>1, <1>3, ListTypes
<1>7. d \in -MaxLateness..(MAX_TIMEOUT - MaxLateness)
  BY ClockRange, TimeAssumption
<1>8. TimesConsistent'
  <2> SUFFICES ASSUME NEW i \in 1..(Len(next_timeout) + 1)
               PROVE  /\ next_timeout'[i].left
                           \in -MaxLateness..(MAX_TIMEOUT - MaxLateness)
                      /\ next_timeout'[i].time
                           = (clock + next_timeout'[i].left) % TimeRange
    BY <1>4, <1>6 DEF TimesConsistent
  <2>1. CASE i <= n
    <3>1. i \in DOMAIN next_timeout /\ next_timeout'[i] = next_timeout[i]
      BY <1>1, <1>3, <2>1, ListTypes
    <3> QED
      BY <1>1, <3>1 DEF TimesConsistent
  <2>2. CASE i = n + 1
    <3>1. next_timeout'[i] = e
      BY <1>3, <2>2
    <3> QED
      BY <1>2, <1>7, <3>1
  <2>3. CASE i > n + 1
    <3>1. i - 1 \in DOMAIN next_timeout /\ next_timeout'[i] = next_timeout[i - 1]
      BY <1>1, <1>3, <2>3, ListTypes
    <3> QED
      BY <1>1, <3>1 DEF TimesConsistent
  <2>4. i <= n \/ i = n + 1 \/ i > n + 1
    OBVIOUS
  <2> QED
    BY <2>1, <2>2, <2>3, <2>4
<1>9. InOrder'
  <2> SUFFICES ASSUME NEW i \in 1..(Len(next_timeout) + 1),
                      NEW j \in 1..(Len(next_timeout) + 1), i <= j
               PROVE  next_timeout'[i].left <= next_timeout'[j].left
    BY <1>6 DEF InOrder
  <2> DEFINE before(k) == IF k <= n THEN k ELSE k - 1
  <2>1. ASSUME NEW k \in 1..(Len(next_timeout) + 1), k # n + 1
        PROVE  /\ before(k) \in 1..Len(next_timeout)
               /\ next_timeout'[k] = next_timeout[before(k)]
    BY <1>3, <1>6, <2>1
  <2>2. CASE i = n + 1 /\ j = n + 1
    <3>1. next_timeout'[i].left = d /\ next_timeout'[j].left = d
      BY <1>2, <1>3, <2>2
    <3> QED
      BY <1>7, <3>1
  <2>3. CASE i = n + 1 /\ j # n + 1
    <3>1. before(j) \in (n + 1)..Len(next_timeout)
      BY <1>6, <2>3
    <3>2. next_timeout'[i].left = d
      BY <1>2, <1>3, <2>3
    <3>3. /\ next_timeout'[j] = next_timeout[before(j)]
          /\ before(j) \in 1..Len(next_timeout)
      BY <2>1, <2>3
    <3>4. next_timeout[before(j)].left > d
      BY <1>2, <3>1
    <3>5. next_timeout[before(j)].left \in Int
      BY <1>1, <3>3, ListTypes
    <3> QED
      BY <1>7, <3>2, <3>3, <3>4, <3>5
  <2>4. CASE i # n + 1 /\ j = n + 1
    <3>1. before(i) \in 1..n
      BY <2>4
    <3>2. next_timeout'[j].left = d
      BY <1>2, <1>3, <2>4
    <3>3. next_timeout'[i] = next_timeout[before(i)]
      BY <2>1, <2>4
    <3> QED
      BY <1>2, <3>1, <3>2, <3>3
  <2>5. CASE i # n + 1 /\ j # n + 1
    <3>1. /\ before(i) <= before(j)
          /\ before(i) \in DOMAIN next_timeout /\ before(j) \in DOMAIN next_timeout
      BY <1>1, <2>1, <2>5, ListTypes
    <3> QED
      BY <1>1, <2>1, <2>5, <3>1 DEF InOrder
  <2> QED
    BY <2>2, <2>3, <2>4, <2>5
<1>10. PassShort'
  BY <1>1, <1>4 DEF PassShort
<1> QED
  BY <1>5, <1>8, <1>9, <1>10 DEF OrderInv
(* Taking a timeout off the list leaves it in order.                       *)
LEMMA RemovedList ==
  ASSUME OrderInv, NEW i \in 1..Len(next_timeout), Removed(i), clock' = clock
  PROVE  /\ next_timeout' \in Seq(Timeout)
         /\ Len(next_timeout') = Len(next_timeout) - 1
         /\ \A j \in 1..(Len(next_timeout) - 1) :
              next_timeout'[j] = IF j < i THEN next_timeout[j] ELSE next_timeout[j + 1]
         /\ allocated' \subseteq Slot
         /\ TimesConsistent' /\ InOrder'
<1>1. TypeOK /\ TimesConsistent /\ InOrder
  BY DEF OrderInv
<1>2. /\ next_timeout' \in Seq(Timeout)
      /\ Len(next_timeout') = Len(next_timeout) - 1
      /\ \A j \in 1..(Len(next_timeout) - 1) :
           next_timeout'[j] = IF j < i THEN next_timeout[j] ELSE next_timeout[j + 1]
  <2>1. next_timeout \in Seq(Timeout)
    BY <1>1 DEF TypeOK
  <2>2. next_timeout' = RemovedAt(next_timeout, i)
    BY DEF Removed, RemovedAt
  <2> QED
    BY <2>1, <2>2, RemovedAtIs
<1>3. allocated' \subseteq Slot
  BY <1>1 DEF Removed, Freed, TypeOK
<1>4. /\ Len(next_timeout) \in Nat
      /\ DOMAIN next_timeout = 1..Len(next_timeout)
      /\ DOMAIN next_timeout' = 1..(Len(next_timeout) - 1)
  BY <1>1, <1>2, ListTypes
<1> DEFINE before(j) == IF j < i THEN j ELSE j + 1
<1>5. ASSUME NEW j \in 1..(Len(next_timeout) - 1)
      PROVE  /\ before(j) \in DOMAIN next_timeout
             /\ next_timeout'[j] = next_timeout[before(j)]
  BY <1>2, <1>4
<1>6. \A j, k \in 1..(Len(next_timeout) - 1) : j <= k => before(j) <= before(k)
  BY <1>4
<1> HIDE DEF before
<1>7. TimesConsistent'
  BY <1>1, <1>4, <1>5 DEF TimesConsistent
<1>8. InOrder'
  BY <1>1, <1>4, <1>5, <1>6 DEF InOrder
<1> QED
  BY <1>2, <1>3, <1>7, <1>8

(* lwcan_untimeout keeps the invariant.                                    *)
LEMMA StopKeeps ==
  ASSUME OrderInv, NEW h \in Handler, lwcan_untimeout(h)
  PROVE  OrderInv'
<1> DEFINE found == {i \in DOMAIN next_timeout : next_timeout[i].handler = h}
<1>1. /\ found # {} /\ Removed(Min(found))
      /\ clock' = clock /\ now' = now /\ running' = running
  BY DEF lwcan_untimeout
<1>2. DOMAIN next_timeout = 1..Len(next_timeout) /\ Len(next_timeout) \in Nat
  BY ListTypes DEF OrderInv
<1>3. found \subseteq Nat
  BY <1>2
<1>4. Min(found) \in 1..Len(next_timeout)
  BY <1>1, <1>2, <1>3, MinIsLeast
<1>5. /\ next_timeout' \in Seq(Timeout) /\ allocated' \subseteq Slot
      /\ TimesConsistent' /\ InOrder'
  BY <1>1, <1>4, RemovedList
<1>6. TypeOK'
  BY <1>1, <1>5 DEF TypeOK, OrderInv
<1>7. PassShort'
  BY <1>1 DEF PassShort, OrderInv
<1> QED
  BY <1>5, <1>6, <1>7 DEF OrderInv

(* Taking the head off the list to call it keeps the invariant.            *)
LEMMA CallKeeps ==
  ASSUME OrderInv, Called, next_timeout # <<>>,
         now' \in Time, (clock - now') % TimeRange <= MaxLateness
  PROVE  OrderInv'
<1>1. /\ Removed(1) /\ clock' = clock /\ running' = next_timeout[1].handler
  BY DEF Called
<1>2. 1 \in 1..Len(next_timeout) /\ next_timeout[1].handler \in Handler
  <2>1. TypeOK /\ Len(next_timeout) \in Nat /\ Len(next_timeout) # 0
    BY DEF OrderInv, TypeOK
  <2> QED
    BY <2>1, ListTypes
<1>3. /\ next_timeout' \in Seq(Timeout) /\ allocated' \subseteq Slot
      /\ TimesConsistent' /\ InOrder'
  BY <1>1, <1>2, RemovedList
<1>4. TypeOK'
  BY <1>1, <1>2, <1>3 DEF TypeOK, OrderInv
<1>5. PassShort'
  BY <1>1 DEF PassShort
<1> QED
  BY <1>3, <1>4, <1>5 DEF OrderInv

(* The first call of a pass keeps the invariant.                           *)
LEMMA FirstCallKeeps ==
  ASSUME OrderInv, lwcan_timeouts_handler
  PROVE  OrderInv'
<1>1. Called /\ next_timeout # <<>> /\ now' = clock
  BY DEF lwcan_timeouts_handler, HeadExpired
<1>2. clock \in Time /\ clock \in Int
  BY ClockRange DEF OrderInv, TypeOK
<1>3. (clock - clock) % TimeRange <= MaxLateness
  <2>1. clock - clock = 0
    BY <1>2
  <2>2. 0 % TimeRange = 0
    BY ClockRange, Wrapped
  <2> QED
    BY <2>1, <2>2, ClockRange
<1> QED
  BY <1>1, <1>2, <1>3, CallKeeps

(* The later calls of a pass keep the invariant.                           *)
LEMMA NextCallKeeps ==
  ASSUME OrderInv, next_expired
  PROVE  OrderInv'
<1>1. Called /\ next_timeout # <<>> /\ now' = now /\ running # None
  BY DEF next_expired, HeadExpired
<1>2. now \in Time /\ (clock - now) % TimeRange <= MaxLateness
  BY <1>1 DEF OrderInv, TypeOK, PassShort
<1> QED
  BY <1>1, <1>2, CallKeeps

(* The end of a pass keeps the invariant.                                  *)
LEMMA DoneKeeps ==
  ASSUME OrderInv, pass_done
  PROVE  OrderInv'
<1>1. /\ UNCHANGED <<clock, allocated, next_timeout>>
      /\ running' = None /\ now' = 0
  BY DEF pass_done
<1>2. 0 \in Time
  BY ClockRange
<1>3. TypeOK'
  BY <1>1, <1>2 DEF TypeOK, OrderInv
<1>4. TimesConsistent' /\ InOrder' /\ PassShort'
  BY <1>1 DEF OrderInv, TimesConsistent, InOrder, PassShort
<1> QED
  BY <1>3, <1>4 DEF OrderInv

(* A tick of the clock keeps the invariant, when the clock wraps around    *)
(* too.                                                                    *)
LEMMA TickKeeps ==
  ASSUME OrderInv, Tick
  PROVE  OrderInv'
<1>1. TypeOK /\ TimesConsistent /\ InOrder /\ PassShort
  BY DEF OrderInv
<1>2. /\ TimeRange \in Nat /\ MAX_TIMEOUT \in Nat /\ TimeRange = 2 * MAX_TIMEOUT + 2
      /\ MaxLateness \in 0..MAX_TIMEOUT
      /\ clock \in 0..(TimeRange - 1) /\ now \in 0..(TimeRange - 1)
  BY <1>1, ClockRange, TimeAssumption DEF TypeOK
<1>3. /\ clock' = (clock + 1) % TimeRange
      /\ clock' = IF clock + 1 < TimeRange THEN clock + 1 ELSE 0
      /\ clock' \in 0..(TimeRange - 1)
  BY <1>2, Wrapped DEF Tick
<1>4. /\ Len(next_timeout) \in Nat
      /\ DOMAIN next_timeout = 1..Len(next_timeout)
      /\ \A i \in 1..Len(next_timeout) : next_timeout[i] \in Timeout
                                      /\ next_timeout[i].left \in Int
  BY <1>1, ListTypes
<1>5. /\ next_timeout' = [i \in 1..Len(next_timeout) |->
                             [next_timeout[i] EXCEPT !.left = @ - 1]]
      /\ DOMAIN next_timeout' = 1..Len(next_timeout)
  BY <1>4 DEF Tick
<1>6. ASSUME NEW i \in 1..Len(next_timeout)
      PROVE  /\ next_timeout'[i] \in Timeout
             /\ next_timeout'[i].left = next_timeout[i].left - 1
             /\ next_timeout'[i].time = next_timeout[i].time
  <2>1. /\ next_timeout'[i] = [next_timeout[i] EXCEPT !.left = next_timeout[i].left - 1]
        /\ next_timeout[i].left - 1 \in Int
    BY <1>4, <1>5
  <2> QED
    BY <1>4, <2>1 DEF Timeout
<1>7. next_timeout' \in Seq(Timeout)
  <2>1. next_timeout' \in [1..Len(next_timeout) -> Timeout]
    BY <1>5, <1>6
  <2> QED
    BY <1>4, <2>1, FunctionIsSequence
<1>8. TypeOK'
  BY <1>1, <1>2, <1>3, <1>7, ClockRange DEF TypeOK, Tick
<1>9. TimesConsistent'
  <2> SUFFICES ASSUME NEW i \in 1..Len(next_timeout)
               PROVE  /\ next_timeout'[i].left
                           \in -MaxLateness..(MAX_TIMEOUT - MaxLateness)
                      /\ next_timeout'[i].time
                           = (clock' + next_timeout'[i].left) % TimeRange
    BY <1>5 DEF TimesConsistent
  <2> DEFINE left == next_timeout[i].left
  <2>1. /\ left \in -MaxLateness..(MAX_TIMEOUT - MaxLateness) /\ left > -MaxLateness
        /\ next_timeout[i].time = (clock + left) % TimeRange
    BY <1>1, <1>4 DEF TimesConsistent, Tick
  <2>2. next_timeout'[i].left = left - 1 /\ next_timeout'[i].time = next_timeout[i].time
    BY <1>6
  <2> HIDE DEF left
  <2>3. left - 1 \in -MaxLateness..(MAX_TIMEOUT - MaxLateness)
    BY <1>2, <2>1
  <2>4. (clock' + (left - 1)) % TimeRange = (clock + left) % TimeRange
    <3>1. (clock + left) % TimeRange = IF clock + left < 0 THEN clock + left + TimeRange
             ELSE IF clock + left < TimeRange THEN clock + left
             ELSE clock + left - TimeRange
      BY <1>2, <2>1, Wrapped
    <3> DEFINE x == clock' + (left - 1)
    <3>2. x \in Int /\ -TimeRange <= x /\ x < 2 * TimeRange
      BY <1>2, <1>3, <2>1
    <3>3. x % TimeRange = IF x < 0 THEN x + TimeRange
             ELSE IF x < TimeRange THEN x ELSE x - TimeRange
      BY <1>2, <3>2, Wrapped
    <3> HIDE DEF x
    <3>4. CASE clock + 1 < TimeRange
      <4>1. clock' = clock + 1
        BY <1>3, <3>4
      <4>2. x = clock + left
        BY <1>2, <2>1, <4>1 DEF x
      <4> QED
        BY <4>2 DEF x
    <3>5. CASE clock + 1 = TimeRange
      <4>1. clock' = 0
        BY <1>2, <1>3, <3>5
      <4>2. x = clock + left - TimeRange
        BY <1>2, <2>1, <3>5, <4>1 DEF x
      <4>3. x % TimeRange = (clock + left) % TimeRange
        BY <1>2, <2>1, <3>1, <3>3, <3>5, <4>2
      <4> QED
        BY <4>3 DEF x
    <3> QED
      BY <1>2, <3>4, <3>5
  <2> QED
    BY <2>1, <2>2, <2>3, <2>4
<1>10. InOrder'
  <2> SUFFICES ASSUME NEW i \in 1..Len(next_timeout), NEW j \in 1..Len(next_timeout),
                      i <= j
               PROVE  next_timeout'[i].left <= next_timeout'[j].left
    BY <1>5 DEF InOrder
  <2>1. next_timeout[i].left <= next_timeout[j].left
    BY <1>1, <1>4 DEF InOrder
  <2> QED
    BY <1>4, <1>6, <2>1
<1>11. PassShort'
  <2> SUFFICES ASSUME running # None
               PROVE  (clock' - now) % TimeRange <= MaxLateness
    BY DEF PassShort, Tick
  <2>1. (clock - now) % TimeRange < MaxLateness
    BY DEF Tick
  <2>2. (clock - now) % TimeRange = IF clock - now < 0 THEN clock - now + TimeRange
                                                       ELSE clock - now
    BY <1>2, Wrapped
  <2>3. (clock' - now) % TimeRange = IF clock' - now < 0 THEN clock' - now + TimeRange
                                                         ELSE clock' - now
    BY <1>2, <1>3, Wrapped
  <2> QED
    BY <1>2, <1>3, <2>1, <2>2, <2>3
<1> QED
  BY <1>8, <1>9, <1>10, <1>11 DEF OrderInv
-----------------------------------------------------------------------------
(* The chunk that is given back is the one that was taken, when its offset *)
(* fits.                                                                   *)
LEMMA Freeing ==
  ASSUME PoolFits, NEW slot \in Slot
  PROVE  Freed(slot) = allocated \ {slot}
<1>1. /\ slot \in Nat /\ ChunkSize \in Nat /\ ChunkSize > 0 /\ slot * ChunkSize < 256
  BY PoolAssumption DEF PoolFits, Slot
<1>2. (slot * ChunkSize) % 256 = slot * ChunkSize
  <2>1. slot * ChunkSize \in Nat
    BY <1>1
  <2> QED
    BY <1>1, <2>1
<1>3. (slot * ChunkSize) % ChunkSize = 0
  BY <1>1
<1>4. (slot * ChunkSize) \div ChunkSize = slot
  BY <1>1
<1> QED
  BY <1>2, <1>3, <1>4 DEF Freed

(* lwcan_timeout marks the chunk of the timeout it adds.                   *)
LEMMA StartKeepsPool ==
  ASSUME OrderInv, PoolMatchesList,
         NEW d \in Delays, NEW h \in Handler, lwcan_timeout(d, h)
  PROVE  PoolMatchesList'
<1>1. PICK n \in 0..Len(next_timeout), e \in Timeout :
           /\ next_timeout' \in Seq(Timeout)
           /\ Len(next_timeout') = Len(next_timeout) + 1
           /\ \A i \in 1..(Len(next_timeout) + 1) :
                next_timeout'[i] = IF i <= n THEN next_timeout[i]
                                   ELSE IF i = n + 1 THEN e ELSE next_timeout[i - 1]
           /\ e.slot = Min(FreeSlots) /\ e.slot \in FreeSlots
  BY StartedList
<1>2. next_timeout \in Seq(Timeout) /\ Len(next_timeout) \in Nat
      /\ DOMAIN next_timeout = 1..Len(next_timeout)
  BY ListTypes DEF OrderInv, TypeOK
<1> DEFINE N == Len(next_timeout)
           at(i) == IF i <= n THEN i ELSE i - 1
<1>3. /\ Len(next_timeout') = N + 1
      /\ \A i \in 1..(N + 1) :
           next_timeout'[i] = IF i <= n THEN next_timeout[i]
                              ELSE IF i = n + 1 THEN e ELSE next_timeout[i - 1]
      /\ next_timeout' \in Seq(Timeout)
  BY <1>1
<1>4. DOMAIN next_timeout' = 1..(N + 1)
  BY <1>2, <1>3
<1>5. ASSUME NEW i \in 1..(N + 1), i # n + 1
      PROVE  at(i) \in 1..N /\ next_timeout'[i] = next_timeout[at(i)]
  BY <1>2, <1>3, <1>5
<1>6. n + 1 \in 1..(N + 1) /\ next_timeout'[n + 1] = e
  BY <1>2, <1>3
<1>7. /\ allocated = {next_timeout[i].slot : i \in 1..N}
      /\ \A i, j \in 1..N : next_timeout[i].slot = next_timeout[j].slot => i = j
  BY <1>2 DEF PoolMatchesList
<1>8. e.slot \notin allocated /\ allocated' = allocated \cup {e.slot}
  BY <1>1 DEF FreeSlots, lwcan_timeout
<1>9. ASSUME NEW i \in 1..N
      PROVE  \E j \in 1..(N + 1) : next_timeout'[j] = next_timeout[i]
  <2>1. CASE i <= n
    BY <1>2, <1>3, <2>1
  <2>2. CASE i > n
    <3>1. i + 1 \in 1..(N + 1) /\ at(i + 1) = i /\ i + 1 # n + 1
      BY <1>2, <2>2
    <3> QED
      BY <1>5, <3>1
  <2>3. i <= n \/ i > n
    BY <1>2
  <2> QED
    BY <2>1, <2>2, <2>3
<1>10. allocated' = {next_timeout'[i].slot : i \in 1..(N + 1)}
  <2>1. ASSUME NEW i \in 1..(N + 1) PROVE next_timeout'[i].slot \in allocated'
    BY <1>5, <1>6, <1>7, <1>8
  <2>2. ASSUME NEW s \in allocated'
        PROVE  \E i \in 1..(N + 1) : s = next_timeout'[i].slot
    <3>1. CASE s = e.slot
      BY <1>6, <3>1
    <3>2. CASE s \in allocated
      <4>1. PICK i \in 1..N : s = next_timeout[i].slot
        BY <1>7, <3>2
      <4> QED
        BY <1>9, <4>1
    <3> QED
      BY <1>8, <3>1, <3>2
  <2> QED
    BY <2>1, <2>2
<1>11. ASSUME NEW i \in 1..(N + 1), NEW j \in 1..(N + 1),
              next_timeout'[i].slot = next_timeout'[j].slot
       PROVE  i = j
  <2>1. ASSUME NEW k \in 1..(N + 1), k # n + 1 PROVE next_timeout'[k].slot # e.slot
    BY <1>5, <1>7, <1>8, <2>1
  <2>2. CASE i = n + 1 \/ j = n + 1
    BY <1>6, <1>11, <2>1, <2>2
  <2>3. CASE i # n + 1 /\ j # n + 1
    <3>1. at(i) = at(j)
      BY <1>5, <1>7, <1>11, <2>3
    <3> QED
      BY <1>2, <2>3, <3>1
  <2> QED
    BY <2>2, <2>3
<1> QED
  BY <1>4, <1>10, <1>11 DEF PoolMatchesList

(* A timeout that is taken off the list gives back its chunk and no other. *)
LEMMA RemovedKeepsPool ==
  ASSUME OrderInv, PoolMatchesList, PoolFits,
         NEW i \in 1..Len(next_timeout), Removed(i), clock' = clock
  PROVE  PoolMatchesList'
<1> DEFINE N == Len(next_timeout)
           before(j) == IF j < i THEN j ELSE j + 1
<1>1. /\ next_timeout' \in Seq(Timeout) /\ Len(next_timeout') = N - 1
      /\ \A j \in 1..(N - 1) :
           next_timeout'[j] = IF j < i THEN next_timeout[j] ELSE next_timeout[j + 1]
  BY RemovedList
<1>2. /\ N \in Nat /\ DOMAIN next_timeout = 1..N /\ next_timeout[i].slot \in Slot
  BY ListTypes DEF OrderInv
<1>3. DOMAIN next_timeout' = 1..(N - 1)
  BY <1>1, <1>2
<1>4. allocated' = allocated \ {next_timeout[i].slot}
  BY <1>2, Freeing DEF Removed
<1>5. /\ allocated = {next_timeout[j].slot : j \in 1..N}
      /\ \A j, k \in 1..N : next_timeout[j].slot = next_timeout[k].slot => j = k
  BY <1>2 DEF PoolMatchesList
<1>6. ASSUME NEW j \in 1..(N - 1)
      PROVE  /\ before(j) \in 1..N /\ before(j) # i
             /\ next_timeout'[j] = next_timeout[before(j)]
  BY <1>1, <1>2
<1>7. ASSUME NEW j \in 1..N, j # i
      PROVE  \E k \in 1..(N - 1) : next_timeout'[k] = next_timeout[j]
  <2>1. CASE j < i
    <3>1. j \in 1..(N - 1) /\ before(j) = j
      BY <1>2, <2>1
    <3> QED
      BY <1>6, <3>1
  <2>2. CASE j > i
    <3>1. j - 1 \in 1..(N - 1) /\ before(j - 1) = j
      BY <1>2, <2>2
    <3> QED
      BY <1>6, <3>1
  <2>3. j < i \/ j > i
    BY <1>2, <1>7
  <2> QED
    BY <2>1, <2>2, <2>3
<1>8. ASSUME NEW j \in 1..(N - 1), NEW k \in 1..(N - 1), before(j) = before(k)
      PROVE  j = k
  BY <1>2, <1>8
<1> HIDE DEF before
<1>9. allocated' = {next_timeout'[j].slot : j \in 1..(N - 1)}
  <2>1. ASSUME NEW j \in 1..(N - 1) PROVE next_timeout'[j].slot \in allocated'
    BY <1>4, <1>5, <1>6
  <2>2. ASSUME NEW s \in allocated'
        PROVE  \E j \in 1..(N - 1) : s = next_timeout'[j].slot
    <3>1. PICK j \in 1..N : s = next_timeout[j].slot /\ j # i
      BY <1>4, <1>5
    <3> QED
      BY <1>7, <3>1
  <2> QED
    BY <2>1, <2>2
<1>10. ASSUME NEW j \in 1..(N - 1), NEW k \in 1..(N - 1),
              next_timeout'[j].slot = next_timeout'[k].slot
       PROVE  j = k
  BY <1>5, <1>6, <1>8, <1>10
<1> QED
  BY <1>3, <1>9, <1>10 DEF PoolMatchesList

(* lwcan_untimeout keeps the pool and the list together.                   *)
LEMMA StopKeepsPool ==
  ASSUME OrderInv, PoolMatchesList, PoolFits, NEW h \in Handler, lwcan_untimeout(h)
  PROVE  PoolMatchesList'
<1> DEFINE found == {i \in DOMAIN next_timeout : next_timeout[i].handler = h}
<1>1. found # {} /\ Removed(Min(found)) /\ clock' = clock
  BY DEF lwcan_untimeout
<1>2. DOMAIN next_timeout = 1..Len(next_timeout) /\ Len(next_timeout) \in Nat
  BY ListTypes DEF OrderInv
<1>3. found \subseteq Nat
  BY <1>2
<1>4. Min(found) \in 1..Len(next_timeout)
  BY <1>1, <1>2, <1>3, MinIsLeast
<1> QED
  BY <1>1, <1>4, RemovedKeepsPool

(* A call of the head keeps the pool and the list together.                *)
LEMMA CallKeepsPool ==
  ASSUME OrderInv, PoolMatchesList, PoolFits, Called, next_timeout # <<>>
  PROVE  PoolMatchesList'
<1>1. TypeOK /\ Len(next_timeout) \in Nat /\ Len(next_timeout) # 0
  BY DEF OrderInv, TypeOK
<1>2. 1 \in 1..Len(next_timeout)
  BY <1>1
<1> QED
  BY <1>2, RemovedKeepsPool DEF Called

(* A tick leaves the chunks alone.                                         *)
LEMMA TickKeepsPool ==
  ASSUME OrderInv, PoolMatchesList, Tick
  PROVE  PoolMatchesList'
<1>1. /\ DOMAIN next_timeout = 1..Len(next_timeout)
      /\ \A i \in 1..Len(next_timeout) : next_timeout[i] \in Timeout
  BY ListTypes DEF OrderInv
<1>2. /\ allocated' = allocated
      /\ next_timeout' = [i \in 1..Len(next_timeout) |->
                             [next_timeout[i] EXCEPT !.left = @ - 1]]
  BY <1>1 DEF Tick
<1>3. \A i \in 1..Len(next_timeout) : next_timeout'[i].slot = next_timeout[i].slot
  BY <1>1, <1>2 DEF Timeout
<1>4. DOMAIN next_timeout' = DOMAIN next_timeout
  BY <1>1, <1>2
<1> QED
  BY <1>1, <1>2, <1>3, <1>4 DEF PoolMatchesList

(* Every step keeps the invariant of the list.                             *)
LEMMA OrderInductive == OrderInv /\ [Next]_vars => OrderInv'
<1> SUFFICES ASSUME OrderInv, [Next]_vars PROVE OrderInv'
  OBVIOUS
<1>1. CASE \E d \in Delays, h \in Handler : lwcan_timeout(d, h)
  BY <1>1, StartKeeps
<1>2. CASE \E h \in Handler : lwcan_untimeout(h)
  BY <1>2, StopKeeps
<1>3. CASE lwcan_timeouts_handler
  BY <1>3, FirstCallKeeps
<1>4. CASE next_expired
  BY <1>4, NextCallKeeps
<1>5. CASE pass_done
  BY <1>5, DoneKeeps
<1>6. CASE Tick
  BY <1>6, TickKeeps
<1>7. CASE UNCHANGED vars
  BY <1>7 DEF vars, OrderInv, TypeOK, TimesConsistent, InOrder, PassShort
<1> QED
  BY <1>1, <1>2, <1>3, <1>4, <1>5, <1>6, <1>7 DEF Next, lwcan_timeout_dropped

(* Every step keeps the pool and the list together.                        *)
LEMMA PoolInductive ==
  ASSUME PoolFits
  PROVE  OrderInv /\ PoolMatchesList /\ [Next]_vars => PoolMatchesList'
<1> SUFFICES ASSUME OrderInv, PoolMatchesList, [Next]_vars PROVE PoolMatchesList'
  OBVIOUS
<1>1. CASE \E d \in Delays, h \in Handler : lwcan_timeout(d, h)
  BY <1>1, StartKeepsPool
<1>2. CASE \E h \in Handler : lwcan_untimeout(h)
  BY <1>2, StopKeepsPool
<1>3. CASE lwcan_timeouts_handler \/ next_expired
  <2>1. Called /\ next_timeout # <<>>
    BY <1>3 DEF lwcan_timeouts_handler, next_expired, HeadExpired
  <2> QED
    BY <2>1, CallKeepsPool
<1>4. CASE Tick
  BY <1>4, TickKeepsPool
<1>5. CASE UNCHANGED <<allocated, next_timeout>>
  BY <1>5 DEF PoolMatchesList
<1> QED
  BY <1>1, <1>2, <1>3, <1>4, <1>5 DEF Next, lwcan_timeout_dropped, pass_done, vars

(* The list is empty and so is the pool.                                   *)
LEMMA Initially == Init => OrderInv /\ PoolMatchesList
<1> SUFFICES ASSUME Init PROVE OrderInv /\ PoolMatchesList
  OBVIOUS
<1>1. 0 \in Time
  BY ClockRange
<1>2. TypeOK
  BY <1>1 DEF Init, TypeOK
<1>3. TimesConsistent /\ InOrder /\ PassShort /\ PoolMatchesList
  BY DEF Init, TimesConsistent, InOrder, PassShort, PoolMatchesList
<1> QED
  BY <1>2, <1>3 DEF OrderInv

(* The list is in order of what is left, whatever the clock has wrapped    *)
(* around.                                                                 *)
THEOREM OrderInvariance == Spec => []OrderInv
<1>1. Init => OrderInv
  BY Initially
<1>2. OrderInv /\ [Next]_vars => OrderInv'
  BY OrderInductive
<1> QED
  BY <1>1, <1>2, PTL DEF Spec

(* The variables keep their types.                                         *)
THEOREM TypeCorrect == Spec => []TypeOK
<1>1. OrderInv => TypeOK
  BY DEF OrderInv
<1> QED
  BY <1>1, OrderInvariance, PTL

(* The chunks marked as used are those of the list, each once, as long as  *)
(* the offsets of the pool fit their uint8_t. TLC's run timeouts_narrow    *)
(* shows that this cannot be left out.                                     *)
THEOREM NoChunkLost ==
  ASSUME PoolFits
  PROVE  Spec => []PoolMatchesList
<1>1. Init => OrderInv /\ PoolMatchesList
  BY Initially
<1>2. OrderInv /\ PoolMatchesList /\ [Next]_vars => (OrderInv /\ PoolMatchesList)'
  BY OrderInductive, PoolInductive
<1> QED
  BY <1>1, <1>2, PTL DEF Spec

(* The timeout that is called is due, and none of the list is due earlier. *)
LEMMA ExpiredIsDue ==
  ASSUME OrderInv, lwcan_timeouts_handler \/ next_expired
  PROVE  /\ next_timeout[1].left <= 0
         /\ \A i \in DOMAIN next_timeout : next_timeout[i].left >= next_timeout[1].left
<1>1. TypeOK /\ TimesConsistent /\ InOrder /\ PassShort
  BY DEF OrderInv
<1>2. next_timeout # <<>>
  BY DEF lwcan_timeouts_handler, next_expired, HeadExpired
<1>3. /\ Len(next_timeout) \in Nat /\ DOMAIN next_timeout = 1..Len(next_timeout)
      /\ 1 \in 1..Len(next_timeout)
      /\ \A i \in 1..Len(next_timeout) : next_timeout[i].left \in Int
  <2>1. Len(next_timeout) # 0
    BY <1>1, <1>2 DEF TypeOK
  <2> QED
    BY <1>1, <2>1, ListTypes
<1>4. \A i \in DOMAIN next_timeout : next_timeout[i].left >= next_timeout[1].left
  BY <1>1, <1>3 DEF InOrder
<1> DEFINE left == next_timeout[1].left
<1>5. /\ left \in -MaxLateness..(MAX_TIMEOUT - MaxLateness)
      /\ next_timeout[1].time = (clock + left) % TimeRange
  BY <1>1, <1>3 DEF TimesConsistent
<1>6. /\ TimeRange \in Nat /\ MAX_TIMEOUT \in Nat /\ TimeRange = 2 * MAX_TIMEOUT + 2
      /\ MaxLateness \in 0..MAX_TIMEOUT
      /\ clock \in Time /\ clock \in 0..(TimeRange - 1) /\ now \in 0..(TimeRange - 1)
  BY <1>1, ClockRange, TimeAssumption DEF TypeOK
<1> HIDE DEF left
<1>7. PICK e \in 0..MaxLateness :
        \E t : HeadExpired(t) /\ t = (clock + (-e)) % TimeRange
  <2>1. CASE lwcan_timeouts_handler
    <3>1. HeadExpired(clock)
      BY <2>1 DEF lwcan_timeouts_handler
    <3>2. clock = (clock + (-0)) % TimeRange
      BY <1>6, Wrapped
    <3> QED
      BY <1>6, <3>1, <3>2
  <2>2. CASE next_expired
    <3> DEFINE e == (clock - now) % TimeRange
    <3>1. HeadExpired(now) /\ e <= MaxLateness
      BY <1>1, <2>2 DEF next_expired, PassShort
    <3>2. e = IF clock - now < 0 THEN clock - now + TimeRange ELSE clock - now
      BY <1>6, Wrapped
    <3>3. e \in 0..MaxLateness
      BY <1>6, <3>1, <3>2
    <3>4. now = (clock + (-e)) % TimeRange
      <4> HIDE DEF e
      <4>1. (clock + (-e)) % TimeRange
                = IF clock + (-e) < 0 THEN clock + (-e) + TimeRange
                  ELSE IF clock + (-e) < TimeRange THEN clock + (-e)
                  ELSE clock + (-e) - TimeRange
        BY <1>6, <3>3, Wrapped
      <4> QED
        BY <1>6, <3>2, <3>3, <4>1
    <3> QED
      BY <3>1, <3>3, <3>4
  <2> QED
    BY <2>1, <2>2
<1>8. ~TIME_LESS_THAN((clock + (-e)) % TimeRange, (clock + left) % TimeRange)
  BY <1>5, <1>7 DEF HeadExpired
<1>9. /\ -e \in Int /\ left \in Int
      /\ -MAX_TIMEOUT <= -e /\ -e <= MAX_TIMEOUT
      /\ -MAX_TIMEOUT <= left /\ left <= MAX_TIMEOUT
      /\ -MAX_TIMEOUT <= (-e) - left /\ (-e) - left <= MAX_TIMEOUT
  BY <1>5, <1>6
<1>10. ~(-e < left)
  BY <1>6, <1>8, <1>9, Comparable
<1>11. left <= 0
  BY <1>6, <1>9, <1>10
<1> QED
  BY <1>4, <1>11 DEF left

(* Handlers are called when they are due, earliest first.                  *)
THEOREM AllCalledInOrder == Spec => CalledInOrder
<1>1. OrderInv /\ [Next]_vars =>
        [lwcan_timeouts_handler \/ next_expired
           => /\ next_timeout[1].left <= 0
              /\ \A i \in DOMAIN next_timeout :
                   next_timeout[i].left >= next_timeout[1].left]_vars
  BY ExpiredIsDue
<1> QED
  BY <1>1, OrderInvariance, PTL DEF Spec, CalledInOrder
=============================================================================
