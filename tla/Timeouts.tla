------------------------------ MODULE Timeouts ------------------------------
(***************************************************************************)
(* The timeouts of lwcan (timeouts.c): a pool of LWCAN_TIMEOUTS_NUM chunks, *)
(* the list of pending timeouts in the order they expire, and the pass of   *)
(* lwcan_timeouts_handler that calls the handlers of those that have.  A    *)
(* handler starts and stops timeouts itself, so every call is a step and    *)
(* the pass goes on with the system_now() it began with.                    *)
(*                                                                         *)
(* Times are numbers of milliseconds modulo TimeRange, 2^32 in the code.    *)
(* left is not in the code: the milliseconds until the timeout is really    *)
(* due, negative when it is overdue.                                       *)
(***************************************************************************)
EXTENDS Integers, Sequences, FiniteSetsExt

CONSTANTS
  Handler,             \* pairs of a handler and its arg
  Delays,              \* values of time_ms
  TimeRange,           \* how many values the clock has
  MaxLateness,         \* longest time without a pass, and longest pass
  LWCAN_TIMEOUTS_NUM,  \* chunks in the pool
  ChunkSize            \* sizeof(struct lwcan_timeout)

MAX_TIMEOUT == TimeRange \div 2 - 1

Time == 0..(TimeRange - 1)
Slot == 0..(LWCAN_TIMEOUTS_NUM - 1)

(* Two times can only be compared when they are less than half the range    *)
(* apart.                                                                  *)
ASSUME TimeAssumption ==
  /\ TimeRange \in Nat /\ TimeRange % 2 = 0 /\ TimeRange > 0
  /\ MaxLateness \in 0..MAX_TIMEOUT
  /\ Delays \subseteq Nat
  /\ \A d \in Delays : d + MaxLateness <= MAX_TIMEOUT

ASSUME PoolAssumption ==
  /\ LWCAN_TIMEOUTS_NUM \in Nat
  /\ ChunkSize \in Nat \ {0}

CONSTANT None  \* no handler is running
ASSUME NoneAssumption == None \notin Handler

VARIABLES
  clock,         \* system_now()
  allocated,     \* chunks whose service byte is set
  next_timeout,  \* the list
  now,           \* lwcan_timeouts_handler: the clock when the pass began
  running        \* the handler the pass has called, or None between passes

vars == <<clock, allocated, next_timeout, now, running>>

Timeout == [slot : Slot, time : Time, handler : Handler, left : Int]

Init ==
  /\ clock = 0
  /\ allocated = {}
  /\ next_timeout = <<>>
  /\ now = 0
  /\ running = None

TIME_LESS_THAN(time, compare_to) == (time - compare_to) % TimeRange > MAX_TIMEOUT

(* timeout_malloc takes the first free chunk.                              *)
FreeSlots == Slot \ allocated

(* Mutant: the chunk keeps its mark.                                       *)
FreedNever(slot) == allocated

(* timeout_free: the offset of the chunk is kept in a uint8_t.              *)
Freed(slot) ==
  LET addr == (slot * ChunkSize) % 256 IN
  IF addr % ChunkSize # 0 THEN allocated ELSE allocated \ {addr \div ChunkSize}

(* Mutant: times are compared as numbers.                                  *)
BehindUnwrapped(time) ==
  LET later == {i \in DOMAIN next_timeout : time < next_timeout[i].time}
  IN IF later = {} THEN Len(next_timeout) ELSE Min(later) - 1

(* How many of the pending timeouts a new one goes behind: the list is      *)
(* searched for the first that is later.                                   *)
Behind(time) ==
  LET later == {i \in DOMAIN next_timeout :
                  TIME_LESS_THAN(time, next_timeout[i].time)}
  IN IF later = {} THEN Len(next_timeout) ELSE Min(later) - 1

Inserted(timeout) ==
  LET n == Behind(timeout.time)
  IN SubSeq(next_timeout, 1, n) \o <<timeout>>
       \o SubSeq(next_timeout, n + 1, Len(next_timeout))

(* An empty pool: the timeout is dropped.                                  *)
lwcan_timeout_dropped == FreeSlots = {} /\ UNCHANGED vars

(* Mutant: the sum is not cut to the width of the clock.                    *)
DeadlineUnwrapped(time_ms) == clock + time_ms

Deadline(time_ms) == (clock + time_ms) % TimeRange

lwcan_timeout(time_ms, handler) ==
  /\ FreeSlots # {}
  /\ allocated' = allocated \cup {Min(FreeSlots)}
  /\ next_timeout' = Inserted([slot |-> Min(FreeSlots),
                               time |-> Deadline(time_ms),
                               handler |-> handler, left |-> time_ms])
  /\ UNCHANGED <<clock, now, running>>

Removed(i) ==
  /\ next_timeout' = SubSeq(next_timeout, 1, i - 1)
                       \o SubSeq(next_timeout, i + 1, Len(next_timeout))
  /\ allocated' = Freed(next_timeout[i].slot)

(* The first timeout of the handler is taken off the list.                 *)
lwcan_untimeout(handler) ==
  LET found == {i \in DOMAIN next_timeout : next_timeout[i].handler = handler} IN
  /\ found # {}
  /\ Removed(Min(found))
  /\ UNCHANGED <<clock, now, running>>

(* Mutant: times are compared as numbers.                                  *)
HeadExpiredUnwrapped(time) ==
  /\ next_timeout # <<>>
  /\ time >= next_timeout[1].time

HeadExpired(time) ==
  /\ next_timeout # <<>>
  /\ ~TIME_LESS_THAN(time, next_timeout[1].time)

(* The head is taken off the list, freed, and its handler called.          *)
Called ==
  /\ Removed(1)
  /\ running' = next_timeout[1].handler
  /\ UNCHANGED clock

lwcan_timeouts_handler ==
  /\ running = None
  /\ HeadExpired(clock)
  /\ now' = clock
  /\ Called

(* A handler returns, and the pass goes on or ends.                        *)
next_expired ==
  /\ running # None
  /\ HeadExpired(now)
  /\ Called
  /\ UNCHANGED now

pass_done ==
  /\ running # None
  /\ ~HeadExpired(now)
  /\ running' = None
  /\ now' = 0
  /\ UNCHANGED <<clock, allocated, next_timeout>>

(* A millisecond passes; the main loop is never later than MaxLateness.    *)
Tick ==
  /\ \A i \in DOMAIN next_timeout : next_timeout[i].left > -MaxLateness
  /\ running # None => (clock - now) % TimeRange < MaxLateness
  /\ clock' = (clock + 1) % TimeRange
  /\ next_timeout' = [i \in DOMAIN next_timeout |->
                        [next_timeout[i] EXCEPT !.left = @ - 1]]
  /\ UNCHANGED <<allocated, now, running>>

Next ==
  \/ \E d \in Delays, h \in Handler : lwcan_timeout(d, h)
  \/ lwcan_timeout_dropped
  \/ \E h \in Handler : lwcan_untimeout(h)
  \/ lwcan_timeouts_handler \/ next_expired \/ pass_done
  \/ Tick

Spec == Init /\ [][Next]_vars

(* Time passes, the main loop calls lwcan_timeouts_handler for ever and      *)
(* handlers return.                                                        *)
Fairness ==
  /\ WF_vars(Tick)
  /\ WF_vars(lwcan_timeouts_handler)
  /\ WF_vars(next_expired)
  /\ WF_vars(pass_done)

FairSpec == Spec /\ Fairness
-----------------------------------------------------------------------------
TypeOK ==
  /\ clock \in Time
  /\ allocated \subseteq Slot
  /\ next_timeout \in Seq(Timeout)
  /\ now \in Time
  /\ running \in Handler \cup {None}

(* A chunk is marked as allocated exactly while it is in the list, and is    *)
(* there once: no chunk leaks, and none is handed out while it is in use.   *)
PoolMatchesList ==
  /\ allocated = {next_timeout[i].slot : i \in DOMAIN next_timeout}
  /\ \A i, j \in DOMAIN next_timeout :
       next_timeout[i].slot = next_timeout[j].slot => i = j

(* A handler is called when its time has really come, also across the wrap   *)
(* of the clock and when its timeout was started during the pass, and no    *)
(* timeout due earlier is still waiting.                                   *)
CalledInOrder ==
  [][lwcan_timeouts_handler \/ next_expired
       => /\ next_timeout[1].left <= 0
          /\ \A i \in DOMAIN next_timeout :
               next_timeout[i].left >= next_timeout[1].left]_vars

(* Every pending timeout is called or cancelled, however many others are     *)
(* started and whatever their handlers start: its chunk becomes free again. *)
EventuallyCalled == \A slot \in Slot : slot \in allocated ~> slot \notin allocated
=============================================================================
