------------------------------ MODULE Dispatch ------------------------------
(***************************************************************************)
(* How a frame finds its connection (canif.c, raw.c, isotp.c, isotp_in.c):  *)
(* the interfaces, the raw and the ISO-TP connections bound to their        *)
(* indexes, canif_input, which offers a frame to the raw connections before *)
(* the ISO-TP ones, and canraw_send, which waits until the driver called    *)
(* raw_sent.                                                               *)
(*                                                                         *)
(* The application is one thread; the driver calls canif_input and raw_sent *)
(* from an interrupt, between any two of its calls and while canraw_send    *)
(* waits.  The receive callback of a raw connection may call canraw_new or  *)
(* canraw_remove.  Fields of a chunk that is free are cleared when it is    *)
(* allocated, and kept cleared here.                                       *)
(***************************************************************************)
EXTENDS Canif

CONSTANTS
  CANRAW_MAX_PCB_NUM, ISOTP_MAX_PCB_NUM,
  RawChunkSize, IsoTpChunkSize,
  CanId  \* identifiers that ISO-TP connections are bound to

Raw   == INSTANCE PcbTable WITH MaxPcbNum <- CANRAW_MAX_PCB_NUM,
                                ChunkSize <- RawChunkSize
IsoTp == INSTANCE PcbTable WITH MaxPcbNum <- ISOTP_MAX_PCB_NUM,
                                ChunkSize <- IsoTpChunkSize

ASSUME DispatchAssumption ==
  /\ {CANRAW_MAX_PCB_NUM, ISOTP_MAX_PCB_NUM} \subseteq Nat
  /\ {RawChunkSize, IsoTpChunkSize} \subseteq Nat \ {0}

NULL == -1

VARIABLES
  raw,          \* canraw_pcb_list, canraw_mem_pool, canraw_pcb_num
  raw_index,    \* if_index of the raw connections, 0 when not bound
  isotp,        \* isotp_pcb_list, isotp_mem_pool, isotp_pcb_num
  isotp_index,  \* if_index of the ISO-TP connections
  isotp_rx,     \* their rx_id
  bound,        \* the interface each connection was bound to, while it is
                \* still in the list
  waiting,      \* the connection whose canraw_send waits, or NULL
  with_driver,  \* whether the driver has its frame
  sent,         \* connections whose sent flag is set
  misuse        \* "none", "callback" when a callback removed a connection
                \* that canraw_input holds, "init" when canif_add failed for an
                \* interface in the list: what follows is not modelled

interfaces  == <<canif_list, canif_num>>
connections == <<raw, raw_index, isotp, isotp_index, isotp_rx>>
sending     == <<waiting, with_driver, sent>>
vars == <<interfaces, connections, bound, sending, misuse>>

Index == 0..MAX_CANIF_NUM

Init ==
  /\ canif_list = <<>>
  /\ canif_num = 0
  /\ raw = Raw!EmptyTable
  /\ raw_index = [p \in Raw!Pcb |-> 0]
  /\ isotp = IsoTp!EmptyTable
  /\ isotp_index = [p \in IsoTp!Pcb |-> 0]
  /\ isotp_rx = [p \in IsoTp!Pcb |-> None]
  /\ bound = [raw |-> [p \in Raw!Pcb |-> None],
              isotp |-> [p \in IsoTp!Pcb |-> None]]
  /\ waiting = NULL
  /\ with_driver = FALSE
  /\ sent = {}
  /\ misuse = "none"
-----------------------------------------------------------------------------
(* The interfaces.  What was bound to one that left the list is bound to    *)
(* none, until the application binds it again.                             *)

ReleasedFrom(lost) ==
  bound' = [kind \in DOMAIN bound |-> [p \in DOMAIN bound[kind] |->
              IF bound[kind][p] \in lost THEN None ELSE bound[kind][p]]]

AddInterface(canif) ==
  /\ canif_add(canif)
  /\ UNCHANGED <<bound, connections, sending, misuse>>

AddAgain(canif) ==
  /\ \/ canif_add_again(canif) /\ UNCHANGED misuse
     \/ canif_add_again_failed(canif) /\ misuse' = "init"
  /\ ReleasedFrom({canif_list[i].canif : i \in Position(canif)..Len(canif_list)})
  /\ UNCHANGED <<connections, sending>>

RemoveInterface(canif) ==
  /\ canif_remove(canif)
  /\ ReleasedFrom({canif})
  /\ UNCHANGED <<connections, sending, misuse>>
-----------------------------------------------------------------------------
(* The connections.                                                        *)

canraw_new ==
  /\ Raw!CanAdd(raw)
  /\ raw' = Raw!Added(raw)
  /\ UNCHANGED <<interfaces, raw_index, isotp, isotp_index, isotp_rx, bound,
                 sending, misuse>>

canraw_bind(p, canif) ==
  /\ p \in raw.used
  /\ canif \in Listed
  /\ raw_index' = [raw_index EXCEPT ![p] = canif_get_index(canif)]
  /\ bound' = [bound EXCEPT !.raw[p] = canif]
  /\ UNCHANGED <<interfaces, raw, isotp, isotp_index, isotp_rx, sending,
                 misuse>>

canraw_remove(p) ==
  /\ p \in raw.used
  /\ raw' = Raw!Removed(raw, p)
  /\ raw_index' = [raw_index EXCEPT ![p] = 0]
  /\ bound' = [bound EXCEPT !.raw[p] = None]
  /\ UNCHANGED <<interfaces, isotp, isotp_index, isotp_rx, sending, misuse>>

isotp_new ==
  /\ IsoTp!CanAdd(isotp)
  /\ isotp' = IsoTp!Added(isotp)
  /\ UNCHANGED <<interfaces, raw, raw_index, isotp_index, isotp_rx, bound,
                 sending, misuse>>

isotp_bind(p, canif, id) ==
  /\ p \in isotp.used
  /\ canif \in Listed
  /\ isotp_index' = [isotp_index EXCEPT ![p] = canif_get_index(canif)]
  /\ isotp_rx' = [isotp_rx EXCEPT ![p] = id]
  /\ bound' = [bound EXCEPT !.isotp[p] = canif]
  /\ UNCHANGED <<interfaces, raw, raw_index, isotp, sending, misuse>>

isotp_remove(p) ==
  /\ p \in isotp.used
  /\ isotp' = IsoTp!Removed(isotp, p)
  /\ isotp_index' = [isotp_index EXCEPT ![p] = 0]
  /\ isotp_rx' = [isotp_rx EXCEPT ![p] = None]
  /\ bound' = [bound EXCEPT !.isotp[p] = None]
  /\ UNCHANGED <<interfaces, raw, raw_index, sending, misuse>>
-----------------------------------------------------------------------------
(* canif_input(canif, frame).                                              *)

(* Mutant: the interface of the frame is not looked at.                    *)
isotp_input_any(canif, id) ==
  IsoTp!FirstOf(isotp, {p \in isotp.used : isotp_rx[p] = id})

(* The connection isotp_input gives a frame with identifier id to.          *)
isotp_input(canif, id) ==
  IsoTp!FirstOf(isotp, {p \in isotp.used : /\ isotp_index[p] = canif_get_index(canif)
                                           /\ isotp_rx[p] = id})

(* The connection whose callback canraw_input calls: no other is offered    *)
(* the frame, whatever the callback returns.                               *)
RawReceiver(canif) ==
  Raw!FirstOf(raw, {p \in raw.used : raw_index[p] = canif_get_index(canif)})

(* What a callback may leave of the table.  The connection whose canraw_send*)
(* waits is not removed under it.                                          *)
AfterCallback ==
  {[table |-> raw, removed |-> {}]}
    \cup {[table |-> Raw!Added(raw), removed |-> {}]
            : table \in IF Raw!CanAdd(raw) THEN {raw} ELSE {}}
    \cup {[table |-> Raw!Removed(raw, p), removed |-> {p}]
            : p \in raw.used \ {waiting}}

Forgotten(removed) ==
  /\ raw_index' = [p \in Raw!Pcb |-> IF p \in removed THEN 0 ELSE raw_index[p]]
  /\ bound' = [bound EXCEPT !.raw = [p \in Raw!Pcb |->
                 IF p \in removed THEN None ELSE bound.raw[p]]]

(* Mutant: the connection keeps its link to the one behind it.             *)
MovedToFrontLinked(table, previous, p) ==
  IF previous = NULL THEN table
  ELSE [table EXCEPT !.next[p] = table.list, !.list = p]

(* The connection that ate the frame goes to the front, with the pointers   *)
(* canraw_input took before the callback.                                  *)
MovedToFront(table, previous, p) ==
  IF previous = NULL THEN table
  ELSE [table EXCEPT !.next = [@ EXCEPT ![previous] = table.next[p],
                                        ![p] = table.list],
                     !.list = p]

(* The callback returned 0, or there is none: the frame goes on to          *)
(* isotp_input.                                                            *)
canraw_input_none(canif) ==
  /\ canif \in Listed
  /\ RawReceiver(canif) # NULL
  /\ \E after \in AfterCallback :
       /\ raw' = after.table
       /\ Forgotten(after.removed)
  /\ UNCHANGED <<interfaces, isotp, isotp_index, isotp_rx, sending, misuse>>

canraw_input_eaten(canif) ==
  LET p == RawReceiver(canif)
      previous == Raw!Previous(raw, p)
  IN
  /\ canif \in Listed
  /\ p # NULL
  /\ \E after \in AfterCallback :
       /\ raw' = MovedToFront(after.table, previous, p)
       /\ Forgotten(after.removed)
       /\ misuse' = IF previous # NULL /\ after.removed \cap {p, previous} # {}
                    THEN "callback" ELSE misuse
  /\ UNCHANGED <<interfaces, isotp, isotp_index, isotp_rx, sending>>
-----------------------------------------------------------------------------
(* canraw_send without a callback of its own.                              *)

(* canif->output accepts the frame.                                        *)
canraw_send(p) ==
  /\ p \in raw.used
  /\ raw_index[p] # 0
  /\ canif_get_by_index(raw_index[p]) # None
  /\ waiting' = p
  /\ with_driver' = TRUE
  /\ UNCHANGED <<interfaces, connections, bound, sent, misuse>>

(* Mutant: the flag of the first connection is set.                        *)
SentMarkedFirst == sent \cup {raw.list}

SentMarked == sent \cup {waiting}

(* The driver has sent the frame or given it up.                           *)
raw_sent ==
  /\ with_driver
  /\ with_driver' = FALSE
  /\ sent' = SentMarked
  /\ UNCHANGED <<interfaces, connections, bound, waiting, misuse>>

(* Mutant: the flag is left for the next call.                             *)
SentClearedNever == sent

SentCleared == sent \ {waiting}

canraw_send_returns ==
  /\ waiting \in sent
  /\ waiting' = NULL
  /\ sent' = SentCleared
  /\ UNCHANGED <<interfaces, connections, bound, with_driver, misuse>>
-----------------------------------------------------------------------------
(* The calls of the application's thread.                                  *)
Application ==
  \/ \E c \in Interface : AddInterface(c)
  \/ \E c \in Interface : AddAgain(c)
  \/ \E c \in Interface : RemoveInterface(c)
  \/ canraw_new
  \/ \E p \in Raw!Pcb, c \in Interface : canraw_bind(p, c)
  \/ \E p \in Raw!Pcb : canraw_remove(p)
  \/ isotp_new
  \/ \E p \in IsoTp!Pcb, c \in Interface, id \in CanId : isotp_bind(p, c, id)
  \/ \E p \in IsoTp!Pcb : isotp_remove(p)
  \/ \E p \in Raw!Pcb : canraw_send(p)

Driver ==
  \/ \E c \in Interface : canraw_input_none(c)
  \/ \E c \in Interface : canraw_input_eaten(c)
  \/ raw_sent

(* What follows a misuse is not modelled.                                  *)
Misused == misuse # "none" /\ UNCHANGED vars

Step ==
  /\ misuse = "none"
  /\ \/ waiting = NULL /\ Application
     \/ Driver
     \/ canraw_send_returns

Next == Step \/ Misused

Spec == Init /\ [][Next]_vars

(* A driver confirms each frame it accepted, sent or not, and the thread    *)
(* that waits runs again.                                                  *)
FairSpec ==
  /\ Spec
  /\ WF_vars(misuse = "none" /\ raw_sent)
  /\ WF_vars(misuse = "none" /\ canraw_send_returns)
-----------------------------------------------------------------------------
(* Properties.                                                             *)

(* Every variable keeps its type; the uint8_t numbers of interfaces never   *)
(* leave their range.                                                      *)
TypeOK ==
  /\ canif_list \in Seq(Numbered)
  /\ canif_num \in 0..(MAX_CANIF_NUM - 1)
  /\ raw \in Raw!Table
  /\ raw_index \in [Raw!Pcb -> Index]
  /\ isotp \in IsoTp!Table
  /\ isotp_index \in [IsoTp!Pcb -> Index]
  /\ isotp_rx \in [IsoTp!Pcb -> CanId \cup {None}]
  /\ bound \in [raw : [Raw!Pcb -> Interface \cup {None}],
                isotp : [IsoTp!Pcb -> Interface \cup {None}]]
  /\ waiting \in Raw!Pcb \cup {NULL}
  /\ with_driver \in BOOLEAN
  /\ sent \subseteq Raw!Pcb
  /\ misuse \in {"none", "callback", "init"}

(* No two interfaces of the list have the same number, when the numbers     *)
(* have wrapped and when interfaces were added twice (canif.c:74-104).      *)
NumbersUnique ==
  misuse # "init" =>
    \A i, j \in DOMAIN canif_list :
      i # j => /\ canif_list[i].num # canif_list[j].num
               /\ canif_list[i].canif # canif_list[j].canif

(* A connection reaches the interface it was bound to for as long as that   *)
(* was neither removed nor added again, it or one in front of it: no other  *)
(* interface takes its index (canif.c:251).                                *)
BoundReached ==
  /\ \A p \in raw.used :
       bound.raw[p] # None =>
         canif_get_by_index(raw_index[p]) = bound.raw[p]
  /\ \A p \in isotp.used :
       bound.isotp[p] # None =>
         canif_get_by_index(isotp_index[p]) = bound.isotp[p]

(* A frame goes to a connection bound to the interface it came in on; only  *)
(* one whose own interface left the list may be called for another's        *)
(* (raw.c:186, isotp_in.c:393).                                            *)
FramesRouted ==
  misuse = "none" =>
    \A c \in Listed :
      /\ LET p == RawReceiver(c) IN
         IF p = NULL THEN \A q \in raw.used : bound.raw[q] # c
                     ELSE p \in raw.used /\ bound.raw[p] \in {c, None}
      /\ \A id \in CanId :
           LET p == isotp_input(c, id) IN
           IF p = NULL
           THEN \A q \in isotp.used : ~(bound.isotp[q] = c /\ isotp_rx[q] = id)
           ELSE /\ p \in isotp.used /\ isotp_rx[p] = id
                /\ bound.isotp[p] \in {c, None}

(* Both lists end and hold just the connections that were created and not   *)
(* removed, and the raw one does until a callback that eats a frame has     *)
(* removed its own connection, or the one in front of it, further down the  *)
(* list: canraw_input then links what was freed (raw.c:201-209).            *)
ListsIntact ==
  /\ IsoTp!Intact(isotp)
  /\ Raw!Intact(raw) <=> misuse # "callback"

(* The sent flag of a connection is only set while its canraw_send waits    *)
(* and the driver is done with its frame: the call never returns for the    *)
(* frame before (raw.c:268-274).                                           *)
ReturnsConfirmed == \A p \in sent : p = waiting /\ ~with_driver

(* canraw_send returns, whatever the interrupts do meanwhile (raw.c:268).   *)
SendReturns == waiting # NULL ~> (waiting = NULL \/ misuse # "none")
=============================================================================
