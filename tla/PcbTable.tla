------------------------------ MODULE PcbTable ------------------------------
(***************************************************************************)
(* The table of connections that isotp.c and raw.c each keep, in the same   *)
(* way: a pool of MaxPcbNum chunks with a service byte each, a linked list  *)
(* of those in use and their number.  A connection is the index of its      *)
(* chunk.  A table is a record and an operation a function of it, because   *)
(* callbacks of raw connections call them in the middle of canraw_input.    *)
(***************************************************************************)
EXTENDS Integers, FiniteSets, FiniteSetsExt

CONSTANTS
  MaxPcbNum,  \* ISOTP_MAX_PCB_NUM, CANRAW_MAX_PCB_NUM
  ChunkSize   \* sizeof(struct isotp_pcb), sizeof(struct canraw_pcb)

Pcb  == 0..(MaxPcbNum - 1)
NULL == -1

Table == [list : Pcb \cup {NULL}, next : [Pcb -> Pcb \cup {NULL}],
          used : SUBSET Pcb, num : 0..MaxPcbNum]

(* isotp_init, canraw_init.                                                *)
EmptyTable ==
  [list |-> NULL, next |-> [p \in Pcb |-> NULL], used |-> {}, num |-> 0]

(* A walk of the list: the connection after i steps, NULL behind the end.   *)
Walk(t) ==
  LET at[i \in 0..MaxPcbNum] ==
        IF i = 0 THEN t.list
        ELSE IF at[i - 1] = NULL THEN NULL ELSE t.next[at[i - 1]]
  IN at

(* The connections met on it.  The walk need not end.                      *)
Linked(t) == {Walk(t)[i] : i \in 0..MaxPcbNum} \ {NULL}

(* The list ends, and holds the chunks that are marked as used.            *)
Intact(t) ==
  /\ Linked(t) = t.used
  /\ t.num = Cardinality(t.used)
  /\ t.used # {} => \E p \in t.used : t.next[p] = NULL

(* The connection before p, NULL when p is the first.                      *)
Previous(t, p) ==
  IF t.list = p THEN NULL ELSE CHOOSE q \in Linked(t) : t.next[q] = p

(* The first connection of the list that is one of matching, or NULL.       *)
FirstOf(t, matching) ==
  LET met == {i \in 0..MaxPcbNum : Walk(t)[i] \in matching}
  IN IF met = {} THEN NULL ELSE Walk(t)[Min(met)]

(* isotp_new, canraw_new: the first free chunk, at the front of the list.   *)
CanAdd(t) == t.num < MaxPcbNum /\ Pcb \ t.used # {}

NewPcb(t) == Min(Pcb \ t.used)

Added(t) ==
  [list |-> NewPcb(t), next |-> [t.next EXCEPT ![NewPcb(t)] = t.list],
   used |-> t.used \cup {NewPcb(t)}, num |-> t.num + 1]

(* isotp_pcb_free, canraw_pcb_free: the offset is kept in a uint8_t.        *)
Freed(t, p) ==
  LET addr == (p * ChunkSize) % 256 IN
  IF addr % ChunkSize # 0 THEN t.used ELSE t.used \ {addr \div ChunkSize}

(* isotp_remove, canraw_remove.  One that is not in the list is left alone. *)
Removed(t, p) ==
  IF p \notin Linked(t) THEN t
  ELSE [t EXCEPT !.list = IF @ = p THEN t.next[p] ELSE @,
                 !.next = [q \in Pcb |-> IF q = Previous(t, p)
                                         THEN t.next[p] ELSE t.next[q]],
                 !.used = Freed(t, p),
                 !.num = @ - 1]
=============================================================================
