------------------------------- MODULE Canif -------------------------------
(***************************************************************************)
(* The interfaces of lwcan (canif.c): a list of the interfaces that were    *)
(* added and the number each got, which plus one is the index connections   *)
(* are bound to.  An interface is a variable of its driver; what it holds   *)
(* while it is not in the list is cleared when it is added.                *)
(***************************************************************************)
EXTENDS Integers, Sequences, FiniteSetsExt, SequencesExt

CONSTANTS
  Interface,      \* the interfaces there are
  MAX_CANIF_NUM,  \* 254 in the code
  None            \* no interface

ASSUME CanifAssumption ==
  /\ MAX_CANIF_NUM \in 1..254
  /\ None \notin Interface

VARIABLES
  canif_list,  \* sequence of records [canif, num]
  canif_num    \* the number the next interface gets if it is free

Numbered == [canif : Interface, num : 0..(MAX_CANIF_NUM - 1)]

Listed == {canif_list[i].canif : i \in DOMAIN canif_list}

Position(canif) ==
  CHOOSE i \in DOMAIN canif_list : canif_list[i].canif = canif

canif_get_index(canif) == canif_list[Position(canif)].num + 1

(* The first interface of the list with that index.                        *)
canif_get_by_index(index) ==
  LET with == {i \in DOMAIN canif_list : canif_list[i].num + 1 = index}
  IN IF with = {} THEN None ELSE canif_list[Min(with)].canif

(* Mutants: a number in use is not passed over; the last is not followed by *)
(* the first.                                                              *)
FirstFreeTaken(list) == canif_num

FirstFreeUnwrapped(list) ==
  canif_num + Min({i \in 0..MAX_CANIF_NUM :
                     \A j \in DOMAIN list : list[j].num # canif_num + i})

(* The loop of canif_add: the numbers from canif_num on, after the last     *)
(* from 0, up to the first that no interface of the list has.              *)
FirstFree(list) ==
  LET free == {i \in 0..(MAX_CANIF_NUM - 1) :
                 \A j \in DOMAIN list :
                   list[j].num # (canif_num + i) % MAX_CANIF_NUM}
  IN (canif_num + Min(free)) % MAX_CANIF_NUM

Cut(canif) == SubSeq(canif_list, 1, Position(canif) - 1)

(* canif_add of an interface that is not in the list: refused when there    *)
(* are no more numbers.                                                    *)
canif_add(canif) ==
  /\ canif \notin Listed
  /\ Len(canif_list) < MAX_CANIF_NUM
  /\ LET num == FirstFree(canif_list) IN
       /\ canif_list' = <<[canif |-> canif, num |-> num]>> \o canif_list
       /\ canif_num' = IF num = MAX_CANIF_NUM - 1 THEN 0 ELSE num + 1

(* canif_add of one that is: it is refused, but memset has already cleared  *)
(* its next, and it has been numbered again among those before it.         *)
canif_add_again(canif) ==
  /\ canif \in Listed
  /\ canif_list' = Append(Cut(canif), [canif |-> canif,
                                       num |-> FirstFree(Cut(canif))])
  /\ UNCHANGED canif_num

(* The same when init fails: it returns before the numbers are compared.    *)
canif_add_again_failed(canif) ==
  /\ canif \in Listed
  /\ canif_list' = Append(Cut(canif), [canif |-> canif, num |-> canif_num])
  /\ UNCHANGED canif_num

(* Mutant: the interfaces behind it are lost.                              *)
UnlinkedWithRest(canif) == Cut(canif)

Unlinked(canif) == RemoveAt(canif_list, Position(canif))

canif_remove(canif) ==
  /\ canif \in Listed
  /\ canif_list' = Unlinked(canif)
  /\ UNCHANGED canif_num
=============================================================================
