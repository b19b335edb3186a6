------------------------------- MODULE MCHeap -------------------------------
(* A small heap for TLC: thirteen times eight bytes at an address that      *)
(* is not aligned, headers of eight bytes (32-bit pointers).               *)
EXTENDS Heap

(* Requests of no bytes, of one, of a whole block and of more than a block, *)
(* of more than the heap, and with the top bit set.                        *)
SomeRequests == {0, 1, 8, 21, 120, 140}

OneOrTwo == 1..2
=============================================================================
