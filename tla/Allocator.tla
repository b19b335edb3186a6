----------------------------- MODULE Allocator -----------------------------
(***************************************************************************)
(* What the connections expect of the heap: lwcan_malloc gives them bytes   *)
(* nobody else has, and those stay theirs until they call lwcan_free.       *)
(***************************************************************************)
EXTENDS Naturals

CONSTANTS
  Address,  \* the bytes of the heap
  Sizes,    \* what is asked for
  Align     \* what the address of an allocation is a multiple of

VARIABLE regions  \* the allocations in use

Region == [ptr : Address, size : Sizes]

Bytes(region) == region.ptr..(region.ptr + region.size - 1)

Init == regions = {}

(* The structure of a buffer and its payload are allocated together.       *)
Allocate ==
  /\ regions \subseteq regions'
  /\ \A region \in regions' \ regions :
       /\ region \in Region
       /\ region.ptr % Align = 0
       /\ Bytes(region) \subseteq Address
       /\ \A other \in regions' \ {region} :
            Bytes(region) \cap Bytes(other) = {}

Release == regions' \subseteq regions

Next == Allocate \/ Release

Spec == Init /\ [][Next]_regions
=============================================================================
