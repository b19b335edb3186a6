-------------------------------- MODULE Heap --------------------------------
(***************************************************************************)
(* The heap of lwcan (memory.c) and the buffers allocated from it           *)
(* (buffer.c).  Blocks of the heap begin with a header: its size, and for a *)
(* free block the next free one in the order of addresses.  lwcan_malloc    *)
(* takes the first free block that is large enough and splits it,           *)
(* lwcan_free merges the block with its free neighbours.                   *)
(*                                                                         *)
(* A heap is a record: block, the headers by their address, xStart and pxEnd*)
(* among them, and xFreeBytesRemaining.  A header that was merged into the  *)
(* block before it is payload and no longer there.  An allocated block has  *)
(* next = NULL and allocated TRUE, for the top bit of xBlockSize.           *)
(***************************************************************************)
EXTENDS Integers, FiniteSets, FiniteSetsExt, Functions

CONSTANTS
  LWCAN_MEM_SIZE,         \* bytes of memory_heap
  HeapAddress,            \* &memory_heap[0], of any alignment
  MEMORY_BYTE_ALIGNMENT,  \* 8 in the code
  LinkSize,               \* sizeof(BlockLink_t)
  BufferSize,             \* sizeof(struct lwcan_buffer)
  SizeRange,              \* how many values a size_t has
  CallocRange,            \* 2^32: how many values a uint32_t has
  Requests,               \* sizes that callers ask for
  Numbers                 \* of elements that callers of lwcan_calloc ask for

ASSUME HeapAssumption ==
  /\ {LWCAN_MEM_SIZE, HeapAddress, MEMORY_BYTE_ALIGNMENT, LinkSize, BufferSize}
       \subseteq Nat \ {0}
  /\ SizeRange \in Nat /\ SizeRange % 2 = 0
  /\ CallocRange \in Nat \ {0}
  /\ Requests \subseteq 0..(SizeRange - 1)
  /\ Numbers \subseteq Nat

Aligned(n) == n - (n % MEMORY_BYTE_ALIGNMENT)
AlignedUp(n) == Aligned(n + MEMORY_BYTE_ALIGNMENT - 1)

xHeapStructSize == AlignedUp(LinkSize)
MEMORY_HEAP_MINIMUM_BLOCK_SIZE == 2 * xHeapStructSize
xBlockAllocatedBit == SizeRange \div 2

NULL   == -1
xStart == 0   \* a variable outside memory_heap, like any address below it

pucAlignedHeap == AlignedUp(HeapAddress)
pxEnd == Aligned(HeapAddress + LWCAN_MEM_SIZE - xHeapStructSize)

(* There is room for a block, and a size_t counts the bytes of the heap and *)
(* the bit that marks a block as allocated.                                *)
ASSUME HeapFits == pucAlignedHeap < pxEnd /\ LWCAN_MEM_SIZE < xBlockAllocatedBit

Free(size, next) == [size |-> size, next |-> next, allocated |-> FALSE]

(* prvHeapInit, which the first lwcan_malloc calls.                        *)
prvHeapInit ==
  LET size == pxEnd - pucAlignedHeap IN
  [block |-> [a \in {xStart, pucAlignedHeap, pxEnd} |->
                CASE a = xStart -> Free(0, pucAlignedHeap)
                  [] a = pucAlignedHeap -> Free(size, pxEnd)
                  [] a = pxEnd -> Free(0, NULL)],
   xFreeBytesRemaining |-> size]

VARIABLES
  heap,     \* the headers and xFreeBytesRemaining
  regions,  \* what callers of lwcan_malloc have: records [ptr, size]
  buffers   \* struct lwcan_buffer in use: pairs of regions

vars == <<heap, regions, buffers>>
-----------------------------------------------------------------------------
(* The list of free blocks.                                                *)

(* xStart and the free blocks: what leads to another one.                   *)
Links(block) == {a \in DOMAIN block : block[a].next # NULL}

(* The last link of the list, from xStart on, whose next is not below a:    *)
(* where a block at a is inserted.                                         *)
Before(block, a) ==
  LET walk[i \in Links(block)] ==
        IF block[i].next < a THEN walk[block[i].next] ELSE i
  IN walk[xStart]

(* Mutant: a block is only merged with the one behind it.                  *)
MergedBeforeNever(block, a) == [block |-> block, at |-> a]

(* The block at a joins the free block it lies directly behind.            *)
MergedBefore(block, a) ==
  LET i == Before(block, a) IN
  IF i + block[i].size = a
  THEN [block |-> [Restrict(block, DOMAIN block \ {a}) EXCEPT
                     ![i].size = @ + block[a].size], at |-> i]
  ELSE [block |-> block, at |-> a]

(* Mutant: it joins the free block behind, and links to it nevertheless.    *)
MergedAfterLinked(block, a, next) ==
  IF a + block[a].size = next /\ next # pxEnd
  THEN [Restrict(block, DOMAIN block \ {next}) EXCEPT
          ![a].size = @ + block[next].size, ![a].next = next]
  ELSE [block EXCEPT ![a].next = next]

(* It joins the free block it lies directly in front of, or links to it.   *)
MergedAfter(block, a, next) ==
  IF a + block[a].size = next /\ next # pxEnd
  THEN [Restrict(block, DOMAIN block \ {next}) EXCEPT
          ![a].size = @ + block[next].size, ![a].next = block[next].next]
  ELSE [block EXCEPT ![a].next = next]

prvInsertBlockIntoFreeList(block, a) ==
  LET i      == Before(block, a)
      merged == MergedBefore(block, a)
      linked == MergedAfter(merged.block, merged.at, block[i].next)
  IN IF i = merged.at THEN linked ELSE [linked EXCEPT ![i].next = merged.at]
-----------------------------------------------------------------------------
(* lwcan_malloc, lwcan_calloc and lwcan_free as functions of the heap.      *)

(* Mutant: the size is not rounded up.                                     *)
BlockSizeUnaligned(size) == IF size = 0 THEN 0 ELSE size + xHeapStructSize

(* The size of the block for a request, 0 when there can be none.           *)
BlockSize(size) == IF size = 0 THEN 0 ELSE AlignedUp(size + xHeapStructSize)

(* Mutant: a block that has room for the payload is taken, whether its      *)
(* header fits or not.                                                     *)
FirstFitHeaderless(block, size) ==
  LET walk[p \in Links(block)] ==
        LET b == block[p].next IN
        IF /\ block[b].size < size - xHeapStructSize
           /\ block[b].next # NULL
        THEN walk[b] ELSE p
  IN walk[xStart]

(* The link of the free list that points to the first block of that size,   *)
(* or to pxEnd.                                                            *)
FirstFit(block, size) ==
  LET walk[p \in Links(block)] ==
        LET b == block[p].next IN
        IF block[b].size < size /\ block[b].next # NULL THEN walk[b] ELSE p
  IN walk[xStart]

(* Mutant: the rest is cut off but the block keeps its size.               *)
SplitOverlapping(h, b, size) ==
  LET rest == h.block[b].size - size IN
  IF rest > MEMORY_HEAP_MINIMUM_BLOCK_SIZE
  THEN [h EXCEPT !.block = prvInsertBlockIntoFreeList(
                   [a \in DOMAIN h.block \cup {b + size} |->
                      IF a = b + size THEN Free(rest, NULL)
                      ELSE h.block[a]], b + size)]
  ELSE h

(* The block at b, no longer in the list, keeps size bytes if the rest is   *)
(* large enough to be a free block.                                        *)
Split(h, b, size) ==
  LET rest == h.block[b].size - size IN
  IF rest > MEMORY_HEAP_MINIMUM_BLOCK_SIZE
  THEN [h EXCEPT !.block = prvInsertBlockIntoFreeList(
                   [a \in DOMAIN h.block \cup {b + size} |->
                      IF a = b + size THEN Free(rest, NULL)
                      ELSE IF a = b THEN [h.block[b] EXCEPT !.size = size]
                      ELSE h.block[a]], b + size)]
  ELSE h

(* The block that previous links to leaves the list and is allocated.        *)
Take(h, previous, size) ==
  LET b     == h.block[previous].next
      split == Split([h EXCEPT !.block[previous].next = h.block[b].next], b, size)
  IN [split EXCEPT !.xFreeBytesRemaining = @ - split.block[b].size,
                   !.block[b].next = NULL,
                   !.block[b].allocated = TRUE]

(* What lwcan_malloc(size) makes of heap h, and what it returns.           *)
lwcan_malloc(h, size) ==
  LET wanted   == BlockSize(size)
      previous == FirstFit(h.block, wanted)
      b        == h.block[previous].next
  IN IF \/ size >= xBlockAllocatedBit
        \/ wanted = 0 \/ wanted > h.xFreeBytesRemaining
        \/ b = pxEnd
     THEN [heap |-> h, ptr |-> NULL]
     ELSE [heap |-> Take(h, previous, wanted), ptr |-> b + xHeapStructSize]

(* lwcan_free of NULL does nothing.                                        *)
lwcan_free(h, ptr) ==
  LET b == ptr - xHeapStructSize IN
  IF ptr = NULL THEN h
  ELSE [block |-> prvInsertBlockIntoFreeList(
                    [h.block EXCEPT ![b].allocated = FALSE], b),
        xFreeBytesRemaining |-> h.xFreeBytesRemaining + h.block[b].size]

(* lwcan_calloc: the product is kept in a uint32_t.                        *)
lwcan_calloc(h, number, size) == lwcan_malloc(h, (number * size) % CallocRange)

(* Mutant: the structure is kept when there is no memory for its payload.   *)
BufferKept(h, header) == h

(* lwcan_buffer_new when there is no memory for the payload.               *)
BufferGivenUp(h, header) == lwcan_free(h, header)

lwcan_buffer_delete(h, buffer) ==
  lwcan_free(lwcan_free(h, buffer.payload), buffer.header)
-----------------------------------------------------------------------------
(* The callers.                                                            *)

Init ==
  /\ heap = prvHeapInit
  /\ regions = {}
  /\ buffers = {}

(* lwcan_malloc for a caller.  One that returns NULL changes nothing.       *)
Malloc(size) ==
  LET got == lwcan_malloc(heap, size) IN
  /\ got.ptr # NULL
  /\ heap' = got.heap
  /\ regions' = regions \cup {[ptr |-> got.ptr, size |-> size]}
  /\ UNCHANGED buffers

(* A product of more than 32 bits would get a block for what is left of it. *)
Calloc(number, size) ==
  LET got == lwcan_calloc(heap, number, size) IN
  /\ number * size < CallocRange
  /\ got.ptr # NULL
  /\ heap' = got.heap
  /\ regions' = regions \cup {[ptr |-> got.ptr, size |-> number * size]}
  /\ UNCHANGED buffers

Release(region) ==
  /\ heap' = lwcan_free(heap, region.ptr)
  /\ regions' = regions \ {region}
  /\ UNCHANGED buffers

(* lwcan_buffer_new: the structure, then the payload; all or nothing.       *)
lwcan_buffer_new(length) ==
  LET header  == lwcan_malloc(heap, BufferSize)
      payload == lwcan_malloc(header.heap, length)
  IN
  /\ length # 0
  /\ header.ptr # NULL
  /\ IF payload.ptr = NULL
     THEN /\ heap' = BufferGivenUp(payload.heap, header.ptr)
          /\ UNCHANGED buffers
     ELSE /\ heap' = payload.heap
          /\ buffers' = buffers \cup {[header |-> header.ptr,
                                      payload |-> payload.ptr,
                                      length |-> length]}
  /\ UNCHANGED regions

DeleteBuffer(buffer) ==
  /\ heap' = lwcan_buffer_delete(heap, buffer)
  /\ buffers' = buffers \ {buffer}
  /\ UNCHANGED regions

Next ==
  \/ \E size \in Requests : Malloc(size)
  \/ \E number \in Numbers, size \in Requests : Calloc(number, size)
  \/ \E region \in regions : Release(region)
  \/ \E length \in Requests : lwcan_buffer_new(length)
  \/ \E buffer \in buffers : DeleteBuffer(buffer)

Spec == Init /\ [][Next]_vars
-----------------------------------------------------------------------------
(* Properties.                                                             *)

Address == HeapAddress..(HeapAddress + LWCAN_MEM_SIZE - 1)
Blocks  == DOMAIN heap.block \ {xStart, pxEnd}
FreeBlocks == {a \in Blocks : ~heap.block[a].allocated}
Allocated  == Blocks \ FreeBlocks

(* Every pointer that was handed out.                                      *)
InUse ==
  regions
    \cup {[ptr |-> b.header, size |-> BufferSize] : b \in buffers}
    \cup {[ptr |-> b.payload, size |-> b.length] : b \in buffers}

(* Headers are aligned and inside the heap, and links lead to headers.      *)
TypeOK ==
  /\ \A a \in Blocks : a % MEMORY_BYTE_ALIGNMENT = 0 /\ a \in Address
  /\ \A a \in DOMAIN heap.block :
       /\ heap.block[a].size \in 0..LWCAN_MEM_SIZE
       /\ heap.block[a].next \in DOMAIN heap.block \cup {NULL}
       /\ heap.block[a].allocated \in BOOLEAN
  /\ heap.xFreeBytesRemaining \in 0..LWCAN_MEM_SIZE
  /\ \A region \in InUse : region.ptr \in Address

(* The blocks cover the heap from its first aligned byte to pxEnd without   *)
(* gap or overlap, whatever was split and merged, and what a caller asked   *)
(* for ends inside its block: nobody writes over a header (memory.c:136,    *)
(* 306, 316).                                                              *)
BlocksTile ==
  /\ pucAlignedHeap \in Blocks
  /\ \A a \in Blocks :
       LET end == a + heap.block[a].size IN
       /\ end \in Blocks \cup {pxEnd}
       /\ \A b \in Blocks : ~(a < b /\ b < end)
  /\ \A region \in InUse :
       LET b == region.ptr - xHeapStructSize IN
       region.ptr + region.size <= b + heap.block[b].size

(* The list of free blocks holds each of them once, by address, and their   *)
(* bytes are what xFreeBytesRemaining counts: an insertion that links wrong *)
(* loses memory for good or makes the list circular (memory.c:290).        *)
FreeListInOrder ==
  /\ \A a \in FreeBlocks \cup {xStart} :
       heap.block[a].next = Min({b \in FreeBlocks \cup {pxEnd} : b > a})
  /\ heap.xFreeBytesRemaining = MapThenSumSet(LAMBDA a : heap.block[a].size, FreeBlocks)

(* The allocated blocks are those somebody has a pointer to: a buffer that  *)
(* could only be half allocated leaves nothing behind (buffer.c:31).       *)
NothingLeaked ==
  Allocated = {region.ptr - xHeapStructSize : region \in InUse}

(* A request is refused only when no stretch between allocated blocks is    *)
(* long enough: blocks freed in any order are one stretch again            *)
(* (memory.c:302-332).                                                     *)
RoomIsFound ==
  \A size \in Requests :
    (\E a \in Blocks :
        /\ BlockSize(size) \in 1..(pxEnd - a)
        /\ \A b \in Allocated :
             b + heap.block[b].size <= a \/ a + BlockSize(size) <= b)
    => lwcan_malloc(heap, size).ptr # NULL

(* Every allocation, with the header in front of it, is aligned, inside     *)
(* memory_heap, as long as it was asked for, apart from all others, and     *)
(* stays so until it is freed.                                             *)
Promise == INSTANCE Allocator WITH
             regions <- {[ptr |-> region.ptr - xHeapStructSize,
                          size |-> region.size + xHeapStructSize]
                           : region \in InUse},
             Align <- MEMORY_BYTE_ALIGNMENT,
             Sizes <- 1..LWCAN_MEM_SIZE

AllocatorSafe == Promise!Spec
=============================================================================
