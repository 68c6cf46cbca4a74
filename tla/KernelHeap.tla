----------------------------- MODULE KernelHeap -----------------------------
(***************************************************************************)
(* The guest's memory: Implementation::allocate_heap, free_heap and        *)
(* allocate_stack, and the kernel calls that use them.  The heap grows up  *)
(* from the image, stacks grow down from the initial thread's stack, freed *)
(* heap blocks are reused first fit.  Every call runs under objects_mutex, *)
(* so that calls are atomic.                                               *)
(*                                                                         *)
(* Sizes and addresses are scaled down; the arithmetic is that of unsigned *)
(* integers below Word.                                                    *)
(***************************************************************************)
EXTENDS MemoryBlocks

CONSTANTS
    MemoryBase,     \* memory_base
    UserStart,      \* user_memory_start, relative to the base
    ImageStart,     \* image_start, relative to the base
    ImageSize,      \* image_size, relative to the base
    StackTop,       \* memory_size - initial_thread_stack_size
    Coarse,         \* default alignment of allocate_heap and allocate_stack
    Fine,           \* alignment of variable pools
    MinStack,       \* smallest stack of a thread
    TlsSize,        \* thread-local storage of a thread
    CallbackStack,  \* callback_stack_size
    Sizes,          \* sizes guests ask for
    StackSizes,     \* stack sizes guests ask for
    Counts,         \* block counts of fixed pools
    MaxObjects      \* bound: objects at any time

HeapAssumption ==
    /\ {Coarse, Fine} \subseteq Nat \ {0} /\ Coarse % Fine = 0
    /\ MemoryBase \in Nat \ {0} /\ MemoryBase % Coarse = 0
    /\ UserStart \in Nat /\ ImageStart <= ImageSize /\ ImageSize <= StackTop
    /\ MemoryBase + StackTop + Coarse < Word
    /\ Sizes \cup StackSizes \subseteq 0..(Word - 1) /\ Counts \subseteq Nat

VARIABLES
    freeBlocks,     \* free_heap_blocks
    heapCursor,     \* heap_cursor
    stackCursor,    \* stack_cursor
    objects         \* memory_blocks, threads, pools and callbacks in progress,
                    \* each as the memory it was given

vars == <<freeBlocks, heapCursor, stackCursor, objects>>

Init ==
    /\ freeBlocks = IF ImageStart > UserStart
                      THEN <<Block(MemoryBase + UserStart, ImageStart - UserStart)>>
                      ELSE <<>>
    /\ heapCursor = AlignUp(ImageSize, Coarse)
    /\ stackCursor = StackTop
    /\ objects = {}

-----------------------------------------------------------------------------
(* The allocator.  A heap is a record of its free blocks and its cursor.   *)

Heap == [free |-> freeBlocks, cursor |-> heapCursor]

FitsIn(b, size, alignment) ==
    LET address == AlignUp(b.address, alignment)
    IN  /\ address >= b.address /\ address - b.address <= b.size
        /\ size <= b.size - (address - b.address)

\* A free block is split into what lies in front of the allocation, the
\* allocation, and the rest.
TakeFrom(h, i, size, alignment) ==
    LET b == h.free[i]
        address == AlignUp(b.address, alignment)
        end == address + size
    IN  [address |-> address,
         heap |-> [h EXCEPT !.free =
           RemoveAt(@, i) \o NonEmpty(Block(b.address, address - b.address))
             \o NonEmpty(Block(end, b.address + b.size - end))]]

Extend(h, limit, size, alignment) ==
    LET address == AlignUp(h.cursor, alignment)
    IN  IF size > limit \/ address > limit - size
          THEN [address |-> 0, heap |-> h]
          ELSE [address |-> MemoryBase + address,
                heap |-> [h EXCEPT !.cursor = address + size]]

\* allocate_heap below the stack cursor limit: the address (0: no memory) and
\* the heap afterwards.
Allocate(h, limit, size, alignment) ==
    LET first == SelectInSeq(h.free, LAMBDA b : FitsIn(b, size, alignment))
    IN  IF first # 0 THEN TakeFrom(h, first, size, alignment)
                     ELSE Extend(h, limit, size, alignment)

\* free_heap
Free(h, b) ==
    IF b.address = 0 \/ b.size = 0 THEN h
    ELSE [h EXCEPT !.free = Joined(Append(@, b))]

FreeAll(h, blocks) == FoldLeft(Free, h, blocks)

\* Up to n blocks of one size: the loop of sceKernelCreateFpl.
AllocateMany(n, size) ==
    LET after[i \in 0..n] ==
          IF i = 0 THEN [heap |-> Heap, blocks |-> <<>>, failed |-> FALSE]
          ELSE LET before == after[i - 1]
                   next == Allocate(before.heap, stackCursor, size, Coarse)
               IN  IF before.failed \/ next.address = 0
                     THEN [before EXCEPT !.failed = TRUE]
                     ELSE [before EXCEPT !.heap = next.heap,
                             !.blocks = Append(@, Block(next.address, size))]
    IN  after[n]

\* allocate_stack: the new stack cursor, or the old one if there is no room.
StackSpace(size) ==
    IF size > stackCursor \/ stackCursor - size < heapCursor
      THEN stackCursor ELSE stackCursor - size

-----------------------------------------------------------------------------
(* The kernel calls *)

SetHeap(h) == freeBlocks' = h.free /\ heapCursor' = h.cursor

Object(kind, blocks) == [kind |-> kind, blocks |-> blocks]

Room == Cardinality(objects) < MaxObjects

\* One block of the heap: partition memory, a variable pool, or the stack of a
\* callback.
AllocBlock(kind, size, alignment) ==
    /\ Room
    /\ LET a == Allocate(Heap, stackCursor, size, alignment)
       IN  /\ SetHeap(a.heap)
           /\ objects' = IF a.address = 0 THEN objects
                         ELSE objects \cup {Object(kind, <<Block(a.address, size)>>)}
    /\ UNCHANGED stackCursor

AllocPartitionMemory(size) == AllocBlock("partition", size, Coarse)

CreateVpl(size) == size # 0 /\ AllocBlock("vpl", size, Fine)

DispatchCallback == AllocBlock("callback", CallbackStack, Coarse)

CreateFpl(size, n) ==
    /\ Room /\ size # 0 /\ n # 0
    /\ LET a == AllocateMany(n, size)
       IN  /\ ~a.failed
           /\ SetHeap(a.heap)
           /\ objects' = objects \cup {Object("fpl", a.blocks)}
    /\ UNCHANGED stackCursor

\* The blocks allocated so far are freed again.
CreateFplFails(size, n) ==
    /\ Room /\ size # 0 /\ n # 0
    /\ LET a == AllocateMany(n, size)
       IN  a.failed /\ SetHeap(FreeAll(a.heap, a.blocks))
    /\ UNCHANGED <<stackCursor, objects>>

\* sceKernelFreePartitionMemory, sceKernelDeleteFpl, sceKernelDeleteVpl and
\* the end of a callback.
Release(o) ==
    /\ o \in objects /\ o.kind # "thread"
    /\ SetHeap(FreeAll(Heap, o.blocks))
    /\ objects' = objects \ {o}
    /\ UNCHANGED stackCursor

\* A stack, then thread-local storage; if one of them fails the other is kept
\* for good.
CreateThread(size) ==
    /\ Room
    /\ LET requested == IF size < MinStack THEN MinStack ELSE size
           cursor == StackSpace(AlignUp(requested, Coarse))
           tls == Allocate(Heap, cursor, TlsSize, Coarse)
           failed == AlignUp(requested, Coarse) # stackCursor - cursor \/ tls.address = 0
       IN  /\ stackCursor' = cursor
           /\ SetHeap(tls.heap)
           /\ objects' = IF failed THEN objects
                         ELSE objects \cup {Object("thread",
                                <<Block(MemoryBase + cursor, requested),
                                  Block(tls.address, TlsSize)>>)}

\* A thread that never ran, or was joined, leaves the table; its memory does
\* not come back.
DeleteThread(o) ==
    /\ o \in objects /\ o.kind = "thread"
    /\ objects' = objects \ {o}
    /\ UNCHANGED <<freeBlocks, heapCursor, stackCursor>>

Next ==
    \/ \E s \in Sizes : AllocPartitionMemory(s) \/ CreateVpl(s)
    \/ \E s \in Sizes, n \in Counts : CreateFpl(s, n) \/ CreateFplFails(s, n)
    \/ \E s \in StackSizes : CreateThread(s)
    \/ DispatchCallback
    \/ \E o \in objects : Release(o) \/ DeleteThread(o)

Spec == Init /\ [][Next]_vars
-----------------------------------------------------------------------------
TypeOK ==
    /\ \A i \in DOMAIN freeBlocks : IsBlock(freeBlocks[i]) /\ freeBlocks[i].size > 0
    /\ heapCursor \in 0..stackCursor /\ stackCursor \in 0..StackTop
    /\ \A o \in objects :
         /\ o.kind \in {"partition", "vpl", "fpl", "callback", "thread"}
         /\ \A i \in DOMAIN o.blocks : IsBlock(o.blocks[i])

Gap == Block(MemoryBase + heapCursor, stackCursor - heapCursor)
Image == Block(MemoryBase + ImageStart, ImageSize - ImageStart)

\* No byte belongs to two of: a free block, the gap, the program's image, a
\* partition block, a pool block, a callback's stack, a thread's stack or its
\* thread-local storage; and all of it is guest memory (runtime.cpp:744-794).
NoOverlap ==
    LET system == freeBlocks \o <<Gap, Image>>
    IN  /\ DisjointBlocks(system)
        /\ \A o \in objects :
             /\ DisjointBlocks(o.blocks)
             /\ AllBytes(o.blocks) \cap AllBytes(system) = {}
             /\ AllBytes(o.blocks) \subseteq MemoryBase .. (MemoryBase + StackTop - 1)
        /\ \A o, p \in objects :
             o # p => AllBytes(o.blocks) \cap AllBytes(p.blocks) = {}

\* After memory is returned the free list is sorted and has no neighbours left
\* to join, whatever order the splits of earlier allocations left it in
\* (runtime.cpp:771-785).
FreeListJoined ==
    [][\A o \in objects : Release(o) /\ AllBytes(o.blocks) # {} =>
         IsJoined(freeBlocks')]_vars

FreeBytes == AllBytes(freeBlocks) \cup Bytes(Gap)

\* Returned memory is free again, byte for byte.
ReturnedIsFree ==
    [][\A o \in objects : Release(o) => FreeBytes' = FreeBytes \cup AllBytes(o.blocks)]_vars

\* A fixed pool that cannot be created costs at most the alignment padding of
\* the blocks it got
\* (sceKernelCreateFpl.cpp:16-23).
FailedPoolReturnsMemory ==
    [][\A s \in Sizes, n \in Counts : CreateFplFails(s, n) =>
         Cardinality(FreeBytes \ FreeBytes') <= (n - 1) * (Coarse - 1)]_vars
=============================================================================
