---------------------------- MODULE MemoryBlocks ----------------------------
(***************************************************************************)
(* Implementation::MemoryBlock and the lists of free blocks that the guest *)
(* heap and the variable pools keep.                                       *)
(***************************************************************************)
EXTENDS Naturals, SequencesExt

CONSTANT Word       \* 2^32, scaled down

AlignUp(value, alignment) ==
    LET sum == (value + alignment - 1) % Word IN sum - (sum % alignment)

Block(address, size) == [address |-> address, size |-> size]

NonEmpty(b) == IF b.size = 0 THEN <<>> ELSE <<b>>

Adjacent(a, b) == a.address + a.size = b.address

\* Mutant of Join: only the size of the second block is kept.
JoinShort(a, b) == Block(a.address, b.size)

Join(a, b) == Block(a.address, a.size + b.size)

\* One step of the joining loop: b after the blocks that are done.
JoinNext(done, b) ==
    IF done # <<>> /\ Adjacent(Last(done), b)
      THEN Append(Front(done), Join(Last(done), b))
      ELSE Append(done, b)

\* The list sorted by address, with neighbours joined.
Joined(blocks) ==
    FoldLeft(JoinNext, <<>>, SortSeq(blocks, LAMBDA a, b : a.address < b.address))

-----------------------------------------------------------------------------
Address == 0..(Word - 1)
IsBlock(b) == b.address \in Address /\ b.size \in Address

Bytes(b) == b.address .. (b.address + b.size - 1)
AllBytes(blocks) == UNION {Bytes(blocks[i]) : i \in DOMAIN blocks}

DisjointBlocks(blocks) ==
    \A i, j \in DOMAIN blocks : i # j => Bytes(blocks[i]) \cap Bytes(blocks[j]) = {}

\* Sorted, and no two neighbours touch.
IsJoined(blocks) ==
    \A i \in 1..(Len(blocks) - 1) :
      blocks[i].address + blocks[i].size < blocks[i + 1].address
=============================================================================
