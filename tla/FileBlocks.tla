----------------------------- MODULE FileBlocks -----------------------------
(***************************************************************************)
(* The bytes of regular files (refs.c:910-1217, 1558-1613): how truncate   *)
(* and write find, reserve, clear, fill and release blocks through direct  *)
(* and indirect pointers, and what a read gets.  Refs has the same calls   *)
(* with crashes and with the rest of the file system, without bytes and    *)
(* indirect blocks; here the files exist and are writable.                 *)
(*                                                                         *)
(* One call is in progress at a time and every step makes at most one disk *)
(* write.  A refused call (EFBIG, or nothing to truncate) changes nothing. *)
(* Offsets and sizes are 64 bits wide, block numbers are ints (IntBlock).  *)
(***************************************************************************)
EXTENDS Bitmap, Integers, FiniteSets

CONSTANTS
    Files,              \* the inode numbers of the regular files
    BlockSize,          \* BLOCK_SIZE, in cells: a byte or a pointer each
    PtrsPerBlock,       \* NUM_INDIRECT_POINTERS
    NumDirect,          \* NUM_DIRECT
    NumIndirect,        \* NUM_INDIRECT
    PadPointers,        \* words of union inode's pad after block_ptrs (15)
    NumDataBlocks,      \* DEFAULT_NUM_DATA_BLOCKS
    IntMax,             \* INT_MAX
    Sizes,              \* the file offsets and sizes callers use
    Buffers             \* the buffers callers write from

(***************************************************************************)
(* The pad of an inode can point to more blocks than there are: 10 direct  *)
(* and 17 times 512 indirect ones for 2492 data blocks.  The number of     *)
(* blocks of a file is an int (refs.c:930, 968).                           *)
(***************************************************************************)
ASSUME FileBlocksAssumption ==
    /\ BlockSize \in Nat \ {0}
    /\ PtrsPerBlock \in 1 .. BlockSize
    /\ NumDirect \in Nat \ {0}
    /\ NumIndirect \in Nat
    /\ PadPointers \in Nat
    /\ NumDataBlocks \in Nat \ {0}
    /\ IntMax \in Nat /\ NumDataBlocks <= IntMax
    /\ NumDirect + (NumIndirect + PadPointers) * PtrsPerBlock >= NumDataBlocks
    /\ Sizes \subseteq Nat
    /\ Files \subseteq Nat \ {0}

MAX_FILE_BLOCKS == NumDirect + NumIndirect * PtrsPerBlock

VARIABLES
    ino,                \* the files' inodes in memory
    d_ino,              \* the files' inodes on disk
    data_bitmap,        \* the data bitmap in memory
    blk,                \* the blocks on disk, by LBA
    pc,                 \* "idle" or the next step of the call
    call,               \* the arguments and locals of the call
    was,                \* what the file held before the call (history)
    emptied             \* how often each file was truncated to 0 (history)

vars == <<ino, d_ino, data_bitmap, blk, pc, call, was, emptied>>
-----------------------------------------------------------------------------
(***************************************************************************)
(* Addresses.  LBA 0 stands for everything before the data region.         *)
(***************************************************************************)
Lbas == 0 .. NumDataBlocks
Lba(bit) == bit + 1
Bit(lba) == lba - 1

PtrIdx == 0 .. NumDirect + NumIndirect + PadPointers - 1

ZeroInode == [size |-> 0, blocks |-> 0, ptrs |-> [j \in PtrIdx |-> 0]]

(***************************************************************************)
(* Block numbers.  The quotient of a 64-bit offset or size is stored in an *)
(* int and keeps its low bits; a size is wide when that is not the number  *)
(* of its block.                                                           *)
(***************************************************************************)
ToInt(n) == LET r == n % (2 * (IntMax + 1))
            IN  IF r > IntMax THEN r - 2 * (IntMax + 1) ELSE r

IntBlock(at) == ToInt(at \div BlockSize)

Wide(size) == size \div BlockSize > IntMax

(***************************************************************************)
(* Cells.  A block of zeros holds Nul; fill writes the character '0'; the  *)
(* bytes of a buffer are known by the position they are meant for.         *)
(***************************************************************************)
Nul == [kind |-> "nul", at |-> 0, buf |-> 0]
Zero == [kind |-> "0", at |-> 0, buf |-> 0]
Byte(k, b) == [kind |-> "byte", at |-> k, buf |-> b]
Pointer(lba) == [kind |-> "ptr", at |-> lba, buf |-> 0]

(***************************************************************************)
(* A cell read as a pointer.  Bytes of a file would be an address that the *)
(* model does not have; BlocksHaveOneUse shows that none is ever used.     *)
(***************************************************************************)
AsPointer(cell) == IF cell.kind = "ptr" THEN cell.at ELSE 0

Cells == 0 .. BlockSize - 1
ZeroBlock == [c \in Cells |-> Nul]

(***************************************************************************)
(* The pointer to a file's n-th block.                                     *)
(***************************************************************************)
Indirect(n) == n >= NumDirect
index(n) == ((n - NumDirect) \div PtrsPerBlock) + NumDirect
offset(n) == (n - NumDirect) % PtrsPerBlock

(* Mutant: every indirect block gets a pointer block of its own. *)
NeedsPointersAlways(n) == Indirect(n)

NeedsPointers(n) == Indirect(n) /\ offset(n) = 0

BlockPtr(i, n) ==
    IF Indirect(n) THEN AsPointer(blk[i.ptrs[index(n)]][offset(n)])
                   ELSE i.ptrs[n]

file_read_block(f, n) == blk[BlockPtr(ino[f], n)]

file_write_block(f, n, block) ==
    blk' = [blk EXCEPT ![BlockPtr(ino[f], n)] = block]

(* Mutant: the fill begins at the last byte that is kept. *)
FillEarly(block, begin) ==
    [c \in Cells |-> IF c >= begin - 2 THEN Zero ELSE block[c]]

fill(block, begin) == [c \in Cells |-> IF c >= begin THEN Zero ELSE block[c]]

memcpy(block, begin, n, source) ==
    [c \in Cells |-> IF c \in begin .. begin + n - 1 THEN source[c - begin] ELSE block[c]]
-----------------------------------------------------------------------------
(***************************************************************************)
(* do_read, piece by piece: n bytes from a place in a block of the file to *)
(* a place in the caller's buffer.                                         *)
(***************************************************************************)
ReadSize(f, n, off) ==
    IF ino[f].size < off THEN 0
    ELSE IF off + n > ino[f].size THEN ino[f].size - off ELSE n

(* Mutant: of several blocks, the first is copied from its beginning. *)
PiecesFromStart(size, off) ==
    LET first == IntBlock(off)
        last == IntBlock(size + off)
        begin == off % BlockSize
        read(b) == (BlockSize - begin) + (b - first - 1) * BlockSize
    IN  IF first = last THEN {[block |-> first, from |-> begin, to |-> 0, n |-> size]}
        ELSE {[block |-> first, from |-> 0, to |-> 0, n |-> BlockSize - begin],
              [block |-> last, from |-> 0, to |-> read(last), n |-> size - read(last)]}
             \cup {[block |-> b, from |-> 0, to |-> read(b), n |-> BlockSize] :
                      b \in first + 1 .. last - 1}

Pieces(size, off) ==
    LET first == IntBlock(off)
        last == IntBlock(size + off)
        begin == off % BlockSize
        read(b) == (BlockSize - begin) + (b - first - 1) * BlockSize
    IN  IF first = last THEN {[block |-> first, from |-> begin, to |-> 0, n |-> size]}
        ELSE {[block |-> first, from |-> begin, to |-> 0, n |-> BlockSize - begin],
              [block |-> last, from |-> 0, to |-> read(last), n |-> size - read(last)]}
             \cup {[block |-> b, from |-> 0, to |-> read(b), n |-> BlockSize] :
                      b \in first + 1 .. last - 1}

do_read(f, n, off) ==
    LET size == ReadSize(f, n, off)
    IN  [k \in 0 .. size - 1 |->
            LET p == CHOOSE q \in Pieces(size, off) : k \in q.to .. q.to + q.n - 1
            IN  file_read_block(f, p.block)[p.from + (k - p.to)]]

(***************************************************************************)
(* The bytes of a file, one by one, as inode i finds them.                 *)
(***************************************************************************)
Contents(i) ==
    [k \in 0 .. i.size - 1 |-> blk[BlockPtr(i, k \div BlockSize)][k % BlockSize]]
-----------------------------------------------------------------------------
NoCall == [op |-> "none", file |-> 0, size |-> 0,
           at |-> 0, n |-> 0, buf |-> 0, lba |-> 0, idx |-> 0, left |-> 0,
           filled |-> FALSE, written |-> 0]

Init ==
    /\ ino = [f \in Files |-> ZeroInode]
    /\ d_ino = ino
    /\ data_bitmap = {}
    /\ blk = [l \in Lbas |-> ZeroBlock]
    /\ pc = "idle"
    /\ call = NoCall
    /\ was = [k \in {} |-> k]
    /\ emptied = [f \in Files |-> 0]

(***************************************************************************)
(* The call's resize: from which block on, and how many to add or remove.  *)
(***************************************************************************)
Growing(f, size) == ino[f].size < size

Turns(first, last) == IF first > last THEN 0 ELSE last - first

Resize(f, size) ==
    LET old == IntBlock(ino[f].size)
        new == IntBlock(size)
    IN  [NoCall EXCEPT !.file = f, !.size = size,
                       !.idx = IF Growing(f, size) THEN old ELSE new,
                       !.left = IF Growing(f, size) THEN Turns(old, new) ELSE Turns(new, old)]

(***************************************************************************)
(* The check for EFBIG compares the int, so that a size that is wide       *)
(* enough passes it.                                                       *)
(***************************************************************************)
Fits(f, size) == Growing(f, size) => IntBlock(size) < MAX_FILE_BLOCKS

(***************************************************************************)
(* bound: a call has the free blocks it needs.  What happens without them  *)
(* is part of Refs.                                                        *)
(***************************************************************************)
Room(f, size) ==
    LET old == ino[f].blocks
        new == old + Resize(f, size).left + (IF ino[f].size = 0 THEN 1 ELSE 0)
        added == old .. new - 1
        pointers == {n \in added : NeedsPointers(n)}
    IN  Growing(f, size) =>
            Cardinality(added) + Cardinality(pointers)
                + Cardinality(data_bitmap) <= NumDataBlocks

(***************************************************************************)
(* bound: no call follows one that has left a file with a wide size.       *)
(***************************************************************************)
NoneIsWide == \A f \in Files : ~Wide(ino[f].size)

(***************************************************************************)
(* bound: the ints of a write's blocks are as far apart as its blocks, and *)
(* not negative.  Others index the pointers of the inode outside of it: a  *)
(* write of as many bytes as the ints count, or one at the very offsets    *)
(* where they wrap.                                                        *)
(***************************************************************************)
InOrder(at, end) ==
    /\ IntBlock(at) >= 0
    /\ IntBlock(end) - IntBlock(at) = (end \div BlockSize) - (at \div BlockSize)

(* Mutant: the first block is reserved for a file that has none. *)
ResizeStepByBlocks(f, size) ==
    IF Growing(f, size) /\ ino[f].blocks = 0 THEN "reserve" ELSE "fill"

ResizeStep(f, size) ==
    IF Growing(f, size) /\ ino[f].size = 0 THEN "reserve" ELSE "fill"

refs_truncate(f, size) ==
    /\ pc = "idle"
    /\ ino[f].size # size
    /\ Fits(f, size) /\ Room(f, size) /\ NoneIsWide
    /\ call' = [Resize(f, size) EXCEPT !.op = "truncate"]
    /\ pc' = ResizeStep(f, size)
    /\ was' = Contents(ino[f])
    /\ UNCHANGED <<ino, d_ino, data_bitmap, blk, emptied>>

(***************************************************************************)
(* refs_write from position at up to end; it grows the file if it has to.  *)
(***************************************************************************)
refs_write(f, at, end, buf) ==
    /\ pc = "idle"
    /\ at < end
    /\ Fits(f, end) /\ Room(f, end) /\ NoneIsWide /\ InOrder(at, end)
    /\ call' = [(IF Growing(f, end) THEN Resize(f, end) ELSE [NoCall EXCEPT !.file = f])
                   EXCEPT !.op = "write", !.at = at, !.n = end - at, !.buf = buf,
                          !.idx = IF Growing(f, end) THEN @ ELSE IntBlock(at)]
    /\ pc' = IF Growing(f, end) THEN ResizeStep(f, end) ELSE "write"
    /\ was' = Contents(ino[f])
    /\ UNCHANGED <<ino, d_ino, data_bitmap, blk, emptied>>
-----------------------------------------------------------------------------
(***************************************************************************)
(* file_reserve_data_block.  The new block is cleared and marked ...       *)
(***************************************************************************)
file == call.file
next == ino[file].blocks
next_block == first_unset_bit(data_bitmap, NumDataBlocks)

ReserveBlock ==
    /\ pc = "reserve"
    /\ data_bitmap' = data_bitmap \cup {next_block}
    /\ blk' = [blk EXCEPT ![Lba(next_block)] = ZeroBlock]
    /\ call' = [call EXCEPT !.lba = Lba(next_block)]
    /\ pc' = IF Indirect(next) THEN "point_indirect" ELSE "point"
    /\ UNCHANGED <<ino, d_ino, was, emptied>>

(***************************************************************************)
(* ... an indirect pointer to it is stored, in a pointer block that is     *)
(* reserved, but not cleared, with the first pointer in it ...             *)
(***************************************************************************)
PointIndirect ==
    /\ pc = "point_indirect"
    /\ IF NeedsPointers(next)
       THEN /\ ino' = [ino EXCEPT ![file].ptrs[index(next)] = Lba(next_block)]
            /\ data_bitmap' = data_bitmap \cup {next_block}
       ELSE UNCHANGED <<ino, data_bitmap>>
    /\ blk' = [blk EXCEPT ![ino'[file].ptrs[index(next)]][offset(next)] = Pointer(call.lba)]
    /\ pc' = "point"
    /\ UNCHANGED <<d_ino, call, was, emptied>>

(***************************************************************************)
(* ... or a direct one, and the inode is written with one more block.      *)
(***************************************************************************)
Loop(left) == IF left = 0 THEN "set_size"
              ELSE IF Growing(file, call.size) THEN "reserve" ELSE "remove"

(* Mutant: the first block of an empty file counts as one of the loop's. *)
LeftAlwaysLess == call.left - 1

LeftToReserve == IF call.filled THEN call.left - 1 ELSE call.left

PointToBlock ==
    /\ pc = "point"
    /\ ino' = [ino EXCEPT ![file].ptrs = IF Indirect(next) THEN @
                                      ELSE [@ EXCEPT ![next] = call.lba],
                          ![file].blocks = @ + 1]
    /\ d_ino' = ino'
    /\ call' = [call EXCEPT !.left = LeftToReserve]
    /\ pc' = IF call.filled THEN Loop(call.left - 1) ELSE "fill"
    /\ UNCHANGED <<data_bitmap, blk, was, emptied>>

(***************************************************************************)
(* The block with the end of the smaller size: its bytes from the second   *)
(* one after that end on become the character '0'.                         *)
(***************************************************************************)
SmallerSize == IF Growing(file, call.size) THEN ino[file].size ELSE call.size

FillBlock ==
    /\ pc = "fill"
    /\ file_write_block(file, call.idx,
           fill(file_read_block(file, call.idx), (SmallerSize % BlockSize) + 1))
    /\ call' = [call EXCEPT !.filled = TRUE]
    /\ pc' = Loop(call.left)
    /\ UNCHANGED <<ino, d_ino, data_bitmap, was, emptied>>

(* Mutant: the pointer block is freed with the last pointer in it. *)
FreedAtTheEnd(i, n) ==
    {BlockPtr(i, n)} \cup {i.ptrs[index(m)] :
                              m \in {k \in {n} : Indirect(k) /\ offset(k) = PtrsPerBlock - 1}}

(***************************************************************************)
(* file_remove_data_block: free the last block, and with the first pointer *)
(* of a pointer block that block too.                                      *)
(***************************************************************************)
Freed(i, n) ==
    {BlockPtr(i, n)} \cup {i.ptrs[index(m)] : m \in {k \in {n} : NeedsPointers(k)}}

RemoveBlock ==
    /\ pc = "remove"
    /\ data_bitmap' = data_bitmap \ {Bit(l) : l \in Freed(ino[file], ino[file].blocks - 1)}
    /\ ino' = [ino EXCEPT ![file].blocks = @ - 1]
    /\ d_ino' = ino'
    /\ call' = [call EXCEPT !.left = @ - 1]
    /\ pc' = Loop(call.left - 1)
    /\ UNCHANGED <<blk, was, emptied>>

SetSize ==
    /\ pc = "set_size"
    /\ ino' = [ino EXCEPT ![file].size = call.size]
    /\ d_ino' = ino'
    /\ emptied' = [emptied EXCEPT ![file] = IF call.size = 0 THEN @ + 1 ELSE @]
    /\ call' = [call EXCEPT !.idx = IntBlock(call.at)]
    /\ pc' = IF call.op = "write" THEN "write" ELSE "reply"
    /\ UNCHANGED <<data_bitmap, blk, was>>

(* Mutant: the place in the buffer does not advance in the middle blocks. *)
WrittenOnce(n) ==
    IF call.idx = IntBlock(call.at) THEN call.written + n ELSE call.written

Written(n) == call.written + n

(***************************************************************************)
(* The data, block by block: the first from where the write begins, the    *)
(* middle ones whole, the last one with what is left, perhaps nothing.     *)
(***************************************************************************)
WriteBlock ==
    LET first == IntBlock(call.at)
        last == IntBlock(call.at + call.n)
        begin == IF call.idx = first THEN call.at % BlockSize ELSE 0
        n == IF call.idx = last THEN call.n - call.written ELSE BlockSize - begin
        source == [k \in Cells |-> Byte(call.at + call.written + k, call.buf)]
    IN  /\ pc = "write"
        /\ file_write_block(file, call.idx,
               memcpy(file_read_block(file, call.idx), begin, n, source))
        /\ call' = [call EXCEPT !.idx = @ + 1, !.written = Written(n)]
        /\ pc' = IF call.idx = last THEN "reply" ELSE "write"
        /\ UNCHANGED <<ino, d_ino, data_bitmap, was, emptied>>

Reply ==
    /\ pc = "reply"
    /\ pc' = "idle"
    /\ call' = NoCall
    /\ was' = [k \in {} |-> k]
    /\ UNCHANGED <<ino, d_ino, data_bitmap, blk, emptied>>
-----------------------------------------------------------------------------
(***************************************************************************)
(* A call that would make a file too large is refused (EFBIG).             *)
(***************************************************************************)
Refuse(i, size) ==
    /\ pc = "idle"
    /\ ~Fits(i, size)
    /\ UNCHANGED vars

Next ==
    \/ \E i \in Files, n \in Sizes :
          \/ refs_truncate(i, n) \/ Refuse(i, n)
          \/ \E m \in Sizes, b \in Buffers : refs_write(i, m, n, b)
    \/ ReserveBlock \/ PointIndirect \/ PointToBlock \/ FillBlock
    \/ RemoveBlock \/ SetSize \/ WriteBlock \/ Reply

Spec == Init /\ [][Next]_vars
=============================================================================
