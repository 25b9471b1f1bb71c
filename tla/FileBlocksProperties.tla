------------------------ MODULE FileBlocksProperties ------------------------
(***************************************************************************)
(* What the files of FileBlocks guarantee.                                 *)
(***************************************************************************)
EXTENDS FileBlocks

(***************************************************************************)
(* Types: no pointer leaves the disk and no index leaves the pointers that *)
(* an inode and its pad have (refs.c:978-985).                             *)
(***************************************************************************)
Cell == {Nul, Zero} \cup [kind : {"byte"}, at : Nat, buf : Buffers]
                    \cup [kind : {"ptr"}, at : Lbas, buf : {0}]
InodeType == [size : Nat, blocks : Nat, ptrs : [PtrIdx -> Lbas]]

Steppers == {"reserve", "point_indirect", "point", "fill", "remove", "set_size",
             "write", "reply"}

FilesTypeOK ==
    /\ ino \in [Files -> InodeType]
    /\ d_ino \in [Files -> InodeType]
    /\ data_bitmap \subseteq 0 .. NumDataBlocks - 1
    /\ blk \in [Lbas -> [Cells -> Cell]]
    /\ pc \in Steppers \cup {"idle"}
    /\ call.file \in Files \cup {0}
    /\ call.lba \in Lbas
    /\ call.left \in Nat
    /\ emptied \in [Files -> Nat]
-----------------------------------------------------------------------------
(***************************************************************************)
(* The blocks of a file: the pointer blocks, and what the pointers lead to.*)
(***************************************************************************)
PointerBlocks(i) == {i.ptrs[index(n)] : n \in {m \in 0 .. i.blocks - 1 : Indirect(m)}}
FileBlocksOf(i) == {BlockPtr(i, n) : n \in 0 .. i.blocks - 1}
AllBlocks(i) == PointerBlocks(i) \cup FileBlocksOf(i)

InUse == UNION {AllBlocks(ino[i]) : i \in Files}

(***************************************************************************)
(* Every block, pointer blocks included, has one use: it is one block of   *)
(* one file, and every pointer is one that a call stored.  Blocks are      *)
(* pointed to, counted and freed in separate steps, a pointer block is not *)
(* cleared, and it comes and goes with its first pointer (refs.c:948, 982).*)
(***************************************************************************)
NumPointerBlocks(blocks) ==
    IF blocks <= NumDirect THEN 0
    ELSE ((blocks - NumDirect) + (PtrsPerBlock - 1)) \div PtrsPerBlock

BlocksHaveOneUse ==
    /\ \A i \in Files :
          /\ Cardinality(AllBlocks(ino[i])) =
                ino[i].blocks + NumPointerBlocks(ino[i].blocks)
          /\ 0 \notin AllBlocks(ino[i])
    /\ \A i, j \in Files : i # j => AllBlocks(ino[i]) \cap AllBlocks(ino[j]) = {}

(***************************************************************************)
(* Between calls the data bitmap marks exactly the blocks that files use:  *)
(* none is lost and none that is used can be handed out again              *)
(* (refs.c:924-997).                                                       *)
(***************************************************************************)
NothingLeaks ==
    pc = "idle" => data_bitmap = {Bit(l) : l \in InUse}

(***************************************************************************)
(* A file has the blocks its size needs, the one for its end included, and *)
(* one more for every time it was truncated to nothing: that keeps a block *)
(* and growing from nothing reserves one (refs.c:1095, 1124).  A file of a *)
(* wide size, which the int of refs.c:1086 does not hold, has fewer.       *)
(***************************************************************************)
BlocksCounted ==
    pc = "idle" => \A i \in Files : ~Wide(ino[i].size) =>
        ino[i].blocks = emptied[i]
            + (IF ino[i].size = 0 THEN 0 ELSE (ino[i].size \div BlockSize) + 1)

(***************************************************************************)
(* A read gets the bytes at its offset, for every offset and size, over    *)
(* one, two or more blocks, and only from blocks of the file, as long as   *)
(* the file's size is not wide (refs.c:1564-1613).                         *)
(***************************************************************************)
ReadsAreRight ==
    pc = "idle" => \A i \in Files : \A off, n \in Sizes : ~Wide(ino[i].size) =>
        LET got == ReadSize(i, n, off)
        IN  /\ got = Cardinality({k \in off .. off + n - 1 : k < ino[i].size})
            /\ do_read(i, n, off) = [k \in 0 .. got - 1 |-> Contents(ino[i])[off + k]]
            /\ got > 0 => \A p \in Pieces(got, off) : p.block < ino[i].blocks

(***************************************************************************)
(* A crash between any two disk writes of a call leaves, on the disk, all  *)
(* other files as they were, and of its own file the bytes that are not to *)
(* be written or cut (refs.c:1093-1131, 1181-1214).  Once its size is wide *)
(* a write stores its bytes elsewhere, but still in its own file.          *)
(***************************************************************************)
InRange(k) == IF call.op = "write" THEN k \in call.at .. call.at + call.n - 1
                                   ELSE k >= call.size

TornCallsStayLocal ==
    [][ \A i \in Files : ~Wide(d_ino[i].size) =>
            \A k \in DOMAIN Contents(d_ino[i]) : k < d_ino'[i].size =>
                Contents(d_ino[i])'[k] = Contents(d_ino[i])[k]
                    \/ (i = call.file /\ InRange(k)) ]_vars

(***************************************************************************)
(* The calls are those of ByteFile: what was there before the call, until  *)
(* the step that completes it.  The bytes of a file with a wide size are   *)
(* those of no block.                                                      *)
(***************************************************************************)
Addressable(size) == ~Wide(size)

Busy(i) == call.file = i /\ pc \notin {"idle", "reply"}
Seen(i) == IF Busy(i) THEN was
           ELSE IF Wide(ino[i].size) THEN [k \in 0 .. ino[i].size - 1 |-> Nul]
           ELSE Contents(ino[i])

BF == INSTANCE ByteFile WITH
          size <- [i \in Files |-> Cardinality(DOMAIN Seen(i))],
          bytes <- [i \in Files |-> Seen(i)],
          EmptyBytes <- {Nul, Zero}

(***************************************************************************)
(* To the calls that follow, every truncate and write is one step of a     *)
(* file of bytes: the written bytes are where they belong, in the blocks   *)
(* of no other position or file, kept bytes are kept, and holes are empty  *)
(* but for the exceptions ByteFile names (refs.c:1046-1217).               *)
(***************************************************************************)
ImplementsByteFile == BF!Spec
-----------------------------------------------------------------------------
(***************************************************************************)
(* "Case 4: Writing to an offset past the end of the file."                *)
(* (src/write_test.sh:64): the test fails unless the file equals a native  *)
(* one that was written alike, where the bytes between the old end and the *)
(* write are NUL.  The code does not keep this claim: it leaves the byte   *)
(* at the old end as it finds it and fills the rest of that block with the *)
(* character '0' (refs.c:1103).                                            *)
(***************************************************************************)
HolesReadAsNul ==
    pc = "reply" /\ call.op = "write" /\ ~Wide(call.size) =>
        \A k \in Cardinality(DOMAIN was) .. call.at - 1 : Contents(ino[file])[k] = Nul
=============================================================================
