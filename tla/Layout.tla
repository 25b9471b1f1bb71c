------------------------------- MODULE Layout -------------------------------
(***************************************************************************)
(* The arithmetic of the disk layout (init_super, write_inode and the      *)
(* bitmap synchronisations of refs.c):                                     *)
(*                                                                         *)
(*     super | imap | ...inode table... | dmap | ...data blocks...         *)
(*                                                                         *)
(* All addresses are LBAs, numbers of blocks.                              *)
(***************************************************************************)
EXTENDS Bitmap

CONSTANTS
    BlockSize,          \* BLOCK_SIZE, bytes in a block
    NumInodes,          \* DEFAULT_NUM_INODES
    InodesPerBlock,     \* INODES_PER_BLOCK
    NumDataBlocks       \* DEFAULT_NUM_DATA_BLOCKS

(***************************************************************************)
(* The inode bitmap has no padding bits (1024 is a multiple of 8) and the  *)
(* inode table is a whole number of blocks (1024 inodes, 16 to a block),   *)
(* as itab_blocks, a division that rounds down, needs.                     *)
(***************************************************************************)
ASSUME LayoutAssumption ==
    /\ BlockSize \in Nat \ {0}
    /\ NumInodes \in Nat \ {0}
    /\ InodesPerBlock \in Nat \ {0}
    /\ NumDataBlocks \in Nat \ {0}
    /\ NumInodes % ByteBits = 0
    /\ NumInodes % InodesPerBlock = 0

BLOCK_ROUND_UP(n) == ((n + (BlockSize - 1)) \div BlockSize) * BlockSize
BYTES_TO_BLKS(n)  == n \div BlockSize

ROOT_INUM == 0
SUPER_LBA == 0

imap_blocks == BYTES_TO_BLKS(BLOCK_ROUND_UP(NumInodes))
itab_blocks == NumInodes \div InodesPerBlock
dmap_blocks == BYTES_TO_BLKS(BLOCK_ROUND_UP(NumDataBlocks))

i_bitmap_start == 1
i_table_start  == i_bitmap_start + imap_blocks
d_bitmap_start == i_table_start + itab_blocks
d_region_start == d_bitmap_start + dmap_blocks

(***************************************************************************)
(* write_bitmap_to_disk writes the bitmap's n_bytes, rounded up to blocks. *)
(***************************************************************************)
bmap_blocks(n) == BYTES_TO_BLKS(BLOCK_ROUND_UP(ScanBytes(n)))

(***************************************************************************)
(* The block of the inode table that write_inode writes for an inode.      *)
(***************************************************************************)
itab_block(inum) == inum \div InodesPerBlock

(***************************************************************************)
(* The LBAs each kind of write may touch, for objects that exist.          *)
(***************************************************************************)
SuperLbas  == {SUPER_LBA}
ImapLbas   == i_bitmap_start .. i_bitmap_start + bmap_blocks(NumInodes) - 1
ItabLbas   == {i_table_start + itab_block(i) : i \in 0 .. NumInodes - 1}
DmapLbas   == d_bitmap_start .. d_bitmap_start + bmap_blocks(NumDataBlocks) - 1
DataLbas   == {d_region_start + i : i \in BitIndexes(NumDataBlocks)}
=============================================================================
