----------------------------- MODULE RefsProofs -----------------------------
(***************************************************************************)
(* Proofs about the core of ReFS for every layout, every set of names and  *)
(* file sizes and any number of crashes: the regions of the disk are       *)
(* disjoint, the types hold, and mkfs, mount, unmount, crashes and the     *)
(* writes that the calls share keep the inductive invariant.               *)
(* RefsCallProofs adds the calls' own steps.                               *)
(***************************************************************************)
EXTENDS RefsInvariant, BitmapLemmas, TLAPS
-----------------------------------------------------------------------------
(***************************************************************************)
(* A bitmap synchronised to disk fits the blocks set aside for it, which   *)
(* are counted as if every bit took a byte (refs.c:80-93, 350-359).        *)
(***************************************************************************)
LEMMA BlocksFor ==
    ASSUME NEW n \in Nat
    PROVE  /\ BYTES_TO_BLKS(BLOCK_ROUND_UP(n)) = (n + (BlockSize - 1)) \div BlockSize
           /\ BYTES_TO_BLKS(BLOCK_ROUND_UP(n)) \in Nat
  <1> DEFINE k == (n + (BlockSize - 1)) \div BlockSize
  <1>1. k \in Nat
    BY LayoutAssumption, Division
  <1> HIDE DEF k
  <1>2. (k * BlockSize) \div BlockSize = k
    BY <1>1, LayoutAssumption, DivisionIsExact
  <1> QED BY <1>1, <1>2 DEF k, BYTES_TO_BLKS, BLOCK_ROUND_UP

(***************************************************************************)
(* The blocks write_bitmap_to_disk writes are at most the blocks set aside *)
(* (refs.c:80-82, 351-357).                                                *)
(***************************************************************************)
LEMMA BitmapFits ==
    ASSUME NEW n \in Nat \ {0}
    PROVE  /\ bmap_blocks(n) \in Nat
           /\ bmap_blocks(n) <= BYTES_TO_BLKS(BLOCK_ROUND_UP(n))
  <1> DEFINE s == ScanBytes(n)
  <1>1. s \in Nat /\ s * ByteBits \in Nat /\ s * ByteBits <= n + (ByteBits - 1)
    BY ByteBitsAssumption, Division DEF ScanBytes
  <1>2. s <= n
    <2> HIDE DEF s
    <2>1. n * ByteBits >= n
      BY ByteBitsAssumption
    <2>2. CASE n = 1
      <3>1. s * ByteBits < 1 * ByteBits + ByteBits
        BY <1>1, <2>2, ByteBitsAssumption
      <3> QED BY <3>1, <2>2, <1>1, ByteBitsAssumption, SmallerFactor
    <2>3. CASE n > 1
      <3>1. (n - 1) * (ByteBits - 1) >= 0
        BY <2>3, ByteBitsAssumption
      <3>2. n * ByteBits = (n - 1) * (ByteBits - 1) + n + (ByteBits - 1)
        BY ByteBitsAssumption
      <3>3. n * ByteBits \in Nat /\ s * ByteBits < n * ByteBits + ByteBits
        BY <1>1, <3>1, <3>2, ByteBitsAssumption
      <3> QED BY <3>3, <1>1, ByteBitsAssumption, SmallerFactor
    <2> QED BY <2>2, <2>3
  <1> HIDE DEF s
  <1>3. (s + (BlockSize - 1)) \div BlockSize <= (n + (BlockSize - 1)) \div BlockSize
    BY <1>1, <1>2, LayoutAssumption, DivisionIsMonotone
  <1> QED BY <1>1, <1>3, BlocksFor DEF bmap_blocks, s

(***************************************************************************)
(* The starts of the regions, in order.                                    *)
(***************************************************************************)
LEMMA Starts ==
    /\ imap_blocks \in Nat /\ itab_blocks \in Nat /\ dmap_blocks \in Nat
    /\ i_table_start \in Nat /\ d_bitmap_start \in Nat /\ d_region_start \in Nat
    /\ 1 <= i_table_start /\ i_table_start <= d_bitmap_start
    /\ d_bitmap_start <= d_region_start
    /\ d_region_start \in Nat \ {0}
  <1>1. imap_blocks \in Nat /\ itab_blocks \in Nat /\ dmap_blocks \in Nat
    BY LayoutAssumption, BlocksFor, Division DEF imap_blocks, itab_blocks, dmap_blocks
  <1> QED BY <1>1 DEF i_bitmap_start, i_table_start, d_bitmap_start, d_region_start

(***************************************************************************)
(* An inode of the table is written inside the table (refs.c:131-136).     *)
(***************************************************************************)
LEMMA ItabFits ==
    ASSUME NEW i \in 0 .. NumInodes - 1
    PROVE  itab_block(i) \in 0 .. itab_blocks - 1
  <1> DEFINE p == i \div InodesPerBlock
             q == NumInodes \div InodesPerBlock
  <1>1. i \in Nat /\ NumInodes \in Nat /\ InodesPerBlock \in Nat \ {0}
    BY LayoutAssumption
  <1>2. q * InodesPerBlock = NumInodes /\ q \in Nat
    BY <1>1, LayoutAssumption, WholeGroups, Division
  <1>3. p \in Nat /\ p * InodesPerBlock \in Nat /\ p * InodesPerBlock <= i
    BY <1>1, Division
  <1> HIDE DEF p, q
  <1>4. (p + 1) * InodesPerBlock = p * InodesPerBlock + InodesPerBlock
    BY <1>1, <1>3
  <1>5. (p + 1) * InodesPerBlock < q * InodesPerBlock + InodesPerBlock
    BY <1>1, <1>2, <1>3, <1>4
  <1>6. p + 1 <= q
    BY <1>1, <1>2, <1>3, <1>5, SmallerFactor
  <1> QED BY <1>2, <1>3, <1>6 DEF p, q, itab_block, itab_blocks

(***************************************************************************)
(* No write of one kind touches the region of another: the superblock, the *)
(* inode bitmap, the inode table, the data bitmap and the data blocks do   *)
(* not overlap (refs.c:343-363, with the writes of 80-165).                *)
(***************************************************************************)
THEOREM RegionsAreDisjoint ==
    /\ SuperLbas \cap ImapLbas = {} /\ SuperLbas \cap ItabLbas = {}
    /\ SuperLbas \cap DmapLbas = {} /\ SuperLbas \cap DataLbas = {}
    /\ ImapLbas \cap ItabLbas = {} /\ ImapLbas \cap DmapLbas = {}
    /\ ImapLbas \cap DataLbas = {} /\ ItabLbas \cap DmapLbas = {}
    /\ ItabLbas \cap DataLbas = {} /\ DmapLbas \cap DataLbas = {}
  <1> USE DEF i_bitmap_start
  <1>1. SuperLbas = {0}
    BY DEF SuperLbas, SUPER_LBA
  <1>2. \A l \in ImapLbas : l \in Nat /\ 1 <= l /\ l < i_table_start
    <2>1. bmap_blocks(NumInodes) \in Nat /\ bmap_blocks(NumInodes) <= imap_blocks
      BY LayoutAssumption, BitmapFits DEF imap_blocks
    <2> QED BY <2>1, Starts DEF ImapLbas, i_table_start
  <1>3. \A l \in ItabLbas : l \in Nat /\ i_table_start <= l /\ l < d_bitmap_start
    BY ItabFits, Starts DEF ItabLbas, d_bitmap_start
  <1>4. \A l \in DmapLbas : l \in Nat /\ d_bitmap_start <= l /\ l < d_region_start
    <2>1. bmap_blocks(NumDataBlocks) \in Nat /\ bmap_blocks(NumDataBlocks) <= dmap_blocks
      BY LayoutAssumption, BitmapFits DEF dmap_blocks
    <2> QED BY <2>1, Starts DEF DmapLbas, d_region_start
  <1>5. \A l \in DataLbas : l \in Nat /\ d_region_start <= l
    <2>1. BitIndexes(NumDataBlocks) \subseteq Nat
      BY LayoutAssumption, ScanCoversValid DEF BitIndexes
    <2> QED BY <2>1, Starts DEF DataLbas
  <1> HIDE DEF i_bitmap_start
  <1> QED BY <1>1, <1>2, <1>3, <1>4, <1>5, Starts

(***************************************************************************)
(* The inode bitmap has no padding bits, so a full one hands out exactly   *)
(* NumInodes; and the inode table's block that write_inode computes for    *)
(* this number is the first block of the data bitmap (refs.c:127-137).     *)
(***************************************************************************)
THEOREM InodePastTheEnd ==
    /\ BitIndexes(NumInodes) = 0 .. NumInodes
    /\ i_table_start + itab_block(NumInodes) = d_bitmap_start
  <1>1. ScanBits(NumInodes) = NumInodes
    <2> DEFINE k == NumInodes \div ByteBits
    <2>1. k \in Nat /\ NumInodes = k * ByteBits
      BY LayoutAssumption, ByteBitsAssumption, WholeGroups, Division
    <2> HIDE DEF k
    <2>2. ScanBytes(NumInodes) \in Nat /\ ScanBytes(NumInodes) * ByteBits \in Nat
          /\ ScanBytes(NumInodes) * ByteBits <= NumInodes + (ByteBits - 1)
      BY LayoutAssumption, ByteBitsAssumption, Division DEF ScanBytes
    <2>3. NumInodes <= ScanBytes(NumInodes) * ByteBits
      BY LayoutAssumption, ScanCoversValid DEF ScanBits
    <2>4. ScanBytes(NumInodes) <= k
      <3>1. ScanBytes(NumInodes) * ByteBits < k * ByteBits + ByteBits
        BY <2>1, <2>2, ByteBitsAssumption, LayoutAssumption
      <3> QED BY <3>1, <2>1, <2>2, ByteBitsAssumption, SmallerFactor
    <2>5. k <= ScanBytes(NumInodes)
      <3>1. k * ByteBits < ScanBytes(NumInodes) * ByteBits + ByteBits
        BY <2>1, <2>2, <2>3, ByteBitsAssumption, LayoutAssumption
      <3> QED BY <3>1, <2>1, <2>2, ByteBitsAssumption, SmallerFactor
    <2>6. ScanBytes(NumInodes) = k
      BY <2>1, <2>2, <2>4, <2>5
    <2> QED BY <2>1, <2>6 DEF ScanBits
  <1>2. BitIndexes(NumInodes) = 0 .. NumInodes
    BY <1>1, LayoutAssumption DEF BitIndexes
  <1> QED BY <1>2 DEF itab_block, itab_blocks, d_bitmap_start
-----------------------------------------------------------------------------
(***************************************************************************)
(* The allocators' results are in range (refs.c:202-228).                  *)
(***************************************************************************)
LEMMA AllocatedInRange ==
    /\ next_inode \in InodeSlots
    /\ next_block \in DataSlots
    /\ Lba(next_block) \in BlkLbas
    /\ BlockFault \subseteq Faults
    /\ InodeFault \subseteq Faults
  <1>1. next_inode \in InodeSlots
    BY FirstUnsetBit, InodePastTheEnd, LayoutAssumption DEF next_inode, InodeSlots
  <1>2. next_block \in DataSlots
    BY FirstUnsetBit, LayoutAssumption DEF next_block, DataSlots
  <1>3. Lba(next_block) \in BlkLbas
    BY <1>2 DEF BlkLbas
  <1>4. BlockFault \subseteq Faults /\ InodeFault \subseteq Faults
    BY DEF BlockFault, InodeFault, Faults
  <1> QED BY <1>1, <1>2, <1>3, <1>4

(***************************************************************************)
(* The first place of a set of places is one of them (refs.c:487-510).     *)
(***************************************************************************)
LEMMA FirstIsMember ==
    ASSUME NEW S \in SUBSET (DirectIdx \X DirentIdx), S # {}
    PROVE  First(S) \in S
  <1> DEFINE R == {s[1] : s \in S}
             r == Least(R)
             C == {s[2] : s \in {t \in S : t[1] = r}}
             c == Least(C)
  <1>1. \A s \in S : s = <<s[1], s[2]>> /\ s[1] \in Nat /\ s[2] \in Nat
    BY RefsAssumption DEF DirectIdx, DirentIdx
  <1>2. R \in SUBSET Nat /\ R # {}
    BY <1>1
  <1>3. r \in R /\ \A k \in R : r <= k
    <2> HIDE DEF R
    <2> QED BY <1>2, LeastIsMin
  <1>4. C \in SUBSET Nat /\ C # {}
    <2> HIDE DEF r
    <2> QED BY <1>1, <1>3
  <1>5. c \in C /\ \A k \in C : c <= k
    <2> HIDE DEF C
    <2> QED BY <1>4, LeastIsMin
  <1> HIDE DEF r, c
  <1>6. PICK s \in S : s[1] = r /\ s[2] = c
    BY <1>5
  <1>7. \A t \in S : s[1] < t[1] \/ (s[1] = t[1] /\ s[2] <= t[2])
    <2> SUFFICES ASSUME NEW t \in S PROVE s[1] < t[1] \/ (s[1] = t[1] /\ s[2] <= t[2])
      OBVIOUS
    <2>1. r <= t[1]
      BY <1>3
    <2>2. t[1] = r => c <= t[2]
      BY <1>5
    <2> QED BY <1>1, <1>6, <2>1, <2>2
  <1> QED BY <1>6, <1>7 DEF First
-----------------------------------------------------------------------------
(***************************************************************************)
(* The contents the code gives new inodes, directory entries and blocks    *)
(* have their types (refs.c:234-246, 317-330, 788-827).                    *)
(***************************************************************************)
LEMMA Constructed ==
    /\ ZeroInode \in Inode
    /\ alloc_inode_table \in [InodeSlots -> Inode]
    /\ NoDirent \in Dirent
    /\ \A i \in InodeSlots, n \in Names \cup {".", ".."} : dir_entry(i, n) \in Dirent
    /\ ZeroBlock \in Block /\ SuperBlock \in Block /\ FileBlock \in Block
    /\ \A e \in [DirentIdx -> Dirent] : DirBlock(e) \in Block
    /\ \A i, p \in InodeSlots : new_dir_block(i, p) \in Block
    /\ NoCall \in Call
  <1>1. 0 \in Inums /\ 0 \in InodeSlots /\ Inums \subseteq InodeSlots /\ 0 \in n_links_t
    BY LayoutAssumption, RefsAssumption DEF Inums, InodeSlots, n_links_t
  <1>2. SUPER_LBA \in BlkLbas
    BY DEF BlkLbas
  <1>3. ZeroInode \in Inode
    BY <1>1, <1>2 DEF ZeroInode, Inode
  <1>4. \A i \in Inums : [ZeroInode EXCEPT !.inum = i] \in Inode
    BY <1>3 DEF Inode
  <1>5. alloc_inode_table \in [InodeSlots -> Inode]
    BY <1>3, <1>4 DEF alloc_inode_table
  <1>6. NoDirent \in Dirent
    BY <1>1 DEF NoDirent, Dirent
  <1>7. \A i \in InodeSlots, n \in Names \cup {".", ".."} : dir_entry(i, n) \in Dirent
    BY DEF dir_entry, Dirent
  <1>8. NoDirents \in [DirentIdx -> Dirent]
    BY <1>6 DEF NoDirents
  <1>9. ZeroBlock \in Block /\ SuperBlock \in Block /\ FileBlock \in Block
    BY <1>8 DEF ZeroBlock, SuperBlock, FileBlock, Block
  <1>10. \A e \in [DirentIdx -> Dirent] : DirBlock(e) \in Block
    BY DEF DirBlock, Block
  <1>11. \A i, p \in InodeSlots : new_dir_block(i, p) \in Block
    BY <1>7, <1>8, <1>10 DEF new_dir_block
  <1>12. NoCall \in Call
    BY <1>1, <1>2 DEF NoCall, Call
  <1> QED BY <1>3, <1>5, <1>6, <1>7, <1>9, <1>10, <1>11, <1>12

(***************************************************************************)
(* The counters wrap around within their type (refs.h:60-79).              *)
(***************************************************************************)
LEMMA LinkCounts ==
    ASSUME NEW n \in n_links_t
    PROVE  Inc(n) \in n_links_t /\ Dec(n) \in n_links_t
  BY RefsAssumption DEF n_links_t, Inc, Dec

(***************************************************************************)
(* The inodes of new directories and files keep the type of the old one    *)
(* (refs.c:234-246).                                                       *)
(***************************************************************************)
LEMMA NewInodes ==
    ASSUME NEW ino \in Inode, NEW lba \in BlkLbas, NEW m \in {"rw", "ro"}
    PROVE  new_dir_inode(ino, lba, m) \in Inode /\ new_regfile_inode(ino, m) \in Inode
  <1>1. 2 \in n_links_t /\ 1 \in n_links_t /\ 0 \in DirectIdx /\ BlockSize \in Nat
    BY RefsAssumption, LayoutAssumption DEF n_links_t, DirectIdx
  <1>2. [ino.ptrs EXCEPT ![0] = lba] \in [DirectIdx -> BlkLbas]
    BY DEF Inode
  <1>3. new_regfile_inode(ino, m) \in Inode
    BY <1>1 DEF new_regfile_inode, Inode
  <1>4. new_dir_inode(ino, lba, m) \in Inode
    BY <1>1, <1>2 DEF new_dir_inode, Inode
  <1> QED BY <1>3, <1>4

(***************************************************************************)
(* One field of one inode changes to a value of its type.                  *)
(***************************************************************************)
LEMMA InodeFields ==
    ASSUME NEW ino \in Inode
    PROVE  /\ \A n \in n_links_t : [ino EXCEPT !.n_links = n] \in Inode
           /\ \A n \in Nat : [ino EXCEPT !.size = n] \in Inode
           /\ \A n \in Nat : [ino EXCEPT !.blocks = n] \in Inode
           /\ \A m \in {"rw", "ro"} : [ino EXCEPT !.mode = m] \in Inode
  BY DEF Inode

(***************************************************************************)
(* Writing an inode back leaves the inode table and the data bitmap on     *)
(* disk with their types, whatever inode it is (refs.c:127-137).           *)
(***************************************************************************)
LEMMA WriteInodeTypes ==
    ASSUME TypeOK, NEW t \in [InodeSlots -> Inode], NEW i, write_inode(t, i)
    PROVE  d_itab' \in [Inums -> Inode] /\ d_dmap' \subseteq DataSlots
  <1>1. Inums \subseteq InodeSlots
    BY LayoutAssumption DEF Inums, InodeSlots
  <1>2. d_itab \in [Inums -> Inode] /\ d_dmap \subseteq DataSlots
    BY DEF TypeOK
  <1> QED BY <1>1, <1>2, RefsAssumption DEF write_inode, DataSlots

(***************************************************************************)
(* Places of a directory, and what is found there, are in range            *)
(* (refs.c:487-510).                                                       *)
(***************************************************************************)
LEMMA PlaceTypes ==
    ASSUME TypeOK, NEW d \in InodeSlots
    PROVE  /\ Places(d) \subseteq DirectIdx \X DirentIdx
           /\ \A s \in DirectIdx \X DirentIdx :
                 /\ inode_table[d].ptrs[s[1]] \in BlkLbas
                 /\ DirentAt(d, s) \in Dirent
           /\ \A n \in Names : find_child_inum(n, d) \in InodeSlots \cup {NotFound}
           /\ \A n \in Names : NamedPlaces(d, n) # {} =>
                    /\ find_child_inum(n, d) \in InodeSlots
                    /\ First(NamedPlaces(d, n)) \in NamedPlaces(d, n)
                    /\ First(NamedPlaces(d, n)) \in DirectIdx \X DirentIdx
  <1>1. inode_table[d].ptrs \in [DirectIdx -> BlkLbas]
    BY DEF TypeOK, Inode
  <1>2. ASSUME NEW s \in DirectIdx \X DirentIdx
        PROVE  /\ inode_table[d].ptrs[s[1]] \in BlkLbas
               /\ DirentAt(d, s) \in Dirent
    <2>1. s[1] \in DirectIdx /\ s[2] \in DirentIdx
      OBVIOUS
    <2>2. inode_table[d].ptrs[s[1]] \in BlkLbas
      BY <1>1, <2>1
    <2>3. blk[inode_table[d].ptrs[s[1]]].dirents \in [DirentIdx -> Dirent]
      BY <2>2 DEF TypeOK, Block
    <2> QED BY <2>1, <2>2, <2>3 DEF DirentAt
  <1>3. Places(d) \subseteq DirectIdx \X DirentIdx
    BY DEF Places
  <1>4. \A n \in Names : NamedPlaces(d, n) \subseteq DirectIdx \X DirentIdx
    BY <1>3 DEF NamedPlaces, ValidPlaces
  <1>5. \A n \in Names : NamedPlaces(d, n) # {} =>
            First(NamedPlaces(d, n)) \in NamedPlaces(d, n)
    BY <1>4, FirstIsMember
  <1>6. \A e \in Dirent : e.inum \in InodeSlots
    BY DEF Dirent
  <1>7. \A n \in Names : NamedPlaces(d, n) # {} => find_child_inum(n, d) \in InodeSlots
    BY <1>2, <1>4, <1>5, <1>6 DEF find_child_inum
  <1>8. \A n \in Names : find_child_inum(n, d) \in InodeSlots \cup {NotFound}
    BY <1>7 DEF find_child_inum
  <1> QED BY <1>2, <1>3, <1>4, <1>5, <1>7, <1>8

(***************************************************************************)
(* One field of the call changes to a value of its type.                   *)
(***************************************************************************)
LEMMA CallFields ==
    ASSUME NEW c \in Call
    PROVE  /\ \A l \in BlkLbas : [c EXCEPT !.lba = l] \in Call
           /\ \A n \in Int : [c EXCEPT !.left = n] \in Call
           /\ \A n \in Nat : [c EXCEPT !.idx = n] \in Call
           /\ \A b \in BOOLEAN : [c EXCEPT !.filled = b] \in Call
           /\ \A r \in {"ok", "ENOSPC"} : [c EXCEPT !.ret = r] \in Call
  BY DEF Call

(***************************************************************************)
(* The step that follows a shared one.                                     *)
(***************************************************************************)
LEMMA ThenSteps ==
    /\ \A p \in {"mkfs_dmap", "mkfs_inode", "mkfs_imap", "mkdir_dmap", "new_inode",
                  "new_imap", "grow_dmap", "parent_inode", "rm_imap", "rm_inode"} :
          /\ p \in Steppers
          /\ Then[p] \in Steppers
          /\ Then[p] \in Adding => p \in Adding
    /\ {"mkfs_block", "mkfs_super", "entry", "rm_parent", "rm_child",
        "unlink_loop", "release", "reserve", "reserve_inode", "fill", "remove",
        "set_size", "write", "reply"} \subseteq Steppers
  <1>1. DOMAIN Then = {"mkfs_dmap", "mkfs_inode", "mkfs_imap", "mkdir_dmap", "new_inode",
                       "new_imap", "grow_dmap", "parent_inode", "rm_imap", "rm_inode"}
    BY DEF Then
  <1>2. \A p \in {"mkfs_dmap", "mkfs_inode", "mkfs_imap", "mkdir_dmap", "new_inode",
                  "new_imap", "grow_dmap", "parent_inode", "rm_imap", "rm_inode"} :
          /\ Then[p] \in {"mkfs_inode", "mkfs_imap", "mkfs_super", "new_inode", "new_imap",
                          "entry", "parent_inode", "reply", "rm_inode"}
          /\ Then[p] \in Adding => p \in Adding
    BY DEF Then, Adding
  <1> QED BY <1>1, <1>2 DEF Steppers
-----------------------------------------------------------------------------
(***************************************************************************)
(* The types hold initially, and each action preserves them: a lemma per   *)
(* group of actions, in the order of Refs.                                 *)
(***************************************************************************)
LEMMA InitTypes == Init => TypeInv
  <1> SUFFICES ASSUME Init PROVE TypeInv
    OBVIOUS
  <1>1. ns \in [InodeSlots -> NS!Node \cup {NS!Absent, NS!RootNode}]
    BY DEF Init
  <1>2. blk \in [BlkLbas -> Block]
    BY Constructed DEF Init
  <1>3. crashes \in 0 .. MaxCrashes
    BY RefsAssumption DEF Init
  <1>4. d_itab \in [Inums -> Inode] /\ inode_table \in [InodeSlots -> Inode] /\ call \in Call
    BY Constructed DEF Init
  <1>5. exists \in BOOLEAN /\ d_imap = {} /\ d_dmap = {} /\ inode_bitmap = {}
        /\ data_bitmap = {} /\ pc = "down" /\ faults = {}
    BY DEF Init
  <1> QED BY <1>1, <1>2, <1>3, <1>4, <1>5 DEF TypeInv, TypeOK, Adding

(***************************************************************************)
(* A process that ends leaves the types as they are (refs.c:473-480).      *)
(***************************************************************************)
LEMMA DownTypes ==
    ASSUME TypeInv, Down
    PROVE  /\ inode_table' \in [InodeSlots -> Inode]
           /\ inode_bitmap' \subseteq InodeSlots
           /\ data_bitmap' \subseteq DataSlots
           /\ pc' = "down" /\ pc' \notin Adding
           /\ call' \in Call
  BY Constructed DEF Down, Adding

(***************************************************************************)
(* Mounting, unmounting and dying (refs.c:365-480).                        *)
(***************************************************************************)
LEMMA ProcessTypes ==
    ASSUME TypeInv, CreateDisk \/ Mount \/ MountFails \/ refs_destroy \/ Crash \/ WildBit
    PROVE  TypeInv'
  <1>1. CASE CreateDisk
    BY <1>1, ThenSteps DEF CreateDisk, TypeInv, TypeOK, Adding, memory, history
  <1>2. CASE Mount
    <2>1. inode_bitmap' \subseteq InodeSlots
      BY <1>2, LayoutAssumption DEF Mount, TypeInv, TypeOK
    <2>2. inode_table' \in [InodeSlots -> Inode]
      BY <1>2, Constructed DEF Mount, TypeInv, TypeOK
    <2>3. faults' \subseteq Faults
      BY <1>2 DEF Mount, TypeInv, TypeOK, Faults
    <2> QED BY <1>2, <2>1, <2>2, <2>3 DEF Mount, TypeInv, TypeOK, Adding, disk
  <1>3. CASE MountFails
    BY <1>3 DEF MountFails, TypeInv, TypeOK, vars
  <1>4. CASE refs_destroy
    BY <1>4, DownTypes DEF refs_destroy, TypeInv, TypeOK, disk, history
  <1>5. CASE Crash
    <2>1. crashes' \in 0 .. MaxCrashes
      BY <1>5, RefsAssumption DEF Crash, TypeInv, TypeOK
    <2> QED BY <1>5, <2>1, DownTypes DEF Crash, TypeInv, TypeOK, disk
  <1>6. CASE WildBit
    BY <1>6, DownTypes DEF WildBit, TypeInv, TypeOK, disk, history
  <1> QED BY <1>1, <1>2, <1>3, <1>4, <1>5, <1>6

(***************************************************************************)
(* Making the disk (refs.c:253-300, 370-411).                              *)
(***************************************************************************)
LEMMA MkfsTypes ==
    ASSUME TypeInv, alloc_root_dir \/ write_super
    PROVE  TypeInv'
  <1>1. CASE alloc_root_dir
    <2>1. inode_bitmap' \subseteq InodeSlots /\ data_bitmap' \subseteq DataSlots
      BY <1>1, AllocatedInRange DEF alloc_root_dir, TypeInv, TypeOK
    <2>2. inode_table' \in [InodeSlots -> Inode]
      BY <1>1, AllocatedInRange, NewInodes DEF alloc_root_dir, TypeInv, TypeOK
    <2>3. ROOT_INUM \in InodeSlots
      BY LayoutAssumption DEF ROOT_INUM, InodeSlots
    <2>4. blk' \in [BlkLbas -> Block]
      BY <1>1, <2>3, AllocatedInRange, Constructed DEF alloc_root_dir, TypeInv, TypeOK
    <2>5. pc' = "mkfs_dmap"
      BY <1>1 DEF alloc_root_dir
    <2> QED BY <1>1, <2>1, <2>2, <2>4, <2>5, ThenSteps
            DEF alloc_root_dir, TypeInv, TypeOK, Adding, history
  <1>2. CASE write_super
    <2>1. blk' \in [BlkLbas -> Block]
      BY <1>2, Constructed DEF write_super, TypeInv, TypeOK
    <2> QED BY <1>2, <2>1 DEF write_super, TypeInv, TypeOK, Adding, memory, history
  <1> QED BY <1>1, <1>2

(***************************************************************************)
(* The steps that several calls share (refs.c:80-137).                     *)
(***************************************************************************)
LEMMA SharedTypes ==
    ASSUME TypeInv, sync_data_bitmap \/ sync_inode_bitmap \/ WriteBack \/ Reply
    PROVE  TypeInv'
  <1>1. CASE sync_data_bitmap
    <2>1. pc' \in Steppers /\ (pc' \in Adding => pc \in Adding)
      BY <1>1, ThenSteps DEF sync_data_bitmap
    <2> QED BY <1>1, <2>1 DEF sync_data_bitmap, TypeInv, TypeOK, memory, history
  <1>2. CASE sync_inode_bitmap
    <2>1. pc' \in Steppers /\ (pc' \in Adding => pc \in Adding)
      BY <1>2, ThenSteps DEF sync_inode_bitmap
    <2> QED BY <1>2, <2>1 DEF sync_inode_bitmap, TypeInv, TypeOK, memory, history
  <1>3. CASE WriteBack
    <2>1. pc' \in Steppers /\ (pc' \in Adding => pc \in Adding)
      BY <1>3, ThenSteps DEF WriteBack
    <2>2. d_itab' \in [Inums -> Inode] /\ d_dmap' \subseteq DataSlots
      BY <1>3, WriteInodeTypes DEF WriteBack, TypeInv, TypeOK
    <2> QED BY <1>3, <2>1, <2>2 DEF WriteBack, TypeInv, TypeOK, memory, history
  <1>4. CASE Reply
    BY <1>4, Constructed DEF Reply, TypeInv, TypeOK, Adding, disk, memory, history
  <1> QED BY <1>1, <1>2, <1>3, <1>4
-----------------------------------------------------------------------------
(***************************************************************************)
(* mkdir and mknod (refs.c:701-752, 759-839, 1379-1444).                   *)
(***************************************************************************)
LEMMA AddTypes ==
    ASSUME TypeInv, NEW p \in InodeSlots, NEW n \in Names, NEW m \in Modes,
           refs_mkdir(p, n, m) \/ refs_mknod(p, n, m)
    PROVE  TypeInv'
  <1>1. m \in {"rw", "ro"}
    BY RefsAssumption
  <1>2. CASE refs_mkdir(p, n, m)
    <2>1. inode_bitmap' \subseteq InodeSlots /\ data_bitmap' \subseteq DataSlots
      BY <1>2, AllocatedInRange DEF refs_mkdir, TypeInv, TypeOK
    <2>2. inode_table' \in [InodeSlots -> Inode]
      BY <1>1, <1>2, AllocatedInRange, NewInodes DEF refs_mkdir, TypeInv, TypeOK
    <2>3. blk' \in [BlkLbas -> Block]
      BY <1>2, AllocatedInRange, Constructed DEF refs_mkdir, TypeInv, TypeOK
    <2>4. call' \in Call /\ call'.name = n
      BY <1>2, AllocatedInRange, Constructed DEF refs_mkdir, Call
    <2>5. pc' = "mkdir_dmap" /\ faults' \subseteq Faults
      BY <1>2, AllocatedInRange DEF refs_mkdir, TypeInv, TypeOK
    <2> QED BY <1>2, <2>1, <2>2, <2>3, <2>4, <2>5, ThenSteps DEF refs_mkdir, TypeInv, TypeOK
  <1>3. CASE refs_mknod(p, n, m)
    <2>1. inode_bitmap' \subseteq InodeSlots
      BY <1>3, AllocatedInRange DEF refs_mknod, TypeInv, TypeOK
    <2>2. inode_table' \in [InodeSlots -> Inode]
      BY <1>1, <1>3, AllocatedInRange, NewInodes DEF refs_mknod, TypeInv, TypeOK
    <2>3. call' \in Call /\ call'.name = n
      BY <1>3, AllocatedInRange, Constructed DEF refs_mknod, Call
    <2>4. pc' = "new_inode" /\ faults' \subseteq Faults
      BY <1>3, AllocatedInRange DEF refs_mknod, TypeInv, TypeOK
    <2> QED BY <1>3, <2>1, <2>2, <2>3, <2>4, ThenSteps
            DEF refs_mknod, TypeInv, TypeOK, disk
  <1> QED BY <1>2, <1>3

(***************************************************************************)
(* Adding the entry to the parent (refs.c:701-752).                        *)
(***************************************************************************)
LEMMA EntryTypes ==
    ASSUME TypeInv, EntryInSlot \/ EntryInNewBlock \/ EntryNoSpace
    PROVE  TypeInv'
  <1>1. call.parent \in InodeSlots /\ call.child \in InodeSlots
    BY DEF TypeInv, TypeOK, Call
  <1>2. ASSUME pc = "entry"
        PROVE  NewNode \in NS!Node /\ dir_entry(call.child, call.name) \in Dirent
    <2>1. call.name \in Names
      BY <1>2 DEF TypeInv, Adding
    <2> QED BY <1>1, <2>1, Constructed DEF NewNode, NS!Node, NS!Kinds
  <1>3. inode_table[call.parent] \in Inode
    BY <1>1 DEF TypeInv, TypeOK
  <1>4. Inc(inode_table[call.parent].n_links) \in n_links_t
    BY <1>3, LinkCounts DEF Inode
  <1>5. CASE EntryInSlot
    <2>1. ns' \in [InodeSlots -> NS!Node \cup {NS!Absent, NS!RootNode}]
      BY <1>2, <1>5 DEF EntryInSlot, TypeInv, TypeOK
    <2>2. inode_table' \in [InodeSlots -> Inode]
      BY <1>3, <1>4, <1>5, InodeFields DEF EntryInSlot, TypeInv, TypeOK
    <2>3. blk' \in [BlkLbas -> Block]
      <3>1. \A b \in Block : \A k :
               DirBlock([b.dirents EXCEPT ![k] = dir_entry(call.child, call.name)]) \in Block
        BY <1>2, <1>5, Constructed DEF EntryInSlot, Block
      <3> QED BY <3>1, <1>5 DEF EntryInSlot, TypeInv, TypeOK
    <2> QED BY <1>5, <2>1, <2>2, <2>3, ThenSteps DEF EntryInSlot, TypeInv, TypeOK, Adding
  <1>6. CASE EntryInNewBlock
    <2>1. ns' \in [InodeSlots -> NS!Node \cup {NS!Absent, NS!RootNode}]
      BY <1>2, <1>6 DEF EntryInNewBlock, TypeInv, TypeOK
    <2>2. inode_table' \in [InodeSlots -> Inode]
      <3>1. ASSUME NEW ino \in Inode
            PROVE  [ino EXCEPT !.n_links = Inc(@), !.blocks = @ + 1,
                               !.size = @ + BlockSize] \in Inode
        <4>1. /\ Inc(ino.n_links) \in n_links_t
              /\ ino.blocks + 1 \in Nat
              /\ ino.size + BlockSize \in Nat
          BY LinkCounts, LayoutAssumption DEF Inode
        <4> QED BY <4>1 DEF Inode
      <3> QED BY <3>1, <1>6 DEF EntryInNewBlock, TypeInv, TypeOK
    <2>3. blk' \in [BlkLbas -> Block]
      <3>1. [NoDirents EXCEPT ![0] = dir_entry(call.child, call.name)] \in [DirentIdx -> Dirent]
        BY <1>2, <1>6, Constructed DEF EntryInNewBlock, NoDirents
      <3> QED BY <3>1, <1>6, Constructed DEF EntryInNewBlock, TypeInv, TypeOK
    <2>4. data_bitmap' \subseteq DataSlots /\ faults' \subseteq Faults
      BY <1>6, AllocatedInRange DEF EntryInNewBlock, TypeInv, TypeOK, Faults
    <2> QED BY <1>6, <2>1, <2>2, <2>3, <2>4, ThenSteps
            DEF EntryInNewBlock, TypeInv, TypeOK, Adding
  <1>7. CASE EntryNoSpace
    <2>1. call' \in Call
      BY <1>7, CallFields DEF EntryNoSpace, TypeInv, TypeOK
    <2> QED BY <1>7, <2>1, ThenSteps
            DEF EntryNoSpace, TypeInv, TypeOK, Adding, disk, memory, history
  <1> QED BY <1>5, <1>6, <1>7
-----------------------------------------------------------------------------
(***************************************************************************)
(* rmdir and unlink (refs.c:302-313, 924-957, 1254-1341, 1488-1516).       *)
(***************************************************************************)
LEMMA RemoveChildTypes ==
    ASSUME TypeInv, NEW p \in InodeSlots, NEW n \in Names, NEW op \in {"rmdir", "unlink"},
           remove_child(op, p, n)
    PROVE  TypeInv'
  <1> DEFINE c == find_child_inum(n, p)
             s == First(NamedPlaces(p, n))
  <1>1. c \in InodeSlots
    BY PlaceTypes DEF remove_child, TypeInv
  <1> HIDE DEF c, s
  <1>2. /\ blk' = [blk EXCEPT ![inode_table[p].ptrs[s[1]]] =
                       DirBlock([@.dirents EXCEPT ![s[2]] = NoDirent])]
        /\ ns' = [ns EXCEPT ![c] = NS!Absent]
        /\ call' = [NoCall EXCEPT !.op = op, !.parent = p, !.child = c, !.name = n]
        /\ pc' = "rm_parent"
    BY DEF remove_child, c, s
  <1>3. blk' \in [BlkLbas -> Block]
    <2>1. \A b \in Block : \A k : DirBlock([b.dirents EXCEPT ![k] = NoDirent]) \in Block
      BY Constructed DEF Block
    <2> QED BY <1>2, <2>1 DEF TypeInv, TypeOK
  <1>4. call' \in Call
    BY <1>1, <1>2, Constructed DEF Call
  <1>5. ns' \in [InodeSlots -> NS!Node \cup {NS!Absent, NS!RootNode}]
    BY <1>2 DEF TypeInv, TypeOK
  <1> QED BY <1>2, <1>3, <1>4, <1>5, ThenSteps
          DEF remove_child, TypeInv, TypeOK, Adding, memory

(***************************************************************************)
(* A link count changes and the inode is written under its own number.     *)
(***************************************************************************)
LEMMA WriteOwnTypes ==
    ASSUME TypeOK, NEW i, inode_table' \in [InodeSlots -> Inode], WriteOwn(i)
    PROVE  d_itab' \in [Inums -> Inode] /\ d_dmap' \subseteq DataSlots
  BY WriteInodeTypes DEF WriteOwn

(***************************************************************************)
(* Taking a link from an inode (refs.c:1286-1288).                         *)
(***************************************************************************)
LEMMA DecTypes ==
    ASSUME TypeOK, NEW i \in InodeSlots
    PROVE  [inode_table EXCEPT ![i].n_links = Dec(@)] \in [InodeSlots -> Inode]
  <1>1. inode_table[i] \in Inode /\ Dec(inode_table[i].n_links) \in n_links_t
    BY LinkCounts DEF TypeOK, Inode
  <1> QED BY <1>1, InodeFields DEF TypeOK

(***************************************************************************)
(* Removing the last block of a file that has one in the data region       *)
(* (refs.c:924-957).                                                       *)
(***************************************************************************)
LEMMA FileRemoveTypes ==
    ASSUME TypeOK, NEW i \in InodeSlots, file_remove_data_block(i)
    PROVE  /\ inode_table' \in [InodeSlots -> Inode]
           /\ data_bitmap' \subseteq DataSlots
           /\ d_itab' \in [Inums -> Inode] /\ d_dmap' \subseteq DataSlots
  <1>1. inode_table[i] \in Inode /\ inode_table[i].blocks - 1 \in Nat
    <2>1. inode_table[i] \in Inode
      BY DEF TypeOK
    <2>2. inode_table[i].blocks \in Nat
      BY <2>1 DEF Inode
    <2>3. inode_table[i].blocks # 0
      BY DEF file_remove_data_block, LastPtr
    <2> QED BY <2>1, <2>2, <2>3
  <1>2. inode_table' \in [InodeSlots -> Inode]
    BY <1>1, InodeFields DEF file_remove_data_block, TypeOK
  <1>3. data_bitmap' \subseteq DataSlots
    BY DEF file_remove_data_block, TypeOK
  <1>4. d_itab' \in [Inums -> Inode] /\ d_dmap' \subseteq DataSlots
    BY <1>2, WriteOwnTypes DEF file_remove_data_block
  <1> QED BY <1>2, <1>3, <1>4

(***************************************************************************)
(* The steps after an entry is invalidated (refs.c:1286-1338, 1501-1513).  *)
(***************************************************************************)
LEMMA RemoveTypes ==
    ASSUME TypeInv, UnlinkParent \/ UnlinkChild \/ UnlinkBlock \/ release_inode
    PROVE  TypeInv'
  <1>1. call.parent \in InodeSlots /\ call.child \in InodeSlots /\ TypeOK
    BY DEF TypeInv, TypeOK, Call
  <1>2. CASE UnlinkParent
    <2>1. inode_table' \in [InodeSlots -> Inode]
      BY <1>1, <1>2, DecTypes DEF UnlinkParent
    <2>2. d_itab' \in [Inums -> Inode] /\ d_dmap' \subseteq DataSlots
      BY <1>1, <1>2, <2>1, WriteOwnTypes DEF UnlinkParent
    <2> QED BY <1>2, <2>1, <2>2, ThenSteps DEF UnlinkParent, TypeInv, TypeOK, Adding, history
  <1>3. CASE UnlinkChild
    <2>1. inode_table' \in [InodeSlots -> Inode]
      BY <1>1, <1>3, DecTypes DEF UnlinkChild
    <2>2. d_itab' \in [Inums -> Inode] /\ d_dmap' \subseteq DataSlots
      BY <1>1, <1>3, <2>1, WriteOwnTypes DEF UnlinkChild
    <2>3. pc' \in {"reply", "unlink_loop", "release"}
      BY <1>3 DEF UnlinkChild
    <2> QED BY <1>3, <2>1, <2>2, <2>3, ThenSteps
            DEF UnlinkChild, TypeInv, TypeOK, Adding, history
  <1>4. CASE UnlinkBlock
    <2>1. /\ inode_table' \in [InodeSlots -> Inode] /\ data_bitmap' \subseteq DataSlots
          /\ d_itab' \in [Inums -> Inode] /\ d_dmap' \subseteq DataSlots
      BY <1>1, <1>4, FileRemoveTypes DEF UnlinkBlock
    <2>2. call' \in Call
      <3>1. call.idx + 1 \in Nat
        BY <1>1 DEF TypeOK, Call
      <3> QED BY <1>1, <1>4, <3>1, CallFields DEF UnlinkBlock, TypeOK
    <2>3. pc' \in {"unlink_loop", "release"}
      BY <1>4 DEF UnlinkBlock
    <2> QED BY <1>4, <2>1, <2>2, <2>3, ThenSteps
            DEF UnlinkBlock, TypeInv, TypeOK, Adding, history
  <1>5. CASE release_inode
    <2>1. inode_table' \in [InodeSlots -> Inode]
      <3>1. ASSUME NEW ino \in Inode
            PROVE  [ino EXCEPT !.flags = "free", !.n_links = 0, !.size = 0, !.blocks = 0] \in Inode
        <4>1. 0 \in n_links_t
          BY RefsAssumption DEF n_links_t
        <4> QED BY <4>1 DEF Inode
      <3> QED BY <1>5, <3>1 DEF release_inode, TypeInv, TypeOK
    <2>2. /\ inode_bitmap' \subseteq InodeSlots /\ data_bitmap' \subseteq DataSlots
          /\ d_dmap' \subseteq DataSlots
      BY <1>5 DEF release_inode, TypeInv, TypeOK
    <2> QED BY <1>5, <2>1, <2>2, ThenSteps DEF release_inode, TypeInv, TypeOK, Adding, history
  <1> QED BY <1>2, <1>3, <1>4, <1>5
-----------------------------------------------------------------------------
(***************************************************************************)
(* truncate, write and chmod (refs.c:924-1217, 1659-1678).                 *)
(***************************************************************************)
LEMMA BlockNumbers ==
    ASSUME NEW n \in Nat
    PROVE  n \div BlockSize \in Nat
  BY LayoutAssumption, Division

(***************************************************************************)
(* What truncate and write set out to do (refs.c:1083-1113).               *)
(***************************************************************************)
LEMMA ResizeTypes ==
    ASSUME TypeOK, NEW c \in InodeSlots, NEW n \in Nat
    PROVE  /\ Resize(c, n) \in Call
           /\ FirstStep(c, n) \in {"reserve", "fill"}
  <1> DEFINE old == inode_table[c].size \div BlockSize
             new == n \div BlockSize
  <1>1. old \in Nat /\ new \in Nat
    BY BlockNumbers DEF TypeOK, Inode
  <1> HIDE DEF old, new
  <1>2. ASSUME NEW k \in Nat, NEW l \in Int
        PROVE  [NoCall EXCEPT !.child = c, !.size = n, !.idx = k, !.left = l] \in Call
    BY Constructed DEF Call
  <1>3. old - new \in Int /\ new - old \in Int
    BY <1>1
  <1>4. Resize(c, n) \in Call
    BY <1>1, <1>2, <1>3 DEF Resize, old, new
  <1> QED BY <1>4 DEF FirstStep

(***************************************************************************)
(* The calls on files, with the checks they begin with.                    *)
(***************************************************************************)
LEMMA FileCallTypes ==
    ASSUME TypeInv, NEW c \in InodeSlots,
           \/ \E m \in Modes : refs_chmod(c, m)
           \/ \E n \in FileSizes : refs_truncate(c, n)
           \/ \E n, e \in FileSizes : refs_write(c, n, e)
    PROVE  TypeInv'
  <1>1. ASSUME NEW m \in Modes, refs_chmod(c, m) PROVE TypeInv'
    <2>1. inode_table' \in [InodeSlots -> Inode]
      BY <1>1, RefsAssumption, InodeFields DEF refs_chmod, TypeInv, TypeOK
    <2>2. d_itab' \in [Inums -> Inode] /\ d_dmap' \subseteq DataSlots
      BY <1>1, <2>1, WriteInodeTypes DEF refs_chmod, TypeInv
    <2>3. call' \in Call
      BY <1>1, Constructed DEF refs_chmod, Call
    <2> QED BY <1>1, <2>1, <2>2, <2>3, ThenSteps
            DEF refs_chmod, TypeInv, TypeOK, Adding, history
  <1>2. ASSUME NEW n \in FileSizes, refs_truncate(c, n) PROVE TypeInv'
    <2>1. Resize(c, n) \in Call /\ pc' \in {"reserve", "fill"}
      BY <1>2, ResizeTypes, RefsAssumption DEF refs_truncate, TypeInv
    <2>2. call' \in Call
      BY <1>2, <2>1 DEF refs_truncate, Call
    <2> QED BY <1>2, <2>1, <2>2, ThenSteps
            DEF refs_truncate, TypeInv, TypeOK, Adding, disk, memory, history
  <1>3. ASSUME NEW n \in FileSizes, NEW e \in FileSizes, refs_write(c, n, e) PROVE TypeInv'
    <2>1. n \in Nat /\ e \in Nat /\ n \div BlockSize \in Nat /\ e \div BlockSize \in Nat
      BY RefsAssumption, BlockNumbers
    <2>2. call' \in Call /\ pc' \in {"reserve", "fill", "write"}
      <3>1. CASE e > inode_table[c].size
        <4>1. Resize(c, e) \in Call /\ FirstStep(c, e) \in {"reserve", "fill"}
          BY <2>1, ResizeTypes DEF TypeInv
        <4>2. call' = [Resize(c, e) EXCEPT !.op = "write", !.at = n \div BlockSize,
                                           !.last = e \div BlockSize]
              /\ pc' = FirstStep(c, e)
          BY <1>3, <3>1 DEF refs_write
        <4> QED BY <2>1, <4>1, <4>2 DEF Call
      <3>2. CASE ~(e > inode_table[c].size)
        <4>1. call' = [NoCall EXCEPT !.op = "write", !.child = c, !.size = e,
                                     !.idx = n \div BlockSize, !.last = e \div BlockSize]
              /\ pc' = "write"
          BY <1>3, <3>2 DEF refs_write
        <4> QED BY <2>1, <4>1, Constructed DEF Call
      <3> QED BY <3>1, <3>2
    <2> QED BY <1>3, <2>2, ThenSteps
            DEF refs_write, TypeInv, TypeOK, Adding, disk, memory, history
  <1> QED BY <1>1, <1>2, <1>3

(***************************************************************************)
(* The loops that reserve and remove blocks, and the new size              *)
(* (refs.c:1095-1131).                                                     *)
(***************************************************************************)
LEMMA ResizeStepTypes ==
    ASSUME TypeInv, ReserveBlock \/ PointToBlock \/ RemoveBlock \/ SetSize
    PROVE  TypeInv'
  <1>1. call.child \in InodeSlots /\ TypeOK /\ call \in Call
    BY DEF TypeInv, TypeOK, Call
  <1>2. call.left - 1 \in Int /\ call.size \in Nat /\ call.at \in Nat /\ call.lba \in BlkLbas
    BY <1>1 DEF Call
  <1>3. \A k : Loop(k) \in {"set_size", "reserve", "remove"}
    BY DEF Loop
  <1>4. CASE ReserveBlock
    <2>1. data_bitmap' \subseteq DataSlots /\ faults' \subseteq Faults
      BY <1>4, AllocatedInRange DEF ReserveBlock, TypeInv, TypeOK
    <2>2. blk' \in [BlkLbas -> Block]
      BY <1>4, Constructed DEF ReserveBlock, TypeInv, TypeOK
    <2>3. call' \in Call
      BY <1>1, <1>4, AllocatedInRange, CallFields DEF ReserveBlock
    <2> QED BY <1>4, <2>1, <2>2, <2>3, ThenSteps DEF ReserveBlock, TypeInv, TypeOK, Adding
  <1>5. CASE PointToBlock
    <2>1. inode_table' \in [InodeSlots -> Inode]
      <3>1. ASSUME NEW ino \in Inode, NEW k
            PROVE  [ino EXCEPT !.ptrs[k] = call.lba, !.blocks = @ + 1] \in Inode
        <4>1. [ino.ptrs EXCEPT ![k] = call.lba] \in [DirectIdx -> BlkLbas]
          BY <1>2 DEF Inode
        <4>2. ino.blocks + 1 \in Nat
          BY DEF Inode
        <4> QED BY <4>1, <4>2 DEF Inode
      <3> QED BY <1>1, <1>5, <3>1 DEF PointToBlock, TypeOK
    <2>2. d_itab' \in [Inums -> Inode] /\ d_dmap' \subseteq DataSlots
      BY <1>1, <1>5, <2>1, WriteOwnTypes DEF PointToBlock
    <2>3. call' \in Call
      <3>1. (IF call.filled THEN call.left - 1 ELSE call.left) \in Int
        BY <1>1, <1>2 DEF Call
      <3> QED BY <1>1, <1>5, <3>1, CallFields DEF PointToBlock
    <2>4. pc' \in {"set_size", "reserve", "remove", "fill"}
      BY <1>3, <1>5 DEF PointToBlock
    <2> QED BY <1>5, <2>1, <2>2, <2>3, <2>4, ThenSteps
            DEF PointToBlock, TypeInv, TypeOK, Adding, history
  <1>6. CASE RemoveBlock
    <2>1. /\ inode_table' \in [InodeSlots -> Inode] /\ data_bitmap' \subseteq DataSlots
          /\ d_itab' \in [Inums -> Inode] /\ d_dmap' \subseteq DataSlots
      BY <1>1, <1>6, FileRemoveTypes DEF RemoveBlock
    <2>2. call' \in Call
      BY <1>1, <1>2, <1>6, CallFields DEF RemoveBlock
    <2>3. pc' \in {"set_size", "reserve", "remove"}
      BY <1>3, <1>6 DEF RemoveBlock
    <2> QED BY <1>6, <2>1, <2>2, <2>3, ThenSteps
            DEF RemoveBlock, TypeInv, TypeOK, Adding, history
  <1>7. CASE SetSize
    <2>1. inode_table' \in [InodeSlots -> Inode]
      BY <1>1, <1>2, <1>7, InodeFields DEF SetSize, TypeOK
    <2>2. d_itab' \in [Inums -> Inode] /\ d_dmap' \subseteq DataSlots
      BY <1>1, <1>7, <2>1, WriteInodeTypes DEF SetSize
    <2>3. call' \in Call
      BY <1>1, <1>2, <1>7, CallFields DEF SetSize
    <2>4. pc' \in {"write", "reply"}
      BY <1>7 DEF SetSize
    <2> QED BY <1>7, <2>1, <2>2, <2>3, <2>4, ThenSteps
            DEF SetSize, TypeInv, TypeOK, Adding, history
  <1> QED BY <1>4, <1>5, <1>6, <1>7

(***************************************************************************)
(* Filling and writing the blocks of a file (refs.c:1102-1121, 1181-1214). *)
(***************************************************************************)
LEMMA BlockWriteTypes ==
    ASSUME TypeInv, FillBlock \/ WriteBlock
    PROVE  TypeInv'
  <1>1. call.idx + 1 \in Nat /\ call \in Call
    BY DEF TypeInv, TypeOK, Call
  <1>2. \A k : Loop(k) \in {"set_size", "reserve", "remove"}
    BY DEF Loop
  <1>3. CASE FillBlock
    <2>1. blk' \in [BlkLbas -> Block]
      BY <1>3, Constructed DEF FillBlock, TypeInv, TypeOK
    <2>2. call' \in Call
      BY <1>1, <1>3, CallFields DEF FillBlock
    <2> QED BY <1>2, <1>3, <2>1, <2>2, ThenSteps
            DEF FillBlock, TypeInv, TypeOK, Adding, memory, history
  <1>4. CASE WriteBlock
    <2>1. blk' \in [BlkLbas -> Block]
      BY <1>4, Constructed DEF WriteBlock, TypeInv, TypeOK
    <2>2. call' \in Call
      BY <1>1, <1>4, CallFields DEF WriteBlock
    <2> QED BY <1>4, <2>1, <2>2, ThenSteps
            DEF WriteBlock, TypeInv, TypeOK, Adding, memory, history
  <1> QED BY <1>3, <1>4
-----------------------------------------------------------------------------
(***************************************************************************)
(* Every call made on inodes that paths lead to.                           *)
(***************************************************************************)
LEMMA CallsTypes ==
    ASSUME TypeInv, Calls
    PROVE  TypeInv'
  <1>1. PICK i \in Reachable :
          \/ \E n \in Names :
                \/ \E m \in Modes : refs_mkdir(i, n, m) \/ refs_mknod(i, n, m)
                \/ refs_rmdir(i, n)
                \/ refs_unlink(i, n)
          \/ \E m \in Modes : refs_chmod(i, m)
          \/ \E s \in FileSizes : refs_truncate(i, s)
          \/ \E s, t \in FileSizes : refs_write(i, s, t)
    BY DEF Calls
  <1>2. i \in InodeSlots
    BY DEF Reachable
  <1>3. ASSUME NEW n \in Names, NEW m \in Modes, refs_mkdir(i, n, m) \/ refs_mknod(i, n, m)
        PROVE  TypeInv'
    BY <1>2, <1>3, AddTypes
  <1>4. ASSUME NEW n \in Names, refs_rmdir(i, n) \/ refs_unlink(i, n)
        PROVE  TypeInv'
    BY <1>2, <1>4, RemoveChildTypes DEF refs_rmdir, refs_unlink
  <1>5. ASSUME \/ \E m \in Modes : refs_chmod(i, m)
               \/ \E s \in FileSizes : refs_truncate(i, s)
               \/ \E s, t \in FileSizes : refs_write(i, s, t)
        PROVE  TypeInv'
    BY <1>2, <1>5, FileCallTypes
  <1> QED BY <1>1, <1>3, <1>4, <1>5

(***************************************************************************)
(* In every behaviour, whatever limits the file system runs past, every    *)
(* index, pointer and counter stays within its type: first_unset_bit's     *)
(* out-of-bounds results reach the slot after the inode table and the      *)
(* blocks after the disk's end, and nothing beyond them (refs.c:202-228).  *)
(***************************************************************************)
THEOREM TypeInvariant == Spec => []TypeInv
  <1>1. TypeInv /\ [Next]_vars => TypeInv'
    <2> SUFFICES ASSUME TypeInv, [Next]_vars PROVE TypeInv'
      OBVIOUS
    <2>1. CASE UNCHANGED vars
      BY <2>1 DEF vars, TypeInv, TypeOK
    <2>2. CASE CreateDisk \/ Mount \/ MountFails \/ refs_destroy \/ Crash
      BY <2>2, ProcessTypes
    <2>3. CASE Calls
      BY <2>3, CallsTypes
    <2>4. CASE Steps
      BY <2>4, ProcessTypes, MkfsTypes, SharedTypes, EntryTypes, RemoveTypes,
         ResizeStepTypes, BlockWriteTypes DEF Steps
    <2> QED BY <2>1, <2>2, <2>3, <2>4 DEF Next
  <1> QED BY <1>1, InitTypes, PTL DEF Spec

(***************************************************************************)
(* So does the type invariant by itself.                                   *)
(***************************************************************************)
THEOREM TypeCorrect == Spec => []TypeOK
  BY TypeInvariant, PTL DEF TypeInv
-----------------------------------------------------------------------------
(***************************************************************************)
(* The blocks of the data region have distinct addresses after the         *)
(* superblock's (refs.c:343-362).                                          *)
(***************************************************************************)
LEMMA DataBlocks ==
    /\ d_region_start \in Nat /\ d_region_start > SUPER_LBA
    /\ \A i \in DataSlots : /\ i \in Nat
                            /\ Lba(i) \in BlkLbas
                            /\ Lba(i) # SUPER_LBA
                            /\ Lba(i) - d_region_start = i
    /\ \A i, j \in DataSlots : Lba(i) = Lba(j) => i = j
  <1>1. d_region_start \in Nat /\ d_region_start > SUPER_LBA
    BY Starts DEF SUPER_LBA
  <1>2. DataSlots \subseteq Nat
    BY ScanCoversValid, LayoutAssumption DEF DataSlots, BitIndexes
  <1> QED BY <1>1, <1>2 DEF Lba, BlkLbas, SUPER_LBA

(***************************************************************************)
(* Bits and the blocks they mark.                                          *)
(***************************************************************************)
LEMMA MarkedBlocks ==
    ASSUME NEW bits \in SUBSET DataSlots
    PROVE  /\ \A i \in DataSlots : Lba(i) \in Marked(bits) <=> i \in bits
           /\ \A l \in Marked(bits) : /\ l # SUPER_LBA
                                      /\ l - d_region_start \in bits
                                      /\ l = Lba(l - d_region_start)
           /\ \A i : Marked(bits \ {i}) = Marked(bits) \ {Lba(j) : j \in {i} \cap DataSlots}
  BY DataBlocks DEF Marked

(***************************************************************************)
(* Without a fault, a reservation returns a valid, unmarked object, and    *)
(* an inode whose number is its index (refs.c:202-228).                    *)
(***************************************************************************)
LEMMA Allocated ==
    /\ BlockFault = {} => next_block \in DataSlots \ data_bitmap
    /\ InodeFault = {} => /\ next_inode \in Inums \ inode_bitmap
                          /\ inode_table[next_inode].inum = next_inode
  <1>1. BlockFault = {} => next_block \in DataSlots \ data_bitmap
    <2>1. next_block \in DataSlots
      BY AllocatedInRange
    <2>2. next_block < NumDataBlocks => next_block \notin data_bitmap
      BY FirstUnsetBit, LayoutAssumption DEF next_block
    <2>3. next_block \in Nat /\ NumDataBlocks \in Nat
      BY FirstUnsetBit, LayoutAssumption DEF next_block
    <2> QED BY <2>1, <2>2, <2>3 DEF BlockFault
  <1>2. InodeFault = {} => /\ next_inode \in Inums \ inode_bitmap
                           /\ inode_table[next_inode].inum = next_inode
    <2>1. next_inode \in InodeSlots
      BY AllocatedInRange
    <2>2. next_inode < NumInodes => next_inode \notin inode_bitmap
      BY FirstUnsetBit, LayoutAssumption DEF next_inode
    <2>3. next_inode \in Nat /\ NumInodes \in Nat
      BY FirstUnsetBit, LayoutAssumption DEF next_inode
    <2> QED BY <2>1, <2>2, <2>3, LayoutAssumption DEF InodeFault, InodeSlots, Inums
  <1> QED BY <1>1, <1>2
-----------------------------------------------------------------------------
(***************************************************************************)
(* Ownership survives when inodes leave, or lose their last blocks.        *)
(***************************************************************************)
LEMMA OwnedFrame ==
    ASSUME NEW t, NEW u, NEW D, NEW E, E \subseteq D,
           Owned(t, D),
           \A i \in E : /\ u[i].inum = t[i].inum
                        /\ u[i].ptrs = t[i].ptrs
                        /\ t[i].blocks \in Nat /\ u[i].blocks \in Nat
                        /\ u[i].blocks <= t[i].blocks
    PROVE  Owned(u, E)
  <1>0. DirectIdx \subseteq Nat /\ NumDirect \in Nat
    BY RefsAssumption DEF DirectIdx
  <1>1. Numbered(u, E)
    BY <1>0 DEF Owned, Numbered
  <1>2. InRegion(u, E)
    BY <1>0 DEF Owned, InRegion
  <1>3. Exclusive(u, E)
    BY <1>0 DEF Owned, Exclusive
  <1> QED BY <1>1, <1>2, <1>3 DEF Owned

(***************************************************************************)
(* The shape of the tree only depends on four fields of its inodes.        *)
(***************************************************************************)
LEMMA ShapedFrame ==
    ASSUME NEW t, NEW u, Shaped(t),
           \A i \in Live : u[i].flags = t[i].flags,
           \A d \in Dirs : u[d].blocks = t[d].blocks /\ u[d].ptrs = t[d].ptrs
    PROVE  Shaped(u)
  <1>1. Kinded(u)
    BY DEF Shaped, Kinded
  <1>2. ASSUME NEW d \in Dirs PROVE Holds(u, d)
    BY DEF Shaped, Holds
  <1> QED BY <1>1, <1>2 DEF Shaped

(***************************************************************************)
(* What a list of entries says of a directory only depends on the tree.    *)
(***************************************************************************)
LEMMA ListsStep ==
    ASSUME NEW d, ns' = ns
    PROVE  \A e : Lists(e, d) <=> Lists(e, d)'
  <1>1. NS!Children(d)' = NS!Children(d) /\ ParentOf(d)' = ParentOf(d)
    BY DEF NS!Children, ParentOf
  <1>2. ASSUME NEW e PROVE (\A n \in Slots :
            e[n] = NoDirent \/ \E c \in NS!Children(d) : e[n] = dir_entry(c, ns[c].name))'
         <=> (\A n \in Slots :
            e[n] = NoDirent \/ \E c \in NS!Children(d) : e[n] = dir_entry(c, ns[c].name))
    BY <1>1
  <1>3. ASSUME NEW e PROVE
        (\A c \in NS!Children(d) : \E n \in Slots : e[n] = dir_entry(c, ns[c].name))'
        <=> (\A c \in NS!Children(d) : \E n \in Slots : e[n] = dir_entry(c, ns[c].name))
    BY <1>1
  <1> QED BY <1>1, <1>2, <1>3 DEF Lists

(***************************************************************************)
(* A step that moves no name leaves the sets of inodes, the place of every *)
(* inode and the children of every directory.                              *)
(***************************************************************************)
LEMMA TreeStep ==
    ASSUME ns' = ns
    PROVE  /\ Live' = Live /\ Dirs' = Dirs /\ Files' = Files
           /\ PlaceInv => PlaceInv'
           /\ \A d : NS!IsDir(d) <=> NS!IsDir(d)'
           /\ \A d : NS!Children(d)' = NS!Children(d) /\ ParentOf(d)' = ParentOf(d)
  <1>1. Live' = Live /\ Dirs' = Dirs /\ Files' = Files
    BY DEF Live, Dirs, Files, NS!IsDir
  <1>2. PlaceInv => PlaceInv'
    BY <1>1 DEF PlaceInv
  <1> QED BY <1>1, <1>2 DEF NS!IsDir, NS!Children, ParentOf

(***************************************************************************)
(* A step that moves no name and writes neither the kind of a live inode   *)
(* nor the block of a directory keeps the shape of the tree in memory.     *)
(***************************************************************************)
LEMMA ShapedStep ==
    ASSUME Shaped(inode_table), ns' = ns,
           \A i \in Live : inode_table'[i].flags = inode_table[i].flags,
           \A d \in Dirs : /\ inode_table'[d].blocks = inode_table[d].blocks
                           /\ inode_table'[d].ptrs = inode_table[d].ptrs
                           /\ blk'[inode_table[d].ptrs[0]] = blk[inode_table[d].ptrs[0]]
    PROVE  Shaped(inode_table)'
  <1>1. Live' = Live /\ Dirs' = Dirs
    BY TreeStep
  <1>2. Kinded(inode_table)'
    BY <1>1 DEF Shaped, Kinded
  <1>3. ASSUME NEW d \in Dirs PROVE Holds(inode_table, d)'
    BY ListsStep DEF Shaped, Holds
  <1> QED BY <1>1, <1>2, <1>3 DEF Shaped

(***************************************************************************)
(* A crash, an unmount or a chmod writes no directory block: the shape of  *)
(* the tree on the disk remains.                                           *)
(***************************************************************************)
LEMMA DiskShapedStep ==
    ASSUME Shaped(d_itab), UNCHANGED <<ns, blk, d_itab>>
    PROVE  Shaped(d_itab)'
  <1>1. Live' = Live /\ Dirs' = Dirs
    BY TreeStep
  <1>2. Kinded(d_itab)'
    BY <1>1 DEF Shaped, Kinded
  <1>3. ASSUME NEW d \in Dirs PROVE Holds(d_itab, d)'
    BY ListsStep DEF Shaped, Holds
  <1> QED BY <1>1, <1>2, <1>3 DEF Shaped
-----------------------------------------------------------------------------
(***************************************************************************)
(* What the invariant says of the inodes in use, in the forms the steps    *)
(* need.                                                                   *)
(***************************************************************************)
LEMMA Basics ==
    /\ 0 \in DirectIdx /\ DirectIdx \subseteq Nat /\ NumDirect \in Nat
    /\ Inums \subseteq InodeSlots /\ ROOT_INUM \in Inums
    /\ Dirs \subseteq Live /\ Files \subseteq Live /\ Live \subseteq Inums
    /\ \A i \in Live : i \in Files \/ i \in Dirs
    /\ \A i \in Files : i \notin Dirs
    /\ \A d : NS!Children(d) \subseteq InodeSlots
  BY RefsAssumption, LayoutAssumption
     DEF DirectIdx, Inums, InodeSlots, Dirs, Files, Live, NS!Children, ROOT_INUM

(***************************************************************************)
(* What the invariant says of the inodes of the tree and of the call's     *)
(* inode: they are in the table, carry their index as number and are       *)
(* marked.                                                                 *)
(***************************************************************************)
LEMMA OwnFacts ==
    ASSUME TypeInv, MemInv, pc \notin {"down", "mkfs_block"}
    PROVE  /\ Live \subseteq Own /\ Own \subseteq Inums /\ Own \subseteq InodeSlots
           /\ \A i \in Own : /\ inode_table[i] \in Inode
                             /\ inode_table[i].inum = i
                             /\ inode_table[i].blocks \in Nat
                             /\ inode_table[i].blocks <= NumDirect
                             /\ inode_table[i].size \in Nat
           /\ \A i \in Own, k \in DirectIdx :
                 k < inode_table[i].blocks =>
                    /\ inode_table[i].ptrs[k] \in Marked(data_bitmap)
                    /\ inode_table[i].ptrs[k] # SUPER_LBA
           /\ \A i, j \in Own, k, l \in DirectIdx :
                 /\ k < inode_table[i].blocks
                 /\ l < inode_table[j].blocks
                 /\ inode_table[i].ptrs[k] = inode_table[j].ptrs[l]
                 => i = j /\ k = l
  <1>1. Live \subseteq Own /\ Own \subseteq Inums /\ Own \subseteq InodeSlots
    BY Basics DEF MemInv, Owned, Numbered, Own
  <1>2. \A i \in Own : inode_table[i] \in Inode
    BY <1>1 DEF TypeInv, TypeOK
  <1>3. \A i \in Own : /\ inode_table[i].inum = i
                       /\ inode_table[i].blocks <= NumDirect
    BY DEF MemInv, Owned, Numbered
  <1>4. \A i \in Own : inode_table[i].blocks \in Nat /\ inode_table[i].size \in Nat
    BY <1>2 DEF Inode
  <1>5. \A i \in Own, k \in DirectIdx :
            k < inode_table[i].blocks =>
               /\ inode_table[i].ptrs[k] \in Marked(data_bitmap)
               /\ inode_table[i].ptrs[k] # SUPER_LBA
    BY DEF MemInv, Covered, Owned, InRegion
  <1>6. \A i, j \in Own, k, l \in DirectIdx :
            /\ k < inode_table[i].blocks
            /\ l < inode_table[j].blocks
            /\ inode_table[i].ptrs[k] = inode_table[j].ptrs[l]
            => i = j /\ k = l
    BY DEF MemInv, Owned, Exclusive
  <1> QED BY <1>1, <1>2, <1>3, <1>4, <1>5, <1>6

(***************************************************************************)
(* What the invariant says of a directory: one block, marked, that lists   *)
(* its children (refs.c:231-257).                                          *)
(***************************************************************************)
LEMMA DirFacts ==
    ASSUME TypeInv, MemInv, pc \notin {"down", "mkfs_block"}, NEW d \in Dirs
    PROVE  /\ inode_table[d].flags = "dir"
           /\ inode_table[d].blocks = 1
           /\ Lists(blk[inode_table[d].ptrs[0]].dirents, d)
           /\ inode_table[d].ptrs[0] \in BlkLbas
           /\ inode_table[d].ptrs[0] \in Marked(data_bitmap)
           /\ inode_table[d].ptrs[0] # SUPER_LBA
           /\ \A i \in Own, k \in DirectIdx :
                 i # d /\ k < inode_table[i].blocks =>
                    inode_table[i].ptrs[k] # inode_table[d].ptrs[0]
  <1>1. d \in Own /\ d \in Live /\ 0 \in DirectIdx
    BY OwnFacts, Basics
  <1>2. /\ inode_table[d].flags = "dir"
        /\ inode_table[d].blocks = 1
        /\ Lists(blk[inode_table[d].ptrs[0]].dirents, d)
    BY <1>1 DEF MemInv, Shaped, Kinded, Holds
  <1>3. inode_table[d].ptrs[0] \in BlkLbas
    BY <1>1, OwnFacts DEF Inode
  <1> QED BY <1>1, <1>2, <1>3, OwnFacts

(***************************************************************************)
(* Files are the live inodes whose flags say so in memory.                 *)
(***************************************************************************)
LEMMA FileFacts ==
    ASSUME MemInv, pc \notin {"down", "mkfs_block"}, NEW i \in Live
    PROVE  /\ i \in Files <=> inode_table[i].flags = "reg"
           /\ i \in Dirs <=> inode_table[i].flags = "dir"
  BY Basics DEF MemInv, Shaped, Kinded

(***************************************************************************)
(* The steps that keep the tree, and the four fields of every inode in use *)
(* and the blocks of every directory.                                      *)
(***************************************************************************)
LEMMA MemStep ==
    ASSUME TypeInv, TypeInv', MemInv, pc \notin {"down", "mkfs_block"},
           ns' = ns, Own' \subseteq Own, Own' \subseteq inode_bitmap',
           data_bitmap \subseteq data_bitmap',
           \A i \in Own : /\ inode_table'[i].inum = inode_table[i].inum
                          /\ inode_table'[i].flags = inode_table[i].flags
                          /\ inode_table'[i].blocks = inode_table[i].blocks
                          /\ inode_table'[i].ptrs = inode_table[i].ptrs,
           \A d \in Dirs : blk'[inode_table[d].ptrs[0]] = blk[inode_table[d].ptrs[0]]
    PROVE  MemInv'
  <1>1. Live \subseteq Own /\ Dirs \subseteq Live
    BY OwnFacts, Basics
  <1>2. Shaped(inode_table)'
    BY <1>1, ShapedStep DEF MemInv
  <1>3. Owned(inode_table', Own')
    BY OwnedFrame, OwnFacts DEF MemInv
  <1>4. Owned(inode_table, Own)'
    BY <1>3 DEF Owned, Numbered, InRegion, Exclusive
  <1>5. Covered(inode_table, Own, data_bitmap)'
    BY DEF MemInv, Covered, Marked
  <1> QED BY <1>2, <1>4, <1>5 DEF MemInv

(***************************************************************************)
(* Writing an inode back makes the disk agree with memory on it, and keeps *)
(* it so on the others that have not changed (refs.c:127-137).             *)
(***************************************************************************)
LEMMA WriteInodeSame ==
    ASSUME TypeInv, NEW i \in Inums, NEW D \in SUBSET Inums,
           write_inode(inode_table', i),
           \A j \in D \ {i} : /\ Same(j)
                              /\ inode_table'[j].inum = inode_table[j].inum
                              /\ inode_table'[j].flags = inode_table[j].flags
                              /\ inode_table'[j].blocks = inode_table[j].blocks
                              /\ inode_table'[j].ptrs = inode_table[j].ptrs
    PROVE  /\ \A j \in D : Same(j)'
           /\ d_dmap' = d_dmap
  <1>1. /\ d_dmap' = d_dmap
        /\ \A j \in Inums : d_itab'[j] = IF itab_block(j) = itab_block(i)
                                         THEN inode_table'[j] ELSE d_itab[j]
    BY DEF write_inode
  <1> QED BY <1>1 DEF Same

(***************************************************************************)
(* Numbers and pointers on the disk are the memory's.                      *)
(***************************************************************************)
LEMMA DiskOwned ==
    ASSUME TypeInv, MemInv, pc \notin {"down", "mkfs_block"},
           \A i \in Live : Same(i)
    PROVE  Owned(d_itab, Live) /\ Shaped(d_itab)
  <1>1. Owned(d_itab, Live)
    BY OwnFacts, OwnedFrame DEF MemInv, Same
  <1>2. Shaped(d_itab)
    BY Basics, ShapedFrame DEF MemInv, Same
  <1> QED BY <1>1, <1>2

(***************************************************************************)
(* The stages at which the current call needs nothing more.                *)
(***************************************************************************)
Resting == {"down", "idle", "reply"} \cup Making

(***************************************************************************)
(* Between calls, and while the file system is made, there is no call to   *)
(* say anything of.                                                        *)
(***************************************************************************)
LEMMA RestStep ==
    ASSUME pc' \in Resting
    PROVE  AddInv' /\ RemoveInv' /\ SizeInv' /\ Own' = Live'
  BY DEF Resting, Making, AddInv, RemoveInv, SizeInv, Own, Adding, Removing, Sizing, Reserving

(***************************************************************************)
(* The process stops, by itself or by a crash.                             *)
(***************************************************************************)
LEMMA DownStep ==
    ASSUME TypeInv, MakeInv, CoreInv, pc # "down", Down, UNCHANGED <<disk, ns>>
    PROVE  CoreInv'
  <1>1. pc' = "down" /\ UNCHANGED <<exists, d_imap, d_itab, d_dmap, blk>>
    BY DEF Down, disk
  <1>2. PlaceInv' /\ Live' = Live /\ Dirs' = Dirs
    BY TreeStep DEF CoreInv
  <1>3. MemInv' /\ DiskInv' /\ BackedInv'
    BY <1>1 DEF MemInv, DiskInv, BackedInv
  <1>4. AddInv' /\ RemoveInv' /\ SizeInv'
    BY <1>1, RestStep DEF Resting
  <1>5. DownInv'
    <2> SUFFICES ASSUME Formatted PROVE (/\ Owned(d_itab, Live)
                                         /\ Shaped(d_itab)
                                         /\ Covered(d_itab, Dirs, d_dmap)
                                         /\ Live \subseteq d_imap)'
      BY <1>1 DEF DownInv, Formatted
    <2>1. pc \notin Making
      BY DEF MakeInv
    <2>2. /\ MemInv /\ Covered(inode_table, Dirs, d_dmap)
          /\ \A i \in Live : Same(i)
          /\ Live \subseteq d_imap
      BY <2>1 DEF CoreInv, DiskInv, Making
    <2>3. Owned(d_itab, Live) /\ Shaped(d_itab)
      BY <2>1, <2>2, DiskOwned DEF Making
    <2>4. Owned(d_itab, Live)'
      BY <1>1, <1>2, <2>3 DEF Owned, Numbered, InRegion, Exclusive
    <2>5. Shaped(d_itab)'
      BY <1>1, <2>3, DiskShapedStep
    <2>6. Covered(d_itab, Dirs, d_dmap)'
      BY <1>1, <1>2, <2>2, Basics DEF Covered, Same, Marked
    <2> QED BY <1>1, <1>2, <2>2, <2>4, <2>5, <2>6
  <1> QED BY <1>2, <1>3, <1>4, <1>5 DEF CoreInv


(***************************************************************************)
(* What is promised at all is a node of the tree in the inode table.       *)
(***************************************************************************)
LEMMA PlaceFacts ==
    ASSUME TypeInv, PlaceInv
    PROVE  /\ \A i \in InodeSlots \ Live : ns[i] = NS!Absent
           /\ \A i \in Live \ {ROOT_INUM} : ns[i] \in NS!Node
           /\ ROOT_INUM \in Dirs
           /\ \A d : NS!Children(d) \subseteq Live \ {ROOT_INUM}
           /\ \A i \in Live \ {ROOT_INUM} : i \in NS!Children(ns[i].parent)
  <1>1. \A i \in InodeSlots \ Live : ns[i] = NS!Absent
    BY LayoutAssumption DEF Live, InodeSlots, Inums, PlaceInv
  <1>2. ROOT_INUM \in Dirs
    BY Basics DEF PlaceInv, Dirs, Live, NS!IsDir, NS!RootNode, NS!Absent
  <1>3. \A i \in Live \ {ROOT_INUM} : ns[i] \in NS!Node
    BY Basics DEF TypeInv, TypeOK, PlaceInv, Live
  <1>4. \A d : NS!Children(d) \subseteq Live \ {ROOT_INUM}
    BY <1>1 DEF PlaceInv, NS!Children, NS!Kinds, NS!Absent, NS!RootNode
  <1>5. \A i \in Live \ {ROOT_INUM} : i \in NS!Children(ns[i].parent)
    BY <1>3, Basics DEF NS!Children, NS!Node
  <1> QED BY <1>1, <1>2, <1>3, <1>4, <1>5

(***************************************************************************)
(* A file system being made: the first inode is the root's                 *)
(* (refs.c:258-264).                                                       *)
(***************************************************************************)
LEMMA FirstOfNone ==
    ASSUME NEW n \in Nat \ {0}
    PROVE  first_unset_bit({}, n) = 0
  <1>1. ScanBits(n) \in Nat /\ n <= ScanBits(n)
    BY ScanCoversValid
  <1>2. 0 \in Unset({}, n) /\ Unset({}, n) \in SUBSET Nat
    BY <1>1 DEF Unset
  <1>3. Least(Unset({}, n)) \in Nat /\ Least(Unset({}, n)) <= 0
    BY <1>2, LeastIsMin
  <1>4. first_unset_bit({}, n) = Least(Unset({}, n))
    BY <1>2 DEF first_unset_bit
  <1> QED BY <1>3, <1>4

(***************************************************************************)
(* The block new_dir_block fills lists a directory without children        *)
(* (refs.c:231-257).                                                       *)
(***************************************************************************)
LEMMA NewDirLists ==
    ASSUME NEW d, NS!Children(d) = {}
    PROVE  Lists(new_dir_block(d, ParentOf(d)).dirents, d)
  <1> DEFINE e == new_dir_block(d, ParentOf(d)).dirents
  <1>1. /\ 0 \in DirentIdx /\ 1 \in DirentIdx
        /\ Slots \subseteq DirentIdx /\ 0 \notin Slots /\ 1 \notin Slots
    BY RefsAssumption DEF DirentIdx, Slots
  <1>2. /\ e[0] = dir_entry(d, ".") /\ e[1] = dir_entry(ParentOf(d), "..")
        /\ \A n \in Slots : e[n] = NoDirent
    BY <1>1 DEF new_dir_block, DirBlock, NoDirents
  <1>3. \A n \in Slots : ~e[n].is_valid
    BY <1>2 DEF NoDirent
  <1> HIDE DEF e
  <1> QED BY <1>2, <1>3 DEF Lists, e

(***************************************************************************)
(* Opening a new disk file sets up empty tables (refs.c:374-381).          *)
(***************************************************************************)
LEMMA CreateDiskStep ==
    ASSUME TypeInv, MakeInv, CoreInv, CreateDisk
    PROVE  CoreInv'
  <1>1. pc' = "mkfs_block" /\ ns' = ns /\ Live = {ROOT_INUM}
    BY DEF CreateDisk, history, MakeInv
  <1>2. PlaceInv' /\ Files' = Files
    BY <1>1, TreeStep DEF CoreInv
  <1>3. Files = {}
    BY <1>1, Basics DEF CoreInv, PlaceInv, Files, Dirs, NS!IsDir, NS!RootNode
  <1>4. AddInv' /\ RemoveInv' /\ SizeInv'
    BY <1>1, RestStep DEF Resting, Making
  <1>5. MemInv' /\ DiskInv' /\ DownInv' /\ BackedInv'
    BY <1>1, <1>2, <1>3 DEF MemInv, DiskInv, DownInv, BackedInv
  <1> QED BY <1>2, <1>4, <1>5 DEF CoreInv

(***************************************************************************)
(* alloc_root_dir gives the root inode 0 and a marked block with its two   *)
(* entries (refs.c:259-298).                                               *)
(***************************************************************************)
LEMMA AllocRootStep ==
    ASSUME TypeInv, TypeInv', MakeInv, CoreInv, alloc_root_dir
    PROVE  CoreInv'
  <1> DEFINE b == next_block
             r == ROOT_INUM
  <1>1. pc = "mkfs_block" /\ pc' = "mkfs_dmap" /\ ns' = ns
    BY DEF alloc_root_dir, history
  <1>2. /\ Live = {r} /\ inode_table = alloc_inode_table
        /\ inode_bitmap = {} /\ data_bitmap = {}
    BY <1>1 DEF MakeInv, Making
  <1>3. next_inode = r /\ b \in DataSlots
    BY <1>2, FirstOfNone, AllocatedInRange, LayoutAssumption DEF next_inode, ROOT_INUM
  <1>4. Lba(b) \in BlkLbas /\ Lba(b) # SUPER_LBA
    BY <1>3, DataBlocks
  <1>5. r \in InodeSlots /\ r \in Inums /\ 0 \in DirectIdx /\ NumDirect \in Nat \ {0}
    BY Basics, RefsAssumption
  <1>6. /\ inode_bitmap' = {r} /\ data_bitmap' = {b}
        /\ inode_table' = [inode_table EXCEPT ![r] = new_dir_inode(@, Lba(b), "rw")]
        /\ blk' = [blk EXCEPT ![Lba(b)] = new_dir_block(r, r)]
    BY <1>2, <1>3 DEF alloc_root_dir
  <1>7. inode_table \in [InodeSlots -> Inode] /\ blk \in [BlkLbas -> Block]
    BY DEF TypeInv, TypeOK
  <1>8. inode_table[r].inum = r
    BY <1>2, <1>5 DEF alloc_inode_table, ZeroInode
  <1>9. /\ inode_table'[r].inum = r /\ inode_table'[r].flags = "dir"
        /\ inode_table'[r].blocks = 1 /\ inode_table'[r].ptrs[0] = Lba(b)
    BY <1>5, <1>6, <1>7, <1>8 DEF new_dir_inode, Inode
  <1>10. blk'[Lba(b)] = new_dir_block(r, r)
    BY <1>4, <1>6, <1>7
  <1>11. Live' = {r} /\ Own' = {r} /\ Dirs' = {r} /\ Files' = {}
    <2>1. NS!IsDir(r)
      BY <1>5, Basics DEF CoreInv, PlaceInv, NS!IsDir, NS!RootNode
    <2>2. Dirs = {r} /\ Files = {}
      BY <1>2, <2>1 DEF Dirs, Files
    <2> QED BY <1>1, <1>2, <2>2, TreeStep, RestStep DEF Resting, Making
  <1> HIDE DEF b, r
  <1>12. Owned(inode_table, Own)'
    <2>1. \A k \in DirectIdx : k < inode_table'[r].blocks <=> k = 0
      BY <1>9, Basics
    <2> QED BY <1>4, <1>5, <1>9, <1>11, <2>1 DEF Owned, Numbered, InRegion, Exclusive
  <1>13. Covered(inode_table, Own, data_bitmap)'
    <2>1. \A k \in DirectIdx : k < inode_table'[r].blocks <=> k = 0
      BY <1>9, Basics
    <2> QED BY <1>6, <1>9, <1>11, <2>1 DEF Covered, Marked
  <1>14. Shaped(inode_table)'
    <2>1. NS!Children(r) = {} /\ ParentOf(r) = r
      BY <1>2, <1>5, PlaceFacts DEF ParentOf, CoreInv, r
    <2>2. Lists(blk'[inode_table'[r].ptrs[0]].dirents, r)
      BY <1>9, <1>10, <2>1, NewDirLists
    <2>3. Holds(inode_table, r)'
      BY <1>1, <1>9, <2>2, ListsStep DEF Holds
    <2> QED BY <1>9, <1>11, <2>3 DEF Shaped, Kinded
  <1>15. MemInv'
    BY <1>6, <1>11, <1>12, <1>13, <1>14 DEF MemInv
  <1>16. PlaceInv' /\ AddInv' /\ RemoveInv' /\ SizeInv'
    BY <1>1, TreeStep, RestStep DEF CoreInv, Resting, Making
  <1>17. DiskInv' /\ DownInv' /\ BackedInv'
    BY <1>1, <1>11 DEF DiskInv, DownInv, BackedInv
  <1> QED BY <1>15, <1>16, <1>17 DEF CoreInv

(***************************************************************************)
(* A mount that finds every file with its blocks and every block marked    *)
(* starts from the tree that the last process left (refs.c:412-464).       *)
(***************************************************************************)
LEMMA MountStep ==
    ASSUME TypeInv, TypeInv', MakeInv, CoreInv, Healthy', Mount
    PROVE  CoreInv'
  <1>1. /\ pc = "down" /\ pc' = "idle" /\ ns' = ns /\ Formatted
        /\ inode_bitmap' = d_imap /\ data_bitmap' = d_dmap
        /\ UNCHANGED <<d_imap, d_itab, d_dmap, blk>>
        /\ \A i \in Inums : inode_table'[i] = d_itab[i]
    BY Basics DEF Mount, disk, Formatted
  <1>2. /\ \A i \in Live : OnDisk(i) \subseteq Marked(d_dmap)
        /\ \A i \in Live : d_itab[i].flags = "reg" => Backed(d_itab[i])
    BY DEF Mount, Healthy
  <1>3. /\ Owned(d_itab, Live) /\ Shaped(d_itab)
        /\ Covered(d_itab, Dirs, d_dmap)
        /\ Live \subseteq d_imap
    BY <1>1 DEF CoreInv, DownInv
  <1>4. PlaceInv' /\ Live' = Live /\ Dirs' = Dirs /\ Files' = Files
    BY <1>1, TreeStep DEF CoreInv
  <1>5. AddInv' /\ RemoveInv' /\ SizeInv' /\ Own' = Live
    BY <1>1, <1>4, RestStep DEF Resting
  <1>6. MemInv'
    <2>1. \A i \in Live : d_itab[i].blocks \in Nat
      BY Basics DEF TypeInv, TypeOK, Inode
    <2>2. Owned(inode_table', Live)
      BY <1>1, <1>3, <2>1, Basics, OwnedFrame
    <2>3. Owned(inode_table, Own)'
      BY <1>5, <2>2 DEF Owned, Numbered, InRegion, Exclusive
    <2>4. Shaped(inode_table)'
      <3>1. Kinded(inode_table)'
        BY <1>1, <1>3, <1>4, Basics DEF Shaped, Kinded
      <3>2. ASSUME NEW d \in Dirs PROVE Holds(inode_table, d)'
        BY <1>1, <1>3, ListsStep, Basics DEF Shaped, Holds
      <3> QED BY <1>4, <3>1, <3>2 DEF Shaped
    <2>5. Covered(inode_table, Own, data_bitmap)'
      BY <1>1, <1>2, <1>5, Basics DEF Covered, OnDisk, Marked
    <2> QED BY <1>1, <1>3, <1>5, <2>3, <2>4, <2>5 DEF MemInv
  <1>7. DiskInv'
    BY <1>1, <1>3, <1>4, Basics DEF DiskInv, Same, Covered, Marked
  <1>8. DownInv' /\ BackedInv'
    BY <1>1, <1>2, <1>3, <1>4, Basics DEF DownInv, BackedInv, Shaped, Kinded, Backed
  <1> QED BY <1>4, <1>5, <1>6, <1>7, <1>8 DEF CoreInv

(***************************************************************************)
(* The superblock is written when everything else is (refs.c:407).         *)
(***************************************************************************)
LEMMA WriteSuperStep ==
    ASSUME TypeInv, TypeInv', MakeInv, CoreInv, write_super
    PROVE  CoreInv'
  <1>1. /\ pc = "mkfs_super" /\ pc' = "idle" /\ ns' = ns
        /\ UNCHANGED <<d_imap, d_itab, d_dmap, inode_table, inode_bitmap, data_bitmap, call>>
        /\ \A l \in BlkLbas \ {SUPER_LBA} : blk'[l] = blk[l]
    BY DEF write_super, memory, history, TypeInv, TypeOK
  <1>2. PlaceInv' /\ Live' = Live /\ Dirs' = Dirs /\ Files' = Files
    BY <1>1, TreeStep DEF CoreInv
  <1>3. AddInv' /\ RemoveInv' /\ SizeInv' /\ Own' = Live'
    BY <1>1, RestStep DEF Resting
  <1>4. MemInv /\ pc \notin {"down", "mkfs_block"}
    BY <1>1 DEF CoreInv
  <1>5. \A d \in Dirs : blk'[inode_table[d].ptrs[0]] = blk[inode_table[d].ptrs[0]]
    BY <1>1, <1>4, DirFacts
  <1>6. Own \subseteq inode_bitmap /\ Live \subseteq Own
    BY <1>4, OwnFacts DEF MemInv
  <1>7. MemInv'
    BY <1>1, <1>2, <1>3, <1>4, <1>5, <1>6, MemStep
  <1>8. DiskInv'
    BY <1>1, <1>2 DEF CoreInv, DiskInv, Same, Covered, Marked
  <1>9. DownInv' /\ BackedInv'
    BY <1>1, <1>2 DEF CoreInv, DownInv, BackedInv, Backed, Sizing, Reserving
  <1> QED BY <1>2, <1>3, <1>7, <1>8, <1>9 DEF CoreInv
-----------------------------------------------------------------------------
(***************************************************************************)
(* Steps that write memory back and change nothing in it.                  *)
(***************************************************************************)
LEMMA BackedStep ==
    ASSUME CoreInv, pc # "down", ns' = ns,
           pc \notin Sizing \/ (pc' \in Sizing /\ call'.child = call.child),
           \A i \in Files : /\ inode_table'[i].size = inode_table[i].size
                            /\ inode_table'[i].blocks = inode_table[i].blocks
    PROVE  BackedInv'
  BY TreeStep DEF CoreInv, BackedInv, Backed

(***************************************************************************)
(* Writing the data bitmap makes the marks in memory those on the disk, in *)
(* every call that does it.                                                *)
(***************************************************************************)
LEMMA SyncDataStep ==
    ASSUME TypeInv, TypeInv', MakeInv, CoreInv, sync_data_bitmap
    PROVE  CoreInv'
  <1>1. /\ ns' = ns /\ d_dmap' = data_bitmap
        /\ UNCHANGED <<d_imap, d_itab, blk, inode_table, inode_bitmap, data_bitmap, call>>
    BY DEF sync_data_bitmap, memory, history
  <1>2. \/ pc = "mkfs_dmap" /\ pc' = "mkfs_inode"
        \/ pc = "mkdir_dmap" /\ pc' = "new_inode"
    BY DEF sync_data_bitmap, Then, CoreInv, RemoveInv
  <1>3. PlaceInv' /\ Live' = Live /\ Dirs' = Dirs /\ Files' = Files
    BY <1>1, TreeStep DEF CoreInv
  <1>4. MemInv /\ pc \notin {"down", "mkfs_block"}
    BY <1>2 DEF CoreInv
  <1>5. Own' = Own
    BY <1>1, <1>2, <1>3 DEF Own, Adding, Removing
  <1>6. MemInv'
    BY <1>1, <1>4, <1>5, MemStep DEF MemInv
  <1>7. Covered(inode_table, Own, data_bitmap) /\ Dirs \subseteq Own
    BY <1>4, OwnFacts, Basics DEF MemInv
  <1>8. DiskInv'
    BY <1>1, <1>2, <1>3, <1>7 DEF CoreInv, DiskInv, Same, Covered, Marked
  <1>9. DownInv' /\ RemoveInv' /\ SizeInv'
    BY <1>2 DEF DownInv, RemoveInv, SizeInv, Removing, Sizing, Reserving
  <1>10. BackedInv'
    BY <1>1, <1>2, BackedStep DEF Sizing, Reserving
  <1>11. AddInv'
    <2>1. CASE pc = "mkfs_dmap"
      BY <1>2, <2>1 DEF AddInv, Adding
    <2>2. CASE pc = "mkdir_dmap"
      <3>1. call.child \in Own /\ pc \in Adding /\ pc' \in Adding
        BY <1>2, <2>2 DEF Own, Adding
      <3>2. Covered(inode_table, {call.child}, d_dmap)'
        BY <1>1, <1>7, <3>1 DEF Covered, Marked
      <3>3. NS!Children(call.parent)' = NS!Children(call.parent)
        BY <1>1, TreeStep
      <3> QED BY <1>1, <1>2, <1>3, <2>2, <3>1, <3>2, <3>3 DEF CoreInv, AddInv
    <2> QED BY <1>2, <2>1, <2>2
  <1> QED BY <1>3, <1>6, <1>8, <1>9, <1>10, <1>11 DEF CoreInv

(***************************************************************************)
(* Writing the inode bitmap makes the marks in memory those on the disk; a *)
(* new inode is marked there before its entry is written.                  *)
(***************************************************************************)
LEMMA SyncInodesStep ==
    ASSUME TypeInv, TypeInv', MakeInv, CoreInv, sync_inode_bitmap
    PROVE  CoreInv'
  <1>1. /\ ns' = ns /\ d_imap' = inode_bitmap
        /\ UNCHANGED <<d_dmap, d_itab, blk, inode_table, inode_bitmap, data_bitmap, call>>
    BY DEF sync_inode_bitmap, memory, history
  <1>2. \/ pc = "mkfs_imap" /\ pc' = "mkfs_super"
        \/ pc = "new_imap" /\ pc' = "entry"
        \/ pc = "rm_imap" /\ pc' = "rm_inode"
    BY DEF sync_inode_bitmap, Then
  <1>3. PlaceInv' /\ Live' = Live /\ Dirs' = Dirs /\ Files' = Files
    BY <1>1, TreeStep DEF CoreInv
  <1>4. MemInv /\ pc \notin {"down", "mkfs_block"}
    BY <1>2 DEF CoreInv
  <1>5. Own' = Own
    BY <1>1, <1>2, <1>3 DEF Own, Adding, Removing
  <1>6. MemInv'
    BY <1>1, <1>4, <1>5, MemStep DEF MemInv
  <1>7. Own \subseteq inode_bitmap /\ Live \subseteq Own
    BY <1>4, OwnFacts DEF MemInv
  <1>8. DiskInv'
    BY <1>1, <1>2, <1>3, <1>7 DEF CoreInv, DiskInv, Same, Covered, Marked
  <1>9. DownInv' /\ RemoveInv' /\ SizeInv'
    BY <1>1, <1>2 DEF CoreInv, DownInv, RemoveInv, SizeInv, Removing, Sizing, Reserving
  <1>10. BackedInv'
    BY <1>1, <1>2, BackedStep DEF Sizing, Reserving
  <1>11. AddInv'
    <2>1. CASE pc \in {"mkfs_imap", "rm_imap"}
      BY <1>2, <2>1 DEF AddInv, Adding
    <2>2. CASE pc = "new_imap"
      <3>1. call.child \in Own /\ pc \in Adding /\ pc' \in Adding
        BY <1>2, <2>2 DEF Own, Adding
      <3>2. Covered(inode_table, {call.child}, d_dmap)' = Covered(inode_table, {call.child}, d_dmap)
            /\ Same(call.child)' = Same(call.child)
        BY <1>1 DEF Covered, Marked, Same
      <3>3. NS!Children(call.parent)' = NS!Children(call.parent)
        BY <1>1, TreeStep
      <3> QED BY <1>1, <1>2, <1>3, <1>7, <2>2, <3>1, <3>2, <3>3 DEF CoreInv, AddInv
    <2> QED BY <1>2, <2>1, <2>2
  <1> QED BY <1>3, <1>6, <1>8, <1>9, <1>10, <1>11 DEF CoreInv

(***************************************************************************)
(* write_inode copies a block of the table to the disk: live inodes there  *)
(* have the kind and the blocks they have in memory, and so do their       *)
(* neighbours.                                                             *)
(***************************************************************************)
LEMMA WriteBackStep ==
    ASSUME TypeInv, TypeInv', MakeInv, CoreInv, WriteBack
    PROVE  CoreInv'
  <1> DEFINE x == IF pc = "parent_inode" THEN call.parent ELSE call.child
             D == Live \cup {i \in {call.child} : pc = "new_inode"}
  <1>1. /\ ns' = ns /\ write_inode(inode_table', x)
        /\ UNCHANGED <<d_imap, blk, inode_table, inode_bitmap, data_bitmap, call>>
    BY DEF WriteBack, memory, history
  <1>2. \/ pc = "mkfs_inode" /\ pc' = "mkfs_imap"
        \/ pc = "new_inode" /\ pc' = "new_imap"
        \/ pc = "parent_inode" /\ pc' = "reply"
        \/ pc = "rm_inode" /\ pc' = "reply"
    BY DEF WriteBack, Then
  <1>3. PlaceInv' /\ Live' = Live /\ Dirs' = Dirs /\ Files' = Files
    BY <1>1, TreeStep DEF CoreInv
  <1>4. MemInv /\ pc \notin {"down", "mkfs_block"}
    BY <1>2 DEF CoreInv
  <1>5. Own' = Own
    BY <1>1, <1>2, <1>3 DEF Own, Adding, Removing
  <1>6. MemInv'
    BY <1>1, <1>4, <1>5, MemStep DEF MemInv
  <1>7. x \in Inums /\ D \subseteq Inums
    <2>1. pc = "mkfs_inode" => call.child = ROOT_INUM
      BY DEF MakeInv, Making, NoCall, ROOT_INUM
    <2>2. pc = "new_inode" => call.child \in Own
      BY DEF Own, Adding
    <2> QED BY <1>2, <1>4, <2>1, <2>2, OwnFacts, Basics DEF CoreInv, RemoveInv
  <1>8. \A j \in D \ {x} : Same(j)
    <2>1. pc = "mkfs_inode" => D \ {x} = {}
      BY <1>2 DEF MakeInv, Making, NoCall, ROOT_INUM
    <2>2. pc # "mkfs_inode" => \A j \in Live : Same(j)
      BY <1>2 DEF CoreInv, DiskInv
    <2> QED BY <2>1, <2>2
  <1> HIDE DEF x, D
  <1>9. (\A j \in D : Same(j)') /\ d_dmap' = d_dmap
    BY <1>1, <1>7, <1>8, WriteInodeSame
  <1>10. DiskInv'
    BY <1>1, <1>2, <1>3, <1>9 DEF CoreInv, DiskInv, Covered, Marked, D
  <1>11. DownInv' /\ RemoveInv' /\ SizeInv'
    BY <1>1, <1>2 DEF CoreInv, DownInv, RemoveInv, SizeInv, Removing, Sizing, Reserving
  <1>12. BackedInv'
    BY <1>1, <1>2, BackedStep DEF Sizing, Reserving
  <1>13. AddInv'
    <2>1. CASE pc # "new_inode"
      BY <1>2, <2>1 DEF AddInv, Adding
    <2>2. CASE pc = "new_inode"
      <3>1. pc \in Adding /\ pc' \in Adding
        BY <1>2, <2>2 DEF Adding
      <3>2. Covered(inode_table, {call.child}, d_dmap)' = Covered(inode_table, {call.child}, d_dmap)
        BY <1>1, <1>9 DEF Covered, Marked
      <3>3. Same(call.child)'
        <4>1. call.child \in D /\ call.child' = call.child
          BY <1>1, <2>2 DEF D
        <4> QED BY <1>1, <1>9, <4>1 DEF Same
      <3>4. NS!Children(call.parent)' = NS!Children(call.parent)
        BY <1>1, TreeStep
      <3> QED BY <1>1, <1>2, <1>3, <2>2, <3>1, <3>2, <3>3, <3>4 DEF CoreInv, AddInv
    <2> QED BY <2>1, <2>2
  <1> QED BY <1>3, <1>6, <1>10, <1>11, <1>12, <1>13 DEF CoreInv
=============================================================================
