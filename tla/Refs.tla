-------------------------------- MODULE Refs --------------------------------
(***************************************************************************)
(* The core of ReFS (refs.c): the namespace, the two allocators and the    *)
(* inode table, in memory and on disk, with the order of the disk writes   *)
(* of every call that changes state, and crashes between any two of them.  *)
(*                                                                         *)
(* One FUSE call is in progress at a time (README.md: the file system is   *)
(* mounted with -s).  A call begins with the checks of its handler and the *)
(* memory it changes first; from there pc names the next step.  A step     *)
(* makes at most one disk write, and the disk file is opened with O_SYNC,  *)
(* so a crash leaves exactly the writes of the steps taken.                *)
(*                                                                         *)
(* Calls that the handlers refuse without changing state (EACCES, ENOENT,  *)
(* EEXIST, ENOTEMPTY, EFBIG ...) are stuttering steps: the guard of the    *)
(* action is what the handler checks.  A parent that is not a directory is *)
(* refused by the kernel, which resolves paths before it calls FUSE.       *)
(***************************************************************************)
EXTENDS Layout, Integers, FiniteSets

CONSTANTS
    Names,              \* names of entries, of at most MAX_PATH_LEN-1 characters
    Modes,              \* permissions a caller may set: "rw" lets it write, "ro" does not
    FileSizes,          \* the file offsets and sizes callers use
    NumDirect,          \* NUM_DIRECT
    DirentsPerBlock,    \* DIRENTS_PER_BLOCK
    LinkLimit,          \* 2^16: n_links is a uint16_t
    PastTable,          \* bound: what inode NumInodes may make of the data bitmap
    MaxCrashes,         \* bound: crashes in a behaviour
    Follow              \* bound: the faults after which calls are still made

Faults == {"grew", "inodes", "blocks", "inum", "stale", "torn"}

ASSUME RefsAssumption ==
    /\ FileSizes \subseteq Nat
    /\ Modes \subseteq {"rw", "ro"}
    /\ NumDirect \in Nat \ {0}
    /\ DirentsPerBlock \in Nat /\ DirentsPerBlock >= 2
    /\ LinkLimit \in Nat /\ LinkLimit > 2
    /\ PastTable \subseteq SUBSET BitIndexes(NumDataBlocks)
    /\ MaxCrashes \in Nat
    /\ Follow \subseteq Faults
    /\ {".", ".."} \cap Names = {}

VARIABLES
    (* the disk file *)
    exists,             \* the file DISK_PATH has been created
    d_imap,             \* the inode bitmap on disk
    d_itab,             \* the inode table on disk
    d_dmap,             \* the data bitmap on disk
    blk,                \* the superblock's block and the data blocks, by LBA
    (* the process *)
    inode_table,        \* inode_table, with the slot after its end
    inode_bitmap,       \* inode_bitmap->bits
    data_bitmap,        \* data_bitmap->bits
    pc,                 \* "down", "idle" or the next step of the call
    call,               \* the arguments and locals of the call
    (* history *)
    ns,                 \* the tree that the completed writes promise
    faults,             \* the limits this file system has run past
    crashes

disk   == <<exists, d_imap, d_itab, d_dmap, blk>>
memory == <<inode_table, inode_bitmap, data_bitmap>>
history == <<ns, faults, crashes>>
vars   == <<exists, d_imap, d_itab, d_dmap, blk, inode_table, inode_bitmap,
            data_bitmap, pc, call, ns, faults, crashes>>
-----------------------------------------------------------------------------
InodeSlots == 0 .. NumInodes    \* the inode table and the slot after it

(***************************************************************************)
(* The tree that ReFS promises; past its limits it promises nothing.       *)
(***************************************************************************)
NS == INSTANCE Namespace WITH Inums <- InodeSlots, Root <- ROOT_INUM,
                              ok <- (faults = {})
-----------------------------------------------------------------------------
(***************************************************************************)
(* Inodes.  first_unset_bit returns NumInodes when no inode is free, and   *)
(* no caller checks: slot NumInodes is the memory after inode_table, which *)
(* malloc(262144) maps and leaves zero.  Its block is the data bitmap's.   *)
(***************************************************************************)
Inums == 0 .. NumInodes - 1
NotFound == NumInodes + 1

DataSlots == BitIndexes(NumDataBlocks)
Lba(i) == d_region_start + i
BlkLbas == {SUPER_LBA} \cup {Lba(i) : i \in DataSlots}

n_links_t == 0 .. LinkLimit - 1

Inc(n) == (n + 1) % LinkLimit
Dec(n) == (n + (LinkLimit - 1)) % LinkLimit

DirectIdx == 0 .. NumDirect - 1

(***************************************************************************)
(* An inode of zeros: what ftruncate leaves on disk and bzero in memory.   *)
(***************************************************************************)
ZeroInode == [inum |-> 0, flags |-> "free", mode |-> "ro", n_links |-> 0,
              size |-> 0, blocks |-> 0,
              ptrs |-> [j \in DirectIdx |-> SUPER_LBA]]

(***************************************************************************)
(* alloc_inode_table numbers the inodes of the table, not the slot past it *)
(***************************************************************************)
alloc_inode_table ==
    [i \in InodeSlots |->
        IF i \in Inums THEN [ZeroInode EXCEPT !.inum = i] ELSE ZeroInode]

(***************************************************************************)
(* Blocks.  Every block can be read as a directory: a block of zeros, the  *)
(* superblock (num_inodes has a zero low byte) and the modelled file       *)
(* contents have no valid entry.  An invalid entry's bytes are not kept.   *)
(***************************************************************************)
DirentIdx == 0 .. DirentsPerBlock - 1
NoDirent == [is_valid |-> FALSE, inum |-> 0, path |-> "."]
dir_entry(i, n) == [is_valid |-> TRUE, inum |-> i, path |-> n]
NoDirents == [n \in DirentIdx |-> NoDirent]

ZeroBlock == [kind |-> "zero", dirents |-> NoDirents]
SuperBlock == [kind |-> "super", dirents |-> NoDirents]
FileBlock == [kind |-> "file", dirents |-> NoDirents]
DirBlock(e) == [kind |-> "dir", dirents |-> e]

new_dir_block(self, parent) ==
    DirBlock([NoDirents EXCEPT ![0] = dir_entry(self, "."),
                               ![1] = dir_entry(parent, "..")])

(***************************************************************************)
(* A call: its inodes and entry name; the block just reserved; the size to *)
(* set; how many blocks a loop has left; idx and last, the file blocks to  *)
(* visit; at, the first block of a write; whether fill has been done.      *)
(***************************************************************************)
NoCall == [op |-> "none", parent |-> 0, child |-> 0, name |-> ".",
           lba |-> SUPER_LBA, size |-> 0, left |-> 0, idx |-> 0, last |-> 0,
           at |-> 0, filled |-> FALSE, ret |-> "ok"]
-----------------------------------------------------------------------------
(***************************************************************************)
(* Directories as the process sees them: entries are visited block by      *)
(* block and slot by slot.  A place is a pair of both indexes.             *)
(***************************************************************************)
Places(d) == {s \in DirectIdx \X DirentIdx : s[1] < inode_table[d].blocks}
DirentAt(d, s) == blk[inode_table[d].ptrs[s[1]]].dirents[s[2]]
ValidPlaces(d) == {s \in Places(d) : DirentAt(d, s).is_valid}
FreePlaces(d) == Places(d) \ ValidPlaces(d)
NamedPlaces(d, n) == {s \in ValidPlaces(d) : DirentAt(d, s).path = n}

First(S) == CHOOSE s \in S : \A t \in S :
                s[1] < t[1] \/ (s[1] = t[1] /\ s[2] <= t[2])

find_child_inum(n, d) ==
    IF NamedPlaces(d, n) = {} THEN NotFound
    ELSE DirentAt(d, First(NamedPlaces(d, n))).inum

(* Mutant: the first entry after "." and ".." is skipped. *)
DirIsEmptySkips(d) == ValidPlaces(d) \subseteq {<<0, 0>>, <<0, 1>>, <<0, 2>>}

dir_is_empty(d) == ValidPlaces(d) \subseteq {<<0, 0>>, <<0, 1>>}

(***************************************************************************)
(* get_path_inum: the inodes that some path leads to are the smallest set  *)
(* that holds the root and, with a directory, its children.                *)
(***************************************************************************)
Kids(d) == IF inode_table[d].flags = "dir"
           THEN {find_child_inum(n, d) : n \in Names} \ {NotFound} ELSE {}

Reachable ==
    LET kids == [d \in InodeSlots |-> Kids(d)]
        Closed == {S \in SUBSET InodeSlots :
                      ROOT_INUM \in S /\ \A d \in S : kids[d] \subseteq S}
    IN  {i \in InodeSlots : \A S \in Closed : i \in S}

(***************************************************************************)
(* Some directory's block holds file contents, whose bytes the model does  *)
(* not interpret as entries: it makes no further call in such a state.     *)
(***************************************************************************)
Garbled ==
    \E d \in Reachable :
        /\ inode_table[d].flags = "dir"
        /\ \E j \in DirectIdx :
              /\ j < inode_table[d].blocks
              /\ blk[inode_table[d].ptrs[j]].kind = "file"

Serving == pc = "idle" /\ faults \subseteq Follow /\ ~Garbled
-----------------------------------------------------------------------------
(***************************************************************************)
(* Allocation.  The index is used as it is returned: NumDataBlocks and the *)
(* padding bits after it are blocks past the end of the disk file, which   *)
(* pwrite extends.                                                         *)
(***************************************************************************)
next_block == first_unset_bit(data_bitmap, NumDataBlocks)
next_inode == first_unset_bit(inode_bitmap, NumInodes)

BlockFault == IF next_block >= NumDataBlocks THEN {"blocks"} ELSE {}
InodeFault == IF next_inode >= NumInodes THEN {"inodes"}
              ELSE IF inode_table[next_inode].inum # next_inode THEN {"inum"}
              ELSE {}

(***************************************************************************)
(* write_inode writes the whole block of the inode table that holds an     *)
(* inode, from table t.  The block after the table is the data bitmap: for *)
(* inode NumInodes it gets every field of that inode and the memory after  *)
(* it, so which bits are then set is left open (any, but for PastTable).   *)
(***************************************************************************)
(* Mutant: div and mod are swapped in the block's number. *)
WriteInodeMod(t, inum) ==
    IF inum \in Inums
    THEN /\ d_itab' = [i \in Inums |->
                         IF itab_block(i) = inum % InodesPerBlock THEN t[i] ELSE d_itab[i]]
         /\ UNCHANGED d_dmap
    ELSE UNCHANGED <<d_itab, d_dmap>>

write_inode(t, inum) ==
    IF inum \in Inums
    THEN /\ d_itab' = [i \in Inums |->
                         IF itab_block(i) = itab_block(inum) THEN t[i] ELSE d_itab[i]]
         /\ UNCHANGED d_dmap
    ELSE /\ d_dmap' \in PastTable
         /\ UNCHANGED d_itab

(***************************************************************************)
(* The process is gone: memory and call have no contents.                  *)
(***************************************************************************)
Down ==
    /\ pc' = "down"
    /\ call' = NoCall
    /\ inode_table' = alloc_inode_table
    /\ inode_bitmap' = {}
    /\ data_bitmap' = {}
-----------------------------------------------------------------------------
Init ==
    /\ exists = FALSE
    /\ d_imap = {}
    /\ d_itab = [i \in Inums |-> ZeroInode]
    /\ d_dmap = {}
    /\ blk = [l \in BlkLbas |-> ZeroBlock]
    /\ inode_table = alloc_inode_table
    /\ inode_bitmap = {}
    /\ data_bitmap = {}
    /\ pc = "down"
    /\ call = NoCall
    /\ ns = [i \in InodeSlots |-> IF i = ROOT_INUM THEN NS!RootNode ELSE NS!Absent]
    /\ faults = {}
    /\ crashes = 0

(***************************************************************************)
(* The contents reserve_dir_inode and reserve_regfile_inode, with their    *)
(* callers, give a reserved inode.  Other fields keep their old contents.  *)
(***************************************************************************)
new_dir_inode(ino, lba, mode) ==
    [ino EXCEPT !.flags = "dir", !.n_links = 2, !.size = BlockSize,
                !.blocks = 1, !.ptrs[0] = lba, !.mode = mode]
new_regfile_inode(ino, mode) ==
    [ino EXCEPT !.flags = "reg", !.n_links = 1, !.size = 0, !.blocks = 0,
                !.mode = mode]

(***************************************************************************)
(* Steps that several calls share, by the step that follows each.          *)
(***************************************************************************)
Then == [mkfs_dmap    |-> "mkfs_inode", mkfs_inode   |-> "mkfs_imap",
         mkfs_imap    |-> "mkfs_super",
         mkdir_dmap   |-> "new_inode",  new_inode    |-> "new_imap",
         new_imap     |-> "entry",      grow_dmap    |-> "parent_inode",
         parent_inode |-> "reply",      rm_imap      |-> "rm_inode",
         rm_inode     |-> "reply"]

sync_data_bitmap ==
    /\ pc \in {"mkfs_dmap", "mkdir_dmap", "grow_dmap"}
    /\ d_dmap' = data_bitmap
    /\ pc' = Then[pc]
    /\ UNCHANGED <<exists, d_imap, d_itab, blk, memory, call, history>>

sync_inode_bitmap ==
    /\ pc \in {"mkfs_imap", "new_imap", "rm_imap"}
    /\ d_imap' = inode_bitmap
    /\ pc' = Then[pc]
    /\ UNCHANGED <<exists, d_itab, d_dmap, blk, memory, call, history>>

(* Mutant: update_parent_inode returns without writing the parent. *)
WriteBackNotParent ==
    /\ pc \in {"mkfs_inode", "new_inode", "parent_inode", "rm_inode"}
    /\ IF pc = "parent_inode" THEN UNCHANGED <<d_itab, d_dmap>>
                              ELSE write_inode(inode_table, call.child)
    /\ pc' = Then[pc]
    /\ UNCHANGED <<exists, d_imap, blk, memory, call, history>>

WriteBack ==
    /\ pc \in {"mkfs_inode", "new_inode", "parent_inode", "rm_inode"}
    /\ write_inode(inode_table, IF pc = "parent_inode" THEN call.parent ELSE call.child)
    /\ pc' = Then[pc]
    /\ UNCHANGED <<exists, d_imap, blk, memory, call, history>>

Reply ==
    /\ pc = "reply"
    /\ pc' = "idle"
    /\ call' = NoCall
    /\ UNCHANGED <<disk, memory, history>>
-----------------------------------------------------------------------------
(***************************************************************************)
(* refs_init without a disk: make one.  The superblock is written last.    *)
(***************************************************************************)
CreateDisk ==
    /\ pc = "down" /\ ~exists
    /\ exists' = TRUE
    /\ pc' = "mkfs_block"
    /\ UNCHANGED <<d_imap, d_itab, d_dmap, blk, memory, call, history>>

alloc_root_dir ==
    /\ pc = "mkfs_block"
    /\ inode_bitmap' = inode_bitmap \cup {next_inode}
    /\ data_bitmap' = data_bitmap \cup {next_block}
    /\ inode_table' = [inode_table EXCEPT
                          ![next_inode] = new_dir_inode(@, Lba(next_block), "rw")]
    /\ blk' = [blk EXCEPT ![Lba(next_block)] = new_dir_block(ROOT_INUM, ROOT_INUM)]
    /\ pc' = "mkfs_dmap"
    /\ UNCHANGED <<exists, d_imap, d_itab, d_dmap, call, history>>

write_super ==
    /\ pc = "mkfs_super"
    /\ blk' = [blk EXCEPT ![SUPER_LBA] = SuperBlock]
    /\ pc' = "idle"
    /\ UNCHANGED <<exists, d_imap, d_itab, d_dmap, memory, call, history>>

(***************************************************************************)
(* refs_init with a disk: read all metadata.  The table on disk replaces   *)
(* the numbered one, inode numbers included.  The file system runs past a  *)
(* limit here when a live inode's block is not marked in the bitmap read,  *)
(* or a live file has fewer blocks than its size needs.                    *)
(***************************************************************************)
OnDisk(i) == {d_itab[i].ptrs[j] : j \in {k \in DirectIdx : k < d_itab[i].blocks}}
Marked(bits) == {Lba(i) : i \in bits}
Live == {i \in Inums : ns[i] # NS!Absent}
Backed(ino) == ino.size > 0 => ino.blocks > ino.size \div BlockSize

Mount ==
    /\ pc = "down" /\ exists
    /\ blk[SUPER_LBA].kind = "super"
    /\ inode_bitmap' = d_imap
    /\ data_bitmap' = d_dmap
    /\ inode_table' = [i \in InodeSlots |->
                          IF i \in Inums THEN d_itab[i] ELSE ZeroInode]
    /\ pc' = "idle"
    /\ faults' = faults
          \cup {"stale" : i \in {k \in Live : ~(OnDisk(k) \subseteq Marked(d_dmap))}}
          \cup {"torn" : i \in {k \in Live : /\ d_itab[k].flags = "reg"
                                             /\ ~Backed(d_itab[k])}}
    /\ UNCHANGED <<disk, call, ns, crashes>>

(***************************************************************************)
(* With no superblock num_inodes reads as 0, and alloc_inode_table then    *)
(* runs DEFAULT_NUM_INODES inodes past a table of no bytes (refs.c:316-328)*)
(* so that the process dies before it serves a call.                       *)
(***************************************************************************)
MountFails ==
    /\ pc = "down" /\ exists
    /\ blk[SUPER_LBA].kind # "super"
    /\ UNCHANGED vars

(***************************************************************************)
(* refs_destroy frees memory and closes the disk; it writes nothing.       *)
(***************************************************************************)
refs_destroy ==
    /\ pc = "idle"
    /\ Down
    /\ UNCHANGED <<disk, history>>

Crash ==
    /\ pc # "down"
    /\ crashes < MaxCrashes
    /\ crashes' = crashes + 1
    /\ Down
    /\ UNCHANGED <<disk, ns, faults>>
-----------------------------------------------------------------------------
(* Mutant: the search for the name ends at the first free slot. *)
CanAddUpToGap(p, n) ==
    /\ inode_table[p].flags = "dir"
    /\ inode_table[p].mode = "rw"
    /\ \A s \in NamedPlaces(p, n) : \E f \in FreePlaces(p) : f[2] < s[2]

(***************************************************************************)
(* mkdir and mknod: the new inode first, the entry in the parent last.     *)
(***************************************************************************)
CanAdd(p, n) ==
    /\ inode_table[p].flags = "dir"
    /\ inode_table[p].mode = "rw"
    /\ find_child_inum(n, p) = NotFound

refs_mkdir(p, n, mode) ==
    /\ CanAdd(p, n)
    /\ inode_bitmap' = inode_bitmap \cup {next_inode}
    /\ data_bitmap' = data_bitmap \cup {next_block}
    /\ inode_table' = [inode_table EXCEPT
                          ![next_inode] = new_dir_inode(@, Lba(next_block), mode)]
    /\ blk' = [blk EXCEPT ![Lba(next_block)] = new_dir_block(next_inode, p)]
    /\ call' = [NoCall EXCEPT !.op = "mkdir", !.parent = p,
                              !.child = next_inode, !.name = n]
    /\ pc' = "mkdir_dmap"
    /\ faults' = faults \cup InodeFault \cup BlockFault
    /\ UNCHANGED <<exists, d_imap, d_itab, d_dmap, ns, crashes>>

refs_mknod(p, n, mode) ==
    /\ CanAdd(p, n)
    /\ inode_bitmap' = inode_bitmap \cup {next_inode}
    /\ inode_table' = [inode_table EXCEPT
                          ![next_inode] = new_regfile_inode(@, mode)]
    /\ call' = [NoCall EXCEPT !.op = "mknod", !.parent = p,
                              !.child = next_inode, !.name = n]
    /\ pc' = "new_inode"
    /\ faults' = faults \cup InodeFault
    /\ UNCHANGED <<disk, data_bitmap, ns, crashes>>

(***************************************************************************)
(* update_parent_inode: the entry goes to the first free slot ...          *)
(***************************************************************************)
NewNode == [kind |-> IF call.op = "mkdir" THEN "dir" ELSE "reg",
            parent |-> call.parent, name |-> call.name]

EntryInSlot ==
    /\ pc = "entry"
    /\ FreePlaces(call.parent) # {}
    /\ LET s == First(FreePlaces(call.parent))
           lba == inode_table[call.parent].ptrs[s[1]]
       IN  blk' = [blk EXCEPT ![lba] =
                      DirBlock([@.dirents EXCEPT ![s[2]] = dir_entry(call.child, call.name)])]
    /\ inode_table' = [inode_table EXCEPT ![call.parent].n_links = Inc(@)]
    /\ ns' = [ns EXCEPT ![call.child] = NewNode]
    /\ pc' = "parent_inode"
    /\ UNCHANGED <<exists, d_imap, d_itab, d_dmap, inode_bitmap, data_bitmap,
                   call, faults, crashes>>

(***************************************************************************)
(* ... or, when there is none, to a new block, which no pointer is set to. *)
(***************************************************************************)
EntryInNewBlock ==
    /\ pc = "entry"
    /\ FreePlaces(call.parent) = {}
    /\ inode_table[call.parent].blocks < NumDirect
    /\ data_bitmap' = data_bitmap \cup {next_block}
    /\ blk' = [blk EXCEPT ![Lba(next_block)] =
                  DirBlock([NoDirents EXCEPT ![0] = dir_entry(call.child, call.name)])]
    /\ inode_table' = [inode_table EXCEPT ![call.parent].n_links = Inc(@),
                                          ![call.parent].blocks = @ + 1,
                                          ![call.parent].size = @ + BlockSize]
    /\ ns' = [ns EXCEPT ![call.child] = NewNode]
    /\ faults' = faults \cup {"grew"} \cup BlockFault
    /\ pc' = "grow_dmap"
    /\ UNCHANGED <<exists, d_imap, d_itab, d_dmap, inode_bitmap, call, crashes>>

(* Mutant: the link count is not put back. *)
EntryNoSpaceCounts ==
    /\ pc = "entry"
    /\ FreePlaces(call.parent) = {}
    /\ inode_table[call.parent].blocks >= NumDirect
    /\ inode_table' = [inode_table EXCEPT ![call.parent].n_links = Inc(@)]
    /\ call' = [call EXCEPT !.ret = "ENOSPC"]
    /\ pc' = "parent_inode"
    /\ UNCHANGED <<disk, inode_bitmap, data_bitmap, history>>

(***************************************************************************)
(* A full directory: the link count is put back, the new inode is not.     *)
(***************************************************************************)
EntryNoSpace ==
    /\ pc = "entry"
    /\ FreePlaces(call.parent) = {}
    /\ inode_table[call.parent].blocks >= NumDirect
    /\ call' = [call EXCEPT !.ret = "ENOSPC"]
    /\ pc' = "parent_inode"
    /\ UNCHANGED <<disk, memory, history>>
-----------------------------------------------------------------------------
(***************************************************************************)
(* rmdir and unlink: remove_child first invalidates the entry, then        *)
(* updates both link counts; the inode and its blocks are released last.   *)
(***************************************************************************)
remove_child(op, p, n) ==
    /\ inode_table[p].flags = "dir"
    /\ NamedPlaces(p, n) # {}
    /\ LET c == find_child_inum(n, p)
           s == First(NamedPlaces(p, n))
       IN  /\ IF op = "rmdir" THEN inode_table[c].flags = "dir" /\ dir_is_empty(c)
                              ELSE inode_table[c].flags = "reg"
           /\ blk' = [blk EXCEPT ![inode_table[p].ptrs[s[1]]] =
                         DirBlock([@.dirents EXCEPT ![s[2]] = NoDirent])]
           /\ ns' = [ns EXCEPT ![c] = NS!Absent]
           /\ call' = [NoCall EXCEPT !.op = op, !.parent = p, !.child = c, !.name = n]
    /\ pc' = "rm_parent"
    /\ UNCHANGED <<exists, d_imap, d_itab, d_dmap, memory, faults, crashes>>

refs_rmdir(p, n) == remove_child("rmdir", p, n)
refs_unlink(p, n) == remove_child("unlink", p, n)

(***************************************************************************)
(* write_inode(ino->inum): the number stored in the inode, not its index.  *)
(***************************************************************************)
WriteOwn(i) == write_inode(inode_table', inode_table[i].inum)

UnlinkParent ==
    /\ pc = "rm_parent"
    /\ inode_table' = [inode_table EXCEPT ![call.parent].n_links = Dec(@)]
    /\ WriteOwn(call.parent)
    /\ pc' = "rm_child"
    /\ UNCHANGED <<exists, d_imap, blk, inode_bitmap, data_bitmap, call, history>>

UnlinkChild ==
    /\ pc = "rm_child"
    /\ inode_table' = [inode_table EXCEPT ![call.child].n_links = Dec(@)]
    /\ WriteOwn(call.child)
    /\ pc' = IF call.op = "unlink" /\ inode_table'[call.child].n_links # 0 THEN "reply"
             ELSE IF call.op = "unlink" /\ inode_table[call.child].blocks > 0
             THEN "unlink_loop"
             ELSE "release"
    /\ UNCHANGED <<exists, d_imap, blk, inode_bitmap, data_bitmap, call, history>>

(***************************************************************************)
(* file_remove_data_block: drop the last block.  Without blocks, or with a *)
(* pointer below the data region, the index wraps around and clear_bit     *)
(* writes outside the bitmap: see WildBit.                                 *)
(***************************************************************************)
LastPtr(i) == IF inode_table[i].blocks = 0 THEN SUPER_LBA
              ELSE inode_table[i].ptrs[inode_table[i].blocks - 1]

(* Mutant: the first block is freed. *)
RemoveFirst(i) ==
    /\ LastPtr(i) # SUPER_LBA
    /\ data_bitmap' = data_bitmap \ {inode_table[i].ptrs[0] - d_region_start}
    /\ inode_table' = [inode_table EXCEPT ![i].blocks = @ - 1]
    /\ WriteOwn(i)

file_remove_data_block(i) ==
    /\ LastPtr(i) # SUPER_LBA
    /\ data_bitmap' = data_bitmap \ {LastPtr(i) - d_region_start}
    /\ inode_table' = [inode_table EXCEPT ![i].blocks = @ - 1]
    /\ WriteOwn(i)

UnlinkBlock ==
    /\ pc = "unlink_loop"
    /\ file_remove_data_block(call.child)
    /\ call' = [call EXCEPT !.idx = @ + 1]
    /\ pc' = IF call.idx + 1 < inode_table'[call.child].blocks
             THEN "unlink_loop" ELSE "release"
    /\ UNCHANGED <<exists, d_imap, blk, inode_bitmap, history>>

(***************************************************************************)
(* Both bits of the inode, by index and by stored number, and for rmdir    *)
(* the bits of its blocks; then the data bitmap is written.                *)
(***************************************************************************)
BlocksOf(i) == {inode_table[i].ptrs[j] :
                   j \in {k \in DirectIdx : k < inode_table[i].blocks}}

release_inode ==
    /\ pc = "release"
    /\ call.op = "rmdir" => SUPER_LBA \notin BlocksOf(call.child)
    /\ inode_bitmap' = inode_bitmap \ {call.child, inode_table[call.child].inum}
    /\ data_bitmap' = IF call.op = "rmdir"
                      THEN data_bitmap \ {l - d_region_start : l \in BlocksOf(call.child)}
                      ELSE data_bitmap
    /\ inode_table' = [inode_table EXCEPT
                          ![call.child] = [@ EXCEPT !.flags = "free", !.n_links = 0,
                                                    !.size = 0, !.blocks = 0]]
    /\ d_dmap' = data_bitmap'
    /\ pc' = "rm_imap"
    /\ UNCHANGED <<exists, d_imap, d_itab, blk, call, history>>
-----------------------------------------------------------------------------
(***************************************************************************)
(* truncate and write.  Files use direct blocks only here: DirectOnly      *)
(* keeps a file within them, so the code's own limit (EFBIG) and sizes too *)
(* wide for an int are in FileBlocks and not here.  filled is FALSE while  *)
(* the block reserved is the first one of an empty file.                   *)
(***************************************************************************)
CanWrite(c) ==
    /\ inode_table[c].flags = "reg"
    /\ inode_table[c].mode = "rw"

DirectOnly(c, size) ==      \* bound: the blocks a call may make a file have
    inode_table[c].blocks + (size \div BlockSize) - (inode_table[c].size \div BlockSize)
        + (IF inode_table[c].size = 0 THEN 1 ELSE 0) <= NumDirect

(* Mutant: the end of the file is rounded up, so that a size that is a     *)
(* whole number of blocks gets no block for its end.                       *)
ResizeRoundedUp(c, size) ==
    LET Last(n) == IF n = 0 THEN 0 ELSE (n - 1) \div BlockSize
        old == Last(inode_table[c].size)
        new == Last(size)
    IN  IF inode_table[c].size < size
        THEN [NoCall EXCEPT !.child = c, !.size = size, !.idx = old, !.left = new - old]
        ELSE [NoCall EXCEPT !.child = c, !.size = size, !.idx = new, !.left = old - new]

Resize(c, size) ==
    LET old == inode_table[c].size \div BlockSize
        new == size \div BlockSize
    IN  IF inode_table[c].size < size
        THEN [NoCall EXCEPT !.child = c, !.size = size, !.idx = old, !.left = new - old]
        ELSE [NoCall EXCEPT !.child = c, !.size = size, !.idx = new, !.left = old - new]

FirstStep(c, size) ==
    IF inode_table[c].size = 0 /\ size > 0 THEN "reserve" ELSE "fill"

refs_truncate(c, size) ==
    /\ CanWrite(c)
    /\ inode_table[c].size # size
    /\ size > inode_table[c].size => DirectOnly(c, size)
    /\ call' = [Resize(c, size) EXCEPT !.op = "truncate"]
    /\ pc' = FirstStep(c, size)
    /\ UNCHANGED <<disk, memory, history>>

refs_write(c, offset, end) ==
    /\ CanWrite(c)
    /\ offset < end
    /\ IF end > inode_table[c].size
       THEN /\ DirectOnly(c, end)
            /\ call' = [Resize(c, end) EXCEPT !.op = "write", !.at = offset \div BlockSize,
                                              !.last = end \div BlockSize]
            /\ pc' = FirstStep(c, end)
       ELSE /\ call' = [NoCall EXCEPT !.op = "write", !.child = c, !.size = end,
                                      !.idx = offset \div BlockSize,
                                      !.last = end \div BlockSize]
            /\ pc' = "write"
    /\ UNCHANGED <<disk, memory, history>>

(* Mutant: the block's bit is not set. *)
ReserveBlockUnmarked ==
    /\ pc = "reserve"
    /\ blk' = [blk EXCEPT ![Lba(next_block)] = ZeroBlock]
    /\ call' = [call EXCEPT !.lba = Lba(next_block)]
    /\ faults' = faults \cup BlockFault
    /\ pc' = "reserve_inode"
    /\ UNCHANGED <<exists, d_imap, d_itab, d_dmap, memory, ns, crashes>>

(***************************************************************************)
(* file_reserve_data_block: zero the new block, then point to it.  The     *)
(* data bitmap is not written.                                             *)
(***************************************************************************)
ReserveBlock ==
    /\ pc = "reserve"
    /\ data_bitmap' = data_bitmap \cup {next_block}
    /\ blk' = [blk EXCEPT ![Lba(next_block)] = ZeroBlock]
    /\ call' = [call EXCEPT !.lba = Lba(next_block)]
    /\ faults' = faults \cup BlockFault
    /\ pc' = "reserve_inode"
    /\ UNCHANGED <<exists, d_imap, d_itab, d_dmap, inode_table, inode_bitmap,
                   ns, crashes>>

Loop(left) == IF left = 0 THEN "set_size"
              ELSE IF inode_table[call.child].size < call.size THEN "reserve"
              ELSE "remove"

PointToBlock ==
    /\ pc = "reserve_inode"
    /\ inode_table' = [inode_table EXCEPT
                          ![call.child].ptrs[inode_table[call.child].blocks] = call.lba,
                          ![call.child].blocks = @ + 1]
    /\ WriteOwn(call.child)
    /\ call' = [call EXCEPT !.left = IF call.filled THEN @ - 1 ELSE @]
    /\ pc' = IF call.filled THEN Loop(call.left - 1) ELSE "fill"
    /\ UNCHANGED <<exists, d_imap, blk, inode_bitmap, data_bitmap, history>>

(***************************************************************************)
(* The block that holds the smaller of both sizes is rewritten from the    *)
(* second byte after that size on.                                         *)
(***************************************************************************)
SmallerSize(c) == IF inode_table[c].size < call.size THEN inode_table[c].size ELSE call.size

FillBlock ==
    /\ pc = "fill"
    /\ blk' = [blk EXCEPT ![inode_table[call.child].ptrs[call.idx]] =
                  IF (SmallerSize(call.child) % BlockSize) + 1 = BlockSize
                  THEN @ ELSE FileBlock]
    /\ call' = [call EXCEPT !.filled = TRUE]
    /\ pc' = Loop(call.left)
    /\ UNCHANGED <<exists, d_imap, d_itab, d_dmap, memory, history>>

RemoveBlock ==
    /\ pc = "remove"
    /\ file_remove_data_block(call.child)
    /\ call' = [call EXCEPT !.left = @ - 1]
    /\ pc' = Loop(call.left - 1)
    /\ UNCHANGED <<exists, d_imap, blk, inode_bitmap, history>>

SetSize ==
    /\ pc = "set_size"
    /\ inode_table' = [inode_table EXCEPT ![call.child].size = call.size]
    /\ write_inode(inode_table', call.child)
    /\ call' = [call EXCEPT !.idx = call.at]
    /\ pc' = IF call.op = "write" THEN "write" ELSE "reply"
    /\ UNCHANGED <<exists, d_imap, blk, inode_bitmap, data_bitmap, history>>

(* Mutant: the loop does not advance. *)
WriteBlockAgain ==
    /\ pc = "write"
    /\ blk' = [blk EXCEPT ![inode_table[call.child].ptrs[call.idx]] =
                  IF call.idx = call.last /\ call.size % BlockSize = 0 THEN @ ELSE FileBlock]
    /\ pc' = IF call.idx = call.last THEN "reply" ELSE "write"
    /\ UNCHANGED <<exists, d_imap, d_itab, d_dmap, memory, call, history>>

(***************************************************************************)
(* The data, block by block; the last block may get no byte at all.        *)
(***************************************************************************)
WriteBlock ==
    /\ pc = "write"
    /\ blk' = [blk EXCEPT ![inode_table[call.child].ptrs[call.idx]] =
                  IF call.idx = call.last /\ call.size % BlockSize = 0 THEN @ ELSE FileBlock]
    /\ call' = [call EXCEPT !.idx = @ + 1]
    /\ pc' = IF call.idx = call.last THEN "reply" ELSE "write"
    /\ UNCHANGED <<exists, d_imap, d_itab, d_dmap, memory, history>>

refs_chmod(c, mode) ==
    /\ inode_table' = [inode_table EXCEPT ![c].mode = mode]
    /\ write_inode(inode_table', c)
    /\ call' = [NoCall EXCEPT !.op = "chmod", !.child = c]
    /\ pc' = "reply"
    /\ UNCHANGED <<exists, d_imap, blk, inode_bitmap, data_bitmap, history>>

(***************************************************************************)
(* clear_bit with an index that wrapped around: a segmentation fault.      *)
(***************************************************************************)
WildBit ==
    /\ \/ pc \in {"unlink_loop", "remove"} /\ LastPtr(call.child) = SUPER_LBA
       \/ /\ pc = "release" /\ call.op = "rmdir"
          /\ SUPER_LBA \in BlocksOf(call.child)
    /\ Down
    /\ UNCHANGED <<disk, history>>
-----------------------------------------------------------------------------
(***************************************************************************)
(* A call names its inodes by a path, which get_path_inum follows.         *)
(***************************************************************************)
Calls ==
    /\ Serving
    /\ \E i \in Reachable :
          \/ \E n \in Names :
                \/ \E m \in Modes : refs_mkdir(i, n, m) \/ refs_mknod(i, n, m)
                \/ refs_rmdir(i, n)
                \/ refs_unlink(i, n)
          \/ \E m \in Modes : refs_chmod(i, m)
          \/ \E s \in FileSizes : refs_truncate(i, s)
          \/ \E s, t \in FileSizes : refs_write(i, s, t)

(***************************************************************************)
(* What the process does by itself once a call or an mkfs has begun.       *)
(***************************************************************************)
Steps ==
    \/ alloc_root_dir \/ write_super
    \/ sync_data_bitmap \/ sync_inode_bitmap \/ WriteBack \/ Reply
    \/ EntryInSlot \/ EntryInNewBlock \/ EntryNoSpace
    \/ UnlinkParent \/ UnlinkChild \/ UnlinkBlock \/ release_inode
    \/ ReserveBlock \/ PointToBlock \/ FillBlock \/ RemoveBlock \/ SetSize
    \/ WriteBlock \/ WildBit

Next == \/ CreateDisk \/ Mount \/ MountFails \/ refs_destroy \/ Crash
        \/ Calls \/ Steps

Spec == Init /\ [][Next]_vars

(***************************************************************************)
(* The process runs: a call that has begun takes its next step.  Nothing   *)
(* obliges a user to make a call, to mount or to unmount.                  *)
(***************************************************************************)
FairSpec == Spec /\ WF_vars(Steps)
=============================================================================
