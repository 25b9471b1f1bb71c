--------------------------- MODULE RefsInvariant ----------------------------
(***************************************************************************)
(* The inductive invariant of Refs: why the tree on the disk, the blocks   *)
(* of the inodes, the bitmaps and the link counts stay consistent in every *)
(* step of a file system that has run past none of its limits.             *)
(* RefsProofs and RefsCallProofs prove it for every value of the           *)
(* constants.                                                              *)
(***************************************************************************)
EXTENDS RefsProperties

(***************************************************************************)
(* The stages of the calls.                                                *)
(***************************************************************************)
Making == {"mkfs_block", "mkfs_dmap", "mkfs_inode", "mkfs_imap", "mkfs_super"}
Adding == {"mkdir_dmap", "new_inode", "new_imap", "entry"}
Removing == {"rm_parent", "rm_child", "unlink_loop", "release"}
Reserving == {"reserve", "reserve_inode"}
Sizing == Reserving \cup {"fill", "remove", "set_size"}

(***************************************************************************)
(* The types, and that the call which is about to add an entry has a name. *)
(***************************************************************************)
TypeInv ==
    /\ TypeOK
    /\ pc \in Adding => call.name \in Names
-----------------------------------------------------------------------------
(***************************************************************************)
(* The inodes whose blocks nobody else may have: those in the tree and the *)
(* one that the current call makes or removes.                             *)
(***************************************************************************)
Own == Live \cup {i \in {call.child} : pc \in Adding \cup Removing}

(***************************************************************************)
(* An inode table t, for the inodes of a set D: an inode's number is its   *)
(* index and it has as many pointers as blocks; no pointer leads to the    *)
(* superblock; no two pointers lead to one block.                          *)
(***************************************************************************)
Numbered(t, D) ==
    \A i \in D : i \in Inums /\ t[i].inum = i /\ t[i].blocks <= NumDirect

InRegion(t, D) ==
    \A i \in D, k \in DirectIdx : k < t[i].blocks => t[i].ptrs[k] # SUPER_LBA

Exclusive(t, D) ==
    \A i, j \in D, k, l \in DirectIdx :
        /\ k < t[i].blocks
        /\ l < t[j].blocks
        /\ t[i].ptrs[k] = t[j].ptrs[l]
        => i = j /\ k = l

Covered(t, D, bits) ==
    \A i \in D, k \in DirectIdx : k < t[i].blocks => t[i].ptrs[k] \in Marked(bits)

Dirs == {i \in Live : NS!IsDir(i)}
Files == Live \ Dirs

(***************************************************************************)
(* A directory's only block holds ".", ".." and each child once.           *)
(***************************************************************************)
Slots == 2 .. DirentsPerBlock - 1

Lists(e, d) ==
    /\ e[0] = dir_entry(d, ".")
    /\ e[1] = dir_entry(ParentOf(d), "..")
    /\ \A n \in Slots :
          e[n] = NoDirent \/ \E c \in NS!Children(d) : e[n] = dir_entry(c, ns[c].name)
    /\ \A c \in NS!Children(d) : \E n \in Slots : e[n] = dir_entry(c, ns[c].name)
    /\ \A m, n \in Slots :
          e[m].is_valid /\ e[n].is_valid /\ e[m].path = e[n].path => m = n

Holds(t, d) == t[d].blocks = 1 /\ Lists(blk[t[d].ptrs[0]].dirents, d)

Kinded(t) == \A i \in Live : t[i].flags = IF i \in Dirs THEN "dir" ELSE "reg"

Owned(t, D) == Numbered(t, D) /\ InRegion(t, D) /\ Exclusive(t, D)
Shaped(t) == Kinded(t) /\ \A d \in Dirs : Holds(t, d)
-----------------------------------------------------------------------------
(***************************************************************************)
(* The promised tree: the root in its place, and parents in the tree.      *)
(***************************************************************************)
PlaceInv ==
    /\ \A i \in InodeSlots : ns[i] = NS!RootNode <=> i = ROOT_INUM
    /\ ns[NumInodes] = NS!Absent
    /\ \A i \in InodeSlots :
          ns[i].kind \in NS!Kinds => ns[i].parent \in Dirs

(***************************************************************************)
(* Until the superblock is written, nothing can be mounted and the tree is *)
(* the root.                                                               *)
(***************************************************************************)
MakeInv ==
    /\ pc # "down" => exists
    /\ ~exists \/ pc \in Making => ~Formatted /\ Live = {ROOT_INUM}
    /\ pc \in {"down", "idle"} \cup Making => call = NoCall
    /\ pc \in {"down", "mkfs_block"} =>
          /\ inode_table = alloc_inode_table
          /\ inode_bitmap = {}
          /\ data_bitmap = {}

(***************************************************************************)
(* Memory: consistent, and everything in use is marked.                    *)
(***************************************************************************)
MemInv ==
    pc \notin {"down", "mkfs_block"} =>
        /\ Owned(inode_table, Own)
        /\ Shaped(inode_table)
        /\ Covered(inode_table, Own, data_bitmap)
        /\ Own \subseteq inode_bitmap

(***************************************************************************)
(* The disk under a running process: directory blocks are marked, the      *)
(* inodes of the tree are what memory says, apart from counts and sizes,   *)
(* and they are marked.                                                    *)
(***************************************************************************)
Same(i) == /\ d_itab[i].inum = inode_table[i].inum
           /\ d_itab[i].flags = inode_table[i].flags
           /\ d_itab[i].blocks = inode_table[i].blocks
           /\ d_itab[i].ptrs = inode_table[i].ptrs

DiskInv ==
    /\ pc \notin {"down", "mkfs_block", "mkfs_dmap"} =>
          Covered(inode_table, Dirs, d_dmap)
    /\ pc \notin {"down", "mkfs_block", "mkfs_dmap", "mkfs_inode"} =>
          \A i \in Live : Same(i)
    /\ pc \notin {"down", "mkfs_block", "mkfs_dmap", "mkfs_inode", "mkfs_imap"} =>
          Live \subseteq d_imap

(***************************************************************************)
(* The disk that a mount would find.                                       *)
(***************************************************************************)
DownInv ==
    pc = "down" /\ Formatted =>
        /\ Owned(d_itab, Live)
        /\ Shaped(d_itab)
        /\ Covered(d_itab, Dirs, d_dmap)
        /\ Live \subseteq d_imap
-----------------------------------------------------------------------------
(***************************************************************************)
(* A call that adds an inode: what of it is on the disk at each stage.     *)
(***************************************************************************)
AddInv ==
    pc \in Adding =>
        /\ call.child \notin Live
        /\ call.parent \in Dirs
        /\ \A c \in NS!Children(call.parent) : ns[c].name # call.name
        /\ \/ /\ call.op = "mkdir"
              /\ inode_table[call.child].flags = "dir"
              /\ inode_table[call.child].blocks = 1
              /\ blk[inode_table[call.child].ptrs[0]] =
                    new_dir_block(call.child, call.parent)
              /\ pc # "mkdir_dmap" =>
                    Covered(inode_table, {call.child}, d_dmap)
           \/ /\ call.op = "mknod"
              /\ inode_table[call.child].flags = "reg"
              /\ inode_table[call.child].blocks = 0
              /\ inode_table[call.child].size = 0
              /\ pc # "mkdir_dmap"
        /\ pc \in {"new_imap", "entry"} => Same(call.child)
        /\ pc = "entry" => call.child \in d_imap

(***************************************************************************)
(* A call that removes an inode, or writes one back.  No directory grows.  *)
(***************************************************************************)
RemoveInv ==
    /\ pc \in Removing => call.child \in InodeSlots \ Live
    /\ pc \in {"rm_imap", "rm_inode"} => call.child \in Inums
    /\ pc = "parent_inode" => call.parent \in Inums
    /\ pc # "grow_dmap"

(***************************************************************************)
(* Files have a block for their end, and a call that resizes one ends with *)
(* the blocks that its new size needs: it has First blocks to reserve for  *)
(* an empty file and left others to reserve or to remove.                  *)
(***************************************************************************)
Grows(i) == inode_table[i].size < call.size
Pending == call.left + (IF call.filled THEN 0 ELSE 1)
Last == call.size \div BlockSize

SizeInv ==
    LET ino == inode_table[call.child]
    IN  /\ pc \in Sizing \cup {"write"} => call.child \in Files
        /\ pc \in Sizing => /\ call.left >= 0
                            /\ call.op = "write" => call.at <= call.last /\ call.last = Last
        /\ pc \in Reserving => /\ Grows(call.child)
                               /\ ino.blocks + Pending <= NumDirect
                               /\ ino.blocks + Pending > Last
                               /\ call.filled => call.left > 0
                               /\ ~call.filled => call.idx = 0
        /\ pc = "fill" =>
              /\ call.idx < ino.blocks
              /\ IF Grows(call.child)
                 THEN /\ ino.blocks + call.left <= NumDirect
                      /\ ino.blocks + call.left > Last
                 ELSE ino.blocks - call.left > Last
        /\ pc = "remove" => /\ ~Grows(call.child)
                            /\ call.left > 0
                            /\ ino.blocks - call.left > Last
        /\ pc = "set_size" => ino.blocks > Last
        /\ pc = "write" => call.idx <= call.last /\ call.last < ino.blocks
        /\ pc = "reserve_inode" =>
              /\ call.lba \in Marked(data_bitmap)
              /\ \A i \in Live, k \in DirectIdx :
                    k < inode_table[i].blocks => inode_table[i].ptrs[k] # call.lba

BackedInv ==
    pc # "down" => \A i \in Files :
        Backed(inode_table[i]) \/ (pc \in Sizing /\ i = call.child)

(***************************************************************************)
(* What holds until the file system runs past a limit.                     *)
(***************************************************************************)
CoreInv ==
    /\ PlaceInv /\ MemInv /\ DiskInv /\ DownInv
    /\ AddInv /\ RemoveInv /\ SizeInv /\ BackedInv

(***************************************************************************)
(* Types and the stages of mkfs in every file system; the tree, the blocks *)
(* and the bitmaps in one that has run past none of its limits, at every   *)
(* step of every call (refs.c:370-480, 759-1126, 1254-1549).               *)
(***************************************************************************)
IInv == TypeInv /\ MakeInv /\ (Healthy => CoreInv)
-----------------------------------------------------------------------------
(***************************************************************************)
(* What of memory the disk has.  Every reserved inode is on the disk, but  *)
(* the one that the current call has changed and not written yet; and the  *)
(* inode bitmap, until the call that changed it has written it.            *)
(***************************************************************************)
Unsaved ==
    {i \in {call.child} : pc \in {"mkfs_dmap", "mkfs_inode", "mkdir_dmap", "new_inode"}}
        \cup {i \in {call.parent} : pc = "parent_inode"}

Lagging == {"down", "mkdir_dmap", "new_inode", "new_imap", "rm_imap"}
              \cup (Making \ {"mkfs_super"})

SyncInv ==
    /\ d_imap \cup inode_bitmap \subseteq Inums
    /\ pc \notin Lagging => d_imap = inode_bitmap
    /\ pc \notin {"down", "mkfs_block"} =>
          \A i \in inode_bitmap \ Unsaved : d_itab[i] = inode_table[i]

(***************************************************************************)
(* Link counts: an entry's removal precedes its parent's count by a step,  *)
(* and a new entry its parent's count on disk; a crash makes the gap last. *)
(***************************************************************************)
Owed(i) == IF pc = "rm_parent" /\ i = call.parent THEN 1 ELSE 0

LinkInv ==
    /\ pc \in {"rm_parent", "rm_child", "parent_inode"} => call.parent \in Dirs
    /\ pc \in Adding =>
          inode_table[call.child].n_links = IF call.op = "mkdir" THEN 2 ELSE 1
    /\ pc \notin {"down", "mkfs_block"} =>
          /\ \A i \in Dirs :
                Near(inode_table[i].n_links, 2 + ChildCount(i) + Owed(i), crashes)
          /\ \A i \in Files : inode_table[i].n_links = 1
    /\ pc = "parent_inode" =>
          Near(d_itab[call.parent].n_links, 2 + ChildCount(call.parent), crashes + 1)
    /\ pc = "down" /\ Formatted => LinksNear(d_itab, crashes)

(***************************************************************************)
(* The caches and the link counts at every step of every call: each write  *)
(* that a call owes the disk is still ahead of it (refs.c:36-37, 700-752,  *)
(* 1264-1289).  Inductive together with IInv.                              *)
(***************************************************************************)
CountInv == Healthy => SyncInv /\ LinkInv
=============================================================================
