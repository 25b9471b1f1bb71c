--------------------------- MODULE RefsProperties ---------------------------
(***************************************************************************)
(* What the core of ReFS guarantees: types, the safety of the tree, of the *)
(* blocks and of the caches under crashes, termination, and at the end the *)
(* claims of the source that the code does not keep.                       *)
(***************************************************************************)
EXTENDS Refs

(***************************************************************************)
(* Types.                                                                  *)
(***************************************************************************)
Steppers == DOMAIN Then \cup
    {"mkfs_block", "mkfs_super", "entry", "rm_parent", "rm_child",
     "unlink_loop", "release", "reserve", "reserve_inode", "fill", "remove",
     "set_size", "write", "reply"}

Inode == [inum : Inums, flags : {"free", "dir", "reg"}, mode : {"rw", "ro"},
          n_links : n_links_t, size : Nat, blocks : Nat,
          ptrs : [DirectIdx -> BlkLbas]]

Dirent == [is_valid : BOOLEAN, inum : InodeSlots, path : Names \cup {".", ".."}]

Block == [kind : {"zero", "super", "file", "dir"}, dirents : [DirentIdx -> Dirent]]

Call == [op : {"none", "mkdir", "mknod", "rmdir", "unlink", "truncate", "write", "chmod"},
         parent : InodeSlots, child : InodeSlots, name : Names \cup {"."},
         lba : BlkLbas, size : Nat, left : Int, idx : Nat, last : Nat, at : Nat,
         filled : BOOLEAN, ret : {"ok", "ENOSPC"}]

(***************************************************************************)
(* The index that first_unset_bit returns is used unchecked (refs.c:202-   *)
(* 228): at the limit it is the slot right after the inode table, or a     *)
(* padding bit or the block after the data region, all of which the types  *)
(* include.  Whatever follows from it, every pointer in an inode and every *)
(* number in an entry stays within these; none goes further astray.        *)
(***************************************************************************)
TypeOK ==
    /\ exists \in BOOLEAN
    /\ d_imap \subseteq InodeSlots
    /\ d_itab \in [Inums -> Inode]
    /\ d_dmap \subseteq DataSlots
    /\ blk \in [BlkLbas -> Block]
    /\ inode_table \in [InodeSlots -> Inode]
    /\ inode_bitmap \subseteq InodeSlots
    /\ data_bitmap \subseteq DataSlots
    /\ pc \in Steppers \cup {"down", "idle"}
    /\ call \in Call
    /\ ns \in [InodeSlots -> NS!Node \cup {NS!Absent, NS!RootNode}]
    /\ faults \subseteq Faults
    /\ crashes \in 0 .. MaxCrashes

-----------------------------------------------------------------------------
(***************************************************************************)
(* Safety, for a file system that has run past none of its limits.         *)
(***************************************************************************)
Healthy == faults = {}
Formatted == blk[SUPER_LBA].kind = "super"

ParentOf(i) == IF i = ROOT_INUM THEN ROOT_INUM ELSE ns[i].parent
Promised(d) == {dir_entry(d, "."), dir_entry(ParentOf(d), "..")}
                  \cup {dir_entry(c, ns[c].name) : c \in NS!Children(d)}
Entries(lba) == {blk[lba].dirents[n] : n \in DirentIdx} \ {NoDirent}

(***************************************************************************)
(* Whatever crashes happened and wherever the running call stands, the     *)
(* disk holds the promised tree: a mount would find, for each of its       *)
(* nodes, a reserved inode of the right kind, and for each directory a     *)
(* marked block with exactly the promised entries.  This is what the order *)
(* of the writes in mkdir, mknod, rmdir and unlink is for (refs.c:829-834, *)
(* 1318-1338, 1435-1439, 1493-1513).                                       *)
(***************************************************************************)
InodeOnDisk(i) ==
    /\ i \in d_imap
    /\ d_itab[i].flags = IF NS!IsDir(i) THEN "dir" ELSE "reg"

EntriesOnDisk(d) ==
    /\ d_itab[d].blocks = 1
    /\ OnDisk(d) \subseteq Marked(d_dmap)
    /\ Entries(d_itab[d].ptrs[0]) = Promised(d)

TreeOnDisk ==
    Healthy /\ Formatted =>
        \A i \in Live : /\ InodeOnDisk(i)
                        /\ NS!IsDir(i) => EntriesOnDisk(i)

(***************************************************************************)
(* No data block belongs to two live inodes, or twice to one, or is the    *)
(* superblock: on disk at every crash point, and in memory while mounted.  *)
(* Reserving, releasing and pointing to a block are separate steps, and    *)
(* the data bitmap on disk lags behind (refs.c:202-208, 924-997).          *)
(***************************************************************************)
Disjoint(table, Blocks(_)) ==
    /\ \A i, j \in Live : i # j => Blocks(i) \cap Blocks(j) = {}
    /\ \A i \in Live :
          /\ SUPER_LBA \notin Blocks(i)
          /\ \A j, k \in DirectIdx :
                j < k /\ k < table[i].blocks => table[i].ptrs[j] # table[i].ptrs[k]

NoSharedBlocks ==
    Healthy /\ Formatted =>
        /\ Disjoint(d_itab, OnDisk)
        /\ pc # "down" => Disjoint(inode_table, BlocksOf)

(***************************************************************************)
(* While mounted, whatever a live inode uses is marked in memory, so that  *)
(* no reservation can hand it out (refs.c:36-37, 197-217).                 *)
(***************************************************************************)
UsedIsMarked ==
    Healthy /\ Formatted /\ pc # "down" =>
        /\ Live \subseteq inode_bitmap
        /\ \A i \in Live : BlocksOf(i) \subseteq Marked(data_bitmap)

(***************************************************************************)
(* Between calls, the inode bitmap and every reserved inode on disk are    *)
(* what memory says: no call forgets to write back what it changed         *)
(* (refs.c:36-37).  The data bitmap on disk may lag behind: see            *)
(* ReservesUnusedBlock.                                                    *)
(***************************************************************************)
WriteThrough ==
    Healthy /\ pc = "idle" =>
        /\ d_imap = inode_bitmap
        /\ \A i \in inode_bitmap : d_itab[i] = inode_table[i]

(***************************************************************************)
(* Between calls, a directory's link count is two plus its children, give  *)
(* or take one for every crash between an entry and the count that goes    *)
(* with it, and counted as a uint16_t: after three such crashes in an      *)
(* empty directory it may have wrapped below zero.  A file's is one, so    *)
(* unlink always deletes it (refs.c:237, 709, 1286-1289, 1501).            *)
(***************************************************************************)
ChildCount(d) == Cardinality(NS!Children(d))
Near(n, c, k) == \E e \in -k .. k : n = (c + e) % LinkLimit

LinksNear(t, k) ==
    \A i \in Live : IF NS!IsDir(i) THEN Near(t[i].n_links, 2 + ChildCount(i), k)
                                   ELSE t[i].n_links = 1

LinkDrift == Healthy /\ pc = "idle" => LinksNear(inode_table, crashes)

(***************************************************************************)
(* Between calls, a file has a block for every byte and for its end, which *)
(* is the block the next read, write or truncate uses unchecked            *)
(* (refs.c:1095-1108, 1112-1126, 1182, 1578).                              *)
(***************************************************************************)
SizeBacked ==
    Healthy /\ pc = "idle" =>
        \A i \in Live : ~NS!IsDir(i) => Backed(inode_table[i])

(***************************************************************************)
(* A call writes no block that a live inode owns, unless it is the parent  *)
(* whose entry changes or the file being resized or written; and never the *)
(* superblock once it is written (refs.c:721, 741, 829, 971, 1026, 1281).  *)
(***************************************************************************)
WritesStayHome ==
    [][ Healthy /\ Healthy' /\ pc # "down" =>
          \A l \in BlkLbas : blk'[l] # blk[l] =>
              /\ l = SUPER_LBA => ~Formatted
              /\ \A i \in Live : l \in BlocksOf(i) =>
                    CASE pc = "idle" -> i = call'.parent
                      [] pc = "entry" -> i = call.parent
                      [] pc \in {"fill", "write"} -> i = call.child
                      [] OTHER -> FALSE ]_vars

(***************************************************************************)
(* Entries appear and disappear atomically and durably, in the tree ReFS   *)
(* promises (refs.c:701-752, 1254-1299).                                   *)
(***************************************************************************)
ImplementsNamespace == NS!Spec

(***************************************************************************)
(* The tree that ReFS keeps so is one: its entries are in directories that *)
(* are in it, since rmdir never removes a directory with entries           *)
(* (refs.c:1312-1315), and a name denotes at most one child of a           *)
(* directory, although looking for the name and adding the entry are scans *)
(* of their own (refs.c:795-802, 711-716).                                 *)
(***************************************************************************)
ParentsAreLive == NS!ParentsAreLive
NamesUnique == NS!NamesUnique

(***************************************************************************)
(* The loops over a file's blocks end, with a reply or with the death of   *)
(* the process: after a crash has torn a file's size from its blocks, too, *)
(* and although one of them changes the count it runs to (refs.c:1106-1126,*)
(* 1201-1212, 1503-1505).                                                  *)
(***************************************************************************)
CallReturns == pc \in Steppers ~> pc \in {"idle", "down"}
-----------------------------------------------------------------------------
(***************************************************************************)
(* Claims of the source's comments that the code does not keep.  Each is   *)
(* checked by a run of its own that shows a behaviour that breaks it.      *)
(***************************************************************************)

(***************************************************************************)
(* reserve_data_block allocates an unused data block (refs.c:198).         *)
(***************************************************************************)
ReservesUnusedBlock ==
    [][ pc # "down" => \A b \in data_bitmap' \ data_bitmap, i \in Live :
            Lba(b) \notin BlocksOf(i) ]_vars

(***************************************************************************)
(* The parent gets a block pointer to the child it stores (refs.c:698-699):*)
(* after a mkdir or mknod that succeeds, the name leads to the new inode.  *)
(***************************************************************************)
CreatedIsFound ==
    pc = "reply" /\ call.op \in {"mkdir", "mknod"} /\ call.ret = "ok" =>
        find_child_inum(call.name, call.parent) = call.child

(***************************************************************************)
(* The index reserve_inode returns is also the inode's number              *)
(* (refs.c:212-213), so a call that releases the inode at an index clears  *)
(* the bit of that index and of no other (refs.c:310).                     *)
(***************************************************************************)
ReleasesItsOwnInode ==
    [][ pc # "down" /\ pc' # "down" =>
            inode_bitmap \ inode_bitmap' \subseteq {call.child} ]_vars
=============================================================================
