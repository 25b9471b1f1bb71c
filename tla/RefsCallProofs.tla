--------------------------- MODULE RefsCallProofs ---------------------------
(***************************************************************************)
(* The calls of ReFS keep the inductive invariant of Refs, step by step,   *)
(* and with it what RefsProperties promises of the tree and the blocks;    *)
(* and on top of it, in the last part, that the disk has what memory has   *)
(* and that the link counts count the children.                            *)
(***************************************************************************)
EXTENDS RefsProofs

(***************************************************************************)
(* A call returns, and the process stops (refs.c:466-480).                 *)
(***************************************************************************)
LEMMA ReplyStep ==
    ASSUME TypeInv, TypeInv', CoreInv, Reply
    PROVE  CoreInv'
  <1>1. /\ ns' = ns /\ pc = "reply" /\ pc' = "idle"
        /\ UNCHANGED <<d_imap, d_dmap, d_itab, blk, inode_table, inode_bitmap, data_bitmap>>
    BY DEF Reply, disk, memory, history
  <1>2. PlaceInv' /\ Live' = Live /\ Dirs' = Dirs /\ Files' = Files
    BY <1>1, TreeStep DEF CoreInv
  <1>3. AddInv' /\ RemoveInv' /\ SizeInv' /\ Own' = Live'
    BY <1>1, RestStep DEF Resting
  <1>4. MemInv /\ pc \notin {"down", "mkfs_block"}
    BY <1>1 DEF CoreInv
  <1>5. Own' \subseteq Own /\ Own' \subseteq inode_bitmap'
    BY <1>1, <1>2, <1>3, <1>4, OwnFacts DEF MemInv
  <1>6. MemInv'
    BY <1>1, <1>4, <1>5, MemStep
  <1>7. DiskInv' /\ DownInv'
    BY <1>1, <1>2 DEF CoreInv, DiskInv, DownInv, Same, Covered, Marked
  <1>8. BackedInv'
    BY <1>1, BackedStep DEF Sizing, Reserving
  <1> QED BY <1>2, <1>3, <1>6, <1>7, <1>8 DEF CoreInv

(***************************************************************************)
(* Unmounting, a crash and a wild bit index all lose the memory.           *)
(***************************************************************************)
LEMMA StopStep ==
    ASSUME TypeInv, MakeInv, CoreInv, refs_destroy \/ Crash \/ WildBit
    PROVE  CoreInv'
  <1>1. Down /\ UNCHANGED <<disk, ns>> /\ pc # "down"
    BY DEF refs_destroy, Crash, WildBit, history
  <1> QED BY <1>1, DownStep

(***************************************************************************)
(* Nothing but making a disk changes what MakeInv says of a disk, and only *)
(* a process that stops, a mount or a finished call leaves no call.        *)
(***************************************************************************)
LEMMA MakeCallStep ==
    ASSUME MakeInv, pc # "down", exists' = exists,
           pc' \notin {"down", "idle"} \cup Making
    PROVE  MakeInv'
  BY DEF MakeInv, Making

(***************************************************************************)
(* Stuttering keeps the stages of making a file system.                    *)
(***************************************************************************)
LEMMA MakeStutter ==
    ASSUME TypeInv, MakeInv, UNCHANGED vars
    PROVE  MakeInv'
  <1>1. Live' = Live
    BY TreeStep DEF vars
  <1> QED BY <1>1 DEF MakeInv, vars, Formatted

(***************************************************************************)
(* A process that ends leaves the disk as far as mkfs had written it.      *)
(***************************************************************************)
LEMMA MakeDownStep ==
    ASSUME MakeInv, Down, UNCHANGED <<exists, blk, ns>>, pc # "down"
    PROVE  MakeInv'
  BY DEF MakeInv, Down, Making

(***************************************************************************)
(* What all calls have in common: they begin in an idle process.           *)
(***************************************************************************)
LEMMA CallFrame ==
    ASSUME Calls
    PROVE  /\ pc = "idle" /\ exists' = exists /\ faults \subseteq faults'
           /\ pc' \notin {"down", "idle"} \cup Making
  <1>1. pc = "idle"
    BY DEF Calls, Serving
  <1>2. PICK i \in Reachable :
          \/ \E n \in Names :
                \/ \E m \in Modes : refs_mkdir(i, n, m) \/ refs_mknod(i, n, m)
                \/ refs_rmdir(i, n)
                \/ refs_unlink(i, n)
          \/ \E m \in Modes : refs_chmod(i, m)
          \/ \E s \in FileSizes : refs_truncate(i, s)
          \/ \E s, t \in FileSizes : refs_write(i, s, t)
    BY DEF Calls
  <1>3. CASE \E n \in Names, m \in Modes : refs_mkdir(i, n, m) \/ refs_mknod(i, n, m)
    BY <1>1, <1>3 DEF refs_mkdir, refs_mknod, disk, history, Making
  <1>4. CASE \E n \in Names : refs_rmdir(i, n) \/ refs_unlink(i, n)
    BY <1>1, <1>4 DEF refs_rmdir, refs_unlink, remove_child, Making
  <1>5. CASE \E m \in Modes : refs_chmod(i, m)
    BY <1>1, <1>5 DEF refs_chmod, history, Making
  <1>6. CASE \E s \in FileSizes : refs_truncate(i, s)
    BY <1>1, <1>6 DEF refs_truncate, FirstStep, disk, history, Making
  <1>7. CASE \E s, t \in FileSizes : refs_write(i, s, t)
    BY <1>1, <1>7 DEF refs_write, FirstStep, disk, history, Making
  <1> QED BY <1>2, <1>3, <1>4, <1>5, <1>6, <1>7

(***************************************************************************)
(* Every step keeps it: only the last step of mkfs writes a superblock,    *)
(* and no call runs before it (refs.c:374-411).                            *)
(***************************************************************************)
LEMMA MakeStep ==
    ASSUME TypeInv, MakeInv, Next
    PROVE  MakeInv'
  <1>1. CASE CreateDisk
    <2>1. Live' = Live
      BY <1>1, TreeStep DEF CreateDisk, history
    <2> QED BY <1>1, <2>1 DEF CreateDisk, MakeInv, Making, memory, Formatted
  <1>2. CASE Mount
    BY <1>2 DEF Mount, MakeInv, Making, disk
  <1>3. CASE MountFails
    BY <1>3, MakeStutter DEF MountFails
  <1>4. CASE refs_destroy \/ Crash \/ WildBit
    BY <1>4, MakeDownStep DEF refs_destroy, Crash, WildBit, disk, history
  <1>5. CASE Calls
    BY <1>5, CallFrame, MakeCallStep
  <1>6. CASE alloc_root_dir
    <2>1. Live' = Live
      BY <1>6, TreeStep DEF alloc_root_dir, history
    <2>2. blk'[SUPER_LBA] = blk[SUPER_LBA]
      BY <1>6, AllocatedInRange, DataBlocks DEF alloc_root_dir, TypeInv, TypeOK
    <2> QED BY <1>6, <2>1, <2>2 DEF alloc_root_dir, MakeInv, Making, Formatted
  <1>7. CASE write_super
    BY <1>7 DEF write_super, MakeInv, Making, memory
  <1>8. CASE sync_data_bitmap \/ sync_inode_bitmap \/ WriteBack
    <2>1. ns' = ns /\ UNCHANGED <<exists, blk, call>>
      BY <1>8 DEF sync_data_bitmap, sync_inode_bitmap, WriteBack, history
    <2>2. Live' = Live /\ (Formatted <=> Formatted')
      BY <2>1, TreeStep DEF Formatted
    <2>3. /\ pc # "down" /\ pc' \notin {"down", "idle", "mkfs_block"}
          /\ pc' \in Making => pc \in Making
      BY <1>8 DEF sync_data_bitmap, sync_inode_bitmap, WriteBack, Then, Making
    <2> QED BY <2>1, <2>2, <2>3 DEF MakeInv, Making
  <1>9. CASE Reply
    BY <1>9 DEF Reply, MakeInv, Making, disk
  <1>10. CASE EntryInSlot \/ EntryInNewBlock \/ EntryNoSpace
    <2>1. pc = "entry" /\ exists' = exists /\ pc' \in {"parent_inode", "grow_dmap"}
      BY <1>10 DEF EntryInSlot, EntryInNewBlock, EntryNoSpace, disk
    <2> QED BY <2>1, MakeCallStep DEF Making
  <1>11. CASE UnlinkParent \/ UnlinkChild \/ UnlinkBlock \/ release_inode
    <2>1. /\ pc # "down" /\ exists' = exists
          /\ pc' \in {"rm_child", "reply", "unlink_loop", "release", "rm_imap"}
      BY <1>11 DEF UnlinkParent, UnlinkChild, UnlinkBlock, release_inode
    <2> QED BY <2>1, MakeCallStep DEF Making
  <1>12. CASE ReserveBlock \/ PointToBlock \/ FillBlock \/ RemoveBlock \/ SetSize \/ WriteBlock
    <2>1. /\ pc # "down" /\ exists' = exists
          /\ pc' \in Sizing \cup {"write", "reply"}
      BY <1>12 DEF ReserveBlock, PointToBlock, FillBlock, RemoveBlock, SetSize, WriteBlock,
                   Loop, Sizing, Reserving
    <2> QED BY <2>1, MakeCallStep DEF Making, Sizing, Reserving
  <1> QED BY <1>1, <1>2, <1>3, <1>4, <1>5, <1>6, <1>7, <1>8, <1>9, <1>10, <1>11, <1>12
          DEF Next, Steps

(***************************************************************************)
(* A file system that has run past a limit stays so (refs.c:202-228).      *)
(***************************************************************************)
LEMMA FaultsStay ==
    ASSUME [Next]_vars
    PROVE  faults \subseteq faults'
  <1>1. CASE UNCHANGED vars
    BY <1>1 DEF vars
  <1>2. CASE CreateDisk \/ Mount \/ MountFails \/ refs_destroy \/ Crash
    BY <1>2 DEF CreateDisk, Mount, MountFails, refs_destroy, Crash, vars, history
  <1>3. CASE Calls
    BY <1>3, CallFrame
  <1>4. CASE Steps
    BY <1>4 DEF Steps, alloc_root_dir, write_super, sync_data_bitmap, sync_inode_bitmap,
                WriteBack, Reply, EntryInSlot, EntryInNewBlock, EntryNoSpace, UnlinkParent,
                UnlinkChild, UnlinkBlock, release_inode, ReserveBlock, PointToBlock,
                FillBlock, RemoveBlock, SetSize, WriteBlock, WildBit, history
  <1> QED BY <1>1, <1>2, <1>3, <1>4 DEF Next
-----------------------------------------------------------------------------
(***************************************************************************)
(* Looking a name up in a directory of the tree finds the child of that    *)
(* name in its slot, and only when there is one (refs.c:487-510).          *)
(***************************************************************************)
LEMMA DirPlaces ==
    ASSUME TypeInv, MemInv, pc \notin {"down", "mkfs_block"}, NEW d \in Dirs
    PROVE  /\ Places(d) = {0} \X DirentIdx
           /\ \A s \in Places(d) :
                 /\ s[1] = 0 /\ s[2] \in DirentIdx /\ s = <<0, s[2]>>
                 /\ DirentAt(d, s) = blk[inode_table[d].ptrs[0]].dirents[s[2]]
  <1>1. inode_table[d].blocks = 1 /\ 0 \in DirectIdx /\ DirectIdx \subseteq Nat
    BY DirFacts, Basics
  <1>2. \A k \in DirectIdx : k < 1 <=> k = 0
    BY <1>1
  <1>3. Places(d) = {0} \X DirentIdx
    BY <1>1, <1>2 DEF Places
  <1> QED BY <1>3 DEF DirentAt

(***************************************************************************)
(* The first two slots of a directory are its own and its parent's entry;  *)
(* the others are for children.                                            *)
(***************************************************************************)
LEMMA DirSlots ==
    /\ 0 \in DirentIdx /\ 1 \in DirentIdx /\ 0 \notin Slots /\ 1 \notin Slots
    /\ Slots \subseteq DirentIdx
    /\ \A n \in DirentIdx : n = 0 \/ n = 1 \/ n \in Slots
  BY RefsAssumption DEF DirentIdx, Slots

(***************************************************************************)
(* The entry that a lookup finds in a directory is the promised one of     *)
(* that name, and the only one (refs.c:608-634).                           *)
(***************************************************************************)
LEMMA FoundChild ==
    ASSUME TypeInv, PlaceInv, MemInv, pc \notin {"down", "mkfs_block"},
           NEW d \in Dirs, NEW n \in Names, NamedPlaces(d, n) # {}
    PROVE  LET c == find_child_inum(n, d)
               s == First(NamedPlaces(d, n))
           IN  /\ s[1] = 0 /\ s[2] \in Slots
               /\ c \in NS!Children(d) /\ ns[c].name = n
               /\ blk[inode_table[d].ptrs[0]].dirents[s[2]] = dir_entry(c, n)
  <1> DEFINE c == find_child_inum(n, d)
             s == First(NamedPlaces(d, n))
             e == blk[inode_table[d].ptrs[0]].dirents
  <1>1. d \in InodeSlots
    BY Basics
  <1>2. s \in NamedPlaces(d, n) /\ c = DirentAt(d, s).inum
    BY <1>1, PlaceTypes DEF find_child_inum, TypeInv
  <1>3. s \in Places(d) /\ DirentAt(d, s).is_valid /\ DirentAt(d, s).path = n
    BY <1>2 DEF NamedPlaces, ValidPlaces
  <1> HIDE DEF s
  <1>4. s[1] = 0 /\ s[2] \in DirentIdx /\ DirentAt(d, s) = e[s[2]]
    BY <1>3, DirPlaces
  <1>5. Lists(e, d)
    BY DirFacts
  <1>6. n # "." /\ n # ".."
    BY RefsAssumption
  <1>7. s[2] \in Slots
    <2>1. e[0] = dir_entry(d, ".") /\ e[1] = dir_entry(ParentOf(d), "..")
      BY <1>5 DEF Lists
    <2>2. e[s[2]].path = n
      BY <1>3, <1>4
    <2> HIDE DEF e
    <2>3. e[0].path = "." /\ e[1].path = ".."
      BY <2>1 DEF dir_entry
    <2> QED BY <1>4, <1>6, <2>2, <2>3, DirSlots
  <1>8. e[s[2]] # NoDirent
    BY <1>3, <1>4 DEF NoDirent
  <1>9. PICK k \in NS!Children(d) : e[s[2]] = dir_entry(k, ns[k].name)
    BY <1>5, <1>7, <1>8 DEF Lists
  <1>10. c = k /\ ns[k].name = n
    BY <1>2, <1>3, <1>4, <1>9 DEF dir_entry
  <1> QED BY <1>4, <1>7, <1>9, <1>10 DEF s

(***************************************************************************)
(* NotFound is no inode: it says that there is no entry of that name       *)
(* (refs.c:507-509).                                                       *)
(***************************************************************************)
LEMMA FoundNotNone ==
    ASSUME TypeInv, NEW d \in Dirs, NEW n \in Names, find_child_inum(n, d) = NotFound
    PROVE  NamedPlaces(d, n) = {}
  <1>1. d \in InodeSlots /\ NotFound \notin InodeSlots
    BY Basics, LayoutAssumption DEF NotFound, InodeSlots
  <1> QED BY <1>1, PlaceTypes DEF TypeInv

(***************************************************************************)
(* A name that a lookup does not find is no child's name: mkdir and mknod  *)
(* refuse duplicates on its word.                                          *)
(***************************************************************************)
LEMMA NoChild ==
    ASSUME TypeInv, MemInv, pc \notin {"down", "mkfs_block"},
           NEW d \in Dirs, NEW n \in Names, NamedPlaces(d, n) = {}
    PROVE  \A c \in NS!Children(d) : ns[c].name # n
  <1> SUFFICES ASSUME NEW c \in NS!Children(d), ns[c].name = n PROVE FALSE
    OBVIOUS
  <1> DEFINE e == blk[inode_table[d].ptrs[0]].dirents
  <1>1. Lists(e, d)
    BY DirFacts
  <1>2. PICK k \in Slots : e[k] = dir_entry(c, n)
    BY <1>1 DEF Lists
  <1>3. <<0, k>> \in Places(d)
    BY DirPlaces, DirSlots
  <1>4. DirentAt(d, <<0, k>>) = e[k]
    BY <1>3, DirPlaces
  <1>5. <<0, k>> \in NamedPlaces(d, n)
    BY <1>2, <1>3, <1>4 DEF NamedPlaces, ValidPlaces, dir_entry
  <1> QED BY <1>5

(***************************************************************************)
(* A directory that dir_is_empty accepts has no children (refs.c:522-541). *)
(***************************************************************************)
LEMMA EmptyDir ==
    ASSUME TypeInv, MemInv, pc \notin {"down", "mkfs_block"},
           NEW d \in Dirs, dir_is_empty(d)
    PROVE  NS!Children(d) = {}
  <1> SUFFICES ASSUME NEW c \in NS!Children(d) PROVE FALSE
    OBVIOUS
  <1> DEFINE e == blk[inode_table[d].ptrs[0]].dirents
  <1>1. Lists(e, d)
    BY DirFacts
  <1>2. PICK k \in Slots : e[k] = dir_entry(c, ns[c].name)
    BY <1>1 DEF Lists
  <1>3. <<0, k>> \in Places(d)
    BY DirPlaces, DirSlots
  <1>4. DirentAt(d, <<0, k>>) = e[k]
    BY <1>3, DirPlaces
  <1>5. <<0, k>> \in ValidPlaces(d)
    BY <1>2, <1>3, <1>4 DEF ValidPlaces, dir_entry
  <1> QED BY <1>5, DirSlots DEF dir_is_empty

(***************************************************************************)
(* A path leads to an inode of the tree, since the tree is closed under    *)
(* what a lookup returns (refs.c:572-639).                                 *)
(***************************************************************************)
LEMMA ReachableLive ==
    ASSUME TypeInv, PlaceInv, MemInv, pc \notin {"down", "mkfs_block"}
    PROVE  Reachable \subseteq Live
  <1>1. Live \in SUBSET InodeSlots /\ ROOT_INUM \in Live
    BY PlaceFacts, Basics
  <1>2. ASSUME NEW d \in Live PROVE Kids(d) \subseteq Live
    <2>1. CASE inode_table[d].flags = "dir"
      <3>1. d \in Dirs
        BY <2>1, FileFacts
      <3>2. ASSUME NEW n \in Names, find_child_inum(n, d) # NotFound
            PROVE  find_child_inum(n, d) \in Live
        <4>1. NamedPlaces(d, n) # {}
          BY <3>2 DEF find_child_inum
        <4>2. find_child_inum(n, d) \in NS!Children(d)
          BY <3>1, <4>1, FoundChild
        <4> QED BY <4>2, PlaceFacts
      <3> QED BY <3>2 DEF Kids
    <2>2. CASE inode_table[d].flags # "dir"
      BY <2>2 DEF Kids
    <2> QED BY <2>1, <2>2
  <1>3. \A d \in Live : [x \in InodeSlots |-> Kids(x)][d] \subseteq Live
    BY <1>1, <1>2
  <1> QED BY <1>1, <1>3 DEF Reachable

(***************************************************************************)
(* What a call knows when it begins: its inode is in the tree.             *)
(***************************************************************************)
LEMMA CallFacts ==
    ASSUME TypeInv, CoreInv, pc = "idle", NEW i \in Reachable
    PROVE  /\ i \in Live /\ Own = Live /\ MemInv
           /\ inode_table[i].flags = "dir" => i \in Dirs
           /\ inode_table[i].flags = "reg" => i \in Files
           /\ i \in Inums /\ i \in InodeSlots
  <1>1. MemInv /\ PlaceInv
    BY DEF CoreInv
  <1>2. i \in Live
    BY <1>1, ReachableLive
  <1>3. Own = Live
    BY DEF Own, Adding, Removing
  <1> QED BY <1>1, <1>2, <1>3, FileFacts, Basics
-----------------------------------------------------------------------------
(***************************************************************************)
(* An inode with no block, or with one that nobody has, joins the others.  *)
(***************************************************************************)
LEMMA OwnedPlus ==
    ASSUME NEW t, NEW u, NEW D, NEW x \in Inums, x \notin D, Owned(t, D),
           \A i \in D : /\ u[i].inum = t[i].inum
                        /\ u[i].blocks = t[i].blocks
                        /\ u[i].ptrs = t[i].ptrs,
           u[x].inum = x,
           \/ u[x].blocks = 0
           \/ /\ u[x].blocks = 1
              /\ u[x].ptrs[0] # SUPER_LBA
              /\ \A i \in D, k \in DirectIdx :
                    k < t[i].blocks => t[i].ptrs[k] # u[x].ptrs[0]
    PROVE  Owned(u, D \cup {x})
  <1>0. DirectIdx \subseteq Nat /\ NumDirect \in Nat \ {0}
    BY RefsAssumption DEF DirectIdx
  <1>1. Numbered(u, D \cup {x})
    BY <1>0 DEF Owned, Numbered
  <1>2. \A k \in DirectIdx : k < u[x].blocks => u[x].blocks = 1 /\ k = 0
    <2>1. SUFFICES ASSUME NEW k \in DirectIdx, k < u[x].blocks
                   PROVE  u[x].blocks = 1 /\ k = 0
      OBVIOUS
    <2>2. k \in Nat
      BY <1>0
    <2>3. CASE u[x].blocks = 0
      BY <2>1, <2>2, <2>3
    <2>4. CASE u[x].blocks = 1
      BY <2>1, <2>2, <2>4
    <2> QED BY <2>3, <2>4
  <1>3. InRegion(u, D \cup {x})
    BY <1>2 DEF Owned, InRegion
  <1>4. Exclusive(u, D \cup {x})
    BY <1>2 DEF Owned, Exclusive
  <1> QED BY <1>1, <1>3, <1>4 DEF Owned

(***************************************************************************)
(* mkdir and mknod begin by reserving an inode, and mkdir a block, that    *)
(* nothing in the tree uses (refs.c:202-250, 819-828).                     *)
(***************************************************************************)
LEMMA NewInodeStep ==
    ASSUME TypeInv, TypeInv', CoreInv, pc = "idle", ns' = ns,
           UNCHANGED <<d_imap, d_itab, d_dmap>>,
           pc' \in {"mkdir_dmap", "new_inode"},
           NEW x \in Inums \ inode_bitmap, call'.child = x,
           inode_bitmap' = inode_bitmap \cup {x},
           data_bitmap \subseteq data_bitmap',
           \A i \in InodeSlots \ {x} : inode_table'[i] = inode_table[i],
           inode_table'[x].inum = x,
           \/ inode_table'[x].blocks = 0
           \/ /\ inode_table'[x].blocks = 1
              /\ inode_table'[x].ptrs[0] \in Marked(data_bitmap') \ Marked(data_bitmap),
           \A l \in Marked(data_bitmap) : blk'[l] = blk[l]
    PROVE  /\ PlaceInv' /\ MemInv' /\ DiskInv' /\ DownInv'
           /\ RemoveInv' /\ SizeInv' /\ BackedInv'
           /\ x \notin Live /\ Live' = Live /\ Dirs' = Dirs
  <1>1. /\ PlaceInv' /\ Live' = Live /\ Dirs' = Dirs /\ Files' = Files
        /\ MemInv /\ pc \notin {"down", "mkfs_block"}
    BY TreeStep DEF CoreInv
  <1>2. Own = Live /\ Own' = Own \cup {x}
    BY <1>1 DEF Own, Adding, Removing
  <1>3. x \notin Own /\ Own \subseteq InodeSlots /\ Dirs \subseteq Own
    BY <1>1, <1>2, OwnFacts, Basics DEF MemInv
  <1>4. \A i \in Own : inode_table'[i] = inode_table[i]
    BY <1>3
  <1>5. Owned(inode_table, Own)'
    <2>1. data_bitmap' \in SUBSET DataSlots
      BY DEF TypeInv, TypeOK
    <2>2. \A l \in Marked(data_bitmap') : l # SUPER_LBA
      BY <2>1, MarkedBlocks
    <2>3. \A i \in Own, k \in DirectIdx :
             k < inode_table[i].blocks => inode_table[i].ptrs[k] \in Marked(data_bitmap)
      BY <1>1, OwnFacts
    <2>4. Owned(inode_table', Own \cup {x})
      BY <1>1, <1>3, <1>4, <2>2, <2>3, OwnedPlus DEF MemInv
    <2> QED BY <1>2, <2>4 DEF Owned, Numbered, InRegion, Exclusive
  <1>6. Covered(inode_table, Own, data_bitmap)'
    <2>1. \A l \in Marked(data_bitmap) : l \in Marked(data_bitmap)'
      BY DEF Marked
    <2>2. \A k \in DirectIdx : k < inode_table'[x].blocks =>
             k = 0 /\ inode_table'[x].ptrs[0] \in Marked(data_bitmap)'
      BY Basics DEF Marked
    <2> QED BY <1>1, <1>2, <1>4, <2>1, <2>2 DEF MemInv, Covered
  <1>7. Shaped(inode_table)'
    <2>1. \A d \in Dirs : blk'[inode_table[d].ptrs[0]] = blk[inode_table[d].ptrs[0]]
      BY <1>1, DirFacts
    <2> QED BY <1>1, <1>2, <1>3, <1>4, <2>1, ShapedStep DEF MemInv
  <1>8. MemInv'
    BY <1>1, <1>2, <1>5, <1>6, <1>7 DEF MemInv
  <1>9. DiskInv'
    BY <1>1, <1>2, <1>3, <1>4 DEF CoreInv, DiskInv, Same, Covered, Marked
  <1>10. DownInv' /\ RemoveInv' /\ SizeInv'
    BY DEF DownInv, RemoveInv, SizeInv, Removing, Sizing, Reserving
  <1>11. BackedInv'
    BY <1>1, <1>2, <1>3, <1>4, Basics, BackedStep DEF Sizing, Reserving
  <1> QED BY <1>1, <1>2, <1>3, <1>8, <1>9, <1>10, <1>11

(***************************************************************************)
(* mkdir reserves an unmarked inode and an unmarked block for the child,   *)
(* which are nobody else's, before its first write.                        *)
(***************************************************************************)
LEMMA MkdirStep ==
    ASSUME TypeInv, TypeInv', CoreInv, Healthy', pc = "idle",
           NEW p \in Reachable, NEW n \in Names, NEW m \in Modes, refs_mkdir(p, n, m)
    PROVE  CoreInv'
  <1> DEFINE x == next_inode
             b == next_block
  <1>1. InodeFault = {} /\ BlockFault = {}
    BY DEF refs_mkdir, Healthy
  <1>2. x \in Inums \ inode_bitmap /\ inode_table[x].inum = x
    BY <1>1, Allocated
  <1>3. b \in DataSlots \ data_bitmap /\ Lba(b) \in BlkLbas
    BY <1>1, Allocated, DataBlocks
  <1>4. /\ inode_table[p].flags = "dir" /\ find_child_inum(n, p) = NotFound
        /\ inode_bitmap' = inode_bitmap \cup {x}
        /\ data_bitmap' = data_bitmap \cup {b}
        /\ inode_table' = [inode_table EXCEPT ![x] = new_dir_inode(@, Lba(b), m)]
        /\ blk' = [blk EXCEPT ![Lba(b)] = new_dir_block(x, p)]
        /\ call'.op = "mkdir" /\ call'.parent = p /\ call'.child = x /\ call'.name = n
        /\ pc' = "mkdir_dmap"
        /\ UNCHANGED <<d_imap, d_itab, d_dmap, ns>>
    BY DEF refs_mkdir, CanAdd, NoCall
  <1>5. /\ inode_table \in [InodeSlots -> Inode] /\ blk \in [BlkLbas -> Block]
        /\ data_bitmap \in SUBSET DataSlots /\ data_bitmap' \in SUBSET DataSlots
    BY DEF TypeInv, TypeOK
  <1> HIDE DEF x, b
  <1>6. /\ inode_table'[x].inum = x /\ inode_table'[x].flags = "dir"
        /\ inode_table'[x].blocks = 1 /\ inode_table'[x].ptrs[0] = Lba(b)
        /\ \A i \in InodeSlots \ {x} : inode_table'[i] = inode_table[i]
    BY <1>2, <1>4, <1>5, Basics DEF new_dir_inode, Inode
  <1>7. Lba(b) \in Marked(data_bitmap') \ Marked(data_bitmap)
    BY <1>3, <1>4, <1>5, MarkedBlocks
  <1>8. /\ \A l \in Marked(data_bitmap) : blk'[l] = blk[l]
        /\ blk'[Lba(b)] = new_dir_block(x, p)
    BY <1>3, <1>4, <1>5, <1>7, DataBlocks DEF Marked
  <1>9. /\ PlaceInv' /\ MemInv' /\ DiskInv' /\ DownInv'
        /\ RemoveInv' /\ SizeInv' /\ BackedInv'
        /\ x \notin Live /\ Live' = Live /\ Dirs' = Dirs
    BY <1>2, <1>4, <1>6, <1>7, <1>8, NewInodeStep
  <1>10. p \in Dirs /\ MemInv
    BY <1>4, CallFacts
  <1>11. \A c \in NS!Children(p) : ns[c].name # n
    <2>1. NamedPlaces(p, n) = {}
      BY <1>4, <1>10, FoundNotNone
    <2> QED BY <1>10, <2>1, NoChild
  <1>12. \A c \in NS!Children(p)' : ns'[c].name # n
    BY <1>4, <1>11, TreeStep
  <1>13. AddInv'
    BY <1>4, <1>6, <1>8, <1>9, <1>10, <1>12 DEF AddInv
  <1> QED BY <1>9, <1>13 DEF CoreInv

(***************************************************************************)
(* mknod reserves an unmarked inode for the child, without blocks, before  *)
(* its first write.                                                        *)
(***************************************************************************)
LEMMA MknodStep ==
    ASSUME TypeInv, TypeInv', CoreInv, Healthy', pc = "idle",
           NEW p \in Reachable, NEW n \in Names, NEW m \in Modes, refs_mknod(p, n, m)
    PROVE  CoreInv'
  <1> DEFINE x == next_inode
  <1>1. InodeFault = {}
    BY DEF refs_mknod, Healthy
  <1>2. x \in Inums \ inode_bitmap /\ inode_table[x].inum = x
    BY <1>1, Allocated
  <1>3. /\ inode_table[p].flags = "dir" /\ find_child_inum(n, p) = NotFound
        /\ inode_bitmap' = inode_bitmap \cup {x}
        /\ inode_table' = [inode_table EXCEPT ![x] = new_regfile_inode(@, m)]
        /\ call'.op = "mknod" /\ call'.parent = p /\ call'.child = x /\ call'.name = n
        /\ pc' = "new_inode"
        /\ UNCHANGED <<d_imap, d_itab, d_dmap, blk, data_bitmap, ns>>
    BY DEF refs_mknod, CanAdd, NoCall, disk
  <1>4. inode_table \in [InodeSlots -> Inode]
    BY DEF TypeInv, TypeOK
  <1> HIDE DEF x
  <1>5. /\ inode_table'[x].inum = x /\ inode_table'[x].flags = "reg"
        /\ inode_table'[x].blocks = 0 /\ inode_table'[x].size = 0
        /\ \A i \in InodeSlots \ {x} : inode_table'[i] = inode_table[i]
    BY <1>2, <1>3, <1>4, Basics DEF new_regfile_inode, Inode
  <1>6. /\ PlaceInv' /\ MemInv' /\ DiskInv' /\ DownInv'
        /\ RemoveInv' /\ SizeInv' /\ BackedInv'
        /\ x \notin Live /\ Live' = Live /\ Dirs' = Dirs
    BY <1>2, <1>3, <1>5, NewInodeStep
  <1>7. p \in Dirs /\ MemInv
    BY <1>3, CallFacts
  <1>8. \A c \in NS!Children(p) : ns[c].name # n
    <2>1. NamedPlaces(p, n) = {}
      BY <1>3, <1>7, FoundNotNone
    <2> QED BY <1>7, <2>1, NoChild
  <1>9. \A c \in NS!Children(p)' : ns'[c].name # n
    BY <1>3, <1>8, TreeStep
  <1>10. AddInv'
    BY <1>3, <1>5, <1>6, <1>7, <1>9 DEF AddInv
  <1> QED BY <1>6, <1>10 DEF CoreInv
-----------------------------------------------------------------------------
(***************************************************************************)
(* A list of entries with a free slot takes the entry of a new child.      *)
(***************************************************************************)
LEMMA ListsPlus ==
    ASSUME NEW e \in [DirentIdx -> Dirent], NEW d, NEW s \in Slots, NEW c, NEW name,
           Lists(e, d), ~e[s].is_valid,
           c \notin NS!Children(d), \A k \in NS!Children(d) : ns[k].name # name,
           NS!Children(d)' = NS!Children(d) \cup {c}, ParentOf(d)' = ParentOf(d),
           \A k \in NS!Children(d) : ns'[k] = ns[k],
           ns'[c].name = name
    PROVE  Lists([e EXCEPT ![s] = dir_entry(c, name)], d)'
  <1> DEFINE f == [e EXCEPT ![s] = dir_entry(c, name)]
  <1>1. /\ f[s] = dir_entry(c, name)
        /\ \A n \in DirentIdx \ {s} : f[n] = e[n]
        /\ s \in DirentIdx /\ Slots \subseteq DirentIdx /\ s # 0 /\ s # 1
        /\ 0 \in DirentIdx /\ 1 \in DirentIdx
    BY DirSlots
  <1> HIDE DEF f
  <1>2. f[0] = dir_entry(d, ".") /\ f[1] = dir_entry(ParentOf(d)', "..")
    BY <1>1 DEF Lists
  <1>3. ASSUME NEW n \in Slots
        PROVE  f[n] = NoDirent \/ \E k \in NS!Children(d)' : f[n] = dir_entry(k, ns'[k].name)
    BY <1>1 DEF Lists
  <1>4. ASSUME NEW k \in NS!Children(d)'
        PROVE  \E n \in Slots : f[n] = dir_entry(k, ns'[k].name)
    <2>1. CASE k = c
      BY <1>1, <2>1
    <2>2. CASE k # c
      <3>1. PICK n \in Slots : e[n] = dir_entry(k, ns[k].name)
        BY <2>2 DEF Lists
      <3>2. e[n].is_valid
        BY <3>1 DEF dir_entry
      <3> QED BY <1>1, <2>2, <3>1, <3>2
    <2> QED BY <2>1, <2>2
  <1>5. ASSUME NEW n \in Slots, n # s, f[n].is_valid PROVE f[n].path # name
    <2>1. PICK k \in NS!Children(d) : e[n] = dir_entry(k, ns[k].name)
      BY <1>1, <1>5 DEF Lists, NoDirent
    <2>2. f[n] = e[n] /\ e[n].path = ns[k].name
      BY <1>1, <1>5, <2>1 DEF dir_entry
    <2> QED BY <2>2
  <1>6. f[s].path = name
    BY <1>1 DEF dir_entry
  <1>7. ASSUME NEW m \in Slots, NEW n \in Slots,
               f[m].is_valid, f[n].is_valid, f[m].path = f[n].path
        PROVE  m = n
    BY <1>1, <1>5, <1>6, <1>7 DEF Lists
  <1> HIDE DEF f
  <1>8. Lists(f, d)'
    BY <1>2, <1>3, <1>4, <1>7 DEF Lists
  <1> QED BY <1>8 DEF f

(***************************************************************************)
(* A directory whose children, their names and whose parent stay keeps its *)
(* list; a new directory's list is as new_dir_block makes it.              *)
(***************************************************************************)
LEMMA ListsKeep ==
    ASSUME NEW e, NEW d, Lists(e, d),
           NS!Children(d)' = NS!Children(d), ParentOf(d)' = ParentOf(d),
           \A k \in NS!Children(d) : ns'[k] = ns[k]
    PROVE  Lists(e, d)'
  <1>1. \A n \in Slots :
          e[n] = NoDirent \/ \E c \in NS!Children(d)' : e[n] = dir_entry(c, ns'[c].name)
    BY DEF Lists
  <1>2. \A c \in NS!Children(d)' : \E n \in Slots : e[n] = dir_entry(c, ns'[c].name)
    BY DEF Lists
  <1> QED BY <1>1, <1>2 DEF Lists

(***************************************************************************)
(* The block of a new directory lists it once the directory is in the      *)
(* tree.                                                                   *)
(***************************************************************************)
LEMMA NewDirListsNext ==
    ASSUME NEW d, NEW p, NS!Children(d)' = {}, ParentOf(d)' = p
    PROVE  Lists(new_dir_block(d, p).dirents, d)'
  <1> DEFINE e == new_dir_block(d, p).dirents
  <1>1. /\ e[0] = dir_entry(d, ".") /\ e[1] = dir_entry(p, "..")
        /\ \A n \in Slots : e[n] = NoDirent
    BY DirSlots DEF new_dir_block, DirBlock, NoDirents
  <1>2. \A n \in Slots : ~e[n].is_valid
    BY <1>1 DEF NoDirent
  <1> HIDE DEF e
  <1>3. Lists(e, d)'
    BY <1>1, <1>2 DEF Lists
  <1> QED BY <1>3 DEF e

(***************************************************************************)
(* The entry appears in its directory's block, the node in the tree: the   *)
(* disk already holds everything else of it (refs.c:713-723).              *)
(***************************************************************************)
LEMMA EntrySlotFacts ==
    ASSUME TypeInv, CoreInv, pc = "entry", FreePlaces(call.parent) # {}
    PROVE  LET p == call.parent
               s == First(FreePlaces(p))
           IN  /\ p \in Dirs /\ s[1] = 0 /\ s[2] \in Slots
               /\ ~blk[inode_table[p].ptrs[0]].dirents[s[2]].is_valid
  <1> DEFINE p == call.parent
             s == First(FreePlaces(p))
             e == blk[inode_table[p].ptrs[0]].dirents
  <1>1. p \in Dirs /\ MemInv /\ pc \notin {"down", "mkfs_block"}
    BY DEF CoreInv, AddInv, Adding
  <1>2. p \in InodeSlots /\ FreePlaces(p) \in SUBSET (DirectIdx \X DirentIdx)
    BY <1>1, Basics, PlaceTypes DEF FreePlaces, TypeInv
  <1>3. s \in FreePlaces(p)
    BY <1>2, FirstIsMember
  <1> HIDE DEF s
  <1>4. s \in Places(p) /\ ~DirentAt(p, s).is_valid
    BY <1>3 DEF FreePlaces, ValidPlaces
  <1>5. s[1] = 0 /\ s[2] \in DirentIdx /\ DirentAt(p, s) = e[s[2]]
    BY <1>1, <1>4, DirPlaces
  <1>6. e[0].is_valid /\ e[1].is_valid
    <2>1. e[0] = dir_entry(p, ".") /\ e[1] = dir_entry(ParentOf(p), "..")
      BY <1>1, DirFacts DEF Lists
    <2> HIDE DEF e
    <2> QED BY <2>1 DEF dir_entry
  <1>7. s[2] \in Slots
    <2> HIDE DEF e
    <2> QED BY <1>4, <1>5, <1>6, DirSlots
  <1> QED BY <1>1, <1>4, <1>5, <1>7 DEF s

(***************************************************************************)
(* The tree with a new child.                                              *)
(***************************************************************************)
LEMMA TreePlus ==
    ASSUME TypeInv, PlaceInv, NEW c \in Inums \ Live, NEW p \in Dirs,
           NEW k \in NS!Kinds, NEW n,
           ns' = [ns EXCEPT ![c] = [kind |-> k, parent |-> p, name |-> n]]
    PROVE  /\ PlaceInv'
           /\ Live' = Live \cup {c}
           /\ Dirs' = Dirs \cup {i \in {c} : k = "dir"}
           /\ Files' = Files \cup {i \in {c} : k # "dir"}
           /\ \A i \in Live : ns'[i] = ns[i]
           /\ \A d \in Dirs : ParentOf(d)' = ParentOf(d)
           /\ NS!Children(p)' = NS!Children(p) \cup {c} /\ c \notin NS!Children(p)
           /\ \A d \in Dirs \ {p} : NS!Children(d)' = NS!Children(d)
           /\ NS!Children(c)' = {} /\ ParentOf(c)' = p
           /\ ns'[c].name = n
  <1> DEFINE node == [kind |-> k, parent |-> p, name |-> n]
  <1>1. /\ c \in InodeSlots /\ c # NumInodes /\ ns[c] = NS!Absent
        /\ ns \in [InodeSlots -> NS!Node \cup {NS!Absent, NS!RootNode}]
        /\ Dirs \subseteq Live /\ Live \subseteq Inums /\ Inums \subseteq InodeSlots
        /\ ROOT_INUM \in Dirs /\ ROOT_INUM # c
    BY Basics, PlaceFacts, LayoutAssumption DEF TypeInv, TypeOK, Inums
  <1>2. /\ ns'[c] = node /\ DOMAIN ns' = InodeSlots
        /\ \A i \in InodeSlots \ {c} : ns'[i] = ns[i]
    BY <1>1
  <1>3. node.kind = k /\ node.parent = p /\ node.name = n /\ k \in {"dir", "reg"}
    BY DEF NS!Kinds
  <1>4. node # NS!Absent /\ node # NS!RootNode
    BY <1>3 DEF NS!Absent, NS!RootNode
  <1> HIDE DEF node
  <1>5. Live' = Live \cup {c}
    BY <1>1, <1>2, <1>4 DEF Live
  <1>6. \A i \in Live : ns'[i] = ns[i]
    BY <1>1, <1>2
  <1>7. Dirs' = Dirs \cup {i \in {c} : k = "dir"}
    <2>1. NS!IsDir(c)' <=> k = "dir"
      BY <1>2, <1>3 DEF NS!IsDir
    <2>2. \A i \in Live : NS!IsDir(i)' <=> NS!IsDir(i)
      BY <1>6 DEF NS!IsDir
    <2> QED BY <1>1, <1>5, <2>1, <2>2 DEF Dirs
  <1>8. Files' = Files \cup {i \in {c} : k # "dir"}
    BY <1>1, <1>5, <1>7 DEF Files
  <1>9. \A i \in InodeSlots : ns[i].kind \in NS!Kinds => ns[i].parent # c
    BY <1>1 DEF PlaceInv
  <1>10. ns[c].kind \notin NS!Kinds
    BY <1>1 DEF NS!Absent, NS!Kinds
  <1>11. \A d : NS!Children(d)' = {i \in InodeSlots : ns'[i].kind \in NS!Kinds /\ ns'[i].parent = d}
    BY DEF NS!Children
  <1>12. NS!Children(p)' = NS!Children(p) \cup {c} /\ c \notin NS!Children(p)
    BY <1>1, <1>2, <1>3, <1>10, <1>11 DEF NS!Children
  <1>13. \A d \in Dirs \ {p} : NS!Children(d)' = NS!Children(d)
    BY <1>1, <1>2, <1>3, <1>10, <1>11 DEF NS!Children
  <1>14. NS!Children(c)' = {}
    BY <1>1, <1>2, <1>3, <1>9, <1>11
  <1>15. /\ \A d \in Dirs : ParentOf(d)' = ParentOf(d)
         /\ ParentOf(c)' = p /\ ns'[c].name = n
    BY <1>1, <1>2, <1>3, <1>6 DEF ParentOf
  <1>16. PlaceInv'
    BY <1>1, <1>2, <1>3, <1>4, <1>7, LayoutAssumption DEF PlaceInv, InodeSlots
  <1> QED BY <1>5, <1>6, <1>7, <1>8, <1>12, <1>13, <1>14, <1>15, <1>16

(***************************************************************************)
(* Writing the entry of a new inode puts it in the tree: everything that   *)
(* the tree promises of it is on the disk by then.                         *)
(***************************************************************************)
LEMMA EntryInSlotStep ==
    ASSUME TypeInv, TypeInv', CoreInv, EntryInSlot
    PROVE  CoreInv'
  <1>0. PICK p, c, s, l, e, kind, name, entries :
          /\ p = call.parent /\ c = call.child
          /\ s = First(FreePlaces(p))
          /\ l = inode_table[p].ptrs[0]
          /\ e = blk[l].dirents
          /\ kind = IF call.op = "mkdir" THEN "dir" ELSE "reg"
          /\ name = call.name
          /\ entries = [e EXCEPT ![s[2]] = dir_entry(c, name)]
    OBVIOUS
  <1>1. /\ pc = "entry" /\ pc' = "parent_inode" /\ FreePlaces(p) # {}
        /\ inode_table' = [inode_table EXCEPT ![p].n_links = Inc(@)]
        /\ ns' = [ns EXCEPT ![c] = [kind |-> kind, parent |-> p, name |-> name]]
        /\ UNCHANGED <<d_imap, d_itab, d_dmap, inode_bitmap, data_bitmap, call>>
    BY <1>0 DEF EntryInSlot, NewNode
  <1>2. p \in Dirs /\ s[1] = 0 /\ s[2] \in Slots /\ ~e[s[2]].is_valid
    BY <1>0, <1>1, EntrySlotFacts
  <1>3. blk' = [blk EXCEPT ![l] = DirBlock(entries)]
    BY <1>0, <1>2 DEF EntryInSlot
  <1>4. /\ MemInv /\ PlaceInv /\ pc \notin {"down", "mkfs_block"} /\ pc \in Adding
        /\ Own = Live \cup {c} /\ c \notin Live
        /\ \A k \in NS!Children(p) : ns[k].name # name
    BY <1>0, <1>1 DEF CoreInv, AddInv, Own, Adding
  <1>5. c \in Own /\ c \in Inums \ Live /\ Own \subseteq InodeSlots
    BY <1>4, OwnFacts
  <1>6. \/ /\ call.op = "mkdir" /\ kind = "dir"
           /\ inode_table[c].flags = "dir"
           /\ inode_table[c].blocks = 1
           /\ blk[inode_table[c].ptrs[0]] = new_dir_block(c, p)
           /\ Covered(inode_table, {c}, d_dmap)
        \/ /\ call.op = "mknod" /\ kind = "reg"
           /\ inode_table[c].flags = "reg"
           /\ inode_table[c].blocks = 0
           /\ inode_table[c].size = 0
    BY <1>0, <1>1, <1>4 DEF CoreInv, AddInv
  <1>7. Same(c) /\ c \in d_imap
    BY <1>0, <1>1, <1>4 DEF CoreInv, AddInv
  <1>8. /\ inode_table \in [InodeSlots -> Inode] /\ blk \in [BlkLbas -> Block]
        /\ l \in BlkLbas
    BY <1>0, <1>2, <1>4, DirFacts DEF TypeInv, TypeOK
  <1>9. e \in [DirentIdx -> Dirent]
    BY <1>0, <1>8 DEF Block
  <1>10. /\ PlaceInv'
         /\ Live' = Live \cup {c}
         /\ Dirs' = Dirs \cup {i \in {c} : kind = "dir"}
         /\ Files' = Files \cup {i \in {c} : kind # "dir"}
         /\ \A i \in Live : ns'[i] = ns[i]
         /\ \A d \in Dirs : ParentOf(d)' = ParentOf(d)
         /\ NS!Children(p)' = NS!Children(p) \cup {c} /\ c \notin NS!Children(p)
         /\ \A d \in Dirs \ {p} : NS!Children(d)' = NS!Children(d)
         /\ NS!Children(c)' = {} /\ ParentOf(c)' = p
         /\ ns'[c].name = name
    <2>1. kind \in NS!Kinds
      BY <1>0 DEF NS!Kinds
    <2> QED BY <1>1, <1>2, <1>4, <1>5, <2>1, TreePlus
  <1>11. Own' = Own
    BY <1>1, <1>4, <1>10 DEF Own, Adding, Removing
  <1>12. \A i \in Own : /\ inode_table'[i].inum = inode_table[i].inum
                        /\ inode_table'[i].flags = inode_table[i].flags
                        /\ inode_table'[i].blocks = inode_table[i].blocks
                        /\ inode_table'[i].ptrs = inode_table[i].ptrs
                        /\ inode_table'[i].size = inode_table[i].size
    BY <1>1, <1>5, <1>8 DEF Inode
  <1>13. Owned(inode_table, Own)' /\ Covered(inode_table, Own, data_bitmap)'
    <2>1. Owned(inode_table', Own)
      BY <1>4, <1>12, OwnedFrame, OwnFacts DEF MemInv
    <2> QED BY <1>1, <1>4, <1>11, <1>12, <2>1
            DEF Owned, Numbered, InRegion, Exclusive, Covered, Marked, MemInv
  <1>14. Kinded(inode_table)'
    BY <1>4, <1>6, <1>10, <1>12, Basics DEF MemInv, Shaped, Kinded
  <1>16. Holds(inode_table, p)'
    <2>0. Lists(e, p) /\ \A k \in NS!Children(p) : ns'[k] = ns[k]
      BY <1>0, <1>2, <1>4, <1>10, DirFacts, PlaceFacts
    <2>1. Lists(entries, p)'
      <3>3. Lists([e EXCEPT ![s[2]] = dir_entry(c, name)], p)'
        BY <1>2, <1>4, <1>9, <1>10, <2>0, ListsPlus
      <3> QED BY <1>0, <3>3
    <2>2. blk'[l].dirents = entries
      BY <1>3, <1>8 DEF DirBlock
    <2>3. inode_table[p].blocks = 1 /\ p \in Own
      BY <1>2, <1>4, DirFacts, Basics
    <2>4. inode_table'[p].blocks = 1 /\ inode_table'[p].ptrs[0] = l
      BY <1>0, <1>12, <2>3
    <2> QED BY <2>1, <2>2, <2>4 DEF Holds
  <1>17. ASSUME NEW d \in Dirs, d # p PROVE Holds(inode_table, d)'
    <2>1. d \in Own /\ d \in Live /\ 0 \in DirectIdx
      BY <1>4, Basics
    <2>2. PICK f : f = blk[inode_table[d].ptrs[0]].dirents
      OBVIOUS
    <2>3. inode_table[d].blocks = 1 /\ Lists(f, d)
      BY <1>4, <2>2, DirFacts
    <2>4. inode_table[d].ptrs[0] # l /\ inode_table[d].ptrs[0] \in BlkLbas
      BY <1>0, <1>2, <1>4, <1>17, <2>1, <2>3, DirFacts
    <2>5. blk'[inode_table[d].ptrs[0]] = blk[inode_table[d].ptrs[0]]
      BY <1>3, <1>8, <2>4
    <2>6. Lists(f, d)'
      <3>1. NS!Children(d) \subseteq Live
        BY <1>4, PlaceFacts
      <3> QED BY <1>10, <1>17, <2>3, <3>1, ListsKeep
    <2> QED BY <1>12, <2>1, <2>2, <2>3, <2>5, <2>6 DEF Holds
  <1>18. kind = "dir" => Holds(inode_table, c)'
    <2> SUFFICES ASSUME kind = "dir" PROVE Holds(inode_table, c)'
      OBVIOUS
    <2>1. inode_table[c].blocks = 1 /\ blk[inode_table[c].ptrs[0]] = new_dir_block(c, p)
      BY <1>6
    <2>2. inode_table[c].ptrs[0] # l /\ inode_table[c].ptrs[0] \in BlkLbas
      <3>1. c # p /\ 0 \in DirectIdx /\ inode_table[c] \in Inode
        BY <1>2, <1>4, <1>5, <1>8, Basics
      <3>2. inode_table[c].ptrs[0] # inode_table[p].ptrs[0]
        BY <1>2, <1>4, <1>5, <2>1, <3>1, DirFacts
      <3> QED BY <1>0, <3>1, <3>2 DEF Inode
    <2>3. blk'[inode_table[c].ptrs[0]] = new_dir_block(c, p)
      BY <1>3, <1>8, <2>1, <2>2
    <2>4. Lists(new_dir_block(c, p).dirents, c)'
      BY <1>10, NewDirListsNext
    <2> QED BY <1>5, <1>12, <2>1, <2>3, <2>4 DEF Holds
  <1>19. MemInv'
    <2>1. Shaped(inode_table)'
      BY <1>10, <1>14, <1>16, <1>17, <1>18 DEF Shaped
    <2> QED BY <1>1, <1>4, <1>11, <1>13, <2>1 DEF MemInv
  <1>20. DiskInv'
    <2>1. /\ Covered(inode_table, Dirs, d_dmap)
          /\ \A i \in Live : Same(i)
          /\ Live \subseteq d_imap
      BY <1>1 DEF CoreInv, DiskInv
    <2>2. Dirs \subseteq Own
      BY <1>4, Basics
    <2>3. Covered(inode_table, Dirs, d_dmap)'
      <3>1. kind = "dir" => Covered(inode_table, {c}, d_dmap)
        BY <1>6
      <3> QED BY <1>1, <1>5, <1>10, <1>12, <2>1, <2>2, <3>1 DEF Covered, Marked
    <2>4. \A i \in Own : Same(i)'
      BY <1>1, <1>4, <1>7, <1>12, <2>1 DEF Same
    <2> QED BY <1>1, <1>4, <1>7, <1>10, <2>1, <2>3, <2>4 DEF DiskInv
  <1>21. AddInv' /\ DownInv' /\ RemoveInv' /\ SizeInv'
    <2>1. call'.parent \in Inums
      BY <1>0, <1>1, <1>2, Basics
    <2> QED BY <1>1, <2>1 DEF AddInv, DownInv, RemoveInv, SizeInv, Adding, Removing,
                              Sizing, Reserving
  <1>22. BackedInv'
    <2>1. \A i \in Files : Backed(inode_table[i])
      BY <1>1 DEF CoreInv, BackedInv, Sizing, Reserving
    <2>2. kind # "dir" => inode_table[c].size = 0
      BY <1>6
    <2>3. Files \subseteq Own
      BY <1>4, Basics
    <2> QED BY <1>5, <1>10, <1>12, <2>1, <2>2, <2>3 DEF BackedInv, Backed
  <1> QED BY <1>10, <1>19, <1>20, <1>21, <1>22 DEF CoreInv

(***************************************************************************)
(* A full directory: the new inode is given up (refs.c:734-736).           *)
(***************************************************************************)
LEMMA EntryNoSpaceStep ==
    ASSUME TypeInv, TypeInv', CoreInv, EntryNoSpace
    PROVE  CoreInv'
  <1>1. /\ ns' = ns /\ pc = "entry" /\ pc' = "parent_inode" /\ call'.parent = call.parent
        /\ UNCHANGED <<d_imap, d_dmap, d_itab, blk, inode_table, inode_bitmap, data_bitmap>>
    BY DEF EntryNoSpace, disk, memory, history, TypeInv, TypeOK, Call
  <1>2. PlaceInv' /\ Live' = Live /\ Dirs' = Dirs /\ Files' = Files
    BY <1>1, TreeStep DEF CoreInv
  <1>3. MemInv /\ pc \notin {"down", "mkfs_block"}
    BY <1>1 DEF CoreInv
  <1>4. Own' = Live
    BY <1>1, <1>2 DEF Own, Adding, Removing
  <1>5. Own' \subseteq Own /\ Own' \subseteq inode_bitmap'
    BY <1>1, <1>3, <1>4, OwnFacts DEF MemInv
  <1>6. MemInv'
    BY <1>1, <1>3, <1>5, MemStep
  <1>7. DiskInv' /\ DownInv'
    BY <1>1, <1>2 DEF CoreInv, DiskInv, DownInv, Same, Covered, Marked
  <1>8. call.parent \in Inums
    BY <1>1, Basics DEF CoreInv, AddInv, Adding
  <1>9. AddInv' /\ RemoveInv' /\ SizeInv'
    BY <1>1, <1>8 DEF AddInv, RemoveInv, SizeInv, Adding, Removing, Sizing, Reserving
  <1>10. BackedInv'
    BY <1>1, BackedStep DEF Sizing, Reserving
  <1> QED BY <1>2, <1>6, <1>7, <1>9, <1>10 DEF CoreInv
-----------------------------------------------------------------------------
(***************************************************************************)
(* A list of entries without the entry of a child that is gone.            *)
(***************************************************************************)
LEMMA ListsMinus ==
    ASSUME NEW e \in [DirentIdx -> Dirent], NEW d, NEW s \in Slots, NEW c, NEW name,
           Lists(e, d), e[s] = dir_entry(c, name),
           NS!Children(d)' = NS!Children(d) \ {c}, ParentOf(d)' = ParentOf(d),
           \A k \in NS!Children(d) \ {c} : ns'[k] = ns[k],
           ns[c].name = name
    PROVE  Lists([e EXCEPT ![s] = NoDirent], d)'
  <1> DEFINE f == [e EXCEPT ![s] = NoDirent]
  <1>1. /\ f[s] = NoDirent
        /\ \A n \in DirentIdx \ {s} : f[n] = e[n]
        /\ s \in DirentIdx /\ Slots \subseteq DirentIdx /\ s # 0 /\ s # 1
        /\ 0 \in DirentIdx /\ 1 \in DirentIdx
    BY DirSlots
  <1> HIDE DEF f
  <1>2. f[0] = dir_entry(d, ".") /\ f[1] = dir_entry(ParentOf(d)', "..")
    BY <1>1 DEF Lists
  <1>3. ASSUME NEW n \in Slots
        PROVE  f[n] = NoDirent \/ \E k \in NS!Children(d)' : f[n] = dir_entry(k, ns'[k].name)
    <2> SUFFICES ASSUME n # s, e[n] # NoDirent
                 PROVE  \E k \in NS!Children(d)' : f[n] = dir_entry(k, ns'[k].name)
      BY <1>1
    <2>1. PICK k \in NS!Children(d) : e[n] = dir_entry(k, ns[k].name)
      BY DEF Lists
    <2>2. k # c
      <3> SUFFICES ASSUME k = c PROVE FALSE
        OBVIOUS
      <3>1. e[n] = e[s]
        BY <2>1
      <3>2. e[s].is_valid
        BY DEF dir_entry
      <3> QED BY <3>1, <3>2 DEF Lists
    <2> QED BY <1>1, <2>1, <2>2
  <1>4. ASSUME NEW k \in NS!Children(d)'
        PROVE  \E n \in Slots : f[n] = dir_entry(k, ns'[k].name)
    <2>1. PICK n \in Slots : e[n] = dir_entry(k, ns[k].name)
      BY DEF Lists
    <2>2. n # s
      BY <2>1 DEF dir_entry
    <2> QED BY <1>1, <2>1, <2>2
  <1>5. ASSUME NEW m \in Slots, NEW n \in Slots,
               f[m].is_valid, f[n].is_valid, f[m].path = f[n].path
        PROVE  m = n
    <2>1. m # s /\ n # s
      BY <1>1, <1>5 DEF NoDirent
    <2> QED BY <1>1, <1>5, <2>1 DEF Lists
  <1>6. Lists(f, d)'
    BY <1>2, <1>3, <1>4, <1>5 DEF Lists
  <1> QED BY <1>6 DEF f

(***************************************************************************)
(* The tree without a child that has no children itself.                   *)
(***************************************************************************)
LEMMA TreeMinus ==
    ASSUME TypeInv, PlaceInv, NEW p \in Dirs, NEW c \in NS!Children(p),
           NS!Children(c) = {}, ns' = [ns EXCEPT ![c] = NS!Absent]
    PROVE  /\ PlaceInv'
           /\ c \in Live /\ c # p /\ p \in Dirs'
           /\ Live' = Live \ {c} /\ Dirs' = Dirs \ {c} /\ Files' = Files \ {c}
           /\ \A i \in Live \ {c} : ns'[i] = ns[i]
           /\ \A d \in Dirs \ {c} : ParentOf(d)' = ParentOf(d)
           /\ NS!Children(p)' = NS!Children(p) \ {c}
           /\ \A d \in Dirs \ {p} : NS!Children(d)' = NS!Children(d)
  <1>1. /\ c \in Live \ {ROOT_INUM} /\ Live \subseteq Inums /\ Inums \subseteq InodeSlots
        /\ ns \in [InodeSlots -> NS!Node \cup {NS!Absent, NS!RootNode}]
        /\ Dirs \subseteq Live /\ ROOT_INUM \in Dirs
    BY Basics, PlaceFacts DEF TypeInv, TypeOK
  <1>2. /\ ns'[c] = NS!Absent /\ DOMAIN ns' = InodeSlots
        /\ \A i \in InodeSlots \ {c} : ns'[i] = ns[i]
    BY <1>1
  <1>3. c # p /\ ns[c].parent = p
    BY DEF NS!Children
  <1>4. Live' = Live \ {c}
    BY <1>1, <1>2 DEF Live
  <1>5. Dirs' = Dirs \ {c} /\ Files' = Files \ {c}
    <2>1. \A i \in Live \ {c} : NS!IsDir(i)' <=> NS!IsDir(i)
      BY <1>1, <1>2 DEF NS!IsDir
    <2> QED BY <1>4, <2>1 DEF Dirs, Files
  <1>6. ns'[c].kind \notin NS!Kinds
    BY <1>2 DEF NS!Absent, NS!Kinds
  <1>7. \A d : NS!Children(d)' = {i \in InodeSlots : ns'[i].kind \in NS!Kinds /\ ns'[i].parent = d}
    BY DEF NS!Children
  <1>8. NS!Children(p)' = NS!Children(p) \ {c}
    BY <1>1, <1>2, <1>6, <1>7 DEF NS!Children
  <1>9. \A d \in Dirs \ {p} : NS!Children(d)' = NS!Children(d)
    BY <1>1, <1>2, <1>3, <1>6, <1>7 DEF NS!Children
  <1>10. \A d \in Dirs \ {c} : ParentOf(d)' = ParentOf(d)
    BY <1>1, <1>2 DEF ParentOf
  <1>11. PlaceInv'
    <2>1. \A i \in InodeSlots : ns'[i] = NS!RootNode <=> i = ROOT_INUM
      BY <1>1, <1>2 DEF PlaceInv, NS!Absent, NS!RootNode
    <2>2. ns'[NumInodes] = NS!Absent
      BY <1>1, <1>2, LayoutAssumption DEF PlaceInv, InodeSlots
    <2>3. ASSUME NEW i \in InodeSlots, ns'[i].kind \in NS!Kinds
          PROVE  ns'[i].parent \in Dirs'
      <3>1. i # c /\ ns'[i] = ns[i] /\ ns[i].parent \in Dirs
        BY <1>2, <1>6, <2>3 DEF PlaceInv
      <3>2. ns[i].parent # c
        BY <2>3, <3>1 DEF NS!Children
      <3> QED BY <1>5, <3>1, <3>2
    <2> QED BY <2>1, <2>2, <2>3 DEF PlaceInv
  <1> QED BY <1>1, <1>2, <1>3, <1>4, <1>5, <1>8, <1>9, <1>10, <1>11

(***************************************************************************)
(* What remove_child removes is a child without children of its own.       *)
(***************************************************************************)
LEMMA RemovedFacts ==
    ASSUME TypeInv, CoreInv, pc = "idle", NEW p \in Reachable, NEW n \in Names,
           NEW op, remove_child(op, p, n)
    PROVE  LET c == find_child_inum(n, p)
               s == First(NamedPlaces(p, n))
               e == blk[inode_table[p].ptrs[0]].dirents
           IN  /\ p \in Dirs /\ MemInv /\ PlaceInv
               /\ s[1] = 0 /\ s[2] \in Slots
               /\ c \in NS!Children(p) /\ NS!Children(c) = {}
               /\ ns[c].name = n /\ e[s[2]] = dir_entry(c, n)
  <1> DEFINE c == find_child_inum(n, p)
             s == First(NamedPlaces(p, n))
             e == blk[inode_table[p].ptrs[0]].dirents
  <1>1. /\ inode_table[p].flags = "dir" /\ NamedPlaces(p, n) # {}
        /\ IF op = "rmdir" THEN inode_table[c].flags = "dir" /\ dir_is_empty(c)
                           ELSE inode_table[c].flags = "reg"
    BY DEF remove_child
  <1>2. p \in Dirs /\ MemInv /\ PlaceInv /\ pc \notin {"down", "mkfs_block"}
    BY <1>1, CallFacts DEF CoreInv
  <1>3. /\ s[1] = 0 /\ s[2] \in Slots
        /\ c \in NS!Children(p) /\ ns[c].name = n /\ e[s[2]] = dir_entry(c, n)
    BY <1>1, <1>2, FoundChild
  <1>4. c \in Live
    BY <1>2, <1>3, PlaceFacts
  <1> HIDE DEF c
  <1>5. NS!Children(c) = {}
    <2>1. CASE op = "rmdir"
      BY <1>1, <1>2, <1>4, <2>1, FileFacts, EmptyDir
    <2>2. CASE op # "rmdir"
      <3>1. c \notin Dirs
        BY <1>1, <1>2, <1>4, <2>2, FileFacts
      <3> QED BY <1>2, <3>1 DEF PlaceInv, NS!Children
    <2> QED BY <2>1, <2>2
  <1> QED BY <1>2, <1>3, <1>5 DEF c

(***************************************************************************)
(* The entry disappears from its directory's block, the node from the tree;*)
(* the inode and its blocks are still reserved (refs.c:1262-1281).         *)
(***************************************************************************)
LEMMA RemoveChildStep ==
    ASSUME TypeInv, TypeInv', CoreInv, pc = "idle", NEW p \in Reachable, NEW n \in Names,
           NEW op, remove_child(op, p, n)
    PROVE  CoreInv'
  <1>0. PICK c, s, l, e, entries :
          /\ c = find_child_inum(n, p)
          /\ s = First(NamedPlaces(p, n))
          /\ l = inode_table[p].ptrs[0]
          /\ e = blk[l].dirents
          /\ entries = [e EXCEPT ![s[2]] = NoDirent]
    OBVIOUS
  <1>1. /\ p \in Dirs /\ MemInv /\ PlaceInv
        /\ s[1] = 0 /\ s[2] \in Slots
        /\ c \in NS!Children(p) /\ NS!Children(c) = {}
        /\ ns[c].name = n /\ e[s[2]] = dir_entry(c, n)
    BY <1>0, RemovedFacts
  <1>2. /\ pc' = "rm_parent"
        /\ blk' = [blk EXCEPT ![l] = DirBlock(entries)]
        /\ ns' = [ns EXCEPT ![c] = NS!Absent]
        /\ call' = [NoCall EXCEPT !.op = op, !.parent = p, !.child = c, !.name = n]
        /\ UNCHANGED <<d_imap, d_itab, d_dmap, inode_table, inode_bitmap, data_bitmap>>
    BY <1>0, <1>1 DEF remove_child, memory
  <1>3. call'.child = c
    BY <1>2 DEF NoCall
  <1>4. /\ PlaceInv'
        /\ c \in Live /\ c # p /\ p \in Dirs'
        /\ Live' = Live \ {c} /\ Dirs' = Dirs \ {c} /\ Files' = Files \ {c}
        /\ \A i \in Live \ {c} : ns'[i] = ns[i]
        /\ \A d \in Dirs \ {c} : ParentOf(d)' = ParentOf(d)
        /\ NS!Children(p)' = NS!Children(p) \ {c}
        /\ \A d \in Dirs \ {p} : NS!Children(d)' = NS!Children(d)
    BY <1>1, <1>2, TreeMinus
  <1>5. Own = Live /\ Own' = Own /\ pc \notin {"down", "mkfs_block"}
    BY <1>2, <1>3, <1>4 DEF Own, Adding, Removing
  <1>6. /\ blk \in [BlkLbas -> Block] /\ l \in BlkLbas
    BY <1>0, <1>1, <1>5, DirFacts DEF TypeInv, TypeOK
  <1>7. e \in [DirentIdx -> Dirent]
    BY <1>0, <1>6 DEF Block
  <1>8. Owned(inode_table, Own)' /\ Covered(inode_table, Own, data_bitmap)'
    BY <1>1, <1>2, <1>5 DEF Owned, Numbered, InRegion, Exclusive, Covered, Marked, MemInv
  <1>9. Kinded(inode_table)'
    BY <1>1, <1>2, <1>4, <1>5 DEF MemInv, Shaped, Kinded
  <1>10. Holds(inode_table, p)'
    <2>1. Lists(e, p) /\ inode_table[p].blocks = 1
      BY <1>0, <1>1, <1>5, DirFacts
    <2>2. \A k \in NS!Children(p) \ {c} : ns'[k] = ns[k]
      BY <1>1, <1>4, PlaceFacts
    <2>3. Lists([e EXCEPT ![s[2]] = NoDirent], p)'
      BY <1>1, <1>4, <1>7, <2>1, <2>2, ListsMinus
    <2>4. blk'[l].dirents = entries
      BY <1>2, <1>6 DEF DirBlock
    <2> QED BY <1>0, <1>2, <2>1, <2>3, <2>4 DEF Holds
  <1>11. ASSUME NEW d \in Dirs \ {c}, d # p PROVE Holds(inode_table, d)'
    <2>1. d \in Own /\ d \in Live /\ 0 \in DirectIdx
      BY <1>5, Basics
    <2>2. PICK f : f = blk[inode_table[d].ptrs[0]].dirents
      OBVIOUS
    <2>3. inode_table[d].blocks = 1 /\ Lists(f, d)
      BY <1>1, <1>5, <2>2, DirFacts
    <2>4. inode_table[d].ptrs[0] # l /\ inode_table[d].ptrs[0] \in BlkLbas
      BY <1>0, <1>1, <1>5, <1>11, <2>1, <2>3, DirFacts
    <2>5. blk'[inode_table[d].ptrs[0]] = blk[inode_table[d].ptrs[0]]
      BY <1>2, <1>6, <2>4
    <2>6. Lists(f, d)'
      <3>1. NS!Children(d) \subseteq Live \ {c}
        BY <1>1, <1>11, PlaceFacts DEF NS!Children
      <3> QED BY <1>4, <1>11, <2>3, <3>1, ListsKeep
    <2> QED BY <1>2, <2>2, <2>3, <2>5, <2>6 DEF Holds
  <1>12. MemInv'
    <2>1. Shaped(inode_table)'
      BY <1>4, <1>9, <1>10, <1>11 DEF Shaped
    <2> QED BY <1>1, <1>2, <1>5, <1>8, <2>1 DEF MemInv
  <1>13. DiskInv'
    BY <1>2, <1>4, <1>5 DEF CoreInv, DiskInv, Same, Covered, Marked
  <1>14. AddInv' /\ DownInv' /\ RemoveInv' /\ SizeInv'
    <2>1. call'.child \in InodeSlots \ Live'
      BY <1>3, <1>4, Basics
    <2> QED BY <1>2, <2>1 DEF AddInv, DownInv, RemoveInv, SizeInv, Adding, Removing,
                              Sizing, Reserving
  <1>15. BackedInv'
    BY <1>2, <1>4 DEF CoreInv, BackedInv, Backed, Sizing, Reserving
  <1> QED BY <1>4, <1>12, <1>13, <1>14, <1>15 DEF CoreInv

(***************************************************************************)
(* Steps that change counts, modes or sizes of inodes and write one back.  *)
(***************************************************************************)
LEMMA TouchStep ==
    ASSUME TypeInv, TypeInv', CoreInv, pc \notin {"down"} \cup Making,
           pc' \notin {"down"} \cup Making, ns' = ns, Own' \subseteq Own,
           UNCHANGED <<blk, d_imap, inode_bitmap, data_bitmap>>,
           NEW i \in Inums, write_inode(inode_table', i),
           \A j \in InodeSlots : /\ inode_table'[j].inum = inode_table[j].inum
                                 /\ inode_table'[j].flags = inode_table[j].flags
                                 /\ inode_table'[j].blocks = inode_table[j].blocks
                                 /\ inode_table'[j].ptrs = inode_table[j].ptrs
    PROVE  /\ PlaceInv' /\ MemInv' /\ DiskInv' /\ DownInv'
           /\ Live' = Live /\ Dirs' = Dirs /\ Files' = Files
  <1>1. PlaceInv' /\ Live' = Live /\ Dirs' = Dirs /\ Files' = Files
    BY TreeStep DEF CoreInv
  <1>2. MemInv /\ pc \notin {"down", "mkfs_block"}
    BY DEF CoreInv, Making
  <1>3. Own \subseteq InodeSlots /\ Own \subseteq inode_bitmap
    BY <1>2, OwnFacts DEF MemInv
  <1>4. MemInv'
    BY <1>2, <1>3, MemStep
  <1>5. /\ Covered(inode_table, Dirs, d_dmap)
        /\ \A j \in Live : Same(j)
        /\ Live \subseteq d_imap
    BY DEF CoreInv, DiskInv, Making
  <1>6. (\A j \in Live : Same(j)') /\ d_dmap' = d_dmap
    BY <1>5, WriteInodeSame, Basics
  <1>7. DiskInv'
    <2>1. Covered(inode_table, Dirs, d_dmap)'
      BY <1>1, <1>5, <1>6, Basics DEF Covered, Marked
    <2> QED BY <1>1, <1>5, <1>6, <2>1 DEF DiskInv
  <1> QED BY <1>1, <1>4, <1>7 DEF DownInv

(***************************************************************************)
(* Writing back the parent of a removed entry changes its link count only. *)
(***************************************************************************)
LEMMA UnlinkParentStep ==
    ASSUME TypeInv, TypeInv', CoreInv, UnlinkParent
    PROVE  CoreInv'
  <1>1. /\ pc = "rm_parent" /\ pc' = "rm_child" /\ ns' = ns
        /\ inode_table' = [inode_table EXCEPT ![call.parent].n_links = Dec(@)]
        /\ write_inode(inode_table', inode_table[call.parent].inum)
        /\ UNCHANGED <<d_imap, blk, inode_bitmap, data_bitmap, call>>
    BY DEF UnlinkParent, WriteOwn, history
  <1>2. inode_table \in [InodeSlots -> Inode] /\ call.parent \in InodeSlots
    BY DEF TypeInv, TypeOK, Call
  <1>3. inode_table[call.parent].inum \in Inums
    BY <1>2 DEF Inode
  <1>4. \A j \in InodeSlots : /\ inode_table'[j].inum = inode_table[j].inum
                              /\ inode_table'[j].flags = inode_table[j].flags
                              /\ inode_table'[j].blocks = inode_table[j].blocks
                              /\ inode_table'[j].ptrs = inode_table[j].ptrs
                              /\ inode_table'[j].size = inode_table[j].size
    BY <1>1, <1>2 DEF Inode
  <1>5. Own' = Own
    BY <1>1, TreeStep DEF Own, Adding, Removing
  <1>6. /\ PlaceInv' /\ MemInv' /\ DiskInv' /\ DownInv'
        /\ Live' = Live /\ Dirs' = Dirs /\ Files' = Files
    BY <1>1, <1>3, <1>4, <1>5, TouchStep DEF Making
  <1>7. AddInv' /\ RemoveInv' /\ SizeInv'
    BY <1>1, <1>6 DEF CoreInv, AddInv, RemoveInv, SizeInv, Adding, Removing, Sizing, Reserving
  <1>8. BackedInv'
    BY <1>1, <1>4, Basics, BackedStep DEF Sizing, Reserving
  <1> QED BY <1>6, <1>7, <1>8 DEF CoreInv

(***************************************************************************)
(* The removed inode is written back, and its blocks or its bit are        *)
(* released next.                                                          *)
(***************************************************************************)
LEMMA UnlinkChildStep ==
    ASSUME TypeInv, TypeInv', CoreInv, UnlinkChild
    PROVE  CoreInv'
  <1>1. /\ pc = "rm_child" /\ pc' \in {"reply", "unlink_loop", "release"} /\ ns' = ns
        /\ inode_table' = [inode_table EXCEPT ![call.child].n_links = Dec(@)]
        /\ write_inode(inode_table', inode_table[call.child].inum)
        /\ UNCHANGED <<d_imap, blk, inode_bitmap, data_bitmap, call>>
    BY DEF UnlinkChild, WriteOwn, history
  <1>2. inode_table \in [InodeSlots -> Inode] /\ call.child \in InodeSlots
    BY DEF TypeInv, TypeOK, Call
  <1>3. inode_table[call.child].inum \in Inums
    BY <1>2 DEF Inode
  <1>4. \A j \in InodeSlots : /\ inode_table'[j].inum = inode_table[j].inum
                              /\ inode_table'[j].flags = inode_table[j].flags
                              /\ inode_table'[j].blocks = inode_table[j].blocks
                              /\ inode_table'[j].ptrs = inode_table[j].ptrs
                              /\ inode_table'[j].size = inode_table[j].size
    BY <1>1, <1>2 DEF Inode
  <1>5. Own' \subseteq Own
    BY <1>1, TreeStep DEF Own, Adding, Removing
  <1>6. /\ PlaceInv' /\ MemInv' /\ DiskInv' /\ DownInv'
        /\ Live' = Live /\ Dirs' = Dirs /\ Files' = Files
    BY <1>1, <1>3, <1>4, <1>5, TouchStep DEF Making
  <1>7. AddInv' /\ RemoveInv' /\ SizeInv'
    BY <1>1, <1>6 DEF CoreInv, AddInv, RemoveInv, SizeInv, Adding, Removing, Sizing, Reserving
  <1>8. BackedInv'
    BY <1>1, <1>4, Basics, BackedStep DEF Sizing, Reserving
  <1> QED BY <1>6, <1>7, <1>8 DEF CoreInv

(***************************************************************************)
(* chmod changes a mode in memory and on the disk, and nothing that the    *)
(* tree or the blocks depend on.                                           *)
(***************************************************************************)
LEMMA ChmodStep ==
    ASSUME TypeInv, TypeInv', CoreInv, pc = "idle", NEW i \in Reachable, NEW m \in Modes,
           refs_chmod(i, m)
    PROVE  CoreInv'
  <1>1. /\ pc' = "reply" /\ ns' = ns
        /\ inode_table' = [inode_table EXCEPT ![i].mode = m]
        /\ write_inode(inode_table', i)
        /\ UNCHANGED <<d_imap, blk, inode_bitmap, data_bitmap>>
    BY DEF refs_chmod, history
  <1>2. inode_table \in [InodeSlots -> Inode] /\ i \in Inums /\ Own = Live
    BY CallFacts DEF TypeInv, TypeOK
  <1>3. \A j \in InodeSlots : /\ inode_table'[j].inum = inode_table[j].inum
                              /\ inode_table'[j].flags = inode_table[j].flags
                              /\ inode_table'[j].blocks = inode_table[j].blocks
                              /\ inode_table'[j].ptrs = inode_table[j].ptrs
                              /\ inode_table'[j].size = inode_table[j].size
    BY <1>1, <1>2 DEF Inode
  <1>4. Own' = Own
    BY <1>1, <1>2, TreeStep DEF Own, Adding, Removing
  <1>5. /\ PlaceInv' /\ MemInv' /\ DiskInv' /\ DownInv'
        /\ Live' = Live /\ Dirs' = Dirs /\ Files' = Files
    BY <1>1, <1>2, <1>3, <1>4, TouchStep DEF Making
  <1>6. AddInv' /\ RemoveInv' /\ SizeInv'
    BY <1>1 DEF AddInv, RemoveInv, SizeInv, Adding, Removing, Sizing, Reserving
  <1>7. BackedInv'
    BY <1>1, <1>3, Basics, BackedStep DEF Sizing, Reserving
  <1> QED BY <1>5, <1>6, <1>7 DEF CoreInv
-----------------------------------------------------------------------------
(***************************************************************************)
(* Dropping the last block of an inode in use frees no block that any      *)
(* inode still uses (refs.c:924-957).                                      *)
(***************************************************************************)
LEMMA DropBlockStep ==
    ASSUME TypeInv, TypeInv', CoreInv, pc \notin {"down"} \cup Making,
           pc' \notin {"down"} \cup Making, ns' = ns, Own' \subseteq Own,
           UNCHANGED <<blk, d_imap, inode_bitmap>>,
           NEW c \in Own \ Dirs, file_remove_data_block(c)
    PROVE  /\ PlaceInv' /\ MemInv' /\ DiskInv' /\ DownInv'
           /\ Live' = Live /\ Dirs' = Dirs /\ Files' = Files
           /\ inode_table[c].blocks > 0
           /\ inode_table'[c].blocks = inode_table[c].blocks - 1
           /\ inode_table'[c].size = inode_table[c].size
           /\ \A i \in InodeSlots \ {c} : inode_table'[i] = inode_table[i]
  <1>1. PlaceInv' /\ Live' = Live /\ Dirs' = Dirs /\ Files' = Files
    BY TreeStep DEF CoreInv
  <1>2. MemInv /\ pc \notin {"down", "mkfs_block"}
    BY DEF CoreInv, Making
  <1>3. /\ Own \subseteq InodeSlots /\ Own \subseteq inode_bitmap /\ c \in InodeSlots
        /\ c \in Inums /\ Live \subseteq Own /\ Dirs \subseteq Live
        /\ inode_table[c].inum = c /\ inode_table[c].blocks \in Nat
        /\ inode_table[c].blocks <= NumDirect
    BY <1>2, OwnFacts, Basics DEF MemInv
  <1>4. /\ inode_table \in [InodeSlots -> Inode]
        /\ data_bitmap \in SUBSET DataSlots
    BY DEF TypeInv, TypeOK
  <1> DEFINE k == inode_table[c].blocks - 1
             l == inode_table[c].ptrs[k]
  <1>5. /\ inode_table[c].blocks > 0 /\ k \in DirectIdx /\ k < inode_table[c].blocks
        /\ k \in Nat
        /\ data_bitmap' = data_bitmap \ {l - d_region_start}
        /\ inode_table' = [inode_table EXCEPT ![c].blocks = k]
        /\ write_inode(inode_table', c)
    BY <1>3, <1>4, RefsAssumption
       DEF file_remove_data_block, LastPtr, DirectIdx, WriteOwn
  <1>6. /\ inode_table'[c].inum = c /\ inode_table'[c].blocks = k
        /\ inode_table'[c].size = inode_table[c].size
        /\ inode_table'[c].ptrs = inode_table[c].ptrs
        /\ inode_table'[c].flags = inode_table[c].flags
        /\ \A i \in InodeSlots \ {c} : inode_table'[i] = inode_table[i]
    BY <1>3, <1>4, <1>5 DEF Inode
  <1>7. l \in Marked(data_bitmap)
    BY <1>2, <1>5, OwnFacts
  <1>8. Marked(data_bitmap') = Marked(data_bitmap) \ {l}
    BY <1>4, <1>5, <1>7, MarkedBlocks, DataBlocks DEF Marked
  <1> HIDE DEF l, k
  <1>9. \A i \in Own, j \in DirectIdx : j < inode_table'[i].blocks =>
            j < inode_table[i].blocks /\ inode_table'[i].ptrs[j] # l
    <2> SUFFICES ASSUME NEW i \in Own, NEW j \in DirectIdx, j < inode_table'[i].blocks
                 PROVE  j < inode_table[i].blocks /\ inode_table'[i].ptrs[j] # l
      OBVIOUS
    <2>1. CASE i = c
      <3>1. j < k /\ j < inode_table[c].blocks
        BY <1>3, <1>6, <2>1, Basics DEF k
      <3> QED BY <1>2, <1>5, <1>6, <2>1, <3>1, Basics, OwnFacts DEF l
    <2>2. CASE i # c
      BY <1>2, <1>3, <1>5, <1>6, <2>2, OwnFacts DEF l
    <2> QED BY <2>1, <2>2
  <1>10. Covered(inode_table, Own, data_bitmap)'
    <2>1. \A i \in Own : inode_table'[i].ptrs = inode_table[i].ptrs
      BY <1>3, <1>6
    <2> QED BY <1>2, <1>8, <1>9, <2>1, OwnFacts DEF Covered, Marked
  <1>11. Owned(inode_table, Own)'
    <2>1. \A i \in Own' : /\ inode_table'[i].inum = inode_table[i].inum
                          /\ inode_table'[i].ptrs = inode_table[i].ptrs
                          /\ inode_table[i].blocks \in Nat /\ inode_table'[i].blocks \in Nat
                          /\ inode_table'[i].blocks <= inode_table[i].blocks
      BY <1>2, <1>3, <1>5, <1>6, OwnFacts DEF k
    <2>2. Owned(inode_table', Own')
      BY <1>2, <2>1, OwnedFrame DEF MemInv
    <2> QED BY <2>2 DEF Owned, Numbered, InRegion, Exclusive
  <1>12. Shaped(inode_table)'
    <2>1. \A i \in Live : inode_table'[i].flags = inode_table[i].flags
      BY <1>3, <1>6
    <2>2. \A d \in Dirs : inode_table'[d] = inode_table[d]
      BY <1>3, <1>6
    <2> QED BY <1>2, <2>1, <2>2, ShapedStep DEF MemInv
  <1>13. MemInv'
    BY <1>3, <1>10, <1>11, <1>12 DEF MemInv
  <1>14. DiskInv'
    <2>1. /\ Covered(inode_table, Dirs, d_dmap)
          /\ \A j \in Live : Same(j)
          /\ Live \subseteq d_imap
      BY DEF CoreInv, DiskInv, Making
    <2>2. (\A j \in Live : Same(j)') /\ d_dmap' = d_dmap
      BY <1>3, <1>5, <1>6, <2>1, WriteInodeSame, Basics
    <2>3. Covered(inode_table, Dirs, d_dmap)'
      BY <1>1, <1>3, <1>6, <2>1, <2>2 DEF Covered, Marked
    <2> QED BY <1>1, <2>1, <2>2, <2>3 DEF DiskInv
  <1> QED BY <1>1, <1>5, <1>6, <1>13, <1>14 DEF DownInv, k

(***************************************************************************)
(* A turn of the unlink loop clears the bit of a block of the removed      *)
(* file, which no inode of the tree has.                                   *)
(***************************************************************************)
LEMMA UnlinkBlockStep ==
    ASSUME TypeInv, TypeInv', CoreInv, UnlinkBlock
    PROVE  CoreInv'
  <1>1. /\ pc = "unlink_loop" /\ pc' \in {"unlink_loop", "release"} /\ ns' = ns
        /\ call'.child = call.child
        /\ file_remove_data_block(call.child)
        /\ UNCHANGED <<d_imap, blk, inode_bitmap>>
    BY DEF UnlinkBlock, history, TypeInv, TypeOK, Call
  <1>2. call.child \in Own \ Dirs /\ call.child \in InodeSlots \ Live
    BY <1>1, Basics DEF CoreInv, RemoveInv, Own, Removing
  <1>3. Own' \subseteq Own
    BY <1>1, TreeStep DEF Own, Adding, Removing
  <1>4. /\ PlaceInv' /\ MemInv' /\ DiskInv' /\ DownInv'
        /\ Live' = Live /\ Dirs' = Dirs /\ Files' = Files
        /\ \A i \in InodeSlots \ {call.child} : inode_table'[i] = inode_table[i]
    BY <1>1, <1>2, <1>3, DropBlockStep DEF Making
  <1>5. AddInv' /\ RemoveInv' /\ SizeInv'
    BY <1>1, <1>2, <1>4 DEF AddInv, RemoveInv, SizeInv, Adding, Removing, Sizing, Reserving
  <1>6. BackedInv'
    BY <1>1, <1>2, <1>4, Basics, BackedStep DEF Sizing, Reserving
  <1> QED BY <1>4, <1>5, <1>6 DEF CoreInv

(***************************************************************************)
(* Releasing an inode clears its own bits and those of blocks that no      *)
(* inode of the tree uses (refs.c:296-311).                                *)
(***************************************************************************)
LEMMA ReleaseStep ==
    ASSUME TypeInv, TypeInv', CoreInv, release_inode
    PROVE  CoreInv'
  <1> DEFINE c == call.child
             freed == IF call.op = "rmdir"
                      THEN {l - d_region_start : l \in BlocksOf(c)} ELSE {}
  <1>1. /\ pc = "release" /\ pc' = "rm_imap" /\ ns' = ns /\ call' = call
        /\ inode_bitmap' = inode_bitmap \ {c, inode_table[c].inum}
        /\ data_bitmap' = data_bitmap \ freed
        /\ inode_table' = [inode_table EXCEPT
                             ![c] = [@ EXCEPT !.flags = "free", !.n_links = 0,
                                              !.size = 0, !.blocks = 0]]
        /\ d_dmap' = data_bitmap'
        /\ UNCHANGED <<d_imap, d_itab, blk>>
    BY DEF release_inode, history
  <1>2. /\ PlaceInv' /\ Live' = Live /\ Dirs' = Dirs /\ Files' = Files
        /\ MemInv /\ pc \notin {"down", "mkfs_block"}
    BY <1>1, TreeStep DEF CoreInv
  <1>3. c \in Own /\ c \in InodeSlots \ Live /\ Own' = Live
    BY <1>1, <1>2 DEF CoreInv, RemoveInv, Own, Adding, Removing
  <1>4. /\ Live \subseteq Own /\ Own \subseteq InodeSlots /\ Own \subseteq Inums
        /\ inode_table[c].inum = c /\ Dirs \subseteq Live
    BY <1>2, <1>3, OwnFacts, Basics
  <1>5. data_bitmap \in SUBSET DataSlots
    BY DEF TypeInv, TypeOK
  <1> HIDE DEF c, freed
  <1>6. \A i \in Live : inode_table'[i] = inode_table[i]
    BY <1>1, <1>3, <1>4 DEF TypeInv, TypeOK
  <1>7. ASSUME NEW i \in Live, NEW k \in DirectIdx, k < inode_table[i].blocks
        PROVE  inode_table[i].ptrs[k] \in Marked(data_bitmap')
    <2> DEFINE l == inode_table[i].ptrs[k]
    <2>1. l \in Marked(data_bitmap)
      BY <1>2, <1>4, <1>7, OwnFacts
    <2>2. l - d_region_start \in data_bitmap /\ l = Lba(l - d_region_start)
      BY <1>5, <2>1, MarkedBlocks
    <2>3. l \notin BlocksOf(c)
      <3>1. i # c
        BY <1>3
      <3> QED BY <1>2, <1>3, <1>4, <1>7, <3>1, OwnFacts DEF BlocksOf
    <2>4. ASSUME NEW x \in BlocksOf(c) PROVE x - d_region_start # l - d_region_start
      <3>1. x \in Marked(data_bitmap)
        BY <1>2, <1>3, <2>4, OwnFacts DEF BlocksOf
      <3>2. x = Lba(x - d_region_start)
        BY <1>5, <3>1, MarkedBlocks
      <3> QED BY <2>2, <2>3, <3>2
    <2>5. l - d_region_start \in data_bitmap'
      BY <1>1, <2>2, <2>4 DEF freed
    <2> QED BY <2>2, <2>5 DEF Marked
  <1>8. Covered(inode_table, Own, data_bitmap)'
    BY <1>3, <1>6, <1>7 DEF Covered, Marked
  <1>9. Owned(inode_table, Own)'
    <2>1. Owned(inode_table', Live)
      BY <1>2, <1>4, <1>6, OwnedFrame, OwnFacts DEF MemInv
    <2> QED BY <1>3, <2>1 DEF Owned, Numbered, InRegion, Exclusive
  <1>10. Shaped(inode_table)'
    BY <1>1, <1>2, <1>4, <1>6, ShapedStep DEF MemInv
  <1>11. MemInv'
    BY <1>1, <1>2, <1>3, <1>4, <1>8, <1>9, <1>10 DEF MemInv
  <1>12. DiskInv'
    BY <1>1, <1>2, <1>4, <1>6, <1>7 DEF CoreInv, DiskInv, Same, Covered, Marked
  <1>13. AddInv' /\ DownInv' /\ RemoveInv' /\ SizeInv'
    BY <1>1, <1>3, <1>4 DEF AddInv, DownInv, RemoveInv, SizeInv, Adding, Removing, Sizing,
                            Reserving, c
  <1>14. BackedInv'
    BY <1>1, <1>6, Basics, BackedStep DEF Sizing, Reserving
  <1> QED BY <1>2, <1>11, <1>12, <1>13, <1>14 DEF CoreInv
-----------------------------------------------------------------------------
(***************************************************************************)
(* Blocks of offsets: a larger offset is in no earlier block, and the      *)
(* start of a file is in its first (refs.c:1095-1098, 1578-1581).          *)
(***************************************************************************)
LEMMA BlockOrder ==
    ASSUME NEW m \in Nat, NEW n \in Nat, m <= n
    PROVE  /\ m \div BlockSize \in Nat /\ n \div BlockSize \in Nat
           /\ m \div BlockSize <= n \div BlockSize
           /\ 0 \div BlockSize = 0
  <1> DEFINE B == BlockSize
             a == m \div B
             b == n \div B
  <1>1. B \in Nat /\ B > 0
    BY LayoutAssumption
  <1> HIDE DEF B
  <1>2. /\ a \in Nat /\ m % B \in 0 .. B - 1 /\ m = B * a + (m % B)
        /\ b \in Nat /\ n % B \in 0 .. B - 1 /\ n = B * b + (n % B)
    BY <1>1
  <1>3. a <= b
    <2> SUFFICES ASSUME a >= b + 1 PROVE FALSE
      BY <1>2
    <2> HIDE DEF a, b
    <2>1. B * a >= B * (b + 1)
      BY <1>1, <1>2
    <2>2. B * (b + 1) = B * b + B
      BY <1>1, <1>2
    <2>3. B * a \in Nat /\ B * b \in Nat
      BY <1>1, <1>2
    <2>4. n < B * b + B
      BY <1>1, <1>2, <2>3
    <2> QED BY <1>1, <1>2, <2>1, <2>2, <2>3, <2>4
  <1>4. 0 \div B = 0
    BY <1>1
  <1> QED BY <1>2, <1>3, <1>4 DEF B

(***************************************************************************)
(* What a resize sets out to do fits the file it finds (refs.c:1083-1113). *)
(***************************************************************************)
LEMMA ResizeFacts ==
    ASSUME TypeInv, NEW c \in InodeSlots, Backed(inode_table[c]), NEW n \in Nat,
           inode_table[c].size # n, n > inode_table[c].size => DirectOnly(c, n)
    PROVE  LET k == Resize(c, n)
               ino == inode_table[c]
               last == n \div BlockSize
           IN  /\ k.child = c /\ k.size = n /\ ~k.filled
               /\ k.left \in Nat /\ k.idx \in Nat
               /\ FirstStep(c, n) \in {"reserve", "fill"}
               /\ FirstStep(c, n) = "reserve" =>
                     /\ ino.size < n /\ k.idx = 0
                     /\ ino.blocks + k.left + 1 <= NumDirect
                     /\ ino.blocks + k.left + 1 > last
               /\ FirstStep(c, n) = "fill" =>
                     /\ k.idx < ino.blocks
                     /\ IF ino.size < n
                        THEN /\ ino.blocks + k.left <= NumDirect
                             /\ ino.blocks + k.left > last
                        ELSE ino.blocks - k.left > last
  <1>1. /\ inode_table[c].size \in Nat /\ inode_table[c].blocks \in Nat
        /\ NumDirect \in Nat
    BY RefsAssumption DEF TypeInv, TypeOK, Inode
  <1>2. PICK size, blocks : size = inode_table[c].size /\ blocks = inode_table[c].blocks
    OBVIOUS
  <1>3. PICK old, new : old = size \div BlockSize /\ new = n \div BlockSize
    OBVIOUS
  <1>4. /\ old \in Nat /\ new \in Nat
        /\ size < n => old <= new
        /\ n <= size => new <= old
        /\ size = 0 => old = 0
    BY <1>1, <1>2, <1>3, BlockOrder
  <1>5. size > 0 => blocks > old
    BY <1>2, <1>3 DEF Backed
  <1>6. size < n => blocks + new - old + (IF size = 0 THEN 1 ELSE 0) <= NumDirect
    BY <1>1, <1>2, <1>3 DEF DirectOnly
  <1>7. CASE size < n
    <2>1. /\ Resize(c, n).child = c /\ Resize(c, n).size = n /\ ~Resize(c, n).filled
          /\ Resize(c, n).idx = old /\ Resize(c, n).left = new - old
      BY <1>2, <1>3, <1>7 DEF Resize, NoCall
    <2>2. FirstStep(c, n) = IF size = 0 THEN "reserve" ELSE "fill"
      BY <1>1, <1>2, <1>7 DEF FirstStep
    <2> QED BY <1>1, <1>2, <1>3, <1>4, <1>5, <1>6, <1>7, <2>1, <2>2
  <1>8. CASE ~(size < n)
    <2>1. /\ Resize(c, n).child = c /\ Resize(c, n).size = n /\ ~Resize(c, n).filled
          /\ Resize(c, n).idx = new /\ Resize(c, n).left = old - new
      BY <1>2, <1>3, <1>8 DEF Resize, NoCall
    <2>2. n < size /\ size > 0
      BY <1>1, <1>2, <1>8
    <2>3. FirstStep(c, n) = "fill"
      BY <1>2, <2>2 DEF FirstStep
    <2> QED BY <1>1, <1>2, <1>3, <1>4, <1>5, <1>8, <2>1, <2>2, <2>3
  <1> QED BY <1>7, <1>8

(***************************************************************************)
(* A size that differs from a file's own leaves a resize with the right    *)
(* number of blocks to add or to remove.                                   *)
(***************************************************************************)
LEMMA ResizeBegins ==
    ASSUME TypeInv, NEW c \in Files, Backed(inode_table[c]), NEW n \in Nat,
           inode_table[c].size # n, n > inode_table[c].size => DirectOnly(c, n),
           inode_table' = inode_table, ns' = ns, pc' = FirstStep(c, n),
           call'.child = c, call'.size = n, ~call'.filled,
           call'.left = Resize(c, n).left, call'.idx = Resize(c, n).idx,
           call'.op = "write" => call'.at <= call'.last /\ call'.last = n \div BlockSize
    PROVE  SizeInv' /\ pc' \in {"reserve", "fill"}
  <1>1. c \in InodeSlots /\ c \in Files'
    BY Basics, TreeStep
  <1>2. inode_table[c].size \in Nat /\ inode_table[c].blocks \in Nat
    BY <1>1 DEF TypeInv, TypeOK, Inode
  <1>3. PICK blocks, left, last, idx :
          /\ blocks = inode_table[c].blocks /\ left = call'.left
          /\ last = n \div BlockSize /\ idx = call'.idx
    OBVIOUS
  <1>4. /\ left \in Nat /\ idx \in Nat /\ blocks \in Nat /\ last \in Nat
        /\ pc' \in {"reserve", "fill"}
        /\ pc' = "reserve" => /\ inode_table[c].size < n /\ idx = 0
                             /\ blocks + (left + 1) <= NumDirect
                             /\ blocks + (left + 1) > last
        /\ pc' = "fill" => /\ idx < blocks
                          /\ IF inode_table[c].size < n
                             THEN blocks + left <= NumDirect /\ blocks + left > last
                             ELSE blocks - left > last
    BY <1>1, <1>2, <1>3, ResizeFacts, BlockOrder, RefsAssumption
  <1>5. Pending' = left + 1 /\ Last' = last /\ (Grows(c)' <=> inode_table[c].size < n)
    BY <1>3 DEF Pending, Last, Grows
  <1>6. Grows(call.child)' <=> Grows(c)'
    BY DEF Grows
  <1> QED BY <1>1, <1>3, <1>4, <1>5, <1>6 DEF SizeInv, Sizing, Reserving

(***************************************************************************)
(* A call on a file begins without changing memory or disk.                *)
(***************************************************************************)
LEMMA FileCallStep ==
    ASSUME TypeInv, TypeInv', CoreInv, pc = "idle", pc' \in {"reserve", "fill", "write"},
           UNCHANGED <<disk, memory, ns>>, SizeInv'
    PROVE  CoreInv'
  <1>1. PlaceInv' /\ Live' = Live /\ Dirs' = Dirs /\ Files' = Files
    BY TreeStep DEF CoreInv
  <1>2. UNCHANGED <<d_imap, d_itab, d_dmap, blk, inode_table, inode_bitmap, data_bitmap>>
    BY DEF disk, memory
  <1>3. MemInv /\ pc \notin {"down", "mkfs_block"} /\ Own = Live /\ Own' = Own
    BY <1>1 DEF CoreInv, Own, Adding, Removing
  <1>4. MemInv'
    BY <1>2, <1>3, MemStep DEF MemInv
  <1>5. DiskInv' /\ DownInv'
    BY <1>1, <1>2 DEF CoreInv, DiskInv, DownInv, Same, Covered, Marked
  <1>6. AddInv' /\ RemoveInv'
    BY DEF AddInv, RemoveInv, Adding, Removing
  <1>7. BackedInv'
    BY <1>1, <1>2 DEF CoreInv, BackedInv, Backed, Sizing, Reserving
  <1> QED BY <1>1, <1>4, <1>5, <1>6, <1>7 DEF CoreInv

(***************************************************************************)
(* truncate begins a resize, with that number of blocks.                   *)
(***************************************************************************)
LEMMA TruncateStep ==
    ASSUME TypeInv, TypeInv', CoreInv, pc = "idle", NEW c \in Reachable,
           NEW n \in FileSizes, refs_truncate(c, n)
    PROVE  CoreInv'
  <1>1. /\ inode_table[c].flags = "reg" /\ inode_table[c].size # n
        /\ n > inode_table[c].size => DirectOnly(c, n)
        /\ call' = [Resize(c, n) EXCEPT !.op = "truncate"]
        /\ pc' = FirstStep(c, n)
        /\ UNCHANGED <<disk, memory, ns>>
    BY DEF refs_truncate, CanWrite, history
  <1>2. c \in Files /\ c \in InodeSlots /\ n \in Nat
    BY <1>1, CallFacts, RefsAssumption
  <1>3. Backed(inode_table[c])
    BY <1>2 DEF CoreInv, BackedInv, Sizing, Reserving
  <1>4. PICK k : k = Resize(c, n)
    OBVIOUS
  <1>5. k \in Call
    BY <1>2, <1>4, ResizeTypes DEF TypeInv
  <1>6. /\ call'.op = "truncate" /\ call'.child = k.child /\ call'.size = k.size
        /\ call'.filled = k.filled /\ call'.left = k.left /\ call'.idx = k.idx
    BY <1>1, <1>4, <1>5 DEF Call
  <1>7. k.child = c /\ k.size = n /\ ~k.filled
    BY <1>1, <1>2, <1>3, <1>4, ResizeFacts
  <1>8. SizeInv' /\ pc' \in {"reserve", "fill"}
    BY <1>1, <1>2, <1>3, <1>4, <1>6, <1>7, ResizeBegins DEF memory
  <1> QED BY <1>1, <1>8, FileCallStep

(***************************************************************************)
(* write begins a resize when it ends past the file's end, and its own     *)
(* blocks otherwise.                                                       *)
(***************************************************************************)
LEMMA WriteStep ==
    ASSUME TypeInv, TypeInv', CoreInv, pc = "idle", NEW c \in Reachable,
           NEW m \in FileSizes, NEW n \in FileSizes, refs_write(c, m, n)
    PROVE  CoreInv'
  <1>1. /\ inode_table[c].flags = "reg" /\ m < n
        /\ UNCHANGED <<disk, memory, ns>>
    BY DEF refs_write, CanWrite, history
  <1>2. c \in Files /\ c \in InodeSlots /\ n \in Nat /\ m \in Nat
    BY <1>1, CallFacts, RefsAssumption
  <1>3. Backed(inode_table[c]) /\ inode_table[c].size \in Nat /\ inode_table[c].blocks \in Nat
    BY <1>2 DEF CoreInv, BackedInv, Sizing, Reserving, TypeInv, TypeOK, Inode
  <1>4. m \div BlockSize <= n \div BlockSize
    BY <1>1, <1>2, BlockOrder
  <1>5. CASE n > inode_table[c].size
    <2>1. PICK k : k = Resize(c, n)
      OBVIOUS
    <2>2. k \in Call
      BY <1>2, <2>1, ResizeTypes DEF TypeInv
    <2>3. /\ DirectOnly(c, n) /\ pc' = FirstStep(c, n)
          /\ call' = [k EXCEPT !.op = "write", !.at = m \div BlockSize,
                                !.last = n \div BlockSize]
      BY <1>5, <2>1 DEF refs_write
    <2>4. /\ call'.child = k.child /\ call'.size = k.size
          /\ call'.filled = k.filled /\ call'.left = k.left /\ call'.idx = k.idx
          /\ call'.at = m \div BlockSize /\ call'.last = n \div BlockSize
      BY <2>2, <2>3 DEF Call
    <2>5. inode_table[c].size # n
      BY <1>2, <1>3, <1>5
    <2>6. k.child = c /\ k.size = n /\ ~k.filled
      BY <1>2, <1>3, <2>1, <2>3, <2>5, ResizeFacts
    <2>7. SizeInv' /\ pc' \in {"reserve", "fill"}
      BY <1>1, <1>2, <1>3, <1>4, <2>1, <2>3, <2>4, <2>5, <2>6, ResizeBegins DEF memory
    <2> QED BY <1>1, <2>7, FileCallStep
  <1>6. CASE ~(n > inode_table[c].size)
    <2>1. /\ pc' = "write" /\ call'.child = c
          /\ call'.idx = m \div BlockSize /\ call'.last = n \div BlockSize
      BY <1>6 DEF refs_write, NoCall
    <2>2. /\ n \div BlockSize <= inode_table[c].size \div BlockSize
          /\ inode_table[c].size \div BlockSize < inode_table[c].blocks
          /\ n \div BlockSize \in Nat /\ inode_table[c].size \div BlockSize \in Nat
      BY <1>1, <1>2, <1>3, <1>6, BlockOrder DEF Backed
    <2>3. n \div BlockSize < inode_table[c].blocks
      BY <1>3, <2>2
    <2>4. c \in Files' /\ inode_table' = inode_table
      BY <1>1, <1>2, TreeStep DEF memory
    <2>5. SizeInv'
      BY <1>4, <2>1, <2>3, <2>4 DEF SizeInv, Sizing, Reserving
    <2> QED BY <1>1, <2>1, <2>5, FileCallStep
  <1> QED BY <1>5, <1>6
-----------------------------------------------------------------------------
(***************************************************************************)
(* The steps of truncate and write (refs.c:962-997, 1095-1131, 1172-1199). *)
(* Those that only write a block of a file keep memory and tree.           *)
(***************************************************************************)
LEMMA BlockStep ==
    ASSUME TypeInv, TypeInv', CoreInv, pc \in Sizing \cup {"write"},
           pc' \notin {"down"} \cup Making \cup Removing \cup Adding,
           UNCHANGED <<ns, d_imap, d_itab, d_dmap, inode_table, inode_bitmap>>,
           data_bitmap \subseteq data_bitmap',
           \A d \in Dirs : blk'[inode_table[d].ptrs[0]] = blk[inode_table[d].ptrs[0]]
    PROVE  /\ PlaceInv' /\ MemInv' /\ DiskInv' /\ DownInv' /\ AddInv'
           /\ Live' = Live /\ Dirs' = Dirs /\ Files' = Files
  <1>1. PlaceInv' /\ Live' = Live /\ Dirs' = Dirs /\ Files' = Files
    BY TreeStep DEF CoreInv
  <1>2. pc \notin {"down"} \cup Making \cup Removing \cup Adding
    BY DEF Sizing, Reserving, Making, Removing, Adding
  <1>3. MemInv /\ pc \notin {"down", "mkfs_block"} /\ Own' = Own
    BY <1>1, <1>2 DEF CoreInv, Making, Own
  <1>4. MemInv'
    BY <1>3, MemStep DEF MemInv
  <1>5. DiskInv'
    BY <1>1, <1>2 DEF CoreInv, DiskInv, Making, Same, Covered, Marked
  <1> QED BY <1>1, <1>4, <1>5 DEF DownInv, AddInv

(***************************************************************************)
(* The block reserved for a growing file was unmarked, so it is no other   *)
(* inode's.                                                                *)
(***************************************************************************)
LEMMA ReserveBlockStep ==
    ASSUME TypeInv, TypeInv', CoreInv, Healthy', ReserveBlock
    PROVE  CoreInv'
  <1>1. BlockFault = {}
    BY DEF ReserveBlock, Healthy
  <1>2. PICK b : b = next_block
    OBVIOUS
  <1>3. b \in DataSlots \ data_bitmap /\ Lba(b) \in BlkLbas
    BY <1>1, <1>2, Allocated, DataBlocks
  <1>4. /\ pc = "reserve" /\ pc' = "reserve_inode"
        /\ data_bitmap' = data_bitmap \cup {b}
        /\ blk' = [blk EXCEPT ![Lba(b)] = ZeroBlock]
        /\ call' = [call EXCEPT !.lba = Lba(b)]
        /\ UNCHANGED <<ns, d_imap, d_itab, d_dmap, inode_table, inode_bitmap>>
    BY <1>2 DEF ReserveBlock
  <1>5. /\ data_bitmap \in SUBSET DataSlots /\ data_bitmap' \in SUBSET DataSlots
        /\ call \in Call /\ blk \in [BlkLbas -> Block]
    BY DEF TypeInv, TypeOK
  <1>6. Lba(b) \in Marked(data_bitmap') \ Marked(data_bitmap)
    BY <1>3, <1>4, <1>5, MarkedBlocks
  <1>7. /\ call'.lba = Lba(b) /\ call'.child = call.child /\ call'.op = call.op
        /\ call'.left = call.left /\ call'.at = call.at /\ call'.last = call.last
        /\ call'.size = call.size /\ call'.filled = call.filled /\ call'.idx = call.idx
    BY <1>4, <1>5 DEF Call
  <1>8. MemInv /\ pc \notin {"down", "mkfs_block"}
    BY <1>4 DEF CoreInv
  <1>9. \A i \in Live, k \in DirectIdx :
            k < inode_table[i].blocks => inode_table[i].ptrs[k] # Lba(b)
    BY <1>6, <1>8, OwnFacts
  <1>10. \A d \in Dirs : blk'[inode_table[d].ptrs[0]] = blk[inode_table[d].ptrs[0]]
    BY <1>4, <1>5, <1>6, <1>8, DirFacts
  <1>11. /\ PlaceInv' /\ MemInv' /\ DiskInv' /\ DownInv' /\ AddInv'
         /\ Live' = Live /\ Dirs' = Dirs /\ Files' = Files
    BY <1>4, <1>10, BlockStep DEF Sizing, Reserving, Making, Removing, Adding
  <1>12. RemoveInv'
    BY <1>4 DEF RemoveInv, Removing
  <1>13. SizeInv'
    <2>1. Pending' = Pending /\ Last' = Last /\ (Grows(call.child)' <=> Grows(call.child))
      BY <1>4, <1>7 DEF Pending, Last, Grows
    <2>2. call'.lba \in Marked(data_bitmap)'
      BY <1>6, <1>7 DEF Marked
    <2>3. SizeInv
      BY DEF CoreInv
    <2> QED BY <1>4, <1>7, <1>9, <1>11, <2>1, <2>2, <2>3 DEF SizeInv, Sizing, Reserving
  <1>14. BackedInv'
    BY <1>4, <1>7, BackedStep DEF Sizing, Reserving
  <1> QED BY <1>11, <1>12, <1>13, <1>14 DEF CoreInv

(***************************************************************************)
(* A file's block may be written: it is no directory's.                    *)
(***************************************************************************)
LEMMA FileBlockStep ==
    ASSUME TypeInv, CoreInv, pc \notin {"down", "mkfs_block"}, NEW c \in Files,
           NEW k \in Nat, k < inode_table[c].blocks,
           NEW b, blk' = [blk EXCEPT ![inode_table[c].ptrs[k]] = b]
    PROVE  \A d \in Dirs : blk'[inode_table[d].ptrs[0]] = blk[inode_table[d].ptrs[0]]
  <1>1. MemInv /\ c \in Own /\ c \in Live
    BY OwnFacts, Basics DEF CoreInv
  <1>2. k \in DirectIdx
    BY <1>1, OwnFacts, RefsAssumption DEF DirectIdx
  <1>3. ASSUME NEW d \in Dirs
        PROVE  blk'[inode_table[d].ptrs[0]] = blk[inode_table[d].ptrs[0]]
    <2>1. inode_table[c].ptrs[k] # inode_table[d].ptrs[0] /\ inode_table[d].ptrs[0] \in BlkLbas
      BY <1>1, <1>2, DirFacts, Basics
    <2> QED BY <2>1 DEF TypeInv, TypeOK
  <1> QED BY <1>3

(***************************************************************************)
(* fill writes a block of the file's own and leaves every directory block. *)
(***************************************************************************)
LEMMA FillBlockStep ==
    ASSUME TypeInv, TypeInv', CoreInv, FillBlock
    PROVE  CoreInv'
  <1>1. /\ pc = "fill" /\ pc' = Loop(call.left) /\ call' = [call EXCEPT !.filled = TRUE]
        /\ UNCHANGED <<ns, d_imap, d_itab, d_dmap, inode_table, inode_bitmap, data_bitmap>>
    BY DEF FillBlock, memory, history
  <1>2. /\ call'.child = call.child /\ call'.op = call.op /\ call'.filled = TRUE
        /\ call'.left = call.left /\ call'.at = call.at /\ call'.last = call.last
        /\ call'.size = call.size /\ call'.idx = call.idx
        /\ call.idx \in Nat /\ call.left \in Int
    BY <1>1 DEF TypeInv, TypeOK, Call
  <1>3. SizeInv /\ call.child \in Files /\ call.idx < inode_table[call.child].blocks
    BY <1>1 DEF CoreInv, SizeInv, Sizing
  <1>4. \A d \in Dirs : blk'[inode_table[d].ptrs[0]] = blk[inode_table[d].ptrs[0]]
    <2>1. PICK b : blk' = [blk EXCEPT ![inode_table[call.child].ptrs[call.idx]] = b]
      BY DEF FillBlock
    <2> QED BY <1>1, <1>2, <1>3, <2>1, FileBlockStep
  <1>5. pc' \in {"set_size", "reserve", "remove"}
    BY <1>1 DEF Loop
  <1>6. /\ PlaceInv' /\ MemInv' /\ DiskInv' /\ DownInv' /\ AddInv'
        /\ Live' = Live /\ Dirs' = Dirs /\ Files' = Files
    BY <1>1, <1>4, <1>5, BlockStep DEF Sizing, Reserving, Making, Removing, Adding
  <1>7. RemoveInv'
    BY <1>5 DEF RemoveInv, Removing
  <1>8. SizeInv'
    <2>1. Pending' = call.left /\ Last' = Last
          /\ (Grows(call.child)' <=> Grows(call.child))
      BY <1>1, <1>2 DEF Pending, Last, Grows
    <2>2. inode_table[call.child].blocks \in Nat
      BY <1>3, Basics DEF TypeInv, TypeOK, Inode
    <2>3. /\ pc' = "set_size" => call.left = 0
          /\ pc' = "reserve" => call.left # 0 /\ Grows(call.child)
          /\ pc' = "remove" => call.left # 0 /\ ~Grows(call.child)
      BY <1>1 DEF Loop, Grows
    <2>4. /\ call.left >= 0
          /\ call.op = "write" => call.at <= call.last /\ call.last = Last
          /\ IF Grows(call.child)
             THEN /\ inode_table[call.child].blocks + call.left <= NumDirect
                  /\ inode_table[call.child].blocks + call.left > Last
             ELSE inode_table[call.child].blocks - call.left > Last
      BY <1>1, <1>3 DEF SizeInv, Sizing
    <2> QED BY <1>1, <1>2, <1>3, <1>5, <1>6, <2>1, <2>2, <2>3, <2>4
            DEF SizeInv, Sizing, Reserving
  <1>9. BackedInv'
    BY <1>1, <1>2, <1>5, BackedStep DEF Sizing, Reserving
  <1> QED BY <1>6, <1>7, <1>8, <1>9 DEF CoreInv

(***************************************************************************)
(* refs_write writes a block of the file's own and leaves every directory  *)
(* block.                                                                  *)
(***************************************************************************)
LEMMA WriteBlockStep ==
    ASSUME TypeInv, TypeInv', CoreInv, WriteBlock
    PROVE  CoreInv'
  <1>1. /\ pc = "write" /\ pc' = (IF call.idx = call.last THEN "reply" ELSE "write")
        /\ call' = [call EXCEPT !.idx = @ + 1]
        /\ UNCHANGED <<ns, d_imap, d_itab, d_dmap, inode_table, inode_bitmap, data_bitmap>>
    BY DEF WriteBlock, memory, history
  <1>2. /\ call'.child = call.child /\ call'.last = call.last
        /\ call'.idx = call.idx + 1
        /\ call.idx \in Nat /\ call.last \in Nat
    BY <1>1 DEF TypeInv, TypeOK, Call
  <1>3. /\ call.child \in Files /\ call.idx <= call.last
        /\ call.last < inode_table[call.child].blocks
    BY <1>1 DEF CoreInv, SizeInv, Sizing
  <1>4. inode_table[call.child].blocks \in Nat
    BY <1>3, Basics DEF TypeInv, TypeOK, Inode
  <1>5. \A d \in Dirs : blk'[inode_table[d].ptrs[0]] = blk[inode_table[d].ptrs[0]]
    <2>1. PICK b : blk' = [blk EXCEPT ![inode_table[call.child].ptrs[call.idx]] = b]
      BY DEF WriteBlock
    <2>2. call.idx < inode_table[call.child].blocks
      BY <1>2, <1>3, <1>4
    <2> QED BY <1>1, <1>2, <1>3, <2>1, <2>2, FileBlockStep
  <1>6. /\ PlaceInv' /\ MemInv' /\ DiskInv' /\ DownInv' /\ AddInv'
        /\ Live' = Live /\ Dirs' = Dirs /\ Files' = Files
    BY <1>1, <1>5, BlockStep DEF Making, Removing, Adding
  <1>7. RemoveInv'
    BY <1>1 DEF RemoveInv, Removing
  <1>8. SizeInv'
    BY <1>1, <1>2, <1>3, <1>6 DEF SizeInv, Sizing, Reserving
  <1>9. BackedInv'
    BY <1>1, BackedStep DEF Sizing, Reserving
  <1> QED BY <1>6, <1>7, <1>8, <1>9 DEF CoreInv

(***************************************************************************)
(* A file takes the block it has reserved: its own from now on.            *)
(***************************************************************************)
LEMMA PointToBlockStep ==
    ASSUME TypeInv, TypeInv', CoreInv, PointToBlock
    PROVE  CoreInv'
  <1>0. PICK c, n, l : c = call.child /\ n = inode_table[c].blocks /\ l = call.lba
    OBVIOUS
  <1>1. /\ pc = "reserve_inode"
        /\ inode_table' = [inode_table EXCEPT ![c].ptrs[n] = l, ![c].blocks = @ + 1]
        /\ write_inode(inode_table', inode_table[c].inum)
        /\ call' = [call EXCEPT !.left = IF call.filled THEN @ - 1 ELSE @]
        /\ pc' = IF call.filled THEN Loop(call.left - 1) ELSE "fill"
        /\ UNCHANGED <<ns, d_imap, blk, inode_bitmap, data_bitmap>>
    BY <1>0 DEF PointToBlock, WriteOwn, history
  <1>2. /\ call'.child = c /\ call'.op = call.op /\ call'.filled = call.filled
        /\ call'.left = (IF call.filled THEN call.left - 1 ELSE call.left)
        /\ call'.at = call.at /\ call'.last = call.last
        /\ call'.size = call.size /\ call'.idx = call.idx
        /\ call.idx \in Nat /\ call.left \in Int /\ call.filled \in BOOLEAN
        /\ call.size \in Nat
    BY <1>0, <1>1 DEF TypeInv, TypeOK, Call
  <1>3. /\ SizeInv /\ MemInv /\ pc \notin {"down", "mkfs_block"}
        /\ c \in Files /\ call.left >= 0
        /\ call.op = "write" => call.at <= call.last /\ call.last = Last
        /\ Grows(c) /\ n + Pending <= NumDirect /\ n + Pending > Last
        /\ call.filled => call.left > 0
        /\ ~call.filled => call.idx = 0
        /\ l \in Marked(data_bitmap)
        /\ \A i \in Live, k \in DirectIdx :
              k < inode_table[i].blocks => inode_table[i].ptrs[k] # l
    BY <1>0, <1>1 DEF CoreInv, SizeInv, Sizing, Reserving
  <1>4. /\ PlaceInv' /\ Live' = Live /\ Dirs' = Dirs /\ Files' = Files
    BY <1>1, TreeStep DEF CoreInv
  <1>5. pc' \in {"set_size", "reserve", "remove", "fill"}
    BY <1>1 DEF Loop
  <1>6. Own = Live /\ Own' = Live
    BY <1>1, <1>4, <1>5 DEF Own, Adding, Removing
  <1>7. /\ c \in Live /\ c \notin Dirs /\ Live \subseteq InodeSlots /\ Live \subseteq Inums
        /\ Dirs \subseteq Live
        /\ inode_table[c].inum = c /\ n \in Nat /\ NumDirect \in Nat
        /\ inode_table \in [InodeSlots -> Inode]
        /\ DirectIdx \subseteq Nat
    BY <1>0, <1>3, <1>6, OwnFacts, Basics DEF TypeInv, TypeOK
  <1>8. n \in DirectIdx
    BY <1>2, <1>3, <1>7 DEF DirectIdx, Pending
  <1>9. /\ inode_table'[c].inum = c /\ inode_table'[c].flags = inode_table[c].flags
        /\ inode_table'[c].size = inode_table[c].size
        /\ inode_table'[c].blocks = n + 1
        /\ inode_table'[c].ptrs[n] = l
        /\ \A k \in DirectIdx \ {n} : inode_table'[c].ptrs[k] = inode_table[c].ptrs[k]
        /\ \A i \in InodeSlots \ {c} : inode_table'[i] = inode_table[i]
    BY <1>0, <1>1, <1>7, <1>8 DEF Inode
  <1>10. \A k \in DirectIdx : k < n + 1 <=> k < n \/ k = n
    BY <1>7
  <1>11. l # SUPER_LBA
    BY <1>3, MarkedBlocks DEF TypeInv, TypeOK
  <1>12. /\ Numbered(inode_table, Live) /\ InRegion(inode_table, Live)
         /\ Exclusive(inode_table, Live) /\ Covered(inode_table, Live, data_bitmap)
         /\ Shaped(inode_table) /\ Live \subseteq inode_bitmap
    BY <1>3, <1>6 DEF MemInv, Owned
  <1>13. Owned(inode_table, Own)'
    <2>1. Numbered(inode_table', Live)
      <3>1. n + 1 <= NumDirect
        BY <1>2, <1>3, <1>7 DEF Pending
      <3> QED BY <1>7, <1>9, <1>12, <3>1 DEF Numbered
    <2>2. InRegion(inode_table', Live)
      BY <1>0, <1>7, <1>9, <1>10, <1>11, <1>12 DEF InRegion
    <2>3. Exclusive(inode_table', Live)
      <3> SUFFICES ASSUME NEW i \in Live, NEW j \in Live,
                          NEW k \in DirectIdx, NEW m \in DirectIdx,
                          k < inode_table'[i].blocks, m < inode_table'[j].blocks,
                          inode_table'[i].ptrs[k] = inode_table'[j].ptrs[m]
                   PROVE  i = j /\ k = m
        BY DEF Exclusive
      <3>1. CASE i = c /\ k = n
        BY <1>0, <1>3, <1>7, <1>9, <1>10, <3>1
      <3>2. CASE j = c /\ m = n
        BY <1>0, <1>3, <1>7, <1>9, <1>10, <3>2
      <3>3. CASE ~(i = c /\ k = n) /\ ~(j = c /\ m = n)
        <4>1. k < inode_table[i].blocks /\ inode_table'[i].ptrs[k] = inode_table[i].ptrs[k]
          BY <1>0, <1>7, <1>9, <1>10, <3>3
        <4>2. m < inode_table[j].blocks /\ inode_table'[j].ptrs[m] = inode_table[j].ptrs[m]
          BY <1>0, <1>7, <1>9, <1>10, <3>3
        <4> QED BY <1>12, <4>1, <4>2 DEF Exclusive
      <3> QED BY <3>1, <3>2, <3>3
    <2> QED BY <1>6, <2>1, <2>2, <2>3 DEF Owned, Numbered, InRegion, Exclusive
  <1>14. Covered(inode_table, Own, data_bitmap)'
    <2>1. \A i \in Live, k \in DirectIdx :
            k < inode_table'[i].blocks => inode_table'[i].ptrs[k] \in Marked(data_bitmap)
      BY <1>0, <1>3, <1>7, <1>9, <1>10, <1>12 DEF Covered
    <2> QED BY <1>1, <1>6, <2>1 DEF Covered, Marked
  <1>15. Shaped(inode_table)'
    <2>1. \A i \in Live : inode_table'[i].flags = inode_table[i].flags
      BY <1>7, <1>9
    <2>2. \A d \in Dirs : inode_table'[d] = inode_table[d]
      BY <1>7, <1>9
    <2> QED BY <1>1, <1>12, <2>1, <2>2, ShapedStep
  <1>16. MemInv'
    BY <1>1, <1>6, <1>12, <1>13, <1>14, <1>15 DEF MemInv
  <1>17. DiskInv'
    <2>1. /\ Covered(inode_table, Dirs, d_dmap)
          /\ \A j \in Live : Same(j)
          /\ Live \subseteq d_imap
      BY <1>1 DEF CoreInv, DiskInv
    <2>2. (\A j \in Live : Same(j)') /\ d_dmap' = d_dmap
      <3>1. \A j \in Live \ {c} : inode_table'[j] = inode_table[j]
        BY <1>7, <1>9
      <3>2. write_inode(inode_table', c) /\ c \in Inums
        BY <1>1, <1>7
      <3> QED BY <1>7, <2>1, <3>1, <3>2, WriteInodeSame
    <2>3. Covered(inode_table, Dirs, d_dmap)'
      BY <1>4, <1>7, <1>9, <2>1, <2>2 DEF Covered, Marked
    <2> QED BY <1>1, <1>4, <2>1, <2>2, <2>3 DEF DiskInv
  <1>18. AddInv' /\ RemoveInv' /\ DownInv'
    BY <1>5 DEF AddInv, RemoveInv, DownInv, Adding, Removing
  <1>19. SizeInv'
    <2>1. /\ Last' = Last
          /\ (Grows(call.child)' <=> Grows(c))
          /\ Pending = call.left + (IF call.filled THEN 0 ELSE 1)
          /\ Pending' = call'.left + (IF call.filled THEN 0 ELSE 1)
      BY <1>1, <1>2, <1>9 DEF Pending, Last, Grows
    <2>2. /\ pc' = "fill" => ~call.filled
          /\ pc' = "set_size" => call.filled /\ call.left - 1 = 0
          /\ pc' = "reserve" => call.filled /\ call.left - 1 # 0
          /\ pc' # "remove"
      BY <1>0, <1>1, <1>3 DEF Loop, Grows
    <2>3. PICK last : last = Last
      OBVIOUS
    <2>4. last \in Nat
      BY <1>2, <2>3, BlockNumbers DEF Last
    <2> QED BY <1>2, <1>3, <1>4, <1>5, <1>7, <1>9, <2>1, <2>2, <2>3, <2>4
            DEF SizeInv, Sizing, Reserving
  <1>20. BackedInv'
    <2>1. \A i \in Files : i # c => Backed(inode_table[i])
      BY <1>0, <1>1 DEF CoreInv, BackedInv, Sizing, Reserving
    <2>2. pc' \in Sizing
      BY <1>5 DEF Sizing, Reserving
    <2>3. \A i \in Files : i # c => inode_table'[i] = inode_table[i]
      BY <1>7, <1>9, Basics
    <2> QED BY <1>2, <1>4, <2>1, <2>2, <2>3 DEF BackedInv, Backed
  <1> QED BY <1>4, <1>16, <1>17, <1>18, <1>19, <1>20 DEF CoreInv

(***************************************************************************)
(* A turn of the shrink loop gives up the last block, which the new size   *)
(* does not need, and clears its bit only.                                 *)
(***************************************************************************)
LEMMA RemoveBlockStep ==
    ASSUME TypeInv, TypeInv', CoreInv, RemoveBlock
    PROVE  CoreInv'
  <1>0. PICK c, n : c = call.child /\ n = inode_table[c].blocks
    OBVIOUS
  <1>1. /\ pc = "remove" /\ pc' = Loop(call.left - 1)
        /\ file_remove_data_block(c)
        /\ call' = [call EXCEPT !.left = @ - 1]
        /\ UNCHANGED <<ns, d_imap, blk, inode_bitmap>>
    BY <1>0 DEF RemoveBlock, history
  <1>2. /\ call'.child = c /\ call'.op = call.op /\ call'.left = call.left - 1
        /\ call'.at = call.at /\ call'.last = call.last /\ call'.size = call.size
        /\ call.left \in Int /\ call.size \in Nat
    BY <1>0, <1>1 DEF TypeInv, TypeOK, Call
  <1>3. /\ c \in Files /\ ~Grows(c) /\ call.left > 0 /\ n - call.left > Last
        /\ call.op = "write" => call.at <= call.last /\ call.last = Last
    BY <1>0, <1>1 DEF CoreInv, SizeInv, Sizing
  <1>4. pc' = IF call.left - 1 = 0 THEN "set_size" ELSE "remove"
    BY <1>0, <1>1, <1>3 DEF Loop, Grows
  <1>5. Own = Live /\ Own' = Own
    BY <1>1, <1>4, TreeStep DEF Own, Adding, Removing
  <1>6. c \in Own \ Dirs /\ c \in InodeSlots /\ Files \subseteq InodeSlots
    BY <1>3, <1>5, Basics
  <1>7. /\ PlaceInv' /\ MemInv' /\ DiskInv' /\ DownInv'
        /\ Live' = Live /\ Dirs' = Dirs /\ Files' = Files
        /\ inode_table'[c].blocks = n - 1
        /\ inode_table'[c].size = inode_table[c].size
        /\ \A i \in InodeSlots \ {c} : inode_table'[i] = inode_table[i]
    BY <1>0, <1>1, <1>4, <1>5, <1>6, DropBlockStep DEF Making
  <1>8. AddInv' /\ RemoveInv'
    BY <1>4 DEF AddInv, RemoveInv, Adding, Removing
  <1>9. SizeInv'
    <2>1. Last' = Last /\ (Grows(call.child)' <=> Grows(c))
      BY <1>2, <1>7 DEF Last, Grows
    <2>2. n \in Nat
      BY <1>0, <1>6 DEF TypeInv, TypeOK, Inode
    <2>3. PICK last : last = Last
      OBVIOUS
    <2>4. last \in Nat
      BY <1>2, <2>3, BlockNumbers DEF Last
    <2> QED BY <1>2, <1>3, <1>4, <1>7, <2>1, <2>2, <2>3, <2>4
            DEF SizeInv, Sizing, Reserving
  <1>10. BackedInv'
    <2>1. \A i \in Files : i # c => Backed(inode_table[i])
      BY <1>0, <1>1 DEF CoreInv, BackedInv, Sizing, Reserving
    <2>2. pc' \in Sizing
      BY <1>4 DEF Sizing, Reserving
    <2> QED BY <1>2, <1>6, <1>7, <2>1, <2>2 DEF BackedInv, Backed
  <1> QED BY <1>7, <1>8, <1>9, <1>10 DEF CoreInv

(***************************************************************************)
(* The new size is set when the blocks for it are there (refs.c:1129).     *)
(***************************************************************************)
LEMMA SetSizeStep ==
    ASSUME TypeInv, TypeInv', CoreInv, SetSize
    PROVE  CoreInv'
  <1>0. PICK c : c = call.child
    OBVIOUS
  <1>1. /\ pc = "set_size" /\ pc' = (IF call.op = "write" THEN "write" ELSE "reply")
        /\ inode_table' = [inode_table EXCEPT ![c].size = call.size]
        /\ write_inode(inode_table', c)
        /\ call' = [call EXCEPT !.idx = call.at]
        /\ UNCHANGED <<ns, d_imap, blk, inode_bitmap, data_bitmap>>
    BY <1>0 DEF SetSize, history
  <1>2. /\ call'.child = c /\ call'.idx = call.at /\ call'.last = call.last
        /\ call.size \in Nat
    BY <1>0, <1>1 DEF TypeInv, TypeOK, Call
  <1>3. /\ c \in Files /\ inode_table[c].blocks > Last
        /\ call.op = "write" => call.at <= call.last /\ call.last = Last
    BY <1>0, <1>1 DEF CoreInv, SizeInv, Sizing
  <1>4. /\ c \in Inums /\ c \in InodeSlots /\ Files \subseteq InodeSlots
        /\ inode_table \in [InodeSlots -> Inode]
    BY <1>3, Basics DEF TypeInv, TypeOK
  <1>5. \A j \in InodeSlots : /\ inode_table'[j].inum = inode_table[j].inum
                              /\ inode_table'[j].flags = inode_table[j].flags
                              /\ inode_table'[j].blocks = inode_table[j].blocks
                              /\ inode_table'[j].ptrs = inode_table[j].ptrs
    BY <1>1, <1>4 DEF Inode
  <1>6. /\ inode_table'[c].size = call.size
        /\ \A j \in InodeSlots \ {c} : inode_table'[j] = inode_table[j]
    BY <1>1, <1>4 DEF Inode
  <1>7. Own' = Own
    BY <1>1, TreeStep DEF Own, Adding, Removing
  <1>8. /\ PlaceInv' /\ MemInv' /\ DiskInv' /\ DownInv'
        /\ Live' = Live /\ Dirs' = Dirs /\ Files' = Files
    BY <1>1, <1>4, <1>5, <1>7, TouchStep DEF Making
  <1>9. AddInv' /\ RemoveInv'
    BY <1>1 DEF AddInv, RemoveInv, Adding, Removing
  <1>10. SizeInv'
    BY <1>1, <1>2, <1>3, <1>4, <1>5, <1>8 DEF SizeInv, Sizing, Reserving
  <1>11. BackedInv'
    <2>1. \A i \in Files : i # c => Backed(inode_table[i])
      BY <1>0, <1>1 DEF CoreInv, BackedInv, Sizing, Reserving
    <2>2. Backed(inode_table'[c])
      BY <1>3, <1>4, <1>5, <1>6 DEF Backed, Last
    <2>3. \A i \in Files : i # c => inode_table'[i] = inode_table[i]
      BY <1>4, <1>6
    <2> QED BY <1>8, <2>1, <2>2, <2>3 DEF BackedInv, Backed
  <1> QED BY <1>8, <1>9, <1>10, <1>11 DEF CoreInv
-----------------------------------------------------------------------------
(***************************************************************************)
(* The invariant holds before there is a disk, and every step keeps it.    *)
(***************************************************************************)
LEMMA InitInv == Init => IInv
  <1> SUFFICES ASSUME Init PROVE IInv
    OBVIOUS
  <1>1. TypeInv
    BY InitTypes
  <1>2. /\ pc = "down" /\ ~exists /\ call = NoCall
        /\ inode_table = alloc_inode_table /\ inode_bitmap = {} /\ data_bitmap = {}
        /\ ns = [i \in InodeSlots |-> IF i = ROOT_INUM THEN NS!RootNode ELSE NS!Absent]
        /\ blk = [l \in BlkLbas |-> ZeroBlock]
    BY DEF Init
  <1>3. SUPER_LBA \in BlkLbas /\ NS!RootNode # NS!Absent
    BY DEF BlkLbas, NS!RootNode, NS!Absent
  <1>4. ~Formatted
    BY <1>2, <1>3 DEF Formatted, ZeroBlock
  <1>5. /\ ns[ROOT_INUM] = NS!RootNode
        /\ \A i \in InodeSlots \ {ROOT_INUM} : ns[i] = NS!Absent
    BY <1>2, Basics
  <1>6. Live = {ROOT_INUM}
    BY <1>3, <1>5, Basics DEF Live
  <1>7. MakeInv
    BY <1>2, <1>4, <1>6 DEF MakeInv
  <1>8. PlaceInv
    <2>1. NumInodes \in InodeSlots /\ NumInodes # ROOT_INUM
      BY LayoutAssumption DEF InodeSlots, ROOT_INUM
    <2>2. \A i \in InodeSlots : ns[i].kind \notin NS!Kinds
      BY <1>5 DEF NS!RootNode, NS!Absent, NS!Kinds
    <2> QED BY <1>3, <1>5, <2>1, <2>2 DEF PlaceInv
  <1>9. CoreInv
    BY <1>2, <1>4, <1>8 DEF CoreInv, MemInv, DiskInv, DownInv, AddInv, RemoveInv, SizeInv,
                            BackedInv, Adding, Removing, Sizing, Reserving
  <1> QED BY <1>1, <1>7, <1>9 DEF IInv

(***************************************************************************)
(* The first step of every call keeps the invariant.                       *)
(***************************************************************************)
LEMMA CallsStep ==
    ASSUME TypeInv, TypeInv', CoreInv, Healthy', Calls
    PROVE  CoreInv'
  <1>1. pc = "idle"
    BY DEF Calls, Serving
  <1>2. PICK i \in Reachable :
          \/ \E n \in Names :
                \/ \E m \in Modes : refs_mkdir(i, n, m) \/ refs_mknod(i, n, m)
                \/ refs_rmdir(i, n)
                \/ refs_unlink(i, n)
          \/ \E m \in Modes : refs_chmod(i, m)
          \/ \E s \in FileSizes : refs_truncate(i, s)
          \/ \E s, t \in FileSizes : refs_write(i, s, t)
    BY DEF Calls
  <1>3. CASE \E n \in Names, m \in Modes : refs_mkdir(i, n, m)
    BY <1>1, <1>3, MkdirStep
  <1>4. CASE \E n \in Names, m \in Modes : refs_mknod(i, n, m)
    BY <1>1, <1>4, MknodStep
  <1>5. CASE \E n \in Names : refs_rmdir(i, n) \/ refs_unlink(i, n)
    BY <1>1, <1>5, RemoveChildStep DEF refs_rmdir, refs_unlink
  <1>6. CASE \E m \in Modes : refs_chmod(i, m)
    BY <1>1, <1>6, ChmodStep
  <1>7. CASE \E s \in FileSizes : refs_truncate(i, s)
    BY <1>1, <1>7, TruncateStep
  <1>8. CASE \E s, t \in FileSizes : refs_write(i, s, t)
    BY <1>1, <1>8, WriteStep
  <1> QED BY <1>2, <1>3, <1>4, <1>5, <1>6, <1>7, <1>8

(***************************************************************************)
(* So does every later step of a call and of mkfs.                         *)
(***************************************************************************)
LEMMA StepsStep ==
    ASSUME TypeInv, TypeInv', MakeInv, CoreInv, Healthy', Steps
    PROVE  CoreInv'
  <1>1. CASE alloc_root_dir \/ write_super
    BY <1>1, AllocRootStep, WriteSuperStep
  <1>2. CASE sync_data_bitmap \/ sync_inode_bitmap \/ WriteBack \/ Reply
    BY <1>2, SyncDataStep, SyncInodesStep, WriteBackStep, ReplyStep
  <1>3. CASE EntryInSlot \/ EntryNoSpace
    BY <1>3, EntryInSlotStep, EntryNoSpaceStep
  <1>4. CASE EntryInNewBlock
    BY <1>4 DEF EntryInNewBlock, Healthy
  <1>5. CASE UnlinkParent \/ UnlinkChild \/ UnlinkBlock \/ release_inode
    BY <1>5, UnlinkParentStep, UnlinkChildStep, UnlinkBlockStep, ReleaseStep
  <1>6. CASE ReserveBlock \/ PointToBlock \/ FillBlock \/ RemoveBlock \/ SetSize \/ WriteBlock
    BY <1>6, ReserveBlockStep, PointToBlockStep, FillBlockStep, RemoveBlockStep,
       SetSizeStep, WriteBlockStep
  <1>7. CASE WildBit
    BY <1>7, StopStep
  <1> QED BY <1>1, <1>2, <1>3, <1>4, <1>5, <1>6, <1>7 DEF Steps

(***************************************************************************)
(* And so does stuttering.                                                 *)
(***************************************************************************)
LEMMA CoreStutter ==
    ASSUME TypeInv, CoreInv, UNCHANGED vars
    PROVE  CoreInv'
  <1>1. /\ UNCHANGED <<d_imap, d_itab, d_dmap, blk, inode_table, inode_bitmap,
                       data_bitmap, pc, call>>
        /\ ns' = ns
    BY DEF vars
  <1>2. PlaceInv' /\ Live' = Live /\ Dirs' = Dirs /\ Files' = Files
    BY <1>1, TreeStep DEF CoreInv
  <1>3. Own' = Own
    BY <1>1, <1>2 DEF Own
  <1>4. Shaped(inode_table) => Shaped(inode_table)'
    BY <1>1, ShapedStep
  <1>5. MemInv'
    BY <1>1, <1>3, <1>4 DEF CoreInv, MemInv, Owned, Numbered, InRegion, Exclusive, Covered, Marked
  <1>6. DiskInv'
    BY <1>1, <1>2 DEF CoreInv, DiskInv, Same, Covered, Marked
  <1>7. DownInv'
    <2>1. Formatted' <=> Formatted
      BY <1>1 DEF Formatted
    <2>2. Shaped(d_itab) => Shaped(d_itab)'
      BY <1>1, DiskShapedStep
    <2> QED BY <1>1, <1>2, <2>1, <2>2
            DEF CoreInv, DownInv, Owned, Numbered, InRegion, Exclusive, Covered, Marked
  <1>8. AddInv'
    <2>1. \A d : NS!Children(d)' = NS!Children(d)
      BY <1>1, TreeStep
    <2>2. NS!Children(call.parent)' = NS!Children(call.parent)
      BY <1>1, <2>1
    <2>3. (Covered(inode_table, {call.child}, d_dmap)' <=> Covered(inode_table, {call.child}, d_dmap))
          /\ (Same(call.child)' <=> Same(call.child))
      BY <1>1 DEF Covered, Marked, Same
    <2> QED BY <1>1, <1>2, <2>2, <2>3 DEF CoreInv, AddInv
  <1>9. RemoveInv'
    BY <1>1, <1>2 DEF CoreInv, RemoveInv
  <1>10. SizeInv'
    <2>1. Pending' = Pending /\ Last' = Last /\ (Grows(call.child)' <=> Grows(call.child))
      BY <1>1 DEF Pending, Last, Grows
    <2> QED BY <1>1, <1>2, <2>1 DEF CoreInv, SizeInv, Marked
  <1>11. BackedInv'
    BY <1>1, <1>2 DEF CoreInv, BackedInv, Backed
  <1> QED BY <1>2, <1>5, <1>6, <1>7, <1>8, <1>9, <1>10, <1>11 DEF CoreInv

(***************************************************************************)
(* The inductive invariant: in a file system that has run past none of its *)
(* limits, tree, inodes, blocks and bitmaps are consistent in memory and   *)
(* on disk, at every step of every call and after every crash.             *)
(***************************************************************************)
THEOREM InductiveInvariant == Spec => []IInv
  <1>1. ASSUME TypeInv, TypeInv', IInv, [Next]_vars PROVE IInv'
    <2>1. MakeInv'
      BY <1>1, MakeStep, MakeStutter DEF IInv
    <2>2. ASSUME Healthy' PROVE CoreInv'
      <3>1. CoreInv /\ MakeInv
        BY <1>1, <2>2, FaultsStay DEF IInv, Healthy
      <3>2. CASE CreateDisk
        BY <1>1, <3>1, <3>2, CreateDiskStep
      <3>3. CASE Mount
        BY <1>1, <2>2, <3>1, <3>3, MountStep
      <3>4. CASE MountFails \/ UNCHANGED vars
        BY <1>1, <3>1, <3>4, CoreStutter DEF MountFails
      <3>5. CASE refs_destroy \/ Crash
        BY <1>1, <3>1, <3>5, StopStep
      <3>6. CASE Calls
        BY <1>1, <2>2, <3>1, <3>6, CallsStep
      <3>7. CASE Steps
        BY <1>1, <2>2, <3>1, <3>7, StepsStep
      <3> QED BY <1>1, <3>2, <3>3, <3>4, <3>5, <3>6, <3>7 DEF Next
    <2> QED BY <1>1, <2>1, <2>2 DEF IInv
  <1> QED BY <1>1, InitInv, TypeInvariant, PTL DEF Spec
-----------------------------------------------------------------------------
(***************************************************************************)
(* What a mount would find, at every step of every call.                   *)
(***************************************************************************)
LEMMA DiskFacts ==
    ASSUME IInv, Healthy, Formatted
    PROVE  /\ Owned(d_itab, Live) /\ Shaped(d_itab)
           /\ Covered(d_itab, Dirs, d_dmap) /\ Live \subseteq d_imap
           /\ pc # "down" => MemInv /\ pc # "mkfs_block"
  <1>1. TypeInv /\ CoreInv /\ pc \notin Making
    BY DEF IInv, MakeInv
  <1>2. CASE pc = "down"
    BY <1>1, <1>2 DEF CoreInv, DownInv
  <1>3. CASE pc # "down"
    <2>1. /\ MemInv /\ Covered(inode_table, Dirs, d_dmap)
          /\ \A i \in Live : Same(i)
          /\ Live \subseteq d_imap /\ pc # "mkfs_block"
      BY <1>1, <1>3 DEF CoreInv, DiskInv, Making
    <2>2. Owned(d_itab, Live) /\ Shaped(d_itab)
      BY <1>1, <1>3, <2>1, DiskOwned
    <2>3. Covered(d_itab, Dirs, d_dmap)
      BY <2>1, Basics DEF Covered, Same
    <2> QED BY <2>1, <2>2, <2>3
  <1> QED BY <1>2, <1>3

(***************************************************************************)
(* Whatever a live inode uses is marked while mounted (refs.c:36-37,       *)
(* 197-217).                                                               *)
(***************************************************************************)
THEOREM UsedMarked == Spec => []UsedIsMarked
  <1>1. IInv => UsedIsMarked
    <2> SUFFICES ASSUME IInv, Healthy, Formatted, pc # "down"
                 PROVE  /\ Live \subseteq inode_bitmap
                        /\ \A i \in Live : BlocksOf(i) \subseteq Marked(data_bitmap)
      BY DEF UsedIsMarked
    <2>1. MemInv /\ Live \subseteq Own /\ pc # "mkfs_block"
      BY DiskFacts DEF Own
    <2> QED BY <2>1 DEF MemInv, Covered, BlocksOf
  <1> QED BY <1>1, InductiveInvariant, PTL

(***************************************************************************)
(* No block belongs to two live inodes or twice to one, on disk and in     *)
(* memory (refs.c:202-208, 924-997).                                       *)
(***************************************************************************)
THEOREM BlocksNotShared == Spec => []NoSharedBlocks
  <1>1. ASSUME NEW t, Owned(t, Live),
               \A i \in Live : t[i].blocks \in Nat
        PROVE  /\ \A i, j \in Live : i # j =>
                     {t[i].ptrs[m] : m \in {k \in DirectIdx : k < t[i].blocks}}
                     \cap {t[j].ptrs[m] : m \in {k \in DirectIdx : k < t[j].blocks}} = {}
               /\ \A i \in Live :
                     /\ SUPER_LBA \notin {t[i].ptrs[m] : m \in {k \in DirectIdx : k < t[i].blocks}}
                     /\ \A j, k \in DirectIdx :
                           j < k /\ k < t[i].blocks => t[i].ptrs[j] # t[i].ptrs[k]
    <2>1. \A j, k \in DirectIdx, i \in Live : j < k /\ k < t[i].blocks => j < t[i].blocks /\ j # k
      BY <1>1, Basics
    <2> QED BY <1>1, <2>1 DEF Owned, InRegion, Exclusive
  <1>2. IInv => NoSharedBlocks
    <2> SUFFICES ASSUME IInv, Healthy, Formatted
                 PROVE  /\ Disjoint(d_itab, OnDisk)
                        /\ pc # "down" => Disjoint(inode_table, BlocksOf)
      BY DEF NoSharedBlocks
    <2>1. /\ \A i \in Live : d_itab[i].blocks \in Nat
          /\ \A i \in Live : inode_table[i].blocks \in Nat
      BY Basics DEF IInv, TypeInv, TypeOK, Inode
    <2>2. Owned(d_itab, Live)
      BY DiskFacts
    <2>3. pc # "down" => Owned(inode_table, Live)
      <3> SUFFICES ASSUME pc # "down" PROVE Owned(inode_table, Live)
        OBVIOUS
      <3>1. MemInv /\ Live \subseteq Own /\ pc # "mkfs_block"
        BY DiskFacts DEF Own
      <3> QED BY <3>1 DEF MemInv, Owned, Numbered, InRegion, Exclusive
    <2>4. Disjoint(d_itab, OnDisk)
      BY <1>1, <2>1, <2>2 DEF Disjoint, OnDisk
    <2>5. pc # "down" => Disjoint(inode_table, BlocksOf)
      BY <1>1, <2>1, <2>3 DEF Disjoint, BlocksOf
    <2> QED BY <2>4, <2>5
  <1> QED BY <1>2, InductiveInvariant, PTL

(***************************************************************************)
(* Between calls a file has the blocks its size needs (refs.c:1095-1126).  *)
(***************************************************************************)
THEOREM SizesBacked == Spec => []SizeBacked
  <1>1. IInv => SizeBacked
    BY DEF IInv, CoreInv, BackedInv, SizeBacked, Files, Dirs, Sizing, Reserving
  <1> QED BY <1>1, InductiveInvariant, PTL

(***************************************************************************)
(* A write to a block of a live inode changes no block of another, nor the *)
(* superblock.                                                             *)
(***************************************************************************)
LEMMA OwnBlockWrite ==
    ASSUME TypeInv, MemInv, pc \notin {"down", "mkfs_block"},
           NEW c \in Live, NEW k \in DirectIdx, k < inode_table[c].blocks,
           NEW b, blk' = [blk EXCEPT ![inode_table[c].ptrs[k]] = b],
           NEW l \in BlkLbas, blk'[l] # blk[l]
    PROVE  /\ l # SUPER_LBA
           /\ \A i \in Live : l \in BlocksOf(i) => i = c
  <1>1. l = inode_table[c].ptrs[k] /\ c \in Own
    BY OwnFacts DEF TypeInv, TypeOK
  <1>2. l # SUPER_LBA
    BY <1>1 DEF MemInv, Owned, InRegion
  <1>3. ASSUME NEW i \in Live, l \in BlocksOf(i) PROVE i = c
    <2>1. PICK m \in DirectIdx : m < inode_table[i].blocks /\ l = inode_table[i].ptrs[m]
      BY <1>3 DEF BlocksOf
    <2> QED BY <1>1, <2>1, OwnFacts DEF MemInv, Owned, Exclusive
  <1> QED BY <1>2, <1>3

(***************************************************************************)
(* A write to a block that was just reserved changes no inode's block.     *)
(***************************************************************************)
LEMMA NewBlockWrite ==
    ASSUME TypeInv, MemInv, pc \notin {"down", "mkfs_block"}, BlockFault = {},
           NEW b, blk' = [blk EXCEPT ![Lba(next_block)] = b],
           NEW l \in BlkLbas, blk'[l] # blk[l]
    PROVE  l # SUPER_LBA /\ \A i \in Live : l \notin BlocksOf(i)
  <1>1. l = Lba(next_block) /\ next_block \in DataSlots \ data_bitmap
    BY Allocated DEF TypeInv, TypeOK
  <1>2. l # SUPER_LBA /\ l \notin Marked(data_bitmap)
    BY <1>1, DataBlocks, MarkedBlocks DEF TypeInv, TypeOK
  <1>3. ASSUME NEW i \in Live PROVE BlocksOf(i) \subseteq Marked(data_bitmap)
    BY OwnFacts DEF MemInv, Covered, BlocksOf
  <1> QED BY <1>2, <1>3

(***************************************************************************)
(* A call writes no block that a live inode owns, unless it is the parent  *)
(* whose entry changes or the file being resized or written; and never the *)
(* superblock once it is written (refs.c:721, 741, 829, 971, 1026, 1281).  *)
(***************************************************************************)
THEOREM BlocksStayHome == Spec => WritesStayHome
  <1> DEFINE Home(l) ==
        /\ l = SUPER_LBA => ~Formatted
        /\ \A i \in Live : l \in BlocksOf(i) =>
              CASE pc = "idle" -> i = call'.parent
                [] pc = "entry" -> i = call.parent
                [] pc \in {"fill", "write"} -> i = call.child
                [] OTHER -> FALSE
  <1>1. ASSUME IInv, Healthy, Healthy', pc # "down", Next,
               NEW l \in BlkLbas, blk'[l] # blk[l]
        PROVE  Home(l)
    <2>0. /\ TypeInv /\ MakeInv /\ CoreInv
          /\ pc # "mkfs_block" => MemInv
      BY <1>1 DEF IInv, CoreInv, MemInv
    <2>1. CASE alloc_root_dir
      <3>1. pc = "mkfs_block" /\ ~Formatted
        BY <2>0, <2>1 DEF alloc_root_dir, MakeInv, Making
      <3>2. ASSUME NEW i \in Live PROVE BlocksOf(i) = {}
        <4>1. inode_table[i].blocks = 0
          BY <2>0, <3>1, Basics DEF MakeInv, alloc_inode_table, ZeroInode
        <4> QED BY <4>1, Basics DEF BlocksOf
      <3> QED BY <3>1, <3>2
    <2>2. CASE write_super
      <3>1. pc = "mkfs_super" /\ ~Formatted /\ l = SUPER_LBA
        BY <1>1, <2>0, <2>2 DEF write_super, MakeInv, Making, TypeInv, TypeOK
      <3>2. ASSUME NEW i \in Live PROVE SUPER_LBA \notin BlocksOf(i)
        BY <2>0, <3>1, OwnFacts DEF MemInv, Owned, InRegion, BlocksOf
      <3> QED BY <3>1, <3>2
    <2>3. ASSUME NEW p \in Reachable, NEW n \in Names, NEW m \in Modes, refs_mkdir(p, n, m),
                 pc = "idle"
          PROVE  Home(l)
      <3>1. BlockFault = {}
        BY <1>1, <2>3 DEF refs_mkdir, Healthy
      <3>2. blk' = [blk EXCEPT ![Lba(next_block)] = new_dir_block(next_inode, p)]
        BY <2>3 DEF refs_mkdir
      <3>3. l # SUPER_LBA /\ \A i \in Live : l \notin BlocksOf(i)
        BY <1>1, <2>0, <2>3, <3>1, <3>2, NewBlockWrite
      <3> QED BY <3>3
    <2>4. ASSUME NEW p \in Reachable, NEW n \in Names, NEW op, remove_child(op, p, n),
                 pc = "idle"
          PROVE  Home(l)
      <3>1. /\ p \in Dirs /\ First(NamedPlaces(p, n))[1] = 0
            /\ inode_table[p].blocks = 1
        BY <2>0, <2>4, RemovedFacts, DirFacts
      <3>2. PICK b : blk' = [blk EXCEPT ![inode_table[p].ptrs[0]] = b]
        BY <2>4, <3>1 DEF remove_child
      <3>3. l # SUPER_LBA /\ \A i \in Live : l \in BlocksOf(i) => i = p
        <4>1. p \in Live /\ 0 \in DirectIdx /\ 0 < inode_table[p].blocks /\ MemInv
          BY <2>0, <2>4, <3>1, Basics
        <4> QED BY <1>1, <2>0, <2>4, <3>2, <4>1, OwnBlockWrite
      <3>4. call'.parent = p
        BY <2>4 DEF remove_child, NoCall
      <3> QED BY <2>4, <3>3, <3>4
    <2>5. CASE EntryInSlot
      <3>1. pc = "entry" /\ call.parent \in Dirs /\ First(FreePlaces(call.parent))[1] = 0
        BY <2>0, <2>5, EntrySlotFacts DEF EntryInSlot
      <3>2. inode_table[call.parent].blocks = 1
        BY <2>0, <3>1, DirFacts
      <3>3. PICK b : blk' = [blk EXCEPT ![inode_table[call.parent].ptrs[0]] = b]
        BY <2>5, <3>1 DEF EntryInSlot
      <3>4. l # SUPER_LBA /\ \A i \in Live : l \in BlocksOf(i) => i = call.parent
        <4>1. /\ call.parent \in Live /\ 0 \in DirectIdx
              /\ 0 < inode_table[call.parent].blocks /\ MemInv
          BY <2>0, <3>1, <3>2, Basics
        <4> QED BY <1>1, <2>0, <3>1, <3>3, <4>1, OwnBlockWrite
      <3> QED BY <3>1, <3>4
    <2>6. CASE EntryInNewBlock
      BY <1>1, <2>6 DEF EntryInNewBlock, Healthy
    <2>7. CASE ReserveBlock
      <3>1. pc = "reserve" /\ BlockFault = {}
            /\ blk' = [blk EXCEPT ![Lba(next_block)] = ZeroBlock]
        BY <1>1, <2>7 DEF ReserveBlock, Healthy
      <3>2. l # SUPER_LBA /\ \A i \in Live : l \notin BlocksOf(i)
        BY <1>1, <2>0, <3>1, NewBlockWrite
      <3> QED BY <3>2
    <2>8. CASE FillBlock \/ WriteBlock
      <3>1. /\ pc \in {"fill", "write"}
            /\ call.child \in Files /\ call.idx < inode_table[call.child].blocks
        <4>1. CASE FillBlock
          BY <2>0, <4>1 DEF FillBlock, CoreInv, SizeInv, Sizing
        <4>2. CASE WriteBlock
          <5>1. /\ pc = "write" /\ call.child \in Files /\ call.idx <= call.last
                /\ call.last < inode_table[call.child].blocks
            BY <2>0, <4>2 DEF WriteBlock, CoreInv, SizeInv
          <5>2. /\ call.idx \in Nat /\ call.last \in Nat
                /\ inode_table[call.child].blocks \in Nat
            BY <2>0, <5>1, Basics DEF TypeInv, TypeOK, Call, Inode
          <5> QED BY <5>1, <5>2
        <4> QED BY <2>8, <4>1, <4>2
      <3>2. call.idx \in DirectIdx /\ call.child \in Live
        <4>1. /\ call.idx \in Nat /\ call.child \in Live /\ call.child \in Own
              /\ inode_table[call.child].blocks \in Nat
          BY <2>0, <3>1, Basics DEF TypeInv, TypeOK, Call, Inode, Own
        <4>2. inode_table[call.child].blocks <= NumDirect
          BY <2>0, <3>1, <4>1 DEF MemInv, Owned, Numbered
        <4> QED BY <3>1, <4>1, <4>2, RefsAssumption DEF DirectIdx
      <3>3. PICK b : blk' = [blk EXCEPT ![inode_table[call.child].ptrs[call.idx]] = b]
        BY <2>8 DEF FillBlock, WriteBlock
      <3>4. l # SUPER_LBA /\ \A i \in Live : l \in BlocksOf(i) => i = call.child
        BY <1>1, <2>0, <3>1, <3>2, <3>3, OwnBlockWrite
      <3> QED BY <3>1, <3>4
    <2>9. CASE Calls
      <3>1. pc = "idle"
        BY <2>9 DEF Calls, Serving
      <3>2. PICK i \in Reachable :
            \/ \E n \in Names :
                  \/ \E m \in Modes : refs_mkdir(i, n, m) \/ refs_mknod(i, n, m)
                  \/ refs_rmdir(i, n)
                  \/ refs_unlink(i, n)
            \/ \E m \in Modes : refs_chmod(i, m)
            \/ \E s \in FileSizes : refs_truncate(i, s)
            \/ \E s, t \in FileSizes : refs_write(i, s, t)
        BY <2>9 DEF Calls
      <3>3. CASE \E n \in Names, m \in Modes : refs_mkdir(i, n, m)
        BY <2>3, <3>1, <3>3
      <3>4. CASE \E n \in Names : refs_rmdir(i, n) \/ refs_unlink(i, n)
        BY <2>4, <3>1, <3>4 DEF refs_rmdir, refs_unlink
      <3>5. CASE \E n \in Names, m \in Modes : refs_mknod(i, n, m)
        BY <1>1, <3>5 DEF refs_mknod, disk
      <3>6. CASE \E m \in Modes : refs_chmod(i, m)
        BY <1>1, <3>6 DEF refs_chmod
      <3>7. CASE \E s \in FileSizes : refs_truncate(i, s)
        BY <1>1, <3>7 DEF refs_truncate, disk
      <3>8. CASE \E s, t \in FileSizes : refs_write(i, s, t)
        BY <1>1, <3>8 DEF refs_write, disk
      <3> QED BY <3>2, <3>3, <3>4, <3>5, <3>6, <3>7, <3>8
    <2>10. CASE CreateDisk \/ Mount \/ MountFails \/ refs_destroy \/ Crash
      BY <1>1, <2>10 DEF CreateDisk, Mount, MountFails, refs_destroy, Crash, Down, vars, disk
    <2>11. CASE Steps
      BY <1>1, <2>1, <2>2, <2>5, <2>6, <2>7, <2>8, <2>11
         DEF Steps, sync_data_bitmap, sync_inode_bitmap, WriteBack, Reply, EntryNoSpace,
             UnlinkParent, UnlinkChild, UnlinkBlock, release_inode, PointToBlock,
             RemoveBlock, SetSize, WildBit, Down, disk
    <2> QED BY <1>1, <2>9, <2>10, <2>11 DEF Next
  <1>2. ASSUME IInv, [Next]_vars
        PROVE  [Healthy /\ Healthy' /\ pc # "down" =>
                  \A l \in BlkLbas : blk'[l] # blk[l] => Home(l)]_vars
    BY <1>1, <1>2
  <1> QED BY <1>2, InductiveInvariant, PTL DEF Spec, WritesStayHome

(***************************************************************************)
(* At every crash point the disk holds the promised tree (refs.c:829-834,  *)
(* 1318-1338, 1435-1439, 1493-1513).                                       *)
(***************************************************************************)
THEOREM DiskHoldsTree == Spec => []TreeOnDisk
  <1>1. ASSUME NEW l, NEW d, Lists(blk[l].dirents, d)
        PROVE  Entries(l) = Promised(d)
    <2> DEFINE e == blk[l].dirents
    <2>1. \A i, n : dir_entry(i, n) # NoDirent
      BY DEF dir_entry, NoDirent
    <2>2. /\ e[0] = dir_entry(d, ".") /\ e[1] = dir_entry(ParentOf(d), "..")
          /\ \A n \in Slots :
                e[n] = NoDirent \/ \E c \in NS!Children(d) : e[n] = dir_entry(c, ns[c].name)
          /\ \A c \in NS!Children(d) : \E n \in Slots : e[n] = dir_entry(c, ns[c].name)
      BY <1>1 DEF Lists
    <2> HIDE DEF e
    <2>3. ASSUME NEW x \in Entries(l) PROVE x \in Promised(d)
      <3>1. PICK n \in DirentIdx : x = e[n] /\ x # NoDirent
        BY <2>3 DEF Entries, e
      <3>2. n = 0 \/ n = 1 \/ n \in Slots
        BY DirSlots
      <3> QED BY <2>2, <3>1, <3>2 DEF Promised
    <2>4. ASSUME NEW x \in Promised(d) PROVE x \in Entries(l)
      <3>1. \E n \in DirentIdx : x = e[n]
        BY <2>2, <2>4, DirSlots DEF Promised
      <3>2. x # NoDirent
        BY <2>1, <2>4 DEF Promised
      <3> QED BY <3>1, <3>2 DEF Entries, e
    <2> QED BY <2>3, <2>4
  <1>2. IInv => TreeOnDisk
    <2> SUFFICES ASSUME IInv, Healthy, Formatted, NEW i \in Live
                 PROVE  InodeOnDisk(i) /\ (NS!IsDir(i) => EntriesOnDisk(i))
      BY DEF TreeOnDisk
    <2>1. /\ Shaped(d_itab) /\ Covered(d_itab, Dirs, d_dmap) /\ Live \subseteq d_imap
      BY DiskFacts
    <2>2. InodeOnDisk(i)
      BY <2>1 DEF InodeOnDisk, Shaped, Kinded, Dirs
    <2>3. ASSUME NS!IsDir(i) PROVE EntriesOnDisk(i)
      <3>1. i \in Dirs
        BY <2>3 DEF Dirs
      <3>2. d_itab[i].blocks = 1 /\ Lists(blk[d_itab[i].ptrs[0]].dirents, i)
        BY <2>1, <3>1 DEF Shaped, Holds
      <3>3. OnDisk(i) \subseteq Marked(d_dmap)
        BY <2>1, <3>1 DEF Covered, OnDisk
      <3> QED BY <1>1, <3>2, <3>3 DEF EntriesOnDisk
    <2> QED BY <2>2, <2>3
  <1> QED BY <1>2, InductiveInvariant, PTL

(***************************************************************************)
(* A node enters the tree by Link and leaves it by Unlink, in one step; in *)
(* every other step, crashes included, the tree stays (refs.c:701-752,     *)
(* 1254-1299).                                                             *)
(***************************************************************************)
LEMMA EntryLinks ==
    ASSUME TypeInv, CoreInv, EntryInSlot
    PROVE  \E i, d \in InodeSlots, k \in NS!Kinds, n \in Names : NS!Link(i, k, d, n)
  <1>1. /\ pc = "entry" /\ ns' = [ns EXCEPT ![call.child] = NewNode]
    BY DEF EntryInSlot
  <1>2. /\ call.child \notin Live /\ call.parent \in Dirs
        /\ \A c \in NS!Children(call.parent) : ns[c].name # call.name
    BY <1>1 DEF CoreInv, AddInv, Adding
  <1>3. call.child \in InodeSlots /\ call.parent \in InodeSlots /\ call.name \in Names
    BY <1>1 DEF TypeInv, TypeOK, Call, Adding
  <1>4. ns[call.child] = NS!Absent
    BY <1>2, <1>3, PlaceFacts DEF CoreInv
  <1>5. PICK k \in NS!Kinds : k = IF call.op = "mkdir" THEN "dir" ELSE "reg"
    BY DEF NS!Kinds
  <1>6. NS!Link(call.child, k, call.parent, call.name)
    BY <1>1, <1>2, <1>4, <1>5 DEF NS!Link, NewNode, Dirs
  <1> QED BY <1>3, <1>6

(***************************************************************************)
(* Clearing an entry is the Unlink of the promised tree: the inode found   *)
(* is in it and has no children.                                           *)
(***************************************************************************)
LEMMA RemovalUnlinks ==
    ASSUME TypeInv, CoreInv, pc = "idle", NEW p \in Reachable, NEW n \in Names,
           NEW op, remove_child(op, p, n)
    PROVE  \E i \in InodeSlots : NS!Unlink(i)
  <1>1. PICK c : c = find_child_inum(n, p)
    OBVIOUS
  <1>2. c \in NS!Children(p) /\ NS!Children(c) = {}
    BY <1>1, RemovedFacts
  <1>3. ns' = [ns EXCEPT ![c] = NS!Absent]
    BY <1>1 DEF remove_child
  <1> QED BY <1>2, <1>3, Basics DEF NS!Unlink, NS!Children

(***************************************************************************)
(* In a healthy file system a step of Refs moves the promised tree by one  *)
(* Link, by one Unlink, or not at all.                                     *)
(***************************************************************************)
LEMMA TreeMoves ==
    ASSUME TypeInv, CoreInv, Healthy', [Next]_vars
    PROVE  \/ ns' = ns
           \/ \E i, d \in InodeSlots, k \in NS!Kinds, n \in Names : NS!Link(i, k, d, n)
           \/ \E i \in InodeSlots : NS!Unlink(i)
  <1>1. CASE UNCHANGED vars
    BY <1>1 DEF vars
  <1>2. CASE CreateDisk \/ Mount \/ MountFails \/ refs_destroy \/ Crash
    BY <1>2 DEF CreateDisk, Mount, MountFails, refs_destroy, Crash, vars, history
  <1>3. CASE Calls
    <2>1. pc = "idle"
      BY <1>3 DEF Calls, Serving
    <2>2. PICK i \in Reachable :
          \/ \E n \in Names :
                \/ \E m \in Modes : refs_mkdir(i, n, m) \/ refs_mknod(i, n, m)
                \/ refs_rmdir(i, n)
                \/ refs_unlink(i, n)
          \/ \E m \in Modes : refs_chmod(i, m)
          \/ \E s \in FileSizes : refs_truncate(i, s)
          \/ \E s, t \in FileSizes : refs_write(i, s, t)
      BY <1>3 DEF Calls
    <2>3. CASE \E n \in Names, m \in Modes : refs_mkdir(i, n, m) \/ refs_mknod(i, n, m)
      BY <2>3 DEF refs_mkdir, refs_mknod
    <2>4. CASE \E n \in Names : refs_rmdir(i, n) \/ refs_unlink(i, n)
      BY <2>1, <2>4, RemovalUnlinks DEF refs_rmdir, refs_unlink
    <2>5. CASE \E m \in Modes : refs_chmod(i, m)
      BY <2>5 DEF refs_chmod, history
    <2>6. CASE \E s \in FileSizes : refs_truncate(i, s)
      BY <2>6 DEF refs_truncate, history
    <2>7. CASE \E s, t \in FileSizes : refs_write(i, s, t)
      BY <2>7 DEF refs_write, history
    <2> QED BY <2>2, <2>3, <2>4, <2>5, <2>6, <2>7
  <1>4. CASE EntryInSlot
    BY <1>4, EntryLinks
  <1>5. CASE EntryInNewBlock
    BY <1>5 DEF EntryInNewBlock, Healthy
  <1>6. CASE Steps /\ ~EntryInSlot /\ ~EntryInNewBlock
    BY <1>6 DEF Steps, alloc_root_dir, write_super, sync_data_bitmap, sync_inode_bitmap,
                WriteBack, Reply, EntryNoSpace, UnlinkParent, UnlinkChild, UnlinkBlock,
                release_inode, ReserveBlock, PointToBlock, FillBlock, RemoveBlock, SetSize,
                WriteBlock, WildBit, history
  <1> QED BY <1>1, <1>2, <1>3, <1>4, <1>5, <1>6 DEF Next

(***************************************************************************)
(* ReFS implements the tree it promises: entries appear and disappear      *)
(* atomically and durably (refs.c:701-752, 1254-1299).                     *)
(***************************************************************************)
THEOREM RefsImplementsNamespace == Spec => ImplementsNamespace
  <1>1. Init => NS!Init
    BY DEF Init, NS!Init
  <1>2. ASSUME IInv, TypeInv', [Next]_vars
        PROVE  [NS!Next]_(NS!nsvars)
    <2>1. CASE Healthy'
      <3>1. Healthy /\ TypeInv /\ CoreInv
        BY <1>2, <2>1, FaultsStay DEF IInv, Healthy
      <3>2. \/ ns' = ns
            \/ \E i, d \in InodeSlots, k \in NS!Kinds, n \in Names : NS!Link(i, k, d, n)
            \/ \E i \in InodeSlots : NS!Unlink(i)
        BY <1>2, <2>1, <3>1, TreeMoves
      <3> QED BY <2>1, <3>1, <3>2 DEF NS!Next, NS!nsvars, Healthy
    <2>2. CASE ~Healthy'
      <3>1. ns' \in [InodeSlots -> NS!Node \cup {NS!Absent, NS!RootNode}]
        BY <1>2 DEF TypeInv, TypeOK
      <3> QED BY <2>2, <3>1 DEF NS!Next, NS!Broken, Healthy
    <2> QED BY <2>1, <2>2
  <1> QED BY <1>1, <1>2, InductiveInvariant, TypeInvariant, PTL
          DEF Spec, ImplementsNamespace, NS!Spec

(***************************************************************************)
(* What is proved of the promised tree holds of the tree that ReFS keeps.  *)
(***************************************************************************)
Tree == INSTANCE NamespaceProofs WITH Inums <- InodeSlots, Root <- ROOT_INUM,
                                      ok <- (faults = {})

LEMMA TreeIsNamespace == Tree!Spec <=> NS!Spec
  <1>1. Tree!Init <=> NS!Init
    BY DEF Tree!Init, NS!Init, Tree!RootNode, NS!RootNode, Tree!Absent, NS!Absent
  <1>2. [Tree!Next]_(Tree!nsvars) <=> [NS!Next]_(NS!nsvars)
    BY DEF Tree!Next, NS!Next, Tree!nsvars, NS!nsvars, Tree!Link, NS!Link,
           Tree!Unlink, NS!Unlink, Tree!Broken, NS!Broken, Tree!Children, NS!Children,
           Tree!IsDir, NS!IsDir, Tree!Kinds, NS!Kinds, Tree!Node, NS!Node,
           Tree!RootNode, NS!RootNode, Tree!Absent, NS!Absent
  <1> QED BY <1>1, <1>2, PTL DEF Tree!Spec, NS!Spec

(***************************************************************************)
(* No entry is left in a directory that was removed (refs.c:1312-1315).    *)
(***************************************************************************)
THEOREM EntriesHaveParents == Spec => []ParentsAreLive
  <1>1. Tree!Spec => []Tree!ParentsAreLive
    BY Basics, Tree!NoOrphans
  <1>2. Tree!ParentsAreLive <=> ParentsAreLive
    BY DEF Tree!ParentsAreLive, ParentsAreLive, NS!ParentsAreLive,
           Tree!IsDir, NS!IsDir, Tree!Kinds, NS!Kinds
  <1> QED BY <1>1, <1>2, TreeIsNamespace, RefsImplementsNamespace, PTL
          DEF ImplementsNamespace

(***************************************************************************)
(* No directory has two entries of one name (refs.c:795-802).              *)
(***************************************************************************)
THEOREM NamesStayUnique == Spec => []NamesUnique
  <1>1. Tree!Spec => []Tree!NamesUnique
    BY Basics, Tree!NoDuplicateNames
  <1>2. Tree!NamesUnique <=> NamesUnique
    BY DEF Tree!NamesUnique, NamesUnique, NS!NamesUnique, Tree!Kinds, NS!Kinds
  <1> QED BY <1>1, <1>2, TreeIsNamespace, RefsImplementsNamespace, PTL
          DEF ImplementsNamespace
-----------------------------------------------------------------------------
(***************************************************************************)
(* Writing an inode back makes the disk say what memory says, if only that *)
(* inode was different (refs.c:127-137).                                   *)
(***************************************************************************)
LEMMA WriteSyncs ==
    ASSUME NEW x \in Inums, NEW D \in SUBSET Inums, write_inode(inode_table', x),
           \A i \in D \ {x} : d_itab[i] = inode_table'[i]
    PROVE  \A i \in D : d_itab'[i] = inode_table'[i]
  <1>1. \A i \in Inums : d_itab'[i] = IF itab_block(i) = itab_block(x)
                                      THEN inode_table'[i] ELSE d_itab[i]
    BY DEF write_inode
  <1> QED BY <1>1

(***************************************************************************)
(* Steps that neither change nor write an inode or a bit of one.           *)
(***************************************************************************)
LEMMA SyncFrame ==
    ASSUME SyncInv, UNCHANGED <<d_imap, d_itab, inode_table, inode_bitmap>>,
           pc \notin {"down", "mkfs_block"}, pc \in Lagging => pc' \in Lagging,
           Unsaved \subseteq Unsaved'
    PROVE  SyncInv'
  BY DEF SyncInv

(***************************************************************************)
(* Steps that change one inode in memory and write it.                     *)
(***************************************************************************)
LEMMA SyncTouch ==
    ASSUME SyncInv, UNCHANGED <<d_imap, inode_bitmap>>,
           pc \notin {"down", "mkfs_block"}, pc \in Lagging => pc' \in Lagging,
           NEW x \in Inums, write_inode(inode_table', x), Unsaved \subseteq {x},
           \A i \in Inums \ {x} : inode_table'[i] = inode_table[i]
    PROVE  SyncInv'
  <1>1. \A i \in inode_bitmap \ {x} : d_itab[i] = inode_table'[i]
    BY DEF SyncInv
  <1>2. \A i \in inode_bitmap : d_itab'[i] = inode_table'[i]
    BY <1>1, WriteSyncs DEF SyncInv
  <1> QED BY <1>2 DEF SyncInv

(***************************************************************************)
(* The first steps of the calls: nothing is behind yet but what the call   *)
(* has just changed (refs.c:759-1126, 1308-1549).                          *)
(***************************************************************************)
LEMMA SyncCalls ==
    ASSUME TypeInv, CoreInv, SyncInv, Healthy', Calls
    PROVE  SyncInv'
  <1>0. /\ pc = "idle" /\ pc \notin Lagging /\ Unsaved = {}
    BY DEF Calls, Serving, Lagging, Making, Unsaved
  <1>1. PICK i \in Reachable :
          \/ \E n \in Names :
                \/ \E m \in Modes : refs_mkdir(i, n, m) \/ refs_mknod(i, n, m)
                \/ refs_rmdir(i, n)
                \/ refs_unlink(i, n)
          \/ \E m \in Modes : refs_chmod(i, m)
          \/ \E s \in FileSizes : refs_truncate(i, s)
          \/ \E s, t \in FileSizes : refs_write(i, s, t)
    BY DEF Calls
  <1>2. CASE \E n \in Names, m \in Modes : refs_mkdir(i, n, m) \/ refs_mknod(i, n, m)
    <2>1. InodeFault = {}
      BY <1>2 DEF refs_mkdir, refs_mknod, Healthy
    <2>2. PICK x \in Inums \ inode_bitmap : x = next_inode
      BY <2>1, Allocated
    <2>3. /\ inode_bitmap' = inode_bitmap \cup {x}
          /\ \A k \in InodeSlots \ {x} : inode_table'[k] = inode_table[k]
          /\ call'.child = x /\ pc' \in {"mkdir_dmap", "new_inode"}
          /\ UNCHANGED <<d_imap, d_itab>>
      BY <1>2, <2>2 DEF refs_mkdir, refs_mknod, disk, NoCall, TypeInv, TypeOK
    <2>4. pc' \in Lagging /\ Unsaved' = {x}
      BY <2>3 DEF Lagging, Unsaved
    <2> QED BY <1>0, <2>2, <2>3, <2>4, Basics DEF SyncInv
  <1>3. CASE \E n \in Names : refs_rmdir(i, n) \/ refs_unlink(i, n)
    BY <1>0, <1>3, SyncFrame DEF refs_rmdir, refs_unlink, remove_child, memory
  <1>4. CASE \E m \in Modes : refs_chmod(i, m)
    <2>1. i \in Inums
      BY <1>0, CallFacts
    <2> QED BY <1>0, <1>4, <2>1, SyncTouch, Basics DEF refs_chmod, TypeInv, TypeOK
  <1>5. CASE \E s \in FileSizes : refs_truncate(i, s)
    BY <1>0, <1>5, SyncFrame DEF refs_truncate, disk, memory
  <1>6. CASE \E s, t \in FileSizes : refs_write(i, s, t)
    BY <1>0, <1>6, SyncFrame DEF refs_write, disk, memory
  <1> QED BY <1>1, <1>2, <1>3, <1>4, <1>5, <1>6
(***************************************************************************)
(* The later steps: each inode that was changed is written by the step     *)
(* that changed it or by the next write of the call.                       *)
(***************************************************************************)
LEMMA SyncSteps ==
    ASSUME TypeInv, MakeInv, CoreInv, SyncInv, LinkInv, Healthy', Steps
    PROVE  SyncInv'
  <1>0. pc # "down"
    BY DEF Steps, alloc_root_dir, write_super, sync_data_bitmap, sync_inode_bitmap,
           WriteBack, Reply, EntryInSlot, EntryInNewBlock, EntryNoSpace, UnlinkParent,
           UnlinkChild, UnlinkBlock, release_inode, ReserveBlock, PointToBlock,
           FillBlock, RemoveBlock, SetSize, WriteBlock, WildBit
  <1>1. /\ inode_table \in [InodeSlots -> Inode]
        /\ call.child \in InodeSlots /\ call.parent \in InodeSlots
    BY DEF TypeInv, TypeOK, Call
  <1>2. pc # "mkfs_block" =>
           /\ MemInv /\ Own \subseteq Inums
           /\ \A i \in Own : inode_table[i].inum = i
    BY <1>0, OwnFacts DEF CoreInv
  <1>3. CASE alloc_root_dir
    <2>1. /\ pc = "mkfs_block" /\ pc' = "mkfs_dmap" /\ call' = call
          /\ inode_bitmap' = inode_bitmap \cup {next_inode} /\ d_imap' = d_imap
      BY <1>3 DEF alloc_root_dir
    <2>2. inode_bitmap = {} /\ call.child = ROOT_INUM
      BY <2>1 DEF MakeInv, Making, NoCall, ROOT_INUM
    <2>3. next_inode = ROOT_INUM
      BY <2>2, FirstOfNone, LayoutAssumption DEF next_inode, ROOT_INUM
    <2>4. pc' \in Lagging /\ Unsaved' = {ROOT_INUM}
      BY <2>1, <2>2 DEF Lagging, Making, Unsaved
    <2> QED BY <2>1, <2>2, <2>3, <2>4, Basics DEF SyncInv
  <1>4. CASE write_super
    BY <1>4, SyncFrame DEF write_super, memory, Lagging, Making, Unsaved
  <1>5. CASE sync_data_bitmap
    BY <1>5, SyncFrame DEF sync_data_bitmap, memory, Then, Lagging, Making, Unsaved
  <1>6. CASE sync_inode_bitmap
    <2>1. /\ d_imap' = inode_bitmap /\ UNCHANGED <<d_itab, inode_bitmap, inode_table>>
          /\ pc \in {"mkfs_imap", "new_imap", "rm_imap"}
          /\ pc' \in {"mkfs_super", "entry", "rm_inode"}
      BY <1>6 DEF sync_inode_bitmap, memory, Then
    <2>2. Unsaved = {}
      BY <2>1 DEF Unsaved
    <2> QED BY <2>1, <2>2 DEF SyncInv
  <1>7. CASE WriteBack
    <2> DEFINE x == IF pc = "parent_inode" THEN call.parent ELSE call.child
    <2>1. /\ pc \in {"mkfs_inode", "new_inode", "parent_inode", "rm_inode"}
          /\ pc' \in {"mkfs_imap", "new_imap", "reply"}
          /\ pc \in Lagging => pc' \in Lagging
          /\ write_inode(inode_table', x)
          /\ UNCHANGED <<d_imap, inode_table, inode_bitmap>>
      BY <1>7 DEF WriteBack, memory, Then, Lagging, Making
    <2>2. x \in Inums /\ Unsaved \subseteq {x}
      <3>1. pc = "mkfs_inode" => call.child = ROOT_INUM
        BY DEF MakeInv, Making, NoCall, ROOT_INUM
      <3>2. pc = "new_inode" => call.child \in Own
        BY DEF Own, Adding
      <3> QED BY <1>2, <2>1, <3>1, <3>2, Basics DEF CoreInv, RemoveInv, Unsaved
    <2> HIDE DEF x
    <2> QED BY <2>1, <2>2, SyncTouch
  <1>8. CASE Reply
    BY <1>8, SyncFrame DEF Reply, disk, memory, Lagging, Making, Unsaved
  <1>9. CASE EntryInSlot
    <2>1. /\ pc = "entry" /\ pc' = "parent_inode" /\ call' = call
          /\ UNCHANGED <<d_imap, d_itab, inode_bitmap>>
          /\ \A i \in InodeSlots \ {call.parent} : inode_table'[i] = inode_table[i]
      BY <1>1, <1>9 DEF EntryInSlot
    <2>2. Unsaved = {} /\ Unsaved' = {call.parent} /\ pc \notin Lagging
      BY <2>1 DEF Unsaved, Lagging, Making
    <2> QED BY <2>1, <2>2, Basics DEF SyncInv
  <1>10. CASE EntryInNewBlock
    BY <1>10 DEF EntryInNewBlock, Healthy
  <1>11. CASE EntryNoSpace
    BY <1>11, SyncFrame DEF EntryNoSpace, disk, memory, Lagging, Making, Unsaved
  <1>12. ASSUME NEW x \in Inums, pc \notin {"mkfs_block"}, Unsaved = {},
                pc \notin Lagging, write_inode(inode_table', x),
                \A i \in InodeSlots \ {x} : inode_table'[i] = inode_table[i],
                UNCHANGED <<d_imap, inode_bitmap>>
         PROVE  SyncInv'
    BY <1>0, <1>12, SyncTouch, Basics
  <1>13. CASE UnlinkParent
    <2>1. call.parent \in Own /\ pc = "rm_parent"
      BY <1>13, Basics DEF UnlinkParent, LinkInv, Own
    <2>2. Unsaved = {} /\ pc \notin Lagging
      BY <2>1 DEF Unsaved, Lagging, Making
    <2> QED BY <1>1, <1>2, <1>12, <1>13, <2>1, <2>2 DEF UnlinkParent, WriteOwn
  <1>14. CASE UnlinkChild
    <2>1. call.child \in Own /\ pc = "rm_child"
      BY <1>14 DEF UnlinkChild, Own, Removing
    <2>2. Unsaved = {} /\ pc \notin Lagging
      BY <2>1 DEF Unsaved, Lagging, Making
    <2> QED BY <1>1, <1>2, <1>12, <1>14, <2>1, <2>2 DEF UnlinkChild, WriteOwn
  <1>15. CASE UnlinkBlock
    <2>1. call.child \in Own /\ pc = "unlink_loop"
      BY <1>15 DEF UnlinkBlock, Own, Removing
    <2>2. Unsaved = {} /\ pc \notin Lagging
      BY <2>1 DEF Unsaved, Lagging, Making
    <2> QED BY <1>1, <1>2, <1>12, <1>15, <2>1, <2>2
            DEF UnlinkBlock, file_remove_data_block, WriteOwn
  <1>16. CASE release_inode
    <2>1. /\ pc = "release" /\ pc' = "rm_imap" /\ call' = call
          /\ UNCHANGED <<d_imap, d_itab>>
          /\ inode_bitmap' = inode_bitmap \ {call.child, inode_table[call.child].inum}
          /\ \A i \in InodeSlots \ {call.child} : inode_table'[i] = inode_table[i]
      BY <1>1, <1>16 DEF release_inode
    <2>2. Unsaved = {} /\ pc' \in Lagging
      BY <2>1 DEF Unsaved, Lagging
    <2> QED BY <2>1, <2>2, Basics DEF SyncInv
  <1>17. CASE ReserveBlock \/ FillBlock \/ WriteBlock
    BY <1>17, SyncFrame DEF ReserveBlock, FillBlock, WriteBlock, memory, Lagging, Making, Unsaved
  <1>18. CASE PointToBlock \/ RemoveBlock \/ SetSize
    <2>1. /\ pc \in {"reserve_inode", "remove", "set_size"}
          /\ UNCHANGED <<d_imap, inode_bitmap>>
          /\ \A i \in InodeSlots \ {call.child} : inode_table'[i] = inode_table[i]
          /\ \/ write_inode(inode_table', call.child)
             \/ write_inode(inode_table', inode_table[call.child].inum)
      BY <1>1, <1>18 DEF PointToBlock, RemoveBlock, SetSize, file_remove_data_block, WriteOwn
    <2>2. call.child \in Own
      BY <2>1, Basics DEF CoreInv, SizeInv, Sizing, Reserving, Own
    <2>3. Unsaved = {} /\ pc \notin Lagging
      BY <2>1 DEF Unsaved, Lagging, Making
    <2> QED BY <1>2, <1>12, <2>1, <2>2, <2>3
  <1>19. CASE WildBit
    BY <1>19, Basics DEF WildBit, Down, disk, SyncInv, Lagging
  <1> QED BY <1>3, <1>4, <1>5, <1>6, <1>7, <1>8, <1>9, <1>10, <1>11, <1>13, <1>14, <1>15,
             <1>16, <1>17, <1>18, <1>19 DEF Steps

(***************************************************************************)
(* A mount reads what the disk says; a process that is gone owes nothing.  *)
(***************************************************************************)
LEMMA SyncBounds ==
    ASSUME SyncInv, TypeInv, CreateDisk \/ Mount \/ MountFails \/ refs_destroy \/ Crash
    PROVE  SyncInv'
  <1>1. CASE CreateDisk
    BY <1>1 DEF CreateDisk, memory, SyncInv, Lagging, Making
  <1>2. CASE Mount
    <2>1. /\ inode_bitmap' = d_imap /\ UNCHANGED <<d_imap, d_itab>>
          /\ \A i \in Inums : inode_table'[i] = d_itab[i]
      BY <1>2, Basics DEF Mount, disk
    <2> QED BY <2>1 DEF SyncInv
  <1>3. CASE MountFails
    <2>1. /\ UNCHANGED <<d_imap, d_itab, inode_bitmap, inode_table>> /\ pc = "down" /\ pc' = pc
      BY <1>3 DEF MountFails, vars
    <2> QED BY <2>1 DEF SyncInv, Lagging
  <1>4. CASE refs_destroy \/ Crash
    <2>1. d_imap' = d_imap /\ inode_bitmap' = {} /\ pc' = "down"
      BY <1>4 DEF refs_destroy, Crash, Down, disk
    <2> QED BY <2>1 DEF SyncInv, Lagging
  <1> QED BY <1>1, <1>2, <1>3, <1>4
-----------------------------------------------------------------------------
(***************************************************************************)
(* Link counts modulo 2^16 (n_links is a uint16_t, refs.h:112): adding or  *)
(* subtracting one moves the count and what it counts alike.               *)
(***************************************************************************)
LEMMA Modulo ==
    ASSUME NEW a \in Int
    PROVE  /\ Inc(a % LinkLimit) = (a + 1) % LinkLimit
           /\ Dec(a % LinkLimit) = (a - 1) % LinkLimit
  <1> DEFINE L == LinkLimit
             q == a \div L
             r == a % L
  <1>1. L \in Nat /\ L > 2
    BY RefsAssumption
  <1> HIDE DEF L
  <1>2. a = L * q + r /\ r \in 0 .. L - 1 /\ q \in Int
    BY <1>1
  <1>3. ASSUME NEW b \in Int, NEW p \in Int, NEW s \in 0 .. L - 1, b = L * p + s
        PROVE  b % L = s
    BY <1>1, <1>3
  <1> HIDE DEF q, r
  <1>4. (r + 1) % L = (a + 1) % L
    <2>1. CASE r < L - 1
      <3>1. r + 1 \in 0 .. L - 1 /\ a + 1 = L * q + (r + 1)
        BY <1>1, <1>2, <2>1
      <3> QED BY <1>1, <1>2, <1>3, <3>1
    <2>2. CASE r = L - 1
      <3>1. a + 1 = L * (q + 1) + 0 /\ r + 1 = L * 1 + 0 /\ 0 \in 0 .. L - 1
        BY <1>1, <1>2, <2>2
      <3>2. (a + 1) % L = 0
        BY <1>2, <1>3, <3>1
      <3>3. (r + 1) % L = 0
        BY <1>2, <1>3, <3>1
      <3> QED BY <3>2, <3>3
    <2> QED BY <1>1, <1>2, <2>1, <2>2
  <1>5. (r + (L - 1)) % L = (a - 1) % L
    <2>1. CASE r > 0
      <3>1. /\ r - 1 \in 0 .. L - 1 /\ a - 1 = L * q + (r - 1)
            /\ r + (L - 1) = L * 1 + (r - 1)
        BY <1>1, <1>2, <2>1
      <3>2. (a - 1) % L = r - 1
        BY <1>2, <1>3, <3>1
      <3>3. (r + (L - 1)) % L = r - 1
        <4>1. r + (L - 1) \in Int
          BY <1>1, <1>2
        <4> QED BY <1>3, <3>1, <4>1
      <3> QED BY <3>2, <3>3
    <2>2. CASE r = 0
      <3>1. L - 1 \in 0 .. L - 1 /\ a - 1 = L * (q - 1) + (L - 1) /\ r + (L - 1) = L * 0 + (L - 1)
        BY <1>1, <1>2, <2>2
      <3>2. (a - 1) % L = L - 1
        BY <1>2, <1>3, <3>1
      <3>3. (r + (L - 1)) % L = L - 1
        <4>1. r + (L - 1) \in Int
          BY <1>1, <1>2
        <4> QED BY <1>3, <3>1, <4>1
      <3> QED BY <3>2, <3>3
    <2> QED BY <1>1, <1>2, <2>1, <2>2
  <1> QED BY <1>4, <1>5 DEF Inc, Dec, L, r

LEMMA Small ==
    ASSUME NEW n \in {0, 1, 2}
    PROVE  n % LinkLimit = n
  BY RefsAssumption

(***************************************************************************)
(* How far a count may be from what it counts.                             *)
(***************************************************************************)
LEMMA NearSteps ==
    ASSUME NEW n, NEW c \in Int, NEW k \in Nat, Near(n, c, k)
    PROVE  /\ Near(Inc(n), c + 1, k) /\ Near(Dec(n), c - 1, k)
           /\ Near(n, c + 1, k + 1) /\ Near(n, c - 1, k + 1) /\ Near(n, c, k + 1)
  <1>1. PICK e \in -k .. k : n = (c + e) % LinkLimit
    BY DEF Near
  <1>2. /\ Inc(n) = ((c + e) + 1) % LinkLimit /\ Dec(n) = ((c + e) - 1) % LinkLimit
    BY <1>1, Modulo
  <1>3. /\ (c + e) + 1 = (c + 1) + e /\ (c + e) - 1 = (c - 1) + e
        /\ c + e = (c + 1) + (e - 1) /\ c + e = (c - 1) + (e + 1)
        /\ e - 1 \in -(k + 1) .. k + 1 /\ e + 1 \in -(k + 1) .. k + 1
        /\ e \in -(k + 1) .. k + 1
    OBVIOUS
  <1>4. Near(Inc(n), c + 1, k) /\ Near(Dec(n), c - 1, k)
    BY <1>1, <1>2, <1>3 DEF Near
  <1>5. Near(n, c + 1, k + 1)
    BY <1>1, <1>3 DEF Near
  <1>6. Near(n, c - 1, k + 1)
    BY <1>1, <1>3 DEF Near
  <1>7. Near(n, c, k + 1)
    BY <1>1, <1>3 DEF Near
  <1> QED BY <1>4, <1>5, <1>6, <1>7

(***************************************************************************)
(* A directory's children, counted.                                        *)
(***************************************************************************)
LEMMA ChildCounts ==
    ASSUME NEW d
    PROVE  /\ ChildCount(d) \in Nat
           /\ NS!Children(d) = {} => ChildCount(d) = 0
           /\ \A c : NS!Children(d)' = NS!Children(d) \cup {c} /\ c \notin NS!Children(d)
                        => ChildCount(d)' = ChildCount(d) + 1
           /\ \A c : NS!Children(d)' = NS!Children(d) \ {c} /\ c \in NS!Children(d)
                        => ChildCount(d)' = ChildCount(d) - 1
  <1>1. IsFiniteSet(NS!Children(d))
    <2>1. 0 \in Int /\ NumInodes \in Int
      BY LayoutAssumption
    <2>2. IsFiniteSet(InodeSlots)
      BY <2>1, FS_Interval DEF InodeSlots
    <2>3. NS!Children(d) \in SUBSET InodeSlots
      BY Basics
    <2> QED BY <2>2, <2>3, FS_Subset
  <1>2. ChildCount(d) \in Nat
    BY <1>1, FS_CardinalityType DEF ChildCount
  <1>3. NS!Children(d) = {} => ChildCount(d) = 0
    BY FS_EmptySet DEF ChildCount
  <1>4. ASSUME NEW c, NS!Children(d)' = NS!Children(d) \cup {c}, c \notin NS!Children(d)
        PROVE  ChildCount(d)' = ChildCount(d) + 1
    BY <1>1, <1>4, FS_AddElement DEF ChildCount
  <1>5. ASSUME NEW c, NS!Children(d)' = NS!Children(d) \ {c}, c \in NS!Children(d)
        PROVE  ChildCount(d)' = ChildCount(d) - 1
    BY <1>1, <1>5, FS_RemoveElement DEF ChildCount
  <1> QED BY <1>2, <1>3, <1>4, <1>5
(***************************************************************************)
(* Steps that change no count of the tree's inodes, nor the tree.          *)
(***************************************************************************)
LEMMA LinkFrame ==
    ASSUME LinkInv, ns' = ns, crashes' = crashes,
           pc \notin {"down", "mkfs_block", "rm_parent"},
           pc' \notin {"down", "rm_parent", "rm_child", "parent_inode"},
           pc' \in Adding => pc \in Adding /\ UNCHANGED <<call, inode_table>>,
           \A i \in Live : inode_table'[i].n_links = inode_table[i].n_links
    PROVE  LinkInv'
  <1>1. /\ Dirs' = Dirs /\ Files' = Files /\ Dirs \subseteq Live /\ Files \subseteq Live
        /\ \A d \in Dirs : ChildCount(d)' = ChildCount(d)
    BY TreeStep, Basics DEF ChildCount
  <1>2. \A i \in Dirs : Owed(i) = 0 /\ Owed(i)' = 0
    BY DEF Owed
  <1>3. pc' \in Adding =>
           inode_table'[call'.child].n_links = IF call'.op = "mkdir" THEN 2 ELSE 1
    BY DEF LinkInv
  <1>4. \A i \in Dirs :
           Near(inode_table'[i].n_links, 2 + ChildCount(i)' + Owed(i)', crashes')
    BY <1>1, <1>2 DEF LinkInv
  <1>5. \A i \in Files : inode_table'[i].n_links = 1
    BY <1>1 DEF LinkInv
  <1>6. \A i \in Dirs' :
           Near(inode_table[i].n_links, 2 + ChildCount(i) + Owed(i), crashes)'
    BY <1>1, <1>4 DEF Near
  <1> QED BY <1>1, <1>3, <1>5, <1>6 DEF LinkInv

(***************************************************************************)
(* The count on disk of a live inode that is not waiting to be written.    *)
(***************************************************************************)
LEMMA SavedCounts ==
    ASSUME MakeInv, CoreInv, SyncInv, Formatted, pc # "down", NEW i \in Live, i \notin Unsaved
    PROVE  d_itab[i].n_links = inode_table[i].n_links
  <1>1. pc \notin Making
    BY DEF MakeInv
  <1>2. i \in inode_bitmap
    BY <1>1 DEF CoreInv, MemInv, Own, Making
  <1> QED BY <1>1, <1>2 DEF SyncInv, Making

(***************************************************************************)
(* When the process dies, each count on disk is as far from the tree as in *)
(* memory, or one further if an entry and its count were a step apart.     *)
(***************************************************************************)
LEMMA DiskCounts ==
    ASSUME TypeInv, MakeInv, CoreInv, SyncInv, LinkInv, Formatted, pc # "down"
    PROVE  /\ LinksNear(d_itab, crashes + 1)
           /\ pc \notin {"rm_parent", "parent_inode"} => LinksNear(d_itab, crashes)
  <1>1. /\ pc \notin Making /\ crashes \in Nat
        /\ \A i \in Live : NS!IsDir(i) <=> i \in Dirs
        /\ \A i \in Live : ~NS!IsDir(i) <=> i \in Files
    BY RefsAssumption DEF MakeInv, TypeInv, TypeOK, Dirs, Files
  <1>2. /\ \A i \in Dirs :
              Near(inode_table[i].n_links, 2 + ChildCount(i) + Owed(i), crashes)
        /\ \A i \in Files : inode_table[i].n_links = 1
    BY <1>1 DEF LinkInv, Making
  <1>3. Unsaved \cap Live \subseteq {i \in Dirs : pc = "parent_inode" /\ i = call.parent}
    <2>1. pc \in {"mkdir_dmap", "new_inode"} => call.child \notin Live
      BY DEF CoreInv, AddInv, Adding
    <2> QED BY <1>1, <2>1 DEF Unsaved, LinkInv, Making
  <1>4. \A i \in Files : d_itab[i].n_links = 1
    BY <1>2, <1>3, Basics, SavedCounts
  <1>5. ASSUME NEW i \in Dirs
        PROVE  /\ Near(d_itab[i].n_links, 2 + ChildCount(i), crashes + 1)
               /\ pc \notin {"rm_parent", "parent_inode"} =>
                     Near(d_itab[i].n_links, 2 + ChildCount(i), crashes)
    <2>1. ChildCount(i) \in Nat
      BY ChildCounts
    <2>2. CASE i \in Unsaved
      BY <1>3, <2>2, Basics DEF LinkInv
    <2>3. CASE i \notin Unsaved
      <3>1. Near(d_itab[i].n_links, 2 + ChildCount(i) + Owed(i), crashes)
        BY <1>2, <2>3, Basics, SavedCounts
      <3>2. CASE Owed(i) = 0
        <4>1. 2 + ChildCount(i) + Owed(i) = 2 + ChildCount(i)
          BY <2>1, <3>2
        <4> QED BY <1>1, <2>1, <3>1, <4>1, NearSteps
      <3>3. CASE Owed(i) = 1
        <4>1. /\ 2 + ChildCount(i) + Owed(i) = 2 + ChildCount(i) + 1
              /\ 2 + ChildCount(i) + 1 \in Int
              /\ (2 + ChildCount(i) + 1) - 1 = 2 + ChildCount(i)
              /\ pc = "rm_parent"
          BY <2>1, <3>3 DEF Owed
        <4> QED BY <1>1, <3>1, <4>1, NearSteps
      <3> QED BY <3>2, <3>3 DEF Owed
    <2> QED BY <2>2, <2>3
  <1> QED BY <1>1, <1>4, <1>5 DEF LinksNear

(***************************************************************************)
(* mkfs, mount, unmount and crashes.                                       *)
(***************************************************************************)
LEMMA LinkBounds ==
    ASSUME TypeInv, MakeInv, CoreInv, SyncInv, LinkInv, Healthy',
           CreateDisk \/ Mount \/ MountFails \/ refs_destroy \/ Crash
    PROVE  LinkInv'
  <1>1. /\ ns' = ns /\ Live' = Live /\ Dirs' = Dirs /\ Files' = Files
        /\ \A i : NS!IsDir(i)' <=> NS!IsDir(i)
        /\ \A d : ChildCount(d)' = ChildCount(d)
        /\ crashes \in Nat
        /\ \A i \in Live : NS!IsDir(i) <=> i \in Dirs
        /\ \A i \in Live : ~NS!IsDir(i) <=> i \in Files
    <2>1. ns' = ns
      BY DEF CreateDisk, Mount, MountFails, refs_destroy, Crash, vars, history
    <2> QED BY <2>1, TreeStep, RefsAssumption DEF ChildCount, TypeInv, TypeOK, Dirs, Files
  <1>2. CASE CreateDisk
    BY <1>2 DEF CreateDisk, LinkInv, Adding
  <1>3. CASE Mount
    <2>1. /\ pc = "down" /\ pc' = "idle" /\ Formatted /\ crashes' = crashes
          /\ \A i \in Inums : inode_table'[i] = d_itab[i]
      BY <1>3, Basics DEF Mount, disk, Formatted
    <2>2. LinksNear(d_itab, crashes)
      BY <2>1 DEF LinkInv
    <2>3. \A i \in Files : inode_table'[i].n_links = 1
      BY <1>1, <2>1, <2>2, Basics DEF LinksNear
    <2>4. ASSUME NEW i \in Dirs
          PROVE  Near(inode_table'[i].n_links, 2 + ChildCount(i)' + Owed(i)', crashes')
      <3>1. Near(inode_table'[i].n_links, 2 + ChildCount(i), crashes)
        BY <1>1, <2>1, <2>2, Basics DEF LinksNear
      <3>2. Owed(i)' = 0 /\ ChildCount(i) \in Nat
        BY <2>1, ChildCounts DEF Owed
      <3>3. 2 + ChildCount(i)' + Owed(i)' = 2 + ChildCount(i)
        BY <1>1, <3>2
      <3> QED BY <2>1, <3>1, <3>3
    <2>5. \A i \in Dirs' :
             Near(inode_table[i].n_links, 2 + ChildCount(i) + Owed(i), crashes)'
      BY <1>1, <2>4 DEF Near
    <2> QED BY <1>1, <2>1, <2>3, <2>5 DEF LinkInv, Adding
  <1>4. CASE MountFails
    <2>1. /\ pc = "down" /\ pc' = pc /\ ~Formatted /\ Formatted' = Formatted
      BY <1>4 DEF MountFails, vars, Formatted
    <2> QED BY <2>1 DEF LinkInv, Adding
  <1>5. CASE refs_destroy \/ Crash
    <2>1. /\ pc # "down" /\ pc' = "down" /\ d_itab' = d_itab /\ Formatted' = Formatted
          /\ \/ crashes' = crashes + 1
             \/ crashes' = crashes /\ pc \notin {"rm_parent", "parent_inode"}
      BY <1>5 DEF refs_destroy, Crash, Down, disk, history, Formatted
    <2>2. Formatted => LinksNear(d_itab, crashes')
      BY <2>1, DiskCounts
    <2>3. LinksNear(d_itab, crashes)' <=> LinksNear(d_itab, crashes')
      BY <1>1, <2>1 DEF LinksNear, Near
    <2> QED BY <2>1, <2>2, <2>3 DEF LinkInv, Adding
  <1> QED BY <1>2, <1>3, <1>4, <1>5
(***************************************************************************)
(* A tree with one node less: the parent's count is one too many until the *)
(* next step (refs.c:1281-1286).                                           *)
(***************************************************************************)
LEMMA RemoveCounts ==
    ASSUME TypeInv, CoreInv, LinkInv, pc = "idle", NEW p \in Reachable, NEW n \in Names,
           NEW op, remove_child(op, p, n)
    PROVE  LinkInv'
  <1>1. PICK c : c = find_child_inum(n, p)
    OBVIOUS
  <1>2. /\ p \in Dirs /\ MemInv /\ PlaceInv
        /\ c \in NS!Children(p) /\ NS!Children(c) = {}
    BY <1>1, RemovedFacts
  <1>3. /\ pc' = "rm_parent" /\ call'.parent = p
        /\ ns' = [ns EXCEPT ![c] = NS!Absent]
        /\ UNCHANGED <<inode_table, crashes>>
    BY <1>1 DEF remove_child, memory, NoCall
  <1>4. /\ c # p /\ p \in Dirs' /\ Dirs' = Dirs \ {c} /\ Files' = Files \ {c}
        /\ NS!Children(p)' = NS!Children(p) \ {c}
        /\ \A d \in Dirs \ {p} : NS!Children(d)' = NS!Children(d)
    BY <1>2, <1>3, TreeMinus
  <1>5. /\ \A i \in Dirs : Near(inode_table[i].n_links, 2 + ChildCount(i) + Owed(i), crashes)
        /\ \A i \in Files : inode_table[i].n_links = 1
    BY DEF LinkInv
  <1>6. ASSUME NEW i \in Dirs'
        PROVE  2 + ChildCount(i)' + Owed(i)' = 2 + ChildCount(i) + Owed(i)
    <2>1. Owed(i) = 0 /\ Owed(i)' = (IF i = p THEN 1 ELSE 0)
      BY <1>3 DEF Owed
    <2>2. ChildCount(i)' = IF i = p THEN ChildCount(i) - 1 ELSE ChildCount(i)
      <3>1. CASE i = p
        <4>1. ChildCount(p)' = ChildCount(p) - 1
          BY <1>2, <1>4, ChildCounts
        <4> QED BY <3>1, <4>1
      <3>2. CASE i # p
        BY <1>4, <3>2 DEF ChildCount
      <3> QED BY <3>1, <3>2
    <2> QED BY <2>1, <2>2, ChildCounts
  <1>7. ASSUME NEW i \in Dirs'
        PROVE  Near(inode_table[i].n_links, 2 + ChildCount(i) + Owed(i), crashes)'
    BY <1>3, <1>4, <1>5, <1>6 DEF Near
  <1>8. \A i \in Files' : inode_table'[i].n_links = 1
    BY <1>3, <1>4, <1>5
  <1> QED BY <1>3, <1>4, <1>7, <1>8 DEF LinkInv, Adding

(***************************************************************************)
(* The first steps of the calls: a new inode starts with its own links     *)
(* (refs.c:237, 246).                                                      *)
(***************************************************************************)
LEMMA LinkCalls ==
    ASSUME TypeInv, CoreInv, LinkInv, Healthy', Calls
    PROVE  LinkInv'
  <1>0. pc = "idle"
    BY DEF Calls, Serving
  <1>1. PICK i \in Reachable :
          \/ \E n \in Names :
                \/ \E m \in Modes : refs_mkdir(i, n, m) \/ refs_mknod(i, n, m)
                \/ refs_rmdir(i, n)
                \/ refs_unlink(i, n)
          \/ \E m \in Modes : refs_chmod(i, m)
          \/ \E s \in FileSizes : refs_truncate(i, s)
          \/ \E s, t \in FileSizes : refs_write(i, s, t)
    BY DEF Calls
  <1>2. inode_table \in [InodeSlots -> Inode]
    BY DEF TypeInv, TypeOK
  <1>3. CASE \E n \in Names, m \in Modes : refs_mkdir(i, n, m) \/ refs_mknod(i, n, m)
    <2>1. InodeFault = {}
      BY <1>3 DEF refs_mkdir, refs_mknod, Healthy
    <2>2. PICK x \in Inums \ inode_bitmap : x = next_inode
      BY <2>1, Allocated
    <2>3. /\ \A k \in InodeSlots \ {x} : inode_table'[k] = inode_table[k]
          /\ inode_table'[x].n_links = IF call'.op = "mkdir" THEN 2 ELSE 1
          /\ call'.child = x /\ pc' \in {"mkdir_dmap", "new_inode"}
          /\ ns' = ns /\ crashes' = crashes
      <3>1. inode_table[x] \in Inode /\ x \in InodeSlots
        BY <1>2, <2>2, Basics
      <3>2. ASSUME NEW n \in Names, NEW m \in Modes, refs_mkdir(i, n, m)
            PROVE  /\ inode_table' = [inode_table EXCEPT
                                         ![x] = new_dir_inode(@, Lba(next_block), m)]
                   /\ call'.op = "mkdir" /\ call'.child = x /\ pc' = "mkdir_dmap"
                   /\ ns' = ns /\ crashes' = crashes
        BY <2>2, <3>2 DEF refs_mkdir, NoCall
      <3>3. ASSUME NEW n \in Names, NEW m \in Modes, refs_mknod(i, n, m)
            PROVE  /\ inode_table' = [inode_table EXCEPT ![x] = new_regfile_inode(@, m)]
                   /\ call'.op = "mknod" /\ call'.child = x /\ pc' = "new_inode"
                   /\ ns' = ns /\ crashes' = crashes
        BY <2>2, <3>3 DEF refs_mknod, NoCall
      <3>4. \A l, m : /\ new_dir_inode(inode_table[x], l, m).n_links = 2
                      /\ new_regfile_inode(inode_table[x], m).n_links = 1
        BY <3>1 DEF new_dir_inode, new_regfile_inode, Inode
      <3> QED BY <1>2, <1>3, <3>1, <3>2, <3>3, <3>4
    <2>4. x \notin Live /\ Live \subseteq InodeSlots
      BY <1>0, <2>2, Basics DEF CoreInv, MemInv, Own
    <2>5. /\ \A d : ChildCount(d)' = ChildCount(d)
          /\ Dirs' = Dirs /\ Files' = Files /\ Dirs \subseteq Live /\ Files \subseteq Live
      BY <2>3, TreeStep, Basics DEF ChildCount
    <2>6. ASSUME NEW d \in Dirs'
          PROVE  Near(inode_table[d].n_links, 2 + ChildCount(d) + Owed(d), crashes)'
      <3>1. Near(inode_table[d].n_links, 2 + ChildCount(d) + Owed(d), crashes)
        BY <1>0, <2>5 DEF LinkInv
      <3>2. Owed(d)' = 0 /\ Owed(d) = 0
        BY <1>0, <2>3 DEF Owed
      <3>3. inode_table'[d] = inode_table[d]
        BY <2>3, <2>4, <2>5
      <3> QED BY <2>3, <2>5, <3>1, <3>2, <3>3 DEF Near
    <2>7. \A f \in Files' : inode_table'[f].n_links = 1
      BY <1>0, <2>3, <2>4, <2>5 DEF LinkInv
    <2> QED BY <2>3, <2>6, <2>7 DEF LinkInv
  <1>4. CASE \E n \in Names : refs_rmdir(i, n) \/ refs_unlink(i, n)
    BY <1>0, <1>4, RemoveCounts DEF refs_rmdir, refs_unlink
  <1>5. CASE \/ \E m \in Modes : refs_chmod(i, m)
             \/ \E s \in FileSizes : refs_truncate(i, s)
             \/ \E s, t \in FileSizes : refs_write(i, s, t)
    <2>1. /\ ns' = ns /\ crashes' = crashes /\ pc' \in {"reply", "write", "reserve", "fill"}
          /\ \A k \in InodeSlots : inode_table'[k].n_links = inode_table[k].n_links
      <3>1. CASE \E m \in Modes : refs_chmod(i, m)
        BY <1>2, <3>1 DEF refs_chmod, history, Inode
      <3>2. CASE \E s \in FileSizes : refs_truncate(i, s)
        BY <3>2 DEF refs_truncate, FirstStep, memory, history
      <3>3. CASE \E s, t \in FileSizes : refs_write(i, s, t)
        BY <3>3 DEF refs_write, FirstStep, memory, history
      <3> QED BY <1>5, <3>1, <3>2, <3>3
    <2>2. pc' \notin Adding
      BY <2>1 DEF Adding
    <2> QED BY <1>0, <2>1, <2>2, LinkFrame, Basics
  <1> QED BY <1>1, <1>3, <1>4, <1>5

(***************************************************************************)
(* A tree with one node more: its parent's count is raised in memory by    *)
(* the same step and waits to be written (refs.c:701-752).                 *)
(***************************************************************************)
LEMMA EntryCounts ==
    ASSUME TypeInv, MakeInv, CoreInv, SyncInv, LinkInv, EntryInSlot
    PROVE  LinkInv'
  <1>0. PICK p, c, kind, name :
          /\ p = call.parent /\ c = call.child /\ name = call.name
          /\ kind = IF call.op = "mkdir" THEN "dir" ELSE "reg"
    OBVIOUS
  <1>1. /\ pc = "entry" /\ pc' = "parent_inode" /\ call' = call
        /\ inode_table' = [inode_table EXCEPT ![p].n_links = Inc(@)]
        /\ ns' = [ns EXCEPT ![c] = [kind |-> kind, parent |-> p, name |-> name]]
        /\ UNCHANGED <<d_itab, crashes>>
    BY <1>0 DEF EntryInSlot, NewNode
  <1>2. /\ MemInv /\ PlaceInv /\ pc \in Adding /\ p \in Dirs /\ c \in Own /\ c \notin Live
        /\ inode_table[c].n_links = IF call.op = "mkdir" THEN 2 ELSE 1
    BY <1>0, <1>1 DEF CoreInv, AddInv, Adding, Own, LinkInv
  <1>3. /\ Own \subseteq Inums /\ Dirs \subseteq Live /\ Files \subseteq Live
        /\ Live \subseteq InodeSlots /\ Inums \subseteq InodeSlots
    BY <1>1, <1>2, OwnFacts, Basics
  <1>4. kind \in NS!Kinds
    BY <1>0 DEF NS!Kinds
  <1>5. /\ Dirs' = Dirs \cup {i \in {c} : kind = "dir"}
        /\ Files' = Files \cup {i \in {c} : kind # "dir"}
        /\ NS!Children(p)' = NS!Children(p) \cup {c} /\ c \notin NS!Children(p)
        /\ \A d \in Dirs \ {p} : NS!Children(d)' = NS!Children(d)
        /\ NS!Children(c)' = {}
    BY <1>1, <1>2, <1>3, <1>4, TreePlus
  <1>6. /\ crashes \in Nat /\ inode_table \in [InodeSlots -> Inode]
    BY RefsAssumption DEF TypeInv, TypeOK
  <1>7. /\ inode_table'[p].n_links = Inc(inode_table[p].n_links)
        /\ \A i \in InodeSlots \ {p} : inode_table'[i] = inode_table[i]
        /\ inode_table'[c] = inode_table[c]
    BY <1>1, <1>2, <1>3, <1>6 DEF Inode
  <1>8. /\ ChildCount(p)' = ChildCount(p) + 1 /\ ChildCount(c)' = 0
        /\ \A d \in Dirs \ {p} : ChildCount(d)' = ChildCount(d)
    <2>1. ChildCount(c)' = 0
      BY <1>5, FS_EmptySet DEF ChildCount
    <2> QED BY <1>5, <2>1, ChildCounts DEF ChildCount
  <1>9. /\ Near(inode_table[p].n_links, 2 + ChildCount(p), crashes)
        /\ ChildCount(p) \in Nat
    <2>1. Near(inode_table[p].n_links, 2 + ChildCount(p) + Owed(p), crashes)
      BY <1>1, <1>2 DEF LinkInv
    <2>2. Owed(p) = 0 /\ ChildCount(p) \in Nat
      BY <1>1, ChildCounts DEF Owed
    <2>3. 2 + ChildCount(p) + Owed(p) = 2 + ChildCount(p)
      BY <2>2
    <2> QED BY <2>1, <2>2, <2>3
  <1>10. d_itab[p].n_links = inode_table[p].n_links
    <2>1. p \in Live /\ p \notin Unsaved /\ pc \notin Making /\ pc # "down"
      BY <1>1, <1>2, <1>3 DEF Unsaved, Making
    <2>2. p \in inode_bitmap
      BY <1>1, <1>2, <2>1 DEF MemInv, Own
    <2> QED BY <2>1, <2>2 DEF SyncInv, Making
  <1>11. Near(d_itab[call.parent].n_links, 2 + ChildCount(call.parent), crashes + 1)'
    <2>1. Near(d_itab[p].n_links, (2 + ChildCount(p)) + 1, crashes + 1)
      BY <1>6, <1>9, <1>10, NearSteps
    <2>2. (2 + ChildCount(p)) + 1 = 2 + ChildCount(p)'
      BY <1>8, <1>9
    <2>3. ChildCount(call.parent)' = ChildCount(p)' /\ call'.parent = p
      BY <1>0, <1>1 DEF ChildCount
    <2> QED BY <1>1, <2>1, <2>2, <2>3 DEF Near
  <1>12. ASSUME NEW i \in Dirs'
         PROVE  Near(inode_table[i].n_links, 2 + ChildCount(i) + Owed(i), crashes)'
    <2>0. Owed(i)' = 0 /\ Owed(i) = 0
      BY <1>1 DEF Owed
    <2>1. CASE i = p
      <3>1. Near(inode_table'[p].n_links, (2 + ChildCount(p)) + 1, crashes)
        BY <1>6, <1>7, <1>9, NearSteps
      <3>2. (2 + ChildCount(p)) + 1 = 2 + ChildCount(p)' + 0
        BY <1>8, <1>9
      <3>3. Near(inode_table'[p].n_links, 2 + ChildCount(p)' + 0, crashes)
        BY <3>1, <3>2
      <3> QED BY <1>1, <2>0, <2>1, <3>3 DEF Near
    <2>2. CASE i = c
      <3>1. i \notin Dirs /\ kind = "dir" /\ call.op = "mkdir"
        BY <1>0, <1>2, <1>3, <1>5, <2>2
      <3>2. inode_table'[i].n_links = 2 /\ 2 + ChildCount(i)' + Owed(i)' = 2 + 0
        BY <1>2, <1>7, <1>8, <2>0, <2>2, <3>1
      <3>3. 2 = (2 + 0) % LinkLimit /\ 0 \in -crashes .. crashes
        BY <1>6, Small
      <3> QED BY <1>1, <3>2, <3>3 DEF Near
    <2>3. CASE i # p /\ i # c
      <3>1. i \in Dirs /\ ChildCount(i)' = ChildCount(i) /\ inode_table'[i] = inode_table[i]
        BY <1>3, <1>5, <1>7, <1>8, <2>3
      <3>2. Near(inode_table[i].n_links, 2 + ChildCount(i) + Owed(i), crashes)
        BY <1>1, <3>1 DEF LinkInv
      <3> QED BY <1>1, <2>0, <3>1, <3>2 DEF Near
    <2> QED BY <2>1, <2>2, <2>3
  <1>13. \A i \in Files' : inode_table'[i].n_links = 1
    <2>1. \A i \in Files : i # p /\ inode_table[i].n_links = 1
      BY <1>1, <1>2, Basics DEF LinkInv
    <2>2. kind # "dir" => inode_table[c].n_links = 1
      BY <1>0, <1>2
    <2> QED BY <1>3, <1>5, <1>7, <2>1, <2>2
  <1>14. call'.parent \in Dirs'
    BY <1>0, <1>1, <1>2, <1>5
  <1> QED BY <1>1, <1>11, <1>12, <1>13, <1>14 DEF LinkInv, Adding
(***************************************************************************)
(* The root of a new file system has no children (refs.c:258-264).         *)
(***************************************************************************)
LEMMA RootCounts ==
    ASSUME TypeInv, MakeInv, CoreInv, alloc_root_dir
    PROVE  LinkInv'
  <1>1. /\ pc = "mkfs_block" /\ pc' = "mkfs_dmap" /\ ns' = ns /\ crashes' = crashes
    BY DEF alloc_root_dir, history
  <1>2. /\ Live = {ROOT_INUM} /\ inode_bitmap = {} /\ inode_table \in [InodeSlots -> Inode]
        /\ crashes \in Nat
    BY <1>1, RefsAssumption DEF MakeInv, Making, TypeInv, TypeOK
  <1>3. next_inode = ROOT_INUM /\ ROOT_INUM \in InodeSlots
    BY <1>2, FirstOfNone, LayoutAssumption, Basics DEF next_inode, ROOT_INUM
  <1>4. inode_table'[ROOT_INUM].n_links = 2
    BY <1>2, <1>3 DEF alloc_root_dir, new_dir_inode, Inode
  <1>5. /\ ROOT_INUM \in Dirs /\ NS!Children(ROOT_INUM) = {}
        /\ Dirs' = Dirs /\ Files' = Files /\ Dirs = {ROOT_INUM} /\ Files = {}
        /\ ChildCount(ROOT_INUM)' = ChildCount(ROOT_INUM)
    <2>1. ROOT_INUM \in Dirs /\ NS!Children(ROOT_INUM) = {}
      BY <1>2, PlaceFacts DEF CoreInv
    <2> QED BY <1>1, <1>2, <2>1, TreeStep, Basics DEF ChildCount
  <1>6. Near(inode_table[ROOT_INUM].n_links,
             2 + ChildCount(ROOT_INUM) + Owed(ROOT_INUM), crashes)'
    <2>1. ChildCount(ROOT_INUM) = 0 /\ Owed(ROOT_INUM)' = 0
      BY <1>1, <1>5, ChildCounts DEF Owed
    <2>2. 2 = (2 + 0) % LinkLimit /\ 0 \in -crashes .. crashes
      BY <1>2, Small
    <2>3. Near(2, 2, crashes)
      BY <2>2 DEF Near
    <2>4. 2 + ChildCount(ROOT_INUM)' + Owed(ROOT_INUM)' = 2
      BY <1>5, <2>1
    <2> QED BY <1>1, <1>4, <2>3, <2>4 DEF Near
  <1> QED BY <1>1, <1>5, <1>6 DEF LinkInv, Adding

(***************************************************************************)
(* The later steps: only a parent's count moves, after its entry           *)
(* (refs.c:700-752, 1286-1289).                                            *)
(***************************************************************************)
LEMMA LinkSteps ==
    ASSUME TypeInv, MakeInv, CoreInv, SyncInv, LinkInv, Healthy', Steps
    PROVE  LinkInv'
  <1>1. /\ inode_table \in [InodeSlots -> Inode] /\ crashes \in Nat
        /\ call.child \in InodeSlots /\ call.parent \in InodeSlots
        /\ Live \subseteq InodeSlots
    BY RefsAssumption, Basics DEF TypeInv, TypeOK, Call
  <1>2. CASE alloc_root_dir
    BY <1>2, RootCounts
  <1>3. CASE EntryInSlot
    BY <1>3, EntryCounts
  <1>4. CASE EntryInNewBlock
    BY <1>4 DEF EntryInNewBlock, Healthy
  <1>5. CASE write_super \/ sync_data_bitmap \/ sync_inode_bitmap \/ Reply
    <2>1. /\ pc \notin {"down", "mkfs_block", "rm_parent"}
          /\ pc' \notin {"down", "rm_parent", "rm_child", "parent_inode"}
          /\ pc' \in Adding => pc \in Adding /\ UNCHANGED <<call, inode_table>>
          /\ ns' = ns /\ crashes' = crashes /\ inode_table' = inode_table
      <3>1. CASE write_super \/ Reply
        BY <3>1 DEF write_super, Reply, memory, history, Adding
      <3>2. CASE sync_data_bitmap
        <4>1. pc # "grow_dmap"
          BY DEF CoreInv, RemoveInv
        <4> QED BY <3>2, <4>1 DEF sync_data_bitmap, memory, history, Then, Adding
      <3>3. CASE sync_inode_bitmap
        BY <3>3 DEF sync_inode_bitmap, memory, history, Then, Adding
      <3> QED BY <1>5, <3>1, <3>2, <3>3
    <2> QED BY <2>1, LinkFrame
  <1>6. CASE WriteBack
    <2>1. /\ pc \notin {"down", "mkfs_block", "rm_parent"}
          /\ pc' \notin {"down", "rm_parent", "rm_child", "parent_inode"}
          /\ pc' \in Adding => pc \in Adding
          /\ ns' = ns /\ crashes' = crashes /\ UNCHANGED <<call, inode_table>>
      BY <1>6 DEF WriteBack, memory, history, Then, Adding
    <2> QED BY <2>1, LinkFrame
  <1>7. CASE EntryNoSpace
    <2>1. /\ pc = "entry" /\ pc' = "parent_inode" /\ call'.parent = call.parent
          /\ ns' = ns /\ crashes' = crashes /\ UNCHANGED <<d_itab, inode_table>>
      BY <1>7 DEF EntryNoSpace, disk, memory, history, TypeInv, TypeOK, Call
    <2>2. PICK p : p = call.parent
      OBVIOUS
    <2>3. p \in Dirs /\ MemInv /\ pc \notin Making
      BY <2>1, <2>2 DEF CoreInv, AddInv, Adding, Making
    <2>4. /\ \A d : ChildCount(d)' = ChildCount(d)
          /\ Dirs' = Dirs /\ Files' = Files
      BY <2>1, TreeStep DEF ChildCount
    <2>5. /\ \A i \in Dirs :
                Near(inode_table[i].n_links, 2 + ChildCount(i) + Owed(i), crashes)
          /\ \A i \in Files : inode_table[i].n_links = 1
          /\ \A i \in Dirs : Owed(i) = 0 /\ Owed(i)' = 0
      BY <2>1 DEF LinkInv, Owed
    <2>6. d_itab[p] = inode_table[p]
      <3>1. p \in inode_bitmap /\ Unsaved = {}
        BY <2>1, <2>3, Basics DEF MemInv, Own, Unsaved
      <3> QED BY <2>1, <3>1 DEF SyncInv
    <2>7. Near(d_itab[p].n_links, 2 + ChildCount(p), crashes + 1)
      <3>1. 2 + ChildCount(p) + Owed(p) = 2 + ChildCount(p) /\ 2 + ChildCount(p) \in Int
        BY <2>3, <2>5, ChildCounts
      <3>2. Near(inode_table[p].n_links, 2 + ChildCount(p), crashes)
        BY <2>3, <2>5, <3>1
      <3> QED BY <1>1, <2>6, <3>1, <3>2, NearSteps
    <2>8. Near(d_itab[call.parent].n_links, 2 + ChildCount(call.parent), crashes + 1)'
      <3>1. ChildCount(call.parent)' = ChildCount(p)' /\ call'.parent = p
        BY <2>1, <2>2 DEF ChildCount
      <3> QED BY <2>1, <2>4, <2>7, <3>1 DEF Near
    <2>9. ASSUME NEW i \in Dirs'
          PROVE  Near(inode_table[i].n_links, 2 + ChildCount(i) + Owed(i), crashes)'
      BY <2>1, <2>4, <2>5 DEF Near
    <2>10. (\A i \in Files' : inode_table'[i].n_links = 1) /\ call'.parent \in Dirs'
      BY <2>1, <2>2, <2>3, <2>4, <2>5
    <2> QED BY <2>1, <2>8, <2>9, <2>10 DEF LinkInv, Adding
  <1>8. CASE UnlinkParent
    <2>1. /\ pc = "rm_parent" /\ pc' = "rm_child" /\ ns' = ns /\ crashes' = crashes
          /\ inode_table' = [inode_table EXCEPT ![call.parent].n_links = Dec(@)]
          /\ call' = call
      BY <1>8 DEF UnlinkParent, history
    <2>2. /\ \A d : ChildCount(d)' = ChildCount(d)
          /\ Dirs' = Dirs /\ Files' = Files
      BY <2>1, TreeStep DEF ChildCount
    <2>3. /\ call.parent \in Dirs
          /\ \A i \in Dirs :
                Near(inode_table[i].n_links, 2 + ChildCount(i) + Owed(i), crashes)
          /\ \A i \in Files : inode_table[i].n_links = 1
      BY <2>1 DEF LinkInv
    <2>4. /\ inode_table'[call.parent].n_links = Dec(inode_table[call.parent].n_links)
          /\ \A i \in InodeSlots \ {call.parent} : inode_table'[i] = inode_table[i]
      BY <1>1, <2>1 DEF Inode
    <2>5. ASSUME NEW i \in Dirs'
          PROVE  Near(inode_table[i].n_links, 2 + ChildCount(i) + Owed(i), crashes)'
      <3>1. Near(inode_table[i].n_links, 2 + ChildCount(i) + Owed(i), crashes)
        BY <2>2, <2>3
      <3>2. ChildCount(i) \in Nat /\ ChildCount(i)' = ChildCount(i) /\ Owed(i)' = 0
            /\ i \in InodeSlots
        BY <1>1, <2>1, <2>2, Basics, ChildCounts DEF Owed
      <3>3. CASE i = call.parent
        <4>1. /\ Owed(i) = 1 /\ 2 + ChildCount(i) + Owed(i) \in Int
              /\ (2 + ChildCount(i) + Owed(i)) - 1 = 2 + ChildCount(i)' + Owed(i)'
          BY <2>1, <3>2, <3>3 DEF Owed
        <4>2. Near(Dec(inode_table[i].n_links), 2 + ChildCount(i)' + Owed(i)', crashes)
          BY <1>1, <3>1, <4>1, NearSteps
        <4> QED BY <2>1, <2>4, <3>3, <4>2 DEF Near
      <3>4. CASE i # call.parent
        <4>1. Owed(i) = 0
          BY <3>4 DEF Owed
        <4> QED BY <2>1, <2>4, <3>1, <3>2, <3>4, <4>1 DEF Near
      <3> QED BY <3>3, <3>4
    <2>6. \A i \in Files' : inode_table'[i].n_links = 1
      BY <1>1, <2>2, <2>3, <2>4, Basics
    <2> QED BY <2>1, <2>2, <2>3, <2>5, <2>6 DEF LinkInv, Adding
  <1>9. CASE UnlinkChild \/ UnlinkBlock \/ release_inode
    <2>1. /\ pc \in Removing \ {"rm_parent"} /\ ns' = ns /\ crashes' = crashes
          /\ pc' \in {"reply", "unlink_loop", "release", "rm_imap"}
          /\ \A i \in InodeSlots \ {call.child} : inode_table'[i] = inode_table[i]
      <3>1. CASE UnlinkChild
        BY <1>1, <3>1 DEF UnlinkChild, history, Removing
      <3>2. CASE UnlinkBlock
        BY <1>1, <3>2 DEF UnlinkBlock, file_remove_data_block, history, Removing
      <3>3. CASE release_inode
        BY <1>1, <3>3 DEF release_inode, history, Removing
      <3> QED BY <1>9, <3>1, <3>2, <3>3
    <2>2. call.child \notin Live
      BY <2>1 DEF CoreInv, RemoveInv
    <2>3. \A i \in Live : inode_table'[i].n_links = inode_table[i].n_links
      BY <1>1, <2>1, <2>2
    <2> QED BY <2>1, <2>3, LinkFrame DEF Removing, Adding
  <1>10. CASE ReserveBlock \/ PointToBlock \/ FillBlock \/ RemoveBlock \/ SetSize \/ WriteBlock
    <2>1. /\ pc \in Sizing \cup {"write"} /\ ns' = ns /\ crashes' = crashes
          /\ pc' \in Sizing \cup {"write", "reply"}
          /\ \A i \in Live : inode_table'[i].n_links = inode_table[i].n_links
      <3>1. CASE ReserveBlock \/ FillBlock \/ WriteBlock
        BY <3>1 DEF ReserveBlock, FillBlock, WriteBlock, Loop, memory, history, Sizing, Reserving
      <3>2. CASE PointToBlock
        <4>1. /\ pc = "reserve_inode" /\ ns' = ns /\ crashes' = crashes
              /\ pc' \in {"set_size", "reserve", "remove", "fill"}
          BY <3>2 DEF PointToBlock, Loop, history
        <4>2. inode_table' = [inode_table EXCEPT
                          ![call.child].ptrs[inode_table[call.child].blocks] = call.lba,
                          ![call.child].blocks = @ + 1]
          BY <3>2 DEF PointToBlock
        <4>3. \A i \in InodeSlots : inode_table'[i].n_links = inode_table[i].n_links
          BY <1>1, <4>2 DEF Inode
        <4> QED BY <1>1, <4>1, <4>3 DEF Sizing, Reserving
      <3>3. CASE RemoveBlock
        <4>1. /\ pc = "remove" /\ ns' = ns /\ crashes' = crashes
              /\ pc' \in {"set_size", "reserve", "remove"}
          BY <3>3 DEF RemoveBlock, Loop, history
        <4>2. \A i \in InodeSlots : inode_table'[i].n_links = inode_table[i].n_links
          BY <1>1, <3>3 DEF RemoveBlock, file_remove_data_block, Inode
        <4> QED BY <1>1, <4>1, <4>2 DEF Sizing, Reserving
      <3>4. CASE SetSize
        BY <1>1, <3>4 DEF SetSize, history, Sizing, Inode
      <3> QED BY <1>10, <3>1, <3>2, <3>3, <3>4
    <2> QED BY <2>1, LinkFrame DEF Sizing, Reserving, Adding
  <1>11. CASE WildBit
    <2>1. /\ pc \in {"unlink_loop", "remove", "release"} /\ pc' = "down"
          /\ UNCHANGED <<ns, crashes, d_itab>> /\ Formatted' = Formatted
      BY <1>11 DEF WildBit, Down, disk, history, Formatted
    <2>2. Formatted => LinksNear(d_itab, crashes)
      BY <2>1, DiskCounts
    <2>3. LinksNear(d_itab, crashes)' <=> LinksNear(d_itab, crashes)
      BY <2>1, TreeStep DEF LinksNear, Near, ChildCount
    <2> QED BY <2>1, <2>2, <2>3 DEF LinkInv, Adding
  <1> QED BY <1>2, <1>3, <1>4, <1>5, <1>6, <1>7, <1>8, <1>9, <1>10, <1>11 DEF Steps

(***************************************************************************)
(* The caches and the counts, at every step of every call, after every     *)
(* crash and every mount: no write that a call owes the disk is forgotten  *)
(* (refs.c:36-37, 700-752, 1264-1289).                                     *)
(***************************************************************************)
THEOREM CountsAndCaches == Spec => []CountInv
  <1>1. Init => CountInv
    BY DEF Init, Formatted, CountInv, SyncInv, LinkInv, Lagging, Adding, ZeroBlock,
           BlkLbas, Making
  <1>2. ASSUME IInv, IInv', CountInv, [Next]_vars PROVE CountInv'
    <2> SUFFICES ASSUME Healthy' PROVE SyncInv' /\ LinkInv'
      BY DEF CountInv
    <2>1. Healthy /\ TypeInv /\ MakeInv /\ CoreInv /\ SyncInv /\ LinkInv
      BY <1>2, FaultsStay DEF IInv, CountInv, Healthy
    <2>2. CASE CreateDisk \/ Mount \/ MountFails \/ refs_destroy \/ Crash
      BY <2>1, <2>2, SyncBounds, LinkBounds
    <2>3. CASE Calls
      BY <2>1, <2>3, SyncCalls, LinkCalls
    <2>4. CASE Steps
      BY <2>1, <2>4, SyncSteps, LinkSteps
    <2>5. CASE UNCHANGED vars
      <3>1. UNCHANGED <<d_imap, d_itab, blk, inode_table, inode_bitmap, pc, call, ns, crashes>>
        BY <2>5 DEF vars
      <3>2. SyncInv'
        BY <2>1, <3>1 DEF SyncInv, Unsaved
      <3>3. LinkInv'
        <4>1. /\ Live' = Live /\ Dirs' = Dirs /\ Files' = Files
              /\ \A d : NS!IsDir(d)' <=> NS!IsDir(d)
              /\ \A d : ChildCount(d)' = ChildCount(d) /\ Owed(d)' = Owed(d)
              /\ ChildCount(call.parent)' = ChildCount(call.parent)
          BY <3>1, TreeStep DEF ChildCount, Owed
        <4>2. /\ LinksNear(d_itab, crashes)' <=> LinksNear(d_itab, crashes)
              /\ Formatted' <=> Formatted
          BY <3>1, <4>1 DEF LinksNear, Near, Formatted
        <4> QED BY <2>1, <3>1, <4>1, <4>2 DEF LinkInv, Near
      <3> QED BY <3>2, <3>3
    <2> QED BY <1>2, <2>2, <2>3, <2>4, <2>5 DEF Next
  <1> QED BY <1>1, <1>2, InductiveInvariant, PTL DEF Spec

(***************************************************************************)
(* Between calls the disk has the inode bitmap and every reserved inode    *)
(* (refs.c:36-37).                                                         *)
(***************************************************************************)
THEOREM CachesAreWritten == Spec => []WriteThrough
  <1>1. CountInv => WriteThrough
    BY DEF CountInv, SyncInv, WriteThrough, Lagging, Making, Unsaved
  <1> QED BY <1>1, CountsAndCaches, PTL

(***************************************************************************)
(* A directory's link count is two plus its children, to within a crash,   *)
(* modulo its type's range; a file's is one (refs.c:237, 709, 1286-1289,   *)
(* 1501).                                                                  *)
(***************************************************************************)
THEOREM LinkCountsDrift == Spec => []LinkDrift
  <1>1. IInv /\ CountInv => LinkDrift
    <2> SUFFICES ASSUME IInv, CountInv, Healthy, pc = "idle"
                 PROVE  LinksNear(inode_table, crashes)
      BY DEF LinkDrift
    <2>1. \A i \in Live : (NS!IsDir(i) => i \in Dirs) /\ (~NS!IsDir(i) => i \in Files)
      BY DEF Dirs, Files
    <2>2. ASSUME NEW i \in Dirs
          PROVE  Near(inode_table[i].n_links, 2 + ChildCount(i), crashes)
      <3>1. Near(inode_table[i].n_links, 2 + ChildCount(i) + Owed(i), crashes)
        BY DEF CountInv, LinkInv
      <3>2. 2 + ChildCount(i) + Owed(i) = 2 + ChildCount(i)
        BY ChildCounts DEF Owed
      <3> QED BY <3>1, <3>2
    <2>3. \A i \in Files : inode_table[i].n_links = 1
      BY DEF CountInv, LinkInv
    <2> QED BY <2>1, <2>2, <2>3 DEF LinksNear
  <1> QED BY <1>1, CountsAndCaches, InductiveInvariant, PTL
=============================================================================
