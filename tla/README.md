# ReFS: TLA+ models, checks and proofs

ReFS (`src/refs.c`, `src/bitmap.c`) is a small file system in user space. It keeps
a whole disk in one backing file and serves one FUSE call at a time. This
directory holds TLA+ models of it, the TLC configurations that check them and
proofs that TLAPS checks. Line numbers refer to `src/refs.c` unless a file is named.

## 1. The system

### Components

| Component | State it keeps | Operations | What makes it correct |
|---|---|---|---|
| Bitmaps (`bitmap.c`) | an array of bytes, rounded up to blocks; `n_valid_bits` | allocate, get, set, clear, `first_unset_bit` | a reservation returns an object nobody holds; a full bitmap answers out of bounds; one bit changes at a time |
| Disk layout, superblock | region starts in block 0 | `init_super`, `write_super`, address arithmetic in `write_inode`, `sync_*_bitmap` | the regions never overlap, every index of a live object addresses its own region |
| mkfs, mount, unmount | disk file; in-memory bitmaps and inode table | `refs_init` (both branches), `refs_destroy` | a mount finds what the calls before it completed |
| Inodes and directories | inode table, directory blocks | mkdir, mknod, create, rmdir, unlink, chmod, `get_path_inum` | the names form a tree; entries appear and disappear atomically; no entry leads to a free inode |
| File sizes and blocks | `size`, `blocks`, `block_ptrs`, data bitmap | truncate, write (`file_reserve_data_block`, `file_remove_data_block`, `fill`) | no two inodes share a block; what is used is marked; every byte has a block |
| File contents, indirect blocks | data blocks, pointer blocks | read, write, `fill` | a read returns the last bytes written, nothing old where none were |
| Directory listing | none (an offset the kernel returns) | readdir | a listing ends, and says what it misses or repeats |
| Permissions, open | mode, uid, gid of inodes | access, open, the checks of read, write, truncate, create | nothing POSIX grants is refused; what was opened can be used |
| Attributes | none | getattr, fgetattr | fields are copied |
| Directory entry layout | 64-byte entries | `strcpy` of names | a name stays in its entry |
| Block I/O | disk file | `read_blocks`, `write_blocks` | whole blocks, in order |
| FUSE and the kernel (not in `src/`) | mount state | path resolution, dispatch | one call at a time (`-s`) |

The handlers call each other directly and share the global `super`, `inode_table`,
`inode_bitmap` and `data_bitmap`. There are no threads: README.md of the
repository mounts with `-s`. What is hard is therefore not concurrency of calls
but

* **crashes** between the two to seven separate disk writes of a call, and the
  mount after them;
* **memory and disk disagreeing**: most of a call changes memory first and writes
  portions of it to the disk, whole blocks of inodes at a time;
* **limits**: the index of a full bitmap is used unchecked, directories grow, link
  counts wrap around;
* **long sequences of calls** over reused inodes and blocks;
* **block arithmetic** at sizes that are whole numbers of blocks and at sizes whose
  block number does not fit an `int`, and loops that change the count they run to.

`PROJECT.json` lists each such hazard at its line with the properties that watch it.

### Modules

| Module | Models | Kind |
|---|---|---|
| `Bitmap` | `first_unset_bit` and the sizes of a bitmap, over sets of indexes | operators |
| `BitmapPool` | what `bitmap.c` promises: a pool of objects | abstract specification |
| `BitmapBytes` | `bitmap.c` byte by byte, with masks, and the byte-wise scan | refines `BitmapPool` |
| `Layout` | `init_super` and the addresses of all regions | operators |
| `Namespace` | the tree of names ReFS promises | abstract specification |
| `Refs` | `refs_init`, `refs_destroy`, mkdir, mknod, rmdir, unlink, truncate, write, chmod with all disk writes, and crashes | refines `Namespace` |
| `RefsProperties` | what `Refs` should satisfy | properties |
| `RefsInvariant` | the inductive invariants of `Refs`, `IInv` and `CountInv` | properties |
| `MCRefs` | symmetry | model checking |
| `ByteFile` | what truncate and write promise of the bytes of a file | abstract specification |
| `FileBlocks` | truncate, write and read over direct and indirect blocks, with the bytes | refines `ByteFile` |
| `FileBlocksProperties` | what `FileBlocks` should satisfy | properties |
| `Directory` | one block of entries, `refs_readdir` and the kernel's offsets, the terminator of long names | specification and properties |
| `Access` | `refs_access`, `refs_open`, the checks of the other calls, chmod | specification and properties |
| `MCAccess` | callers and modes | model checking |
| `BitmapLemmas`, `BitmapProofs`, `NamespaceProofs` | theorems about divisions and bitmaps, and about the promised tree | proofs |
| `RefsProofs` | the layout, the types of `Refs`, `IInv` through mkfs, mount and the shared writes | proofs |
| `RefsCallProofs` | `IInv` through the calls; the tree, the blocks, the link counts, the refinement and what follows from it | proofs |
| `FileBlocksProofs` | the blocks of files: each has one use, none is lost; reads; then the bytes: what a crash leaves, the refinement of `ByteFile` | proofs |
| `DirectoryProofs`, `AccessProofs` | theorems about listings, permissions | proofs |

`Refs` EXTENDS `Layout`, which EXTENDS `Bitmap`: the allocators of the core are the
operator whose byte-level version `BitmapBytes` checks. `Refs` instantiates
`Namespace` with `ns` and `ok <- (faults = {})`. `FileBlocks` uses the same
`first_unset_bit`. It has the calls of `Refs` on a file's blocks again, because bytes
and indirect blocks multiply the states: `Refs` shows that these calls live with the
rest of the file system and with crashes, `FileBlocks` what the bytes become.

## 2. How the models correspond to the code

### Bitmaps

A bitmap is the set of indexes whose bit is 1. `first_unset_bit` scans whole
bytes, so it may also answer one of the padding bits after `n_valid_bits`;
`ScanBits` and `BitIndexes` name the range it can reach. Its callers compare the
answer with nothing, which is why `Refs` keeps a slot for every index in that
range. `BitmapBytes` keeps the array of bytes and the masks and is checked to
implement `BitmapPool`; a byte has `ByteBits` bits (8 in the code).

### Disk and memory

`Refs` has the disk (`exists`, `d_imap`, `d_itab`, `d_dmap`, `blk`) and the memory of
the process (`inode_table`, `inode_bitmap`, `data_bitmap`, and `pc`, `call` for the call in
progress). The disk file is opened with `O_SYNC`, so a write that returned is
durable and writes are not reordered. Each step makes at most one disk write
and carries the memory changes that surround it up to the next write; `Crash` may
happen between any two steps and discards memory. (A partial write of a block is
not modelled.) `write_inode` writes the whole block of the inode table around an
inode, as the code does: neighbours in memory go to the disk with it.

| Code | In `Refs` |
|---|---|
| `refs_init`, first branch (374-411) | `CreateDisk`, `alloc_root_dir`, the sync steps, `write_super` |
| `refs_init`, second branch (412-464) | `Mount`, `MountFails` |
| `refs_destroy` | `refs_destroy`: writes nothing |
| `refs_mkdir` | `refs_mkdir`, `sync_data_bitmap`, `WriteBack`, `sync_inode_bitmap`, then `EntryInSlot`, `EntryInNewBlock` or `EntryNoSpace`, `WriteBack`, `Reply` |
| `refs_mknod`, `refs_create` | `refs_mknod`, then as above |
| `remove_child`, `do_rmdir`, `do_unlink` | `refs_rmdir`/`refs_unlink`, `UnlinkParent`, `UnlinkChild`, `UnlinkBlock` for each turn of the loop, `release_inode`, `sync_inode_bitmap`, `WriteBack`, `Reply` |
| `refs_truncate`, the growing part of `refs_write` | `refs_truncate`/`refs_write`, `ReserveBlock`, `PointToBlock`, `FillBlock`, `RemoveBlock`, `SetSize` |
| the copying part of `refs_write` | `WriteBlock` |
| `chmod` | `refs_chmod` |
| `clear_bit` with a wrapped index | `WildBit`: the process dies |

A refused call (no permission, no such name, not empty ...) changes nothing and is a
stuttering step. A block's contents are its kind and, for a directory, its
entries; file bytes are not kept. Users call with paths, so a call may name any
inode in `Reachable`.

Three history variables record what no code stores. `ns` is the tree promised by
the writes completed so far: it changes exactly with the write of an entry.
`faults` records which limits this file system has run past: `grew` (a directory
needed a second block), `inodes` and `blocks` (a bitmap was full), `inum` (an inode was
reserved whose stored number is not its index), `stale` and `torn` (a mount found
an unmarked block or a file short of blocks). `crashes` counts.

*What the code does past those limits stays in the model.* The steps go on, the
inode past the table is written over the data bitmap (with all its fields and the
memory after it, so which bits are then set is left open), the superblock is
overwritten through null pointers. The safety properties of the tree and the
blocks are stated for file systems that are `Healthy` (`faults = {}`), the types and
the termination of calls for all of them, and the violation runs show what
happens when a limit is passed. `Follow` says after which faults users still call
in a run.

### File contents

`FileBlocks` has a block as a row of cells. A cell is a byte or a pointer: what a
file's block holds (`Nul` of a cleared block, the character `Zero` that `fill` writes,
or the byte of a buffer, known by the position it was meant for) or what a pointer
block holds. Blocks keep their cells when they are released, so old bytes and old
pointers are there to be met again; a pointer block is not cleared (983-990).
`PtrIdx` reaches past `block_ptrs` into the words of `union inode`'s pad, as the code
does, which compares no index with `NUM_INDIRECT`.

Sizes and offsets have 64 bits in the code, and their quotients by `BLOCK_SIZE` are
stored in an `int` (1079-1091, 1112-1113, 1181-1182, 1577-1578). `IntBlock` is that
conversion, which keeps the low bits; every block number of the model goes through it,
the one that the check for EFBIG compares included. A size is `Wide` when its block
number does not fit: from 2^43 bytes on. So `refs_truncate` to 2^44 is accepted, as in
the code, and leaves a file of that size with the blocks of an empty one; a write at
2^44 stores its bytes at the beginning of the file.

| Code | In `FileBlocks` |
|---|---|
| `file_reserve_data_block` | `ReserveBlock`, for an indirect block `PointIndirect`, `PointToBlock` |
| `file_remove_data_block` | `RemoveBlock` |
| `fill` with the read and write of its block | `FillBlock` |
| `ino->size = size` | `SetSize` |
| the loop of `refs_write` | `WriteBlock`, one block a step |
| `do_read` | the operator `do_read`, as the set of its copies (`Pieces`) |

A write shows its bytes block by block; `ByteFile` has it in one step. The refinement
mapping (`Seen`) shows what the file held before the call until the call replies:
the history variable `was`. `emptied` counts truncations to nothing, each of which
leaves a block behind (1095, 1124). `ByteFile` is weaker than a native file where the
code is: the holes of such a file may hold anything (`Loose`), the byte at the old end
may (`k = size[f]`, 1103), other holes are NUL or the character `0`, and nothing is
promised of the bytes of a file with a wide size (`Addressable`) - all of it is promised
of the other files. `holes` shows the second and third of these against
`write_test.sh`.

### Listing a directory

`refs_readdir` is one step: it reads the block and hands the entries after the
caller's offset to a buffer with room for some of them. The kernel passes the
offset of the last entry it took to the next call, and stops at an empty answer.
Entries come and go between the calls of a listing. An entry's inode number is a
number of two "bytes" (`ByteRange`), the lowest of which is what the terminator of a
name of `MAX_PATH_LEN` characters lands on; such a name reads back as itself only
while that byte is zero (`Reads`).

### Permissions

`Access` has one directory, one file and one handle. A mode is the permissions of
each class; the permissions of all classes the caller is in are added up, as the
code does. `req_mode` keeps that `O_RDONLY` is no bit at all, so that every open asks
for `R_OK`. `handle.how` records whether the handle came with `open`, with `create`, or a
`chmod` came after it.

### Bounds, and why they are enough

| Constant | Meaning | Values | Why |
|---|---|---|---|
| `NumInodes` | size of the table | 3, 4 | the root, a directory and a child, and one more to share a block of the table; they run out |
| `InodesPerBlock` | inodes written back together | 2, 3 | one shared block, and two blocks so that the wrong one can be written |
| `NumDataBlocks`, `ByteBits` | data region, padding bits | 2-4 blocks, bytes of 2-3 bits (6 blocks, bytes of 4 bits in `FileBlocks`; 4 valid bits in bytes of 3 in `bitmap_bytes`, so that a full bitmap answers padding bits before `n_valid_bits`) | with padding and without; the region fills up |
| `Names` | entry names | 2 or 3 | a duplicate, a different name, and a full directory with a removed name in front; symmetric |
| `Modes` | what chmod and creation set | `rw` | the permission only decides whether a call is refused: the proofs cover every value, `Access` the classes |
| `BlockSize`, `FileSizes` | bytes, offsets and sizes | 2; 0 and 4 | empty, and two whole blocks (whose end is in a third one) |
| `NumDirect` | direct pointers | 1-3 | one: a full directory answers ENOSPC; more: it grows, files have several blocks |
| `DirentsPerBlock` | slots | 3-5 | one to three beside `.` and `..` |
| `LinkLimit` | 2^16 in the code | 5 or 8 | 5 lets it wrap around |
| `PastTable` | what writing the inode past the table makes of the data bitmap | two sets of bits | two, so that the outcome is not determined; no later step of the runs depends on more, and the proofs cover every value |
| `MaxCrashes` | crashes in a behaviour | 0-2 | the second happens after a mount that found the first |

| Constant of the other modules | Values | Why |
|---|---|---|
| `Files`, `NumDirect`, `NumIndirect`, `PadPointers`, `PtrsPerBlock` (`FileBlocks`) | 2 files; 1, 1, 2, 2 | two files compete for blocks; direct, indirect and pad pointers, each pointer block with a first and a last pointer |
| `IntMax` (`FileBlocks`) | 7 | block numbers wrap at 8 as the code's at 2^31: the disk's 6 blocks and `MAX_FILE_BLOCKS` are below it, the largest sizes above |
| `Sizes` (`FileBlocks`) | 0, 1, 4, 5, 6, 16, 32, 33 | empty, inside the first block, at and after the boundary of the last direct and indirect blocks, too large (EFBIG); wide with a negative block number, and wide with one that is small |
| `Room` (`FileBlocks`, bound) | enough free blocks for a call | a full region is part of `Refs` |
| `NoneIsWide` (`FileBlocks`, bound) | no call follows one that left a file with a wide size | the next one computes the blocks to remove or to read from a number that is not the file's, and indexes the pointers of its inode outside of them |
| `InOrder` (`FileBlocks`, bound) | the first block number of a write is not negative, and no wrap lies between it and the last one | the loop would index the inode's pointers outside of them |
| `Names`, `Rooms`, `MaxChanges` (`Directory`) | 3 names, buffers of 1 or 2 entries, 4 changes in a listing | a listing takes several calls and two entries can be added and two removed meanwhile |
| `LongNames` (`Directory`) | one, in `name_overflow` only | with it, names can be lost for a reason that has nothing to do with listing |
| `Callers` (`Access`) | superuser, two of one group, a stranger | every class of every file, also for a file of the superuser's |

`DirectOnly` keeps files of `Refs` within their direct blocks; the code's check for EFBIG
is therefore in `FileBlocks` only. `Garbled` ends the calls of a
behaviour in which a directory's pointer leads to file bytes, which the model
does not interpret. Symmetry is over `Names` only, which are compared for equality
only, and is not used in runs that check liveness.

### Fairness

In `Refs`, `FairSpec` adds `WF_vars(Steps)`: a call that has begun takes its next step.
The code has no waiting, no locks and one thread, so a running process does that. No
fairness is assumed of users, mounts, unmounts or crashes. A call that loops for
ever would satisfy `WF_vars(Steps)`, so `CallReturns` really checks the loops. In
`Directory`, `WF_vars(List)` says that a reader that has begun keeps calling readdir,
as `ls` does; nothing is assumed of those who change the directory.

## 3. Runs

| Run | Question | Result |
|---|---|---|
| `bitmap_bytes` | Do bytes, masks and the two scans implement the pool of `BitmapPool`? | `ImplementsPool`, `ReserveIsFresh`, `FullIsOutOfBounds`, `BytesTypeOK` hold |
| `refs_crash` | Two crashes anywhere in mkfs and in calls on the tree, an inode table of two blocks, full directories (ENOSPC), inodes and blocks running out: does the disk always hold the promised tree? | `TreeOnDisk`, `LinkDrift`, `WriteThrough`, the proofs' invariants `IInv` and `CountInv`, `NamesUnique`, `ParentsAreLive` and the refinement `ImplementsNamespace` hold |
| `refs_files` | Files that grow, shrink and are removed, with one crash, and used again after directories grew, a crash tore a file or lost bitmap updates, link counts wrap | `TypeOK`, `NoSharedBlocks`, `UsedIsMarked`, `SizeBacked`, `WritesStayHome` and `CallReturns` hold: a torn file may kill the process, it never hangs it |
| `file_blocks` | The bytes of two files over direct, indirect and pad pointers, with sizes whose block numbers do not fit the int | `ImplementsByteFile`, `BlocksHaveOneUse`, `NothingLeaks`, `BlocksCounted`, `ReadsAreRight`, `TornCallsStayLocal`, `FilesTypeOK` hold |
| `directory` | Listing a directory while entries come and go | `MissesBounded`, `NoneTwice`, `ListingEnds`, `DirectoryTypeOK` hold |
| `access` | Classes against POSIX; open's check against those of reads and writes | `ClassesAgree`, `OpenedCanBeUsed` hold |
| `unused_block` | "Allocates an unused data block" (198) | violated |
| `grown_directory` | The parent gets a pointer to the child (698-699) | violated |
| `root_released` | The index of an inode is its number (212-213) | violated |
| `holes` | A write past the end of a file leaves what a native file has there ("Case 4", write_test.sh:64) | violated |
| `readdir` | "the offset determines the number of valid directories that aren't read" (844-845) | violated |
| `name_overflow` | "MAX_PATH_LEN-1 is usable (we store `\0`)" (refs.h:100) | violated |

The deepest of these statements:

* `TreeOnDisk` - at every point of every call, crash or not, what is on the disk
  gives every promised name a reserved inode of its kind, and every directory a
  marked block with exactly its entries. The order of writes in the handlers is
  what makes it true: the child before the entry, the entry away before the child.
* `ImplementsNamespace` - the names change as the atomic, durable tree of
  `Namespace`, through every crash and mount.
* `LinkDrift` - a link count is written after the entry it counts, so each crash may
  leave it off by one, and no more than that. It is counted as the `uint16_t` it is:
  after three crashes, each between a new entry and the count, and the removal of
  those entries, a directory's count has gone below zero and wrapped around. (The
  proof attempt found this: the plain difference is bounded by the crashes only up
  to two of them.)
* `NoSharedBlocks`, `UsedIsMarked`, `WritesStayHome` - block ownership, in memory and
  as a mount would see it, although the data bitmap on disk lags behind.
* `CallReturns` - the loops of unlink, truncate and write end, with a reply or with the
  death of the process, even on torn files and where a loop changes what it compares
  with. It does not say that a call did what it should.
* `ImplementsByteFile` - to the calls that follow, every truncate and write is one
  step of a file of bytes: over block boundaries, the last direct and the first
  indirect block, growing and shrinking, with blocks that have a former life. A call
  that makes a size wide spoils its own file's bytes and no other's.
* `BlocksHaveOneUse`, `NothingLeaks` - pointer blocks come and go with their first
  pointer and are never cleared, yet no pointer is followed that no call stored
  and, between calls, the bitmap marks exactly what the files use.
* `TornCallsStayLocal` - whatever disk write a crash falls behind, only bytes of the
  call's own range of its own file differ.
* `MissesBounded`, `NoneTwice` - a listing misses one entry for each of its calls, since
  `num > offset` skips the first (against the comment at 844-847: run `readdir`), and
  one for each entry removed meanwhile; it repeats a name only after two additions, as
  the first only makes up for the skip. Both bounds are tight. That `.` is never listed
  is the first such miss.
* `OpenedCanBeUsed` - the checks at open and those at each call agree while no mode
  changes; a file that was created is refused only what its mode denies its owner.

The disk keeps a data bitmap that lags behind truncate and write. That limits how
`NoSharedBlocks` can be stated: a file system mounted after its files grew is
`stale`, no longer `Healthy`, and `unused_block` shows what follows.

### Findings

* `unused_block` (963, 203). truncate and write set bits of the data bitmap in memory;
  nothing writes the bitmap until the next mkdir, rmdir or unlink, and `refs_destroy`
  does not either. After a clean unmount and mount a block of a live file is handed
  out again.
* `grown_directory` (729-745). `update_parent_inode` writes the entry to a new block but
  never stores its address: the call returns 0 and the name cannot be found. The
  null pointer left behind means that the next entry is read from and written
  to block 0, over the superblock. In a reused inode the pointer is not null but
  one of its former life, although "future code should never interpret their
  values" (313).
* `root_released` (455, 310). The inode table read at mount replaces the numbers that
  `alloc_inode_table` stored. Blocks of the table never written hold zeros, so
  their inodes have the number 0; removing one clears the root's bit, and its
  link count is written to the wrong block.
* `holes` (1103, 914-918). A growing file is filled from the byte after its old end, and
  with the character `0`: the byte at the old end keeps what its block holds, the rest of
  that block reads as `000...`, and later blocks as NUL. `write_test.sh:64-76` compares with a
  native file, whose holes are NUL. A shrinking file is filled in the same way (1120):
  the first byte that was cut stays in the block and is there again when the file grows.
* `readdir` (883, 894). The filler gets `num + 1`, the number of entries up to the one passed
  on, and the next call skips one more than that number. A listing that takes several
  calls leaves out one name at each.
* `name_overflow` (790, 1412). A name of `MAX_PATH_LEN` characters passes the check, and the
  terminator that `strcpy` writes is the lowest byte of the next entry's inode number.
  That entry then leads to another inode.

Met while modelling and described by the model or the hazards, without a run of
their own: sizes past the range of an `int` (1085-1091, 1181-1182; `IntBlock`, `Wide`): truncate to
2^44 bytes passes the check for EFBIG and leaves one block, and a write at 2^44 overwrites
the first bytes of its file - `BlocksCounted`, `TornCallsStayLocal` and `ImplementsByteFile` say
what holds nevertheless; unlink releases half of a file's blocks, rounded up, since its
loop compares with the count it decrements (1503; `UnlinkBlock`), and the others stay
marked; the inode past the table when inodes run out, written over the data
bitmap (216; `InodeFault`, `write_inode`); a file grown across mkfs that a crash
interrupts cannot be used or replaced (379, 407; `MountFails`); a crash inside the
shrink loop leaves a size without blocks (1125; `torn`); the inode and block that
mkdir leaks on ENOSPC (749-751); truncating to 0 keeps a block and growing again adds
another one, past `MAX_FILE_BLOCKS` in the end (1095, 1124; `BlocksCounted`, `PtrIdx`), after
which a shrinking file removes other blocks than those past its new end; readdir
skips entries (883; `MissesBounded`); `O_RDONLY` is 0, so `refs_open` always asks for `R_OK`
(1464; `req_mode`); the permissions of several classes add up (657; `ClassesAgree`).

## 4. Proofs

All theorems are about every value of the constants that the named assumptions
allow: `ByteBitsAssumption`, `LayoutAssumption` (whole bytes in the inode bitmap, whole
blocks in the inode table: true of 1024 inodes, 8 bits, 16 per block),
`RefsAssumption`, `FileBlocksAssumption` (the pointers and the pad of an inode reach every
block of the disk: 10 direct pointers, 2 indirect ones and 15 words of pad with 512 each, for
2492 blocks; and the number of blocks fits the int, 2^31 - 1), and those of `Directory` and `Access`; TLC
evaluates each of them. What the theorems about `BitmapPool` and
`Namespace` need of their constants (`NValid \in Nat`, a root among the inodes) is their
hypothesis, since those modules are instantiated: `TreeIsNamespace` and the theorems
after it discharge it for `Refs`.

* `BitmapLemmas!FirstUnsetBit`: the answer of the scan for every set of bits. It rests
  on `LeastIsMin`, that a non-empty set of naturals has a least element.
  `BitmapProofs` derives `PoolTypes` ([]`PoolTypeOK`), `ReservationsAreFresh` and
  `FullPoolsSignal`; the type invariant is inductive and says that what was
  handed out and not given back has its bit set, which `ReservationsAreFresh` needs.
* `RefsProofs!RegionsAreDisjoint`: superblock, bitmaps, inode table and data blocks
  never overlap. The lemmas bound rounded divisions; the key fact is that
  `imap_blocks` is computed from *bits* rounded up to a block, more than the bytes the
  bitmap is written with. `InodePastTheEnd`: a full inode bitmap answers exactly
  `NumInodes`, whose block is the first of the data bitmap - the fact `write_inode` of
  `Refs` uses.
* `NamespaceProofs!TreeInvariant`: `TreeInv` is inductive: types, the root in its place, every
  parent a directory in the tree, names unique - each once `ok`. The four need
  each other: that `Unlink` keeps parents alive needs that only childless nodes go,
  that `Link` does not disturb the root needs that it only takes absent inodes.
  `NoOrphans`, `NoDuplicateNames` and `RootRemains` follow.
* `RefsProofs!TypeInvariant` and `TypeCorrect` (`Spec => []TypeOK`): in every behaviour,
  healthy or not, an index that an allocator answers is at most the slot after the
  inode table, or a padding bit or the block after the data region, and every pointer
  and every directory entry stays within these. (The types include the slot and the
  blocks past the end: the code uses them.)
  `TypeOK` alone is not inductive: `EntryInSlot` stores `call.name` as a name of the tree,
  and the type of `call` also allows the name of a call that adds nothing. `TypeInv`
  adds that a call between its beginning and its entry carries one of `Names`.
  That a pointer or a block index is in range uses `FirstUnsetBit`.

### The inductive invariant of `Refs`

`RefsCallProofs!InductiveInvariant` proves `Spec => []IInv`, for every layout, any
set of names and sizes, any number of crashes, and with no bound on the length of a
behaviour. None of `TreeOnDisk`, `NoSharedBlocks`, `UsedIsMarked` or `SizeBacked` is
inductive: each speaks of the disk or of the time between calls, and follows only
from what memory, disk and the call in progress have to do with each other.
`IInv` is `TypeInv /\ MakeInv /\ (Healthy => CoreInv)`, and `CoreInv` has these parts:

| Part | Says | Why it is needed |
|---|---|---|
| `PlaceInv` | the promised parents are directories of the tree | a new entry goes to a directory |
| `MemInv` | in memory, every inode in use has its index as number, its own blocks, and marks for all of them; a directory has one block that lists its children once each | what a lookup finds is the promised child; a reservation is nobody's block |
| `DiskInv` | of what memory holds, what is already on the disk: kinds and blocks of the tree's inodes, their marks, the marks of directory blocks (not of file blocks) | a crash keeps only the disk |
| `DownInv` | the same of a disk without a process | a mount reads it back into memory |
| `AddInv` | of a call that adds an inode: which of its writes are done | the write of the entry may publish it |
| `RemoveInv` | a call that removes an inode has taken it from the tree first | releasing its blocks hurts nobody |
| `SizeInv`, `BackedInv` | of a resize: how many blocks are still to come or go | the count ends where the new size needs it |

`MakeInv` holds in every file system, healthy or not: until mkfs has written the
superblock nothing can be mounted. `Own` is the set the ownership of blocks is
stated for: the tree's inodes and the one a call is adding or removing. Faults
only ever grow (`FaultsStay`), so a step that ends healthy began healthy, and a
step that meets a limit needs no proof.

The proof has a lemma for every action: mkfs, mount, stop and the writes that calls
share in `RefsProofs`, the calls' own steps in `RefsCallProofs`; most lemmas have a
step per part of `CoreInv`. From `IInv` follow:

* `DiskHoldsTree` (`TreeOnDisk`): `DiskInv` or `DownInv` turn the memory's tree into the disk's.
* `BlocksNotShared` (`NoSharedBlocks`), `UsedMarked` (`UsedIsMarked`), `SizesBacked` (`SizeBacked`).
* `BlocksStayHome` (`WritesStayHome`): a block written is just reserved or belongs to the
  directory or file of the call.
* `RefsImplementsNamespace` (`ImplementsNamespace`): under `IInv` each step of `Refs` is a
  `Link`, an `Unlink` or a stutter of `Namespace` (`TreeMoves`); past a limit `Namespace`
  promises nothing (`Broken`).
* `EntriesHaveParents` (`ParentsAreLive`), `NamesStayUnique` (`NamesUnique`): proved once, about
  `Namespace`, where the tree is small; `RefsCallProofs` instantiates `NamespaceProofs`
  (`Tree`) and carries both over along `RefsImplementsNamespace`.

### Caches and link counts

`CountInv` says, of a healthy file system, which writes a call still owes the disk
(`Unsaved`, `Lagging`) and which link counts are ahead of or behind the tree (`Owed`); it
is inductive together with `IInv` (`CountsAndCaches`). Between calls nothing is owed:
that is `WriteThrough` (`CachesAreWritten`) and `LinkDrift` (`LinkCountsDrift`). The second
needs that a link adds one child to one directory and an unlink takes one, and
arithmetic modulo `LinkLimit`: a count that is near one number is near the next one
after one more step or one more crash.

### The blocks of files

`FileBlocksProofs!FilesInvariant` proves `Spec => []FilesInv`, for every number of
files, direct and indirect pointers, pad words, pointers per block, blocks, sizes and
widths of block numbers. `BlocksHaveOneUse` is not inductive: a step stores a pointer in a block, and
if that block were also a data block of a file, or a pointer block that another
file uses, the step would move pointers of others. `NothingLeaks` speaks of the time
between calls only. The parts of `FilesInv`:

| Part | Says | Why it is needed |
|---|---|---|
| `UseInv` | no two positions of files lead to the same block, no two pointer blocks are the same, none of them is a data block; the bitmap marks these and the block in hand | a pointer stored goes where it changes no other, a free block is nobody's |
| `View`, `Reserved` | the inodes as the step that counts the new block will leave them; the block reserved and not yet pointed to | a block is reserved, pointed to and counted in three steps: each of them moves a block from one set to the next |
| `CallInv` | the arguments and locals of the call in each of its steps | the filled and the written blocks are blocks of the file |
| `NarrowInv` | only the call that makes a size wide goes on with one | of every other size the int is the number of its block |
| `CountInv` | blocks of the file and turns of the loop that are left, together, make the blocks of the new size, or of the int of its block (`LastOf`) | the last turn ends at the count the size needs |
| `RoomInv` | the blocks still needed, pointer blocks included, fit the free ones | no step of the call meets a full bitmap (`Room` is checked once, when the call begins) |

Two lemmas carry the argument: `OneMoreUse` (storing the next pointer adds the block
it leads to and, with the first pointer of a pointer block, that block) and
`OneLessUse` (dropping the last one takes away exactly what `Freed` clears). Both rest on
where pointers are: `FirstPointer` (the first pointer of a pointer block is in none that
an earlier position has), `LaterPointer` (any other is in the one of its
predecessor), `SamePlace`. `PlacesFit` shows that no index leaves the pad, by
`OneMoreFits`: a file with as many blocks as the disk leaves none free. From the
invariant follow `FilesTypes`, `OneUseEach` (which counts pointer blocks with
`PointerBlockGroups`), `NothingIsLost` and `BlocksAreCounted`.

`ReadsGetTheBytes` (`ReadsAreRight`) adds the arithmetic of `do_read`: `PiecesCover` (every
byte of a read is in a piece) and `PiecesArePlaced` (a byte of a piece comes from the
block and place that the byte has in the file), over one, two or more blocks. It and
`BlocksAreCounted` are about files whose size is not wide: in the others the int of a
position's block is not its block. `IntBlocks` is the fact that in the first it is.

### The bytes of files

`FileBlocksProofs!BytesInvariant` proves `Spec => [](FilesInv /\ BytesInv)`, under the same
assumptions. `TornCallsStayLocal` is not inductive: it compares the disk in the middle
of a call with the file before it, and to know what a step does to these bytes one
has to know which block it writes, whether that block is still the file's, and how
far the call has come. The parts of `BytesInv`:

| Part | Says | Why it is needed |
|---|---|---|
| `DiskInv` | an inode on the disk has the size and the count of memory's and leads to the same blocks, up to that count | what a crash leaves is what memory sees; the pointer to a new pointer block reaches the disk only with the count (979-994), and leads to nothing counted until then |
| `NewBlockInv` | the block in hand is cleared; the new block is what the pointer just stored leads to | a block that becomes part of a file brings no bytes of another |
| `PlaceInv` | where the call is: the old size, the byte it fills from, the place in the file and in the buffer | the cells a step writes are those after the old end, or those of the caller's range |
| `BytesAsBefore` | what the call is not to write or cut is as it was before the call, unless its size has become wide (`Lost`) | the property, of every step |
| `BytesSoFar` | the bytes from the offset up to the place the loop has got to are the caller's | the last block completes the range |
| `HolesAreEmpty` | bytes between the old end and the offset are NUL or `0`, once the old last block is filled | the abstract write says what is in the hole |

Four lemmas carry the argument. `BytesStored`: a store into the block of one byte's
cell changes no other file and no other block of the same file, by `UseInv`. `BytesAreBacked`:
a byte below the size is in a block that is counted, except in a truncate that has
already removed it. `FillAfterEnd`: `fill` changes exactly the bytes of its block after
position `s`, the smaller of the two sizes; it leaves the byte at `s` (`holes`), which
is no byte that is kept. `WriteCells`: the first, middle and last blocks of a write store `Byte(k, call.buf)` at every byte `k` of their part of the range and
nothing elsewhere: it is the lemma about the two indexes that advance separately
(1178-1213). From these follow:

* `TornCallsAreLocal` (`TornCallsStayLocal`): other files by `OtherFilesStay`, the call's own by
  `BytesAsBefore`, both on the disk's inode by `DiskInv`.
* `FilesOfBytes` (`ImplementsByteFile`): the step to `reply` is the `Truncate` or `Write` of
  `ByteFile` (`TruncateMaps`, `WriteMaps`), every other step a stutter: what is seen of
  the call's file until then is `was` (`GoesOnUnseen`). A call that ends with a wide size
  sets the size and leaves the bytes open, and no byte of another file changes. A file that was truncated to
  nothing more often than its size explains may be `Loose`: it keeps a block and gets
  another when it grows (1095, 1124), so it has blocks past its end with bytes from
  before and grows into them without a fill. What is in its holes stays open in
  `ByteFile`; `LooseFile` is that exception in the invariant.

### Listings and permissions

`DirectoryProofs` counts the names that are *lost* to a listing (`Lost`: there all the
time, not listed yet, and numbered below the offset). Numbers of slots are distinct,
so a call loses at most the one that `num > offset` skips and a removal at most the
one that moves below the offset: `ListInv` is inductive, for names of any length
(`ListingMissesFew`). `OnceInv` adds that what was listed is numbered below the offset,
but for what was added since. `NothingListedTwice` has the hypothesis `LongNames = {}`:
a name of `MAX_PATH_LEN` characters may stop to answer to itself, be entered again
and so be listed twice, which `name_overflow` is about.

`AccessProofs`: `AccessGrantsPosix` (`ClassesAgree`) for all callers, ids and modes;
`OpenedIsUsable` (`OpenedCanBeUsed`) from an invariant on how the handle was got:
an opened one's file still grants its caller what its flags ask for, and a file that came
with its handle belongs to the caller.

TLC checked every invariant before it was proved: `IInv` and `CountInv` are invariants
of `refs_crash`. `ListInv`, `OnceInv`, `FilesInv` and `BytesInv` are defined beside their proofs; run TLC on
the proof module with the constants of `Directory.cfg` or `FileBlocks.cfg` and the
invariant's name to check them.

### Only model-checked

* Liveness: `CallReturns`, `ListingEnds`. TLAPS cannot reason about fairness.
* `ImplementsPool` and `BytesTypeOK`: the scan of `BitmapBytes` is a recursive function over
  the bytes and the masks are powers of two, which need induction over data. That
  the pool itself hands out fresh objects is proved (`ReservationsAreFresh`,
  `FullPoolsSignal`); the run `bitmap_bytes` checks it of the bytes.
* What `Refs` does past a limit is covered by `TypeCorrect` and by the run `refs_files`;
  after the inodes ran out (`"inodes"` is in no run's `Follow`) by `TypeCorrect` alone.

## 5. Not modelled

* getattr and fgetattr: they copy fields and change no state. Nor the attributes that
  readdir passes with a name (886-891): the kernel asks getattr again.
* Indirect blocks together with crashes, mounts and full bitmaps: `DirectOnly` excludes
  them from `Refs`, and `FileBlocks` looks at what a crash leaves on the disk but does
  not mount it. A directory has no indirect blocks in the code either.
* The kernel's own permission checks; removing a file that is open, for which FUSE
  calls a rename that ReFS does not implement.
* The characters of names, but for the terminator of one that is a character too
  long; such a name in the last slot of a block, where the terminator leaves the
  buffer on the stack; `path_len`, which nothing reads; `strdup` and `malloc` failing.
* Partial block transfers and I/O errors, which no caller looks at.
* The tests, scripts and the Makefile; FUSE itself, beyond one call at a time and the
  resolution of paths.

## 6. Plan

Done, in this order: bitmaps and their refinement; layout; the name tree; the core
with crashes; types, pool, layout and tree proved; the inductive invariant of the
core, and from it the tree on the disk, the ownership of blocks and the refinement;
the bytes of files, listings, permissions and long names, model-checked; the
theorems of the name tree carried over to the core; caches and link counts,
permissions, listings and the blocks of files proved; the bytes of files proved, in
crashes and as a refinement.

Next, most important first:

1. Mounting what a crash left of a file with indirect blocks.
2. The attributes that readdir and getattr hand on.
