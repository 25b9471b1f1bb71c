-------------------------- MODULE FileBlocksProofs --------------------------
(***************************************************************************)
(* The blocks of files, for every number of files, direct and indirect     *)
(* pointers, blocks and sizes: each has one use, none is lost, and a file  *)
(* has the ones its size needs.                                            *)
(*                                                                         *)
(* A block is reserved, pointed to and counted in separate steps.  The     *)
(* argument follows the inodes as the step that counts a block will leave  *)
(* them (View) and the block that is reserved and not pointed to yet       *)
(* (Reserved): the bitmap marks the blocks of the one and the other.       *)
(*                                                                         *)
(* The second half is about the bytes in the blocks: each step of a call   *)
(* keeps, in memory and on the disk, the bytes that are not to be written  *)
(* or cut, and every call is one step of a file of bytes (ByteFile), for   *)
(* files with a size whose block number an int holds.                      *)
(* Since every block has one use, a store to one block of a file changes   *)
(* no other byte of any file (BytesStored).  What remains is to know of    *)
(* each step which bytes of its block it changes, and how far the call is: *)
(* BytesInv.                                                               *)
(***************************************************************************)
EXTENDS FileBlocksProperties, BitmapLemmas, TLAPS

(***************************************************************************)
(* Pointers in the blocks b, as BlockPtr finds them in blk, and the places *)
(* of an inode that hold one.                                              *)
(***************************************************************************)
PtrAt(b, i, n) ==
    IF Indirect(n) THEN AsPointer(b[i.ptrs[index(n)]][offset(n)]) ELSE i.ptrs[n]

Count(i) == 0 .. i.blocks - 1
Held(i) == {n \in Count(i) : Indirect(n)}

UsedBy(b, i) == {i.ptrs[index(n)] : n \in Held(i)} \cup {PtrAt(b, i, n) : n \in Count(i)}
Used(b, t) == UNION {UsedBy(b, t[i]) : i \in Files}

(***************************************************************************)
(* One block, one use, in the blocks b and the inodes t.                   *)
(***************************************************************************)
OneUse(b, t) ==
    /\ \A i \in Files : t[i].blocks <= NumDataBlocks
    /\ 0 \notin Used(b, t)
    /\ \A i, j \in Files : \A n \in Count(t[i]), m \in Count(t[j]) :
          PtrAt(b, t[i], n) = PtrAt(b, t[j], m) => i = j /\ n = m
    /\ \A i, j \in Files : \A n \in Held(t[i]), m \in Held(t[j]) :
          t[i].ptrs[index(n)] = t[j].ptrs[index(m)] => i = j /\ index(n) = index(m)
    /\ \A i, j \in Files : \A n \in Count(t[i]), m \in Held(t[j]) :
          PtrAt(b, t[i], n) # t[j].ptrs[index(m)]

Counted(i, l) ==
    [i EXCEPT !.ptrs = IF Indirect(i.blocks) THEN @ ELSE [@ EXCEPT ![i.blocks] = l],
              !.blocks = @ + 1]

View == [i \in Files |-> IF pc = "point" /\ i = file THEN Counted(ino[i], call.lba)
                                                     ELSE ino[i]]
Reserved == IF pc = "point_indirect" THEN {call.lba} ELSE {}

UseInv ==
    /\ OneUse(blk, View)
    /\ Reserved \cap (Used(blk, View) \cup {0}) = {}
    /\ data_bitmap = {Bit(l) : l \in Used(blk, View) \cup Reserved}

(***************************************************************************)
(* The call: how many blocks it will leave, and how many it still needs.   *)
(***************************************************************************)
Adding == {"reserve", "point_indirect", "point"}
Resizing == Adding \cup {"fill", "remove", "set_size"}

BlocksFor(i) == emptied[i] + (IF ino[i].size = 0 THEN 0 ELSE (ino[i].size \div BlockSize) + 1)

(***************************************************************************)
(* The block with the end of the new size, as the int of refs.c:1085 has   *)
(* it; with a smaller one the file keeps its blocks.                       *)
(***************************************************************************)
LastOf(f, size) ==
    IF Growing(f, size) /\ IntBlock(size) < ino[f].size \div BlockSize
    THEN ino[f].size \div BlockSize ELSE IntBlock(size)

LastBlock == LastOf(file, call.size)
Target == emptied[file] + LastBlock + 1

Need(from, to) ==
    (to - from) + Cardinality({n \in from .. to - 1 : NeedsPointers(n)})

CallType ==
    [op : {"none", "truncate", "write"}, file : Files \cup {0}, size : Nat,
     at : Nat, n : Nat, buf : Buffers \cup {0}, lba : Lbas, idx : Nat, left : Nat,
     filled : BOOLEAN, written : Int]

CallInv ==
    /\ call \in CallType
    /\ pc # "reply" => call.written >= 0
    /\ pc = "idle" => call.file = 0
    /\ pc # "idle" => file \in Files /\ call.op # "none"
    /\ call.op = "write" => call.buf \in Buffers
    /\ IntBlock(call.at) >= 0
    /\ pc \in Resizing /\ call.op = "write" =>
          /\ Growing(file, call.size) /\ call.at + call.n = call.size
          /\ IntBlock(call.at) <= IntBlock(call.size)
    /\ pc \in Adding =>
          /\ Growing(file, call.size)
          /\ IF call.filled THEN call.left > 0 ELSE call.idx = 0
    /\ pc = "point_indirect" => Indirect(next)
    /\ pc = "fill" => call.idx < ino[file].blocks /\ ~call.filled
    /\ pc = "remove" => ~Growing(file, call.size) /\ call.filled /\ call.left > 0
    /\ pc = "set_size" => call.left = 0
    /\ pc = "write" =>
          /\ call.op = "write" /\ ino[file].size > 0
          /\ call.at + call.n <= ino[file].size
          /\ call.idx <= IntBlock(call.at + call.n)
          /\ IntBlock(call.at + call.n) < ino[file].blocks

(***************************************************************************)
(* Only the call that gives a file a wide size goes on with one.           *)
(***************************************************************************)
NarrowInv ==
    pc # "idle" => \A i \in Files :
        Wide(ino[i].size) => i = file /\ pc \in {"write", "reply"}

CountInv ==
    /\ \A i \in Files : (i # file \/ pc \in {"write", "reply"}) /\ ~Wide(ino[i].size) =>
          ino[i].blocks = BlocksFor(i)
    /\ pc \in Resizing =>
          IF Growing(file, call.size)
          THEN ino[file].blocks + call.left
                  + (IF pc \in Adding /\ ~call.filled THEN 1 ELSE 0) = Target
          ELSE ino[file].blocks = Target + call.left

RoomInv ==
    pc \in Adding \cup {"fill"} /\ Growing(file, call.size) =>
        (IF pc = "point_indirect"
         THEN Need(next + 1, Target) + (IF NeedsPointers(next) THEN 1 ELSE 0)
         ELSE Need(View[file].blocks, Target))
            + Cardinality(data_bitmap) <= NumDataBlocks

FilesInv == FilesTypeOK /\ UseInv /\ CallInv /\ NarrowInv /\ CountInv /\ RoomInv
-----------------------------------------------------------------------------
(***************************************************************************)
(* Where the n-th pointer of a file is (refs.c:978-985).                   *)
(***************************************************************************)
LEMMA Params ==
    /\ BlockSize \in Nat /\ BlockSize > 0
    /\ PtrsPerBlock \in Nat /\ PtrsPerBlock > 0 /\ PtrsPerBlock <= BlockSize
    /\ NumDirect \in Nat /\ NumDirect > 0
    /\ NumIndirect \in Nat /\ PadPointers \in Nat
    /\ NumDataBlocks \in Nat /\ NumDataBlocks > 0
    /\ NumDirect + (NumIndirect + PadPointers) * PtrsPerBlock >= NumDataBlocks
    /\ IntMax \in Nat
    /\ 0 \notin Files
  BY FileBlocksAssumption

(***************************************************************************)
(* The int of a block number is that number, unless the offset is wide     *)
(* (refs.c:1085-1086, 1181-1182).                                          *)
(***************************************************************************)
LEMMA IntBlocks ==
    ASSUME NEW n \in Nat
    PROVE  /\ n \div BlockSize \in Nat
           /\ IntBlock(n) \in Int
           /\ ~Wide(n) => IntBlock(n) = n \div BlockSize
           /\ \A m \in Nat : m <= n /\ ~Wide(n) => ~Wide(m)
  <1> DEFINE q == n \div BlockSize
             c == 2 * (IntMax + 1)
             r == q % c
             d == q \div c
  <1>1. q \in Nat
    BY Params, Division
  <1>2. c \in Nat \ {0} /\ IntMax \in Nat /\ IntMax < c
    BY Params
  <1>3. IntBlock(n) = IF r > IntMax THEN r - c ELSE r
    BY DEF IntBlock, ToInt
  <1>4. Wide(n) <=> q > IntMax
    BY DEF Wide
  <1>5. \A m \in Nat : m <= n => m \div BlockSize \in Nat /\ m \div BlockSize <= q
    BY Params, Division, DivisionIsMonotone
  <1> HIDE DEF q, c
  <1>6. r \in Nat /\ q = c * d + r /\ d \in Nat
    BY <1>1, <1>2
  <1>7. c * d = d * c
    BY <1>2, <1>6
  <1> HIDE DEF r, d
  <1>8. ASSUME q <= IntMax PROVE r = q
    <2>1. CASE d = 0
      BY <1>1, <1>2, <1>6, <2>1
    <2>2. CASE d > 0
      <3> DEFINE e == d - 1
      <3>1. e \in Nat /\ d = e + 1
        BY <1>6, <2>2
      <3> HIDE DEF e
      <3>2. d * c = e * c + c /\ e * c \in Nat
        BY <1>2, <3>1
      <3> QED BY <1>1, <1>2, <1>6, <1>7, <1>8, <3>2
    <2> QED BY <1>6, <2>1, <2>2
  <1>9. ASSUME ~Wide(n) PROVE IntBlock(n) = q
    BY <1>1, <1>2, <1>3, <1>4, <1>8, <1>9
  <1>10. IntBlock(n) \in Int
    BY <1>2, <1>3, <1>6
  <1>11. \A m \in Nat : m <= n /\ ~Wide(n) => ~Wide(m)
    BY <1>1, <1>2, <1>4, <1>5 DEF Wide
  <1> QED BY <1>1, <1>9, <1>10, <1>11 DEF q

LEMMA IndirectPlace ==
    ASSUME NEW n \in Nat, Indirect(n)
    PROVE  /\ index(n) \in Nat /\ index(n) >= NumDirect
           /\ (index(n) - NumDirect) * PtrsPerBlock \in Nat
           /\ offset(n) \in Nat /\ offset(n) < PtrsPerBlock
           /\ n = NumDirect + (index(n) - NumDirect) * PtrsPerBlock + offset(n)
  <1> DEFINE a == n - NumDirect
             q == a \div PtrsPerBlock
             r == a % PtrsPerBlock
  <1>1. a \in Nat /\ PtrsPerBlock \in Nat \ {0} /\ NumDirect \in Nat
    BY Params DEF Indirect
  <1>2. q \in Nat /\ q * PtrsPerBlock \in Nat
    <2> HIDE DEF a
    <2> QED BY <1>1, Division
  <1>3. a = PtrsPerBlock * q + r /\ r \in 0 .. PtrsPerBlock - 1
    <2> HIDE DEF a
    <2> QED BY <1>1
  <1>4. PtrsPerBlock * q = q * PtrsPerBlock
    BY <1>1, <1>2
  <1>5. index(n) = q + NumDirect /\ offset(n) = r
    BY DEF index, offset
  <1> HIDE DEF q, r
  <1>6. index(n) - NumDirect = q
    BY <1>1, <1>2, <1>5
  <1>7. n = NumDirect + q * PtrsPerBlock + r
    BY <1>1, <1>2, <1>3, <1>4 DEF a
  <1> QED BY <1>1, <1>2, <1>3, <1>5, <1>6, <1>7

LEMMA IndexIsMonotone ==
    ASSUME NEW n \in Nat, Indirect(n), NEW m \in Nat, n <= m
    PROVE  Indirect(m) /\ index(n) <= index(m)
  <1>1. /\ n - NumDirect \in Nat /\ m - NumDirect \in Nat
        /\ n - NumDirect <= m - NumDirect
        /\ PtrsPerBlock \in Nat \ {0} /\ NumDirect \in Nat /\ Indirect(m)
    BY Params DEF Indirect
  <1>2. (n - NumDirect) \div PtrsPerBlock <= (m - NumDirect) \div PtrsPerBlock
    BY <1>1, DivisionIsMonotone
  <1>3. /\ (n - NumDirect) \div PtrsPerBlock \in Nat
        /\ (m - NumDirect) \div PtrsPerBlock \in Nat
    BY <1>1, Division
  <1> QED BY <1>1, <1>2, <1>3 DEF index

LEMMA SamePlace ==
    ASSUME NEW n \in Nat, Indirect(n), NEW m \in Nat, Indirect(m),
           index(n) = index(m), offset(n) = offset(m)
    PROVE  n = m
  BY IndirectPlace

(***************************************************************************)
(* The first pointer of a pointer block is in one that no place before has *)
(* and any other in the one of the place before.                           *)
(***************************************************************************)
LEMMA FirstPointer ==
    ASSUME NEW m \in Nat, NeedsPointers(m), NEW n \in Nat, Indirect(n), n < m
    PROVE  index(n) < index(m)
  <1>1. Indirect(m) /\ offset(m) = 0
    BY DEF NeedsPointers
  <1>2. index(n) <= index(m) /\ index(n) \in Nat /\ index(m) \in Nat
    BY <1>1, IndexIsMonotone, IndirectPlace
  <1>3. ASSUME index(n) = index(m) PROVE FALSE
    <2> DEFINE p == (index(m) - NumDirect) * PtrsPerBlock
    <2>1. p \in Nat /\ m = NumDirect + p + 0
      BY <1>1, IndirectPlace
    <2>2. n = NumDirect + p + offset(n) /\ offset(n) \in Nat
      BY <1>3, IndirectPlace
    <2> HIDE DEF p
    <2> QED BY <2>1, <2>2, Params
  <1> QED BY <1>2, <1>3

LEMMA LaterPointer ==
    ASSUME NEW m \in Nat, Indirect(m), ~NeedsPointers(m)
    PROVE  m - 1 \in Nat /\ Indirect(m - 1) /\ index(m - 1) = index(m)
  <1> DEFINE p == index(m) - NumDirect
             q == index(m - 1) - NumDirect
  <1>1. /\ index(m) \in Nat /\ index(m) >= NumDirect /\ p * PtrsPerBlock \in Nat
        /\ m = NumDirect + p * PtrsPerBlock + offset(m)
        /\ offset(m) \in Nat /\ offset(m) < PtrsPerBlock /\ offset(m) > 0
    BY IndirectPlace DEF NeedsPointers
  <1>2. m - 1 \in Nat /\ Indirect(m - 1)
    <2> HIDE DEF p
    <2> QED BY <1>1, Params DEF Indirect
  <1>3. /\ index(m - 1) \in Nat /\ index(m - 1) >= NumDirect /\ q * PtrsPerBlock \in Nat
        /\ m - 1 = NumDirect + q * PtrsPerBlock + offset(m - 1)
        /\ offset(m - 1) \in Nat /\ offset(m - 1) < PtrsPerBlock
    BY <1>2, IndirectPlace
  <1>4. index(m - 1) <= index(m)
    BY <1>2, IndexIsMonotone
  <1>5. p \in Nat /\ q \in Nat
    BY <1>1, <1>3, Params
  <1> HIDE DEF p, q
  <1>6. p * PtrsPerBlock < q * PtrsPerBlock + PtrsPerBlock
    BY <1>1, <1>3, Params
  <1>7. p <= q
    BY <1>5, <1>6, Params, SmallerFactor
  <1>8. index(m) \in Nat /\ index(m - 1) \in Nat
    BY <1>1, <1>3
  <1>9. index(m) - NumDirect <= index(m - 1) - NumDirect
    BY <1>7 DEF p, q
  <1>10. index(m) = index(m - 1)
    BY <1>4, <1>8, <1>9, Params
  <1> QED BY <1>2, <1>10

(***************************************************************************)
(* Every block of the disk has a place in the pad of one inode.            *)
(***************************************************************************)
LEMMA PlacesFit ==
    ASSUME NEW n \in Nat, n < NumDataBlocks
    PROVE  /\ Indirect(n) => index(n) \in PtrIdx /\ index(n) >= NumDirect
                             /\ offset(n) \in Cells
           /\ ~Indirect(n) => n \in PtrIdx /\ n < NumDirect
  <1>1. ASSUME Indirect(n)
        PROVE  index(n) \in PtrIdx /\ index(n) >= NumDirect /\ offset(n) \in Cells
    <2> DEFINE p == index(n) - NumDirect
               k == NumIndirect + PadPointers
               d == k - 1
    <2>1. /\ index(n) \in Nat /\ index(n) >= NumDirect /\ p * PtrsPerBlock \in Nat
          /\ n = NumDirect + p * PtrsPerBlock + offset(n)
          /\ offset(n) \in Nat /\ offset(n) < PtrsPerBlock
      BY <1>1, IndirectPlace
    <2>2. p \in Nat /\ k \in Nat
      BY <2>1, Params
    <2>3. k * PtrsPerBlock \in Nat /\ p * PtrsPerBlock < k * PtrsPerBlock
      <3> HIDE DEF p, k
      <3>1. k * PtrsPerBlock \in Nat
        BY <2>2, Params
      <3>2. NumDirect + k * PtrsPerBlock >= NumDataBlocks
        BY Params DEF k
      <3> QED BY <2>1, <3>1, <3>2, Params
    <2>4. k > 0
      <3> HIDE DEF p
      <3>1. ASSUME k = 0 PROVE FALSE
        <4>1. k * PtrsPerBlock = 0
          BY <3>1, Params
        <4> QED BY <2>1, <2>3, <4>1
      <3> QED BY <2>2, <3>1
    <2>5. d \in Nat /\ k = d + 1
      BY <2>2, <2>4
    <2> HIDE DEF p, k, d
    <2>6. k * PtrsPerBlock = d * PtrsPerBlock + PtrsPerBlock
      BY <2>5, Params
    <2>7. p <= d
      BY <2>2, <2>3, <2>5, <2>6, Params, SmallerFactor
    <2>8. index(n) <= NumDirect + NumIndirect + PadPointers - 1
      BY <2>1, <2>2, <2>5, <2>7, Params DEF p, k, d
    <2>9. index(n) \in PtrIdx
      BY <2>1, <2>8, Params DEF PtrIdx
    <2>10. offset(n) \in Cells
      BY <2>1, Params DEF Cells
    <2> QED BY <2>1, <2>9, <2>10
  <1>2. ASSUME ~Indirect(n) PROVE n \in PtrIdx /\ n < NumDirect
    BY <1>2, Params DEF Indirect, PtrIdx
  <1> QED BY <1>1, <1>2
-----------------------------------------------------------------------------
(***************************************************************************)
(* What stays, comes and goes when a pointer is stored or dropped.         *)
(***************************************************************************)
Blocks == [Lbas -> [Cells -> Cell]]
Inodes == [Files -> InodeType]

LEMMA Uses ==
    ASSUME NEW b, NEW t
    PROVE  /\ \A i \in Files : \A n \in Count(t[i]) : PtrAt(b, t[i], n) \in Used(b, t)
           /\ \A i \in Files : \A n \in Held(t[i]) : t[i].ptrs[index(n)] \in Used(b, t)
           /\ \A l \in Used(b, t) :
                 \/ \E i \in Files : \E n \in Count(t[i]) : l = PtrAt(b, t[i], n)
                 \/ \E i \in Files : \E n \in Held(t[i]) : l = t[i].ptrs[index(n)]
  BY DEF Used, UsedBy

LEMMA PlaceTypes ==
    ASSUME NEW t \in Inodes, NEW i \in Files
    PROVE  /\ t[i].blocks \in Nat /\ t[i].size \in Nat
           /\ t[i].ptrs \in [PtrIdx -> Lbas]
           /\ Count(t[i]) \subseteq Nat /\ Held(t[i]) \subseteq Count(t[i])
           /\ \A n \in Held(t[i]) : Indirect(n)
           /\ \A n \in Nat : n < t[i].blocks <=> n \in Count(t[i])
  <1>1. t[i] \in InodeType
    BY DEF Inodes
  <1>2. /\ t[i].blocks \in Nat /\ t[i].size \in Nat
        /\ t[i].ptrs \in [PtrIdx -> Lbas]
    BY <1>1 DEF InodeType
  <1> QED BY <1>2 DEF Count, Held

LEMMA PointersOnDisk ==
    ASSUME NEW b \in Blocks, NEW t \in Inodes, NEW i \in Files,
           t[i].blocks <= NumDataBlocks
    PROVE  /\ \A n \in Held(t[i]) : t[i].ptrs[index(n)] \in Lbas
           /\ \A n \in Count(t[i]) : PtrAt(b, t[i], n) \in Lbas
  <1>1. ASSUME NEW n \in Count(t[i])
        PROVE  /\ Indirect(n) => t[i].ptrs[index(n)] \in Lbas /\ offset(n) \in Cells
               /\ ~Indirect(n) => t[i].ptrs[n] \in Lbas
    <2>1. n \in Nat /\ n < NumDataBlocks
      BY PlaceTypes, Params
    <2> QED BY <2>1, PlacesFit, PlaceTypes
  <1>2. \A c \in Cell : AsPointer(c) \in Lbas
    BY Params DEF Cell, AsPointer, Nul, Zero, Lbas
  <1>3. ASSUME NEW n \in Count(t[i]) PROVE PtrAt(b, t[i], n) \in Lbas
    <2>1. CASE Indirect(n)
      <3>1. b[t[i].ptrs[index(n)]][offset(n)] \in Cell
        BY <1>1, <2>1 DEF Blocks
      <3> QED BY <1>2, <2>1, <3>1 DEF PtrAt
    <2>2. CASE ~Indirect(n)
      BY <1>1, <2>2 DEF PtrAt
    <2> QED BY <2>1, <2>2
  <1>4. \A n \in Held(t[i]) : t[i].ptrs[index(n)] \in Lbas
    BY <1>1, PlaceTypes
  <1> QED BY <1>3, <1>4

LEMMA UsedOnDisk ==
    ASSUME NEW b \in Blocks, NEW t \in Inodes, OneUse(b, t)
    PROVE  Used(b, t) \subseteq 1 .. NumDataBlocks
  <1>1. Used(b, t) \subseteq Lbas
    BY Uses, PointersOnDisk DEF OneUse
  <1>2. 0 \notin Used(b, t)
    BY DEF OneUse
  <1>3. \A l \in Lbas : l # 0 => l \in 1 .. NumDataBlocks
    BY Params DEF Lbas
  <1> QED BY <1>1, <1>2, <1>3

(***************************************************************************)
(* While a block is free, no file has all of them.                         *)
(***************************************************************************)
LEMMA OneMoreFits ==
    ASSUME NEW b \in Blocks, NEW t \in Inodes, OneUse(b, t), NEW i \in Files,
           NEW l \in 1 .. NumDataBlocks, l \notin Used(b, t)
    PROVE  t[i].blocks < NumDataBlocks
  <1> DEFINE S == 1 .. NumDataBlocks
             T == S \ {l}
             f == [n \in Count(t[i]) |-> PtrAt(b, t[i], n)]
  <1>1. t[i].blocks \in Nat /\ NumDataBlocks \in Nat
    BY PlaceTypes, Params
  <1>2. f \in Injection(Count(t[i]), T)
    <2>1. \A n \in Count(t[i]) : PtrAt(b, t[i], n) \in T
      BY Uses, UsedOnDisk
    <2>2. \A n, m \in Count(t[i]) : PtrAt(b, t[i], n) = PtrAt(b, t[i], m) => n = m
      BY DEF OneUse
    <2>3. f \in [Count(t[i]) -> T]
      BY <2>1
    <2>4. IsInjective(f)
      BY <2>2 DEF IsInjective
    <2> QED BY <2>3, <2>4 DEF Injection
  <1>3. IsFiniteSet(S) /\ Cardinality(S) = NumDataBlocks
    <2>1. 1 \in Int /\ NumDataBlocks \in Int
      BY <1>1
    <2>2. IsFiniteSet(S) /\ Cardinality(S) = IF 1 > NumDataBlocks THEN 0 ELSE NumDataBlocks - 1 + 1
      BY <2>1, FS_Interval
    <2> QED BY <1>1, <2>2, Params
  <1>4. IsFiniteSet(T) /\ Cardinality(T) = NumDataBlocks - 1
    BY <1>3, FS_RemoveElement
  <1>5. Cardinality(Count(t[i])) <= NumDataBlocks - 1
    <2> HIDE DEF f, T
    <2> QED BY <1>2, <1>4, FS_Injection
  <1>6. Cardinality(Count(t[i])) = t[i].blocks
    <2>1. 0 \in Int /\ t[i].blocks - 1 \in Int
      BY <1>1
    <2>2. Cardinality(Count(t[i])) = IF 0 > t[i].blocks - 1 THEN 0 ELSE t[i].blocks - 1 - 0 + 1
      BY <2>1, FS_Interval DEF Count
    <2> QED BY <1>1, <2>2
  <1> QED BY <1>1, <1>5, <1>6

LEMMA Fewer ==
    ASSUME NEW b, NEW t \in Inodes, OneUse(b, t), NEW c, NEW u \in Inodes,
           \A i \in Files :
              /\ u[i].blocks <= t[i].blocks
              /\ \A n \in Count(u[i]) : PtrAt(c, u[i], n) = PtrAt(b, t[i], n)
              /\ \A n \in Held(u[i]) : u[i].ptrs[index(n)] = t[i].ptrs[index(n)]
    PROVE  OneUse(c, u) /\ Used(c, u) \subseteq Used(b, t)
  <1>1. ASSUME NEW i \in Files
        PROVE  Count(u[i]) \subseteq Count(t[i]) /\ Held(u[i]) \subseteq Held(t[i])
    <2>1. u[i].blocks <= t[i].blocks /\ u[i].blocks \in Nat /\ t[i].blocks \in Nat
      BY PlaceTypes
    <2> QED BY <2>1 DEF Count, Held
  <1>2. ASSUME NEW l \in Used(c, u) PROVE l \in Used(b, t)
    <2>1. ASSUME NEW i \in Files, NEW n \in Count(u[i]), l = PtrAt(c, u[i], n)
          PROVE  l \in Used(b, t)
      <3>1. l = PtrAt(b, t[i], n) /\ n \in Count(t[i])
        BY <1>1, <2>1
      <3> QED BY <3>1, Uses
    <2>2. ASSUME NEW i \in Files, NEW n \in Held(u[i]), l = u[i].ptrs[index(n)]
          PROVE  l \in Used(b, t)
      <3>1. l = t[i].ptrs[index(n)] /\ n \in Held(t[i])
        BY <1>1, <2>2
      <3> QED BY <3>1, Uses
    <2> QED BY <2>1, <2>2, Uses
  <1>3. \A i \in Files : u[i].blocks <= NumDataBlocks
    <2>1. ASSUME NEW i \in Files PROVE u[i].blocks <= NumDataBlocks
      <3>1. /\ u[i].blocks \in Nat /\ t[i].blocks \in Nat /\ NumDataBlocks \in Nat
            /\ u[i].blocks <= t[i].blocks
        BY PlaceTypes, Params
      <3>2. t[i].blocks <= NumDataBlocks
        BY DEF OneUse
      <3> QED BY <3>1, <3>2
    <2> QED BY <2>1
  <1>4. 0 \notin Used(c, u)
    BY <1>2 DEF OneUse
  <1>5. \A i, j \in Files : \A n \in Count(u[i]), m \in Count(u[j]) :
            PtrAt(c, u[i], n) = PtrAt(c, u[j], m) => i = j /\ n = m
    BY <1>1 DEF OneUse
  <1>6. \A i, j \in Files : \A n \in Held(u[i]), m \in Held(u[j]) :
            u[i].ptrs[index(n)] = u[j].ptrs[index(m)] => i = j /\ index(n) = index(m)
    BY <1>1 DEF OneUse
  <1>7. \A i, j \in Files : \A n \in Count(u[i]), m \in Held(u[j]) :
            PtrAt(c, u[i], n) # u[j].ptrs[index(m)]
    BY <1>1 DEF OneUse
  <1>8. Used(c, u) \subseteq Used(b, t)
    BY <1>2
  <1> QED BY <1>3, <1>4, <1>5, <1>6, <1>7, <1>8 DEF OneUse

LEMMA Same ==
    ASSUME NEW b, NEW t \in Inodes, OneUse(b, t), NEW c, NEW u \in Inodes,
           \A i \in Files :
              /\ u[i].blocks = t[i].blocks
              /\ \A n \in Count(t[i]) : PtrAt(c, u[i], n) = PtrAt(b, t[i], n)
              /\ \A n \in Held(t[i]) : u[i].ptrs[index(n)] = t[i].ptrs[index(n)]
    PROVE  OneUse(c, u) /\ Used(c, u) = Used(b, t)
  <1>1. \A i \in Files : /\ u[i].blocks <= t[i].blocks
                         /\ Count(u[i]) = Count(t[i]) /\ Held(u[i]) = Held(t[i])
    BY PlaceTypes DEF Count, Held
  <1>2. OneUse(c, u) /\ Used(c, u) \subseteq Used(b, t)
    BY <1>1, Fewer
  <1>3. Used(b, t) \subseteq Used(c, u)
    BY <1>1, Uses
  <1> QED BY <1>2, <1>3

(***************************************************************************)
(* Writing a block that holds no pointers moves none.                      *)
(***************************************************************************)
LEMMA OtherBlocks ==
    ASSUME NEW b \in Blocks, NEW t \in Inodes, OneUse(b, t), NEW l, NEW x,
           \A i \in Files : \A n \in Held(t[i]) : t[i].ptrs[index(n)] # l
    PROVE  LET c == [b EXCEPT ![l] = x] IN OneUse(c, t) /\ Used(c, t) = Used(b, t)
  <1> DEFINE c == [b EXCEPT ![l] = x]
  <1>1. ASSUME NEW i \in Files, NEW n \in Count(t[i])
        PROVE  PtrAt(c, t[i], n) = PtrAt(b, t[i], n)
    <2>1. CASE Indirect(n)
      <3>1. n \in Held(t[i]) /\ t[i].ptrs[index(n)] \in Lbas
        BY <2>1, PointersOnDisk DEF Held, OneUse
      <3>2. c[t[i].ptrs[index(n)]] = b[t[i].ptrs[index(n)]]
        BY <3>1 DEF Blocks
      <3> QED BY <3>2 DEF PtrAt
    <2>2. CASE ~Indirect(n)
      BY <2>2 DEF PtrAt
    <2> QED BY <2>1, <2>2
  <1> HIDE DEF c
  <1>2. OneUse(c, t) /\ Used(c, t) = Used(b, t)
    BY <1>1, Same
  <1> QED BY <1>2 DEF c

(***************************************************************************)
(* The blocks that come with the n-th pointer and go with it: the block it *)
(* leads to and, if it is the first in its pointer block, that one.        *)
(***************************************************************************)
With(b, i, n) ==
    {PtrAt(b, i, n)} \cup {i.ptrs[index(m)] : m \in {k \in {n} : NeedsPointers(k)}}

LEMMA OneMoreUse ==
    ASSUME NEW b, NEW t \in Inodes, OneUse(b, t), NEW c, NEW u \in Inodes, NEW f \in Files,
           t[f].blocks < NumDataBlocks,
           \A i \in Files :
              /\ u[i].blocks = IF i = f THEN t[i].blocks + 1 ELSE t[i].blocks
              /\ \A n \in Count(t[i]) : PtrAt(c, u[i], n) = PtrAt(b, t[i], n)
              /\ \A n \in Held(t[i]) : u[i].ptrs[index(n)] = t[i].ptrs[index(n)],
           With(c, u[f], t[f].blocks) \cap (Used(b, t) \cup {0}) = {},
           NeedsPointers(t[f].blocks) =>
              u[f].ptrs[index(t[f].blocks)] # PtrAt(c, u[f], t[f].blocks)
    PROVE  /\ OneUse(c, u)
           /\ Used(c, u) = Used(b, t) \cup With(c, u[f], t[f].blocks)
  <1> DEFINE B == t[f].blocks
             l == PtrAt(c, u[f], B)
             p == u[f].ptrs[index(B)]
  <1>1. /\ B \in Nat /\ B < NumDataBlocks /\ NumDataBlocks \in Nat
        /\ l \notin Used(b, t) /\ l # 0
        /\ NeedsPointers(B) => p \notin Used(b, t) /\ p # 0 /\ p # l
    BY PlaceTypes, Params DEF With
  <1>2. \A i \in Files : Count(u[i]) = Count(t[i]) \cup {n \in {B} : i = f}
    <2>1. ASSUME NEW i \in Files
          PROVE  Count(u[i]) = Count(t[i]) \cup {n \in {B} : i = f}
      <3>1. CASE i = f
        <4>1. u[i].blocks = B + 1 /\ t[i].blocks = B
          BY <3>1
        <4> HIDE DEF B
        <4> QED BY <1>1, <3>1, <4>1 DEF Count
      <3>2. CASE i # f
        BY <3>2 DEF Count
      <3> QED BY <3>1, <3>2
    <2> QED BY <2>1
  <1>3. B \notin Count(t[f]) /\ B \in Count(u[f]) /\ (NeedsPointers(B) => B \in Held(u[f]))
    BY <1>1, <1>2, PlaceTypes DEF Held, NeedsPointers
  <1>4. ASSUME NEW i \in Files, NEW n \in Held(u[i])
        PROVE  \/ i = f /\ n = B /\ NeedsPointers(B)
               \/ \E m \in Held(t[i]) :
                     index(m) = index(n) /\ u[i].ptrs[index(n)] = t[i].ptrs[index(m)]
    <2>1. CASE n \in Held(t[i])
      BY <2>1
    <2>2. CASE i = f /\ n = B /\ ~NeedsPointers(B)
      <3>1. Indirect(B)
        BY <2>2, PlaceTypes
      <3>2. B - 1 \in Nat /\ Indirect(B - 1) /\ index(B - 1) = index(B)
        BY <1>1, <2>2, <3>1, LaterPointer
      <3>3. B - 1 \in Held(t[f])
        BY <1>1, <3>2, PlaceTypes DEF Held
      <3> QED BY <2>2, <3>2, <3>3
    <2> QED BY <1>2, <2>1, <2>2 DEF Held
  <1> HIDE DEF B, l, p
  <1>5. ASSUME NEW i \in Files, NEW n \in Count(u[i])
        PROVE  \/ i = f /\ n = B /\ PtrAt(c, u[i], n) = l
               \/ n \in Count(t[i]) /\ PtrAt(c, u[i], n) = PtrAt(b, t[i], n)
                     /\ PtrAt(c, u[i], n) \in Used(b, t)
    <2>1. CASE n \in Count(t[i])
      BY <2>1, Uses
    <2>2. CASE i = f /\ n = B
      BY <2>2 DEF l
    <2> QED BY <1>2, <2>1, <2>2
  <1>6. ASSUME NEW i \in Files, NEW n \in Held(u[i])
        PROVE  \/ i = f /\ n = B /\ NeedsPointers(B) /\ u[i].ptrs[index(n)] = p
               \/ \E m \in Held(t[i]) :
                     /\ index(m) = index(n) /\ u[i].ptrs[index(n)] = t[i].ptrs[index(m)]
                     /\ u[i].ptrs[index(n)] \in Used(b, t)
    BY <1>4, Uses DEF p
  <1>7. Used(c, u) \subseteq Used(b, t) \cup With(c, u[f], B)
    <2>1. ASSUME NEW x \in Used(c, u) PROVE x \in Used(b, t) \cup With(c, u[f], B)
      <3>1. l \in With(c, u[f], B) /\ (NeedsPointers(B) => p \in With(c, u[f], B))
        BY DEF With, l, p
      <3>2. CASE \E i \in Files : \E n \in Count(u[i]) : x = PtrAt(c, u[i], n)
        BY <1>5, <3>1, <3>2
      <3>3. CASE \E i \in Files : \E n \in Held(u[i]) : x = u[i].ptrs[index(n)]
        BY <1>6, <3>1, <3>3
      <3> QED BY <3>2, <3>3, Uses
    <2> QED BY <2>1
  <1>8. Used(b, t) \cup With(c, u[f], B) \subseteq Used(c, u)
    <2>1. ASSUME NEW x \in Used(b, t) PROVE x \in Used(c, u)
      <3>1. \A i \in Files : Count(t[i]) \subseteq Count(u[i]) /\ Held(t[i]) \subseteq Held(u[i])
        BY <1>2 DEF Held
      <3>2. ASSUME NEW i \in Files, NEW n \in Count(t[i]), x = PtrAt(b, t[i], n)
            PROVE  x \in Used(c, u)
        <4>1. x = PtrAt(c, u[i], n) /\ n \in Count(u[i])
          BY <3>1, <3>2
        <4> QED BY <4>1, Uses
      <3>3. ASSUME NEW i \in Files, NEW n \in Held(t[i]), x = t[i].ptrs[index(n)]
            PROVE  x \in Used(c, u)
        <4>1. x = u[i].ptrs[index(n)] /\ n \in Held(u[i])
          BY <3>1, <3>3
        <4> QED BY <4>1, Uses
      <3> QED BY <3>2, <3>3, Uses
    <2>2. l \in Used(c, u) /\ (NeedsPointers(B) => p \in Used(c, u))
      BY <1>3, Uses DEF l, p
    <2>3. With(c, u[f], B) \subseteq Used(c, u)
      BY <2>2 DEF With, l, p
    <2> QED BY <2>1, <2>3
  <1>9. OneUse(c, u)
    <2>1. ASSUME NEW i \in Files PROVE u[i].blocks <= NumDataBlocks
      <3>1. t[i].blocks <= NumDataBlocks /\ t[f].blocks = B
        BY DEF OneUse, B
      <3>2. u[i].blocks = IF i = f THEN B + 1 ELSE t[i].blocks
        BY DEF B
      <3> QED BY <1>1, <3>1, <3>2
    <2>2. 0 \notin Used(c, u)
      <3>1. 0 \notin With(c, u[f], B)
        BY DEF B
      <3> QED BY <1>7, <3>1 DEF OneUse
    <2>3. \A i, j \in Files : \A n \in Count(u[i]), m \in Count(u[j]) :
              PtrAt(c, u[i], n) = PtrAt(c, u[j], m) => i = j /\ n = m
      BY <1>1, <1>5 DEF OneUse
    <2>4. ASSUME NEW i \in Files, NEW j \in Files, NEW n \in Held(u[i]), NEW m \in Held(u[j]),
                 u[i].ptrs[index(n)] = u[j].ptrs[index(m)]
          PROVE  i = j /\ index(n) = index(m)
      <3>1. CASE i = f /\ n = B /\ NeedsPointers(B) /\ u[i].ptrs[index(n)] = p
        BY <1>1, <1>6, <2>4, <3>1
      <3>2. CASE j = f /\ m = B /\ NeedsPointers(B) /\ u[j].ptrs[index(m)] = p
        BY <1>1, <1>6, <2>4, <3>2
      <3>3. ASSUME NEW k \in Held(t[i]), NEW h \in Held(t[j]),
                   index(k) = index(n), u[i].ptrs[index(n)] = t[i].ptrs[index(k)],
                   index(h) = index(m), u[j].ptrs[index(m)] = t[j].ptrs[index(h)]
            PROVE  i = j /\ index(n) = index(m)
        <4>1. t[i].ptrs[index(k)] = t[j].ptrs[index(h)]
          BY <2>4, <3>3
        <4>2. i = j /\ index(k) = index(h)
          BY <4>1 DEF OneUse
        <4> QED BY <3>3, <4>2
      <3> QED BY <1>6, <3>1, <3>2, <3>3
    <2>5. ASSUME NEW i \in Files, NEW j \in Files, NEW n \in Count(u[i]), NEW m \in Held(u[j]),
                 PtrAt(c, u[i], n) = u[j].ptrs[index(m)]
          PROVE  FALSE
      <3>1. CASE i = f /\ n = B /\ PtrAt(c, u[i], n) = l
        BY <1>1, <1>6, <2>5, <3>1
      <3>2. CASE j = f /\ m = B /\ NeedsPointers(B) /\ u[j].ptrs[index(m)] = p
        BY <1>1, <1>5, <2>5, <3>2
      <3>3. ASSUME n \in Count(t[i]), PtrAt(c, u[i], n) = PtrAt(b, t[i], n),
                   NEW h \in Held(t[j]), u[j].ptrs[index(m)] = t[j].ptrs[index(h)]
            PROVE  FALSE
        <4>1. PtrAt(b, t[i], n) = t[j].ptrs[index(h)]
          BY <2>5, <3>3
        <4> QED BY <3>3, <4>1 DEF OneUse
      <3> QED BY <1>5, <1>6, <3>1, <3>2, <3>3
    <2> QED BY <2>1, <2>2, <2>3, <2>4, <2>5 DEF OneUse
  <1> QED BY <1>7, <1>8, <1>9 DEF B

LEMMA OneLessUse ==
    ASSUME NEW b, NEW t \in Inodes, OneUse(b, t), NEW u \in Inodes, NEW f \in Files,
           t[f].blocks > 0,
           \A i \in Files :
              /\ u[i].blocks = IF i = f THEN t[i].blocks - 1 ELSE t[i].blocks
              /\ u[i].ptrs = t[i].ptrs
    PROVE  /\ OneUse(b, u)
           /\ Used(b, u) = Used(b, t) \ With(b, t[f], t[f].blocks - 1)
  <1> DEFINE B == t[f].blocks - 1
             l == PtrAt(b, t[f], B)
             p == t[f].ptrs[index(B)]
  <1>1. B \in Nat /\ t[f].blocks = B + 1
    BY PlaceTypes
  <1>2. \A i \in Files : Count(t[i]) = Count(u[i]) \cup {n \in {B} : i = f}
    <2>1. ASSUME NEW i \in Files
          PROVE  Count(t[i]) = Count(u[i]) \cup {n \in {B} : i = f}
      <3>1. CASE i = f
        <4>1. u[i].blocks = B /\ t[i].blocks = B + 1
          BY <1>1, <3>1
        <4> HIDE DEF B
        <4> QED BY <1>1, <3>1, <4>1 DEF Count
      <3>2. CASE i # f
        BY <3>2 DEF Count
      <3> QED BY <3>1, <3>2
    <2> QED BY <2>1
  <1>3. B \notin Count(u[f]) /\ B \in Count(t[f]) /\ (Indirect(B) => B \in Held(t[f]))
    <2>1. u[f].blocks = B
      BY <1>1
    <2> QED BY <1>1, <1>2, <2>1 DEF Count, Held
  <1> HIDE DEF B, l, p
  <1>4. ASSUME NEW i \in Files
        PROVE  /\ \A n : PtrAt(b, u[i], n) = PtrAt(b, t[i], n)
               /\ Count(u[i]) \subseteq Count(t[i]) /\ Held(u[i]) \subseteq Held(t[i])
               /\ u[i].blocks <= t[i].blocks
    <2>1. u[i].blocks \in Nat /\ t[i].blocks \in Nat
      BY PlaceTypes
    <2> QED BY <1>2, <2>1 DEF PtrAt, Held
  <1>5. OneUse(b, u) /\ Used(b, u) \subseteq Used(b, t)
    BY <1>4, Fewer
  <1>6. ASSUME NEW x \in Used(b, u) PROVE x \notin With(b, t[f], B)
    <2>1. ASSUME NEW i \in Files, NEW n \in Count(u[i]), x = PtrAt(b, u[i], n)
          PROVE  x # l /\ (NeedsPointers(B) => x # p)
      <3>1. n \in Count(t[i]) /\ x = PtrAt(b, t[i], n) /\ ~(i = f /\ n = B)
        BY <1>3, <1>4, <2>1
      <3>2. x # l
        BY <1>3, <3>1 DEF OneUse, l
      <3>3. NeedsPointers(B) => x # p
        BY <1>3, <3>1 DEF OneUse, p, NeedsPointers
      <3> QED BY <3>2, <3>3
    <2>2. ASSUME NEW i \in Files, NEW n \in Held(u[i]), x = u[i].ptrs[index(n)]
          PROVE  x # l /\ (NeedsPointers(B) => x # p)
      <3>1. n \in Held(t[i]) /\ x = t[i].ptrs[index(n)]
        BY <1>4, <2>2
      <3>2. x # l
        BY <1>3, <3>1 DEF OneUse, l
      <3>3. ASSUME NeedsPointers(B), x = p PROVE FALSE
        <4>1. i = f /\ index(n) = index(B)
          <5>1. B \in Held(t[f]) /\ t[i].ptrs[index(n)] = t[f].ptrs[index(B)]
            BY <1>3, <3>1, <3>3 DEF p, NeedsPointers
          <5> QED BY <3>1, <5>1 DEF OneUse
        <4>2. n \in Nat /\ n < B /\ Indirect(n)
          <5>1. n \in Count(u[f]) /\ u[f].blocks = B /\ Indirect(n)
            BY <1>1, <4>1, PlaceTypes
          <5> QED BY <1>1, <5>1, PlaceTypes
        <4>3. index(n) < index(B) /\ index(n) \in Nat
          BY <1>1, <3>3, <4>2, FirstPointer, IndirectPlace
        <4> QED BY <4>1, <4>3
      <3> QED BY <3>2, <3>3
    <2> QED BY <2>1, <2>2, Uses DEF With, l, p
  <1>7. ASSUME NEW x \in Used(b, t), x \notin With(b, t[f], B) PROVE x \in Used(b, u)
    <2>1. x # l /\ (NeedsPointers(B) => x # p)
      BY <1>7 DEF With, l, p
    <2>2. ASSUME NEW i \in Files, NEW n \in Count(t[i]), x = PtrAt(b, t[i], n)
          PROVE  x \in Used(b, u)
      <3>1. n \in Count(u[i]) /\ x = PtrAt(b, u[i], n)
        BY <1>2, <1>4, <2>1, <2>2 DEF l
      <3> QED BY <3>1, Uses
    <2>3. ASSUME NEW i \in Files, NEW n \in Held(t[i]), x = t[i].ptrs[index(n)]
          PROVE  x \in Used(b, u)
      <3>1. CASE n \in Held(u[i])
        BY <2>3, <3>1, Uses
      <3>2. CASE n \notin Held(u[i])
        <4>1. i = f /\ n = B /\ Indirect(B)
          BY <1>2, <2>3, <3>2 DEF Held
        <4>2. ~NeedsPointers(B)
          BY <2>1, <2>3, <4>1 DEF p
        <4>3. B - 1 \in Nat /\ Indirect(B - 1) /\ index(B - 1) = index(B)
          BY <1>1, <4>1, <4>2, LaterPointer
        <4>4. B - 1 \in Held(u[f])
          <5>1. u[f].blocks = B
            BY <1>1
          <5>2. B - 1 < u[f].blocks
            BY <1>1, <5>1
          <5>3. B - 1 \in Count(u[f])
            BY <4>3, <5>2, PlaceTypes
          <5> QED BY <4>3, <5>3 DEF Held
        <4>5. x = u[f].ptrs[index(B - 1)]
          BY <2>3, <4>1, <4>3
        <4> QED BY <4>4, <4>5, Uses
      <3> QED BY <3>1, <3>2
    <2> QED BY <2>2, <2>3, Uses
  <1>8. Used(b, u) = Used(b, t) \ With(b, t[f], B)
    BY <1>5, <1>6, <1>7
  <1> QED BY <1>5, <1>8 DEF B
-----------------------------------------------------------------------------
(***************************************************************************)
(* How many blocks a file of so many has with its pointer blocks.          *)
(***************************************************************************)
LEMMA PointerBlockGroups ==
    ASSUME NEW B \in Nat
    PROVE  /\ NumPointerBlocks(B) \in Nat
           /\ {index(n) : n \in {m \in 0 .. B - 1 : Indirect(m)}} =
                 NumDirect .. NumDirect + NumPointerBlocks(B) - 1
  <1> DEFINE G == {index(n) : n \in {m \in 0 .. B - 1 : Indirect(m)}}
             K == NumPointerBlocks(B)
  <1>1. CASE B <= NumDirect
    <2>1. K = 0
      BY <1>1 DEF NumPointerBlocks
    <2>2. {m \in 0 .. B - 1 : Indirect(m)} = {}
      BY <1>1, Params DEF Indirect
    <2>3. G = {}
      BY <2>2
    <2>4. NumDirect .. NumDirect + 0 - 1 = {}
      BY Params
    <2> QED BY <2>1, <2>3, <2>4
  <1>2. CASE ~(B <= NumDirect)
    <2> DEFINE a == B - 1 - NumDirect
               q == a \div PtrsPerBlock
               r == (a + PtrsPerBlock) \div PtrsPerBlock
    <2>1. a \in Nat /\ B - 1 \in Nat /\ Indirect(B - 1) /\ PtrsPerBlock \in Nat \ {0}
      BY <1>2, Params DEF Indirect
    <2>2. K = r
      <3>1. (B - NumDirect) + (PtrsPerBlock - 1) = a + PtrsPerBlock
        BY <1>2, Params
      <3> QED BY <1>2, <3>1 DEF NumPointerBlocks
    <2>3. /\ q \in Nat /\ q * PtrsPerBlock \in Nat
          /\ q * PtrsPerBlock <= a /\ a < q * PtrsPerBlock + PtrsPerBlock
      <3> HIDE DEF a
      <3> QED BY <2>1, Division
    <2>4. /\ r \in Nat /\ r * PtrsPerBlock \in Nat
          /\ r * PtrsPerBlock <= a + PtrsPerBlock
          /\ a + PtrsPerBlock < r * PtrsPerBlock + PtrsPerBlock
      <3> HIDE DEF a
      <3> QED BY <2>1, Division
    <2>5. index(B - 1) = q + NumDirect
      BY DEF index
    <2> HIDE DEF q, r, a, K
    <2>6. r = q + 1
      <3>1. /\ (q + 1) * PtrsPerBlock = q * PtrsPerBlock + PtrsPerBlock
            /\ (q + 1) \in Nat
        BY <2>1, <2>3
      <3>2. r <= q + 1
        <4>1. r * PtrsPerBlock < (q + 1) * PtrsPerBlock + PtrsPerBlock
          BY <2>1, <2>3, <2>4, <3>1
        <4> QED BY <2>1, <2>4, <3>1, <4>1, SmallerFactor
      <3>3. q + 1 <= r
        <4>1. (q + 1) * PtrsPerBlock < r * PtrsPerBlock + PtrsPerBlock
          BY <2>1, <2>3, <2>4, <3>1
        <4> QED BY <2>1, <2>4, <3>1, <4>1, SmallerFactor
      <3> QED BY <2>3, <2>4, <3>2, <3>3
    <2>7. ASSUME NEW n \in 0 .. B - 1, Indirect(n)
          PROVE  index(n) \in NumDirect .. NumDirect + q
      <3>1. n \in Nat /\ n <= B - 1
        BY <2>1
      <3>2. index(n) <= index(B - 1) /\ index(n) \in Nat /\ index(n) >= NumDirect
        BY <2>1, <2>7, <3>1, IndexIsMonotone, IndirectPlace
      <3> QED BY <2>3, <2>5, <3>2, Params
    <2>8. ASSUME NEW k \in NumDirect .. NumDirect + q
          PROVE  \E n \in 0 .. B - 1 : Indirect(n) /\ index(n) = k
      <3> DEFINE j == k - NumDirect
                 n == NumDirect + j * PtrsPerBlock
      <3>1. j \in Nat /\ j <= q /\ k = j + NumDirect
        BY <2>3, Params
      <3> HIDE DEF j
      <3>2. j * PtrsPerBlock \in Nat /\ j * PtrsPerBlock <= q * PtrsPerBlock
        BY <2>1, <2>3, <3>1
      <3>3. n \in Nat /\ n <= B - 1 /\ Indirect(n) /\ n - NumDirect = j * PtrsPerBlock
        BY <2>1, <2>3, <3>2, Params DEF a, Indirect
      <3>4. index(n) = k
        <4>1. (j * PtrsPerBlock) \div PtrsPerBlock = j
          BY <2>1, <3>1, DivisionIsExact
        <4> QED BY <3>1, <3>3, <4>1 DEF index
      <3> HIDE DEF n
      <3>5. n \in 0 .. B - 1
        BY <2>1, <3>3
      <3> QED BY <3>3, <3>4, <3>5
    <2>9. G = NumDirect .. NumDirect + q
      BY <2>7, <2>8
    <2>10. NumDirect + K - 1 = NumDirect + q /\ K \in Nat
      BY <2>2, <2>3, <2>4, <2>6, Params
    <2> QED BY <2>9, <2>10 DEF K
  <1> QED BY <1>1, <1>2

LEMMA IntervalSize ==
    ASSUME NEW from \in Nat, NEW n \in Nat
    PROVE  IsFiniteSet(from .. from + n - 1) /\ Cardinality(from .. from + n - 1) = n
  <1> DEFINE e == from + n - 1
  <1>1. from \in Int /\ e \in Int
    OBVIOUS
  <1> HIDE DEF e
  <1>2. IsFiniteSet(from .. e) /\ Cardinality(from .. e) = IF from > e THEN 0 ELSE e - from + 1
    BY <1>1, FS_Interval
  <1> QED BY <1>2 DEF e

LEMMA UsesAreCounted ==
    ASSUME NEW b, NEW t \in Inodes, OneUse(b, t), NEW i \in Files
    PROVE  /\ IsFiniteSet(UsedBy(b, t[i]))
           /\ Cardinality(UsedBy(b, t[i])) =
                 t[i].blocks + NumPointerBlocks(t[i].blocks)
  <1> DEFINE B == t[i].blocks
             K == NumPointerBlocks(B)
             D == {PtrAt(b, t[i], n) : n \in Count(t[i])}
             H == {t[i].ptrs[index(n)] : n \in Held(t[i])}
             G == NumDirect .. NumDirect + K - 1
             f == [n \in Count(t[i]) |-> PtrAt(b, t[i], n)]
             g == [k \in G |-> t[i].ptrs[k]]
  <1>1. B \in Nat /\ K \in Nat /\ G = {index(n) : n \in Held(t[i])}
    BY PlaceTypes, PointerBlockGroups DEF Held, Count
  <1>2. IsFiniteSet(Count(t[i])) /\ Cardinality(Count(t[i])) = B
    <2>1. 0 \in Int /\ B - 1 \in Int
      BY <1>1
    <2>2. /\ IsFiniteSet(Count(t[i]))
          /\ Cardinality(Count(t[i])) = IF 0 > B - 1 THEN 0 ELSE B - 1 - 0 + 1
      BY <2>1, FS_Interval DEF Count
    <2> HIDE DEF B
    <2> QED BY <1>1, <2>2
  <1>3. IsFiniteSet(G) /\ Cardinality(G) = K
    <2> HIDE DEF K
    <2> QED BY <1>1, Params, IntervalSize
  <1>4. IsFiniteSet(D) /\ Cardinality(D) = B
    <2>1. f \in Surjection(Count(t[i]), D)
      BY DEF Surjection
    <2>2. \A n, m \in Count(t[i]) : PtrAt(b, t[i], n) = PtrAt(b, t[i], m) => n = m
      BY DEF OneUse
    <2>3. f \in Injection(Count(t[i]), D)
      BY <2>2 DEF Injection, IsInjective
    <2> HIDE DEF f, D
    <2> QED BY <1>2, <2>1, <2>3, FS_Surjection
  <1>5. IsFiniteSet(H) /\ Cardinality(H) = K
    <2>1. H = {t[i].ptrs[k] : k \in G}
      BY <1>1
    <2>2. g \in Surjection(G, H)
      <3> HIDE DEF G, H
      <3> QED BY <2>1 DEF Surjection
    <2>3. \A k, h \in G : t[i].ptrs[k] = t[i].ptrs[h] => k = h
      <3>1. \A n, m \in Held(t[i]) : t[i].ptrs[index(n)] = t[i].ptrs[index(m)]
                                        => index(n) = index(m)
        BY DEF OneUse
      <3> HIDE DEF G
      <3> QED BY <1>1, <3>1
    <2>4. g \in Injection(G, H)
      <3> HIDE DEF G, H
      <3> QED BY <2>1, <2>3 DEF Injection, IsInjective
    <2> HIDE DEF g, G, H
    <2> QED BY <1>3, <2>2, <2>4, FS_Surjection
  <1>6. D \cap H = {}
    BY DEF OneUse
  <1>7. UsedBy(b, t[i]) = D \cup H
    BY DEF UsedBy
  <1> HIDE DEF D, H, K, B
  <1>8. IsFiniteSet(D \cup H) /\ Cardinality(D \cup H) = B + K - Cardinality({})
    BY <1>4, <1>5, <1>6, FS_Union
  <1> QED BY <1>1, <1>7, <1>8, FS_EmptySet DEF B, K

(***************************************************************************)
(* The blocks that a call still needs, one reservation at a time.          *)
(***************************************************************************)
LEMMA NeedLess ==
    ASSUME NEW from \in Nat, NEW to \in Nat, from < to
    PROVE  /\ Need(from, to) \in Nat /\ Need(from + 1, to) \in Nat
           /\ Need(from, to) =
                 Need(from + 1, to) + 1 + (IF NeedsPointers(from) THEN 1 ELSE 0)
  <1> DEFINE S == {n \in from .. to - 1 : NeedsPointers(n)}
             T == {n \in from + 1 .. to - 1 : NeedsPointers(n)}
  <1>1. IsFiniteSet(T)
    <2>1. from + 1 \in Int /\ to - 1 \in Int
      OBVIOUS
    <2>2. IsFiniteSet(from + 1 .. to - 1) /\ T \in SUBSET (from + 1 .. to - 1)
      BY <2>1, FS_Interval
    <2> QED BY <2>2, FS_Subset
  <1>2. from .. to - 1 = (from + 1 .. to - 1) \cup {from}
    OBVIOUS
  <1>3. from \notin T
    OBVIOUS
  <1>4. S = IF NeedsPointers(from) THEN T \cup {from} ELSE T
    BY <1>2
  <1> HIDE DEF S, T
  <1>5. /\ Cardinality(T) \in Nat
        /\ Cardinality(S) = Cardinality(T) + (IF NeedsPointers(from) THEN 1 ELSE 0)
    <2>1. Cardinality(T) \in Nat
      BY <1>1, FS_CardinalityType
    <2>2. Cardinality(T \cup {from}) = Cardinality(T) + 1
      BY <1>1, <1>3, FS_AddElement
    <2> QED BY <1>4, <2>1, <2>2
  <1>6. /\ Need(from, to) = (to - from) + Cardinality(S)
        /\ Need(from + 1, to) = (to - (from + 1)) + Cardinality(T)
    BY DEF Need, S, T
  <1> QED BY <1>5, <1>6
-----------------------------------------------------------------------------
(***************************************************************************)
(* What every step starts from.                                            *)
(***************************************************************************)
LEMMA CountedType ==
    ASSUME NEW i \in InodeType, NEW l \in Lbas
    PROVE  /\ Counted(i, l) \in InodeType
           /\ Counted(i, l).blocks = i.blocks + 1 /\ Counted(i, l).size = i.size
           /\ Counted(i, l).ptrs =
                 IF Indirect(i.blocks) THEN i.ptrs ELSE [i.ptrs EXCEPT ![i.blocks] = l]
  <1> DEFINE p == IF Indirect(i.blocks) THEN i.ptrs ELSE [i.ptrs EXCEPT ![i.blocks] = l]
             j == [i EXCEPT !.ptrs = p]
  <1>1. i \in [size : Nat, blocks : Nat, ptrs : [PtrIdx -> Lbas]]
    BY DEF InodeType
  <1>2. p \in [PtrIdx -> Lbas]
    <2>1. i.ptrs \in [PtrIdx -> Lbas]
      BY <1>1
    <2> QED BY <2>1
  <1>3. Counted(i, l) = [j EXCEPT !.blocks = @ + 1]
    BY DEF Counted
  <1> HIDE DEF p
  <1>4. j \in [size : Nat, blocks : Nat, ptrs : [PtrIdx -> Lbas]]
        /\ j.ptrs = p /\ j.size = i.size /\ j.blocks = i.blocks
    BY <1>1, <1>2
  <1> HIDE DEF j
  <1>5. /\ [j EXCEPT !.blocks = @ + 1] \in [size : Nat, blocks : Nat, ptrs : [PtrIdx -> Lbas]]
        /\ [j EXCEPT !.blocks = @ + 1].blocks = j.blocks + 1
        /\ [j EXCEPT !.blocks = @ + 1].size = j.size
        /\ [j EXCEPT !.blocks = @ + 1].ptrs = j.ptrs
    BY <1>4
  <1> QED BY <1>3, <1>4, <1>5 DEF InodeType, p

LEMMA StateTypes ==
    ASSUME FilesTypeOK
    PROVE  /\ ino \in Inodes /\ d_ino \in Inodes /\ blk \in Blocks
           /\ View \in Inodes
           /\ pc # "point" => View = ino
           /\ \A i \in Files : pc # "point" \/ i # file => View[i] = ino[i]
           /\ IsFiniteSet(data_bitmap) /\ Cardinality(data_bitmap) \in Nat
  <1>1. ino \in Inodes /\ d_ino \in Inodes /\ blk \in Blocks
    BY DEF FilesTypeOK, Inodes, Blocks
  <1>2. ASSUME NEW i \in Files, NEW l \in Lbas PROVE Counted(ino[i], l) \in InodeType
    BY <1>1, CountedType DEF Inodes
  <1>3. call.lba \in Lbas
    BY DEF FilesTypeOK
  <1>4. View \in Inodes
    BY <1>1, <1>2, <1>3 DEF View, Inodes
  <1>5. /\ pc # "point" => View = ino
        /\ \A i \in Files : pc # "point" \/ i # file => View[i] = ino[i]
    BY <1>1 DEF View, Inodes
  <1>6. IsFiniteSet(data_bitmap) /\ Cardinality(data_bitmap) \in Nat
    <2>1. 0 \in Int /\ NumDataBlocks - 1 \in Int
      BY Params
    <2>2. IsFiniteSet(0 .. NumDataBlocks - 1)
      BY <2>1, FS_Interval
    <2>3. data_bitmap \in SUBSET (0 .. NumDataBlocks - 1)
      BY DEF FilesTypeOK
    <2> QED BY <2>2, <2>3, FS_Subset, FS_CardinalityType
  <1> QED BY <1>1, <1>4, <1>5, <1>6

(***************************************************************************)
(* A block that first_unset_bit finds is on the disk and of no file.       *)
(***************************************************************************)
LEMMA FreeBlock ==
    ASSUME FilesTypeOK, UseInv, Cardinality(data_bitmap) < NumDataBlocks
    PROVE  /\ next_block \in 0 .. NumDataBlocks - 1
           /\ Lba(next_block) \in 1 .. NumDataBlocks /\ Lba(next_block) \in Lbas
           /\ Lba(next_block) \notin Used(blk, View) \cup Reserved \cup {0}
           /\ Bit(Lba(next_block)) = next_block
           /\ Cardinality(data_bitmap \cup {next_block}) = Cardinality(data_bitmap) + 1
  <1>1. ~Exhausted(data_bitmap, NumDataBlocks)
    <2>1. SUFFICES ASSUME 0 .. NumDataBlocks - 1 \subseteq data_bitmap PROVE FALSE
      BY DEF Exhausted
    <2>2. 0 .. 0 + NumDataBlocks - 1 \in SUBSET data_bitmap
      BY <2>1, Params
    <2>3. Cardinality(0 .. 0 + NumDataBlocks - 1) = NumDataBlocks
      BY Params, IntervalSize
    <2>4. Cardinality(0 .. 0 + NumDataBlocks - 1) <= Cardinality(data_bitmap)
      BY <2>2, StateTypes, FS_Subset
    <2> QED BY <2>3, <2>4, StateTypes, Params
  <1>2. next_block \in Nat /\ next_block < NumDataBlocks /\ next_block \notin data_bitmap
    BY <1>1, Params, FirstUnsetBit DEF next_block
  <1> HIDE DEF next_block
  <1>3. /\ next_block \in 0 .. NumDataBlocks - 1
        /\ Lba(next_block) \in 1 .. NumDataBlocks /\ Lba(next_block) \in Lbas
        /\ Lba(next_block) # 0
        /\ Bit(Lba(next_block)) = next_block
    BY <1>2, Params DEF Lba, Bit, Lbas
  <1>4. Lba(next_block) \notin Used(blk, View) \cup Reserved
    BY <1>2, <1>3 DEF UseInv
  <1>5. Cardinality(data_bitmap \cup {next_block}) = Cardinality(data_bitmap) + 1
    BY <1>2, StateTypes, FS_AddElement
  <1> QED BY <1>3, <1>4, <1>5

(***************************************************************************)
(* A call's resize starts from a file that has the blocks of its size.     *)
(***************************************************************************)
LEMMA ResizeFacts ==
    ASSUME FilesInv, pc = "idle", NoneIsWide,
           NEW f \in Files, NEW size \in Nat, ino[f].size # size
    PROVE  LET old == ino[f].size \div BlockSize
               new == LastOf(f, size)
           IN  /\ old \in Nat /\ new \in Nat /\ ino[f].size \in Nat /\ emptied[f] \in Nat
               /\ Growing(f, size) => old <= new
               /\ ~Growing(f, size) => new <= old /\ ino[f].size > 0
               /\ ino[f].size = 0 => old = 0
               /\ ino[f].blocks = emptied[f] + (IF ino[f].size = 0 THEN 0 ELSE old + 1)
               /\ Resize(f, size).idx = IF Growing(f, size) THEN old ELSE new
               /\ Resize(f, size).left = IF Growing(f, size) THEN new - old ELSE old - new
               /\ ~Growing(f, size) => ~Wide(size)
               /\ ~Wide(size) => new = size \div BlockSize
  <1> DEFINE old == ino[f].size \div BlockSize
             int == IntBlock(size)
             new == LastOf(f, size)
  <1>1. /\ ino[f].size \in Nat /\ emptied[f] \in Nat
        /\ BlockSize \in Nat \ {0}
    BY StateTypes, PlaceTypes, Params DEF FilesInv, FilesTypeOK
  <1>2. ~Wide(ino[f].size)
    BY DEF NoneIsWide
  <1>3. ino[f].blocks = BlocksFor(f)
    <2>1. f # file
      BY Params DEF FilesInv, CallInv, file
    <2> QED BY <1>2, <2>1 DEF FilesInv, CountInv
  <1>4. /\ old \in Nat /\ size \div BlockSize \in Nat /\ int \in Int
        /\ IntBlock(ino[f].size) = old
        /\ ~Wide(size) => int = size \div BlockSize
    BY <1>1, <1>2, IntBlocks
  <1>5. Growing(f, size) => old <= size \div BlockSize
    BY <1>1, DivisionIsMonotone DEF Growing
  <1>6. ~Growing(f, size) => size \div BlockSize <= old /\ ino[f].size > 0 /\ ~Wide(size)
    <2>1. ~Growing(f, size) => size <= ino[f].size /\ ino[f].size > 0
      BY <1>1 DEF Growing
    <2>2. size <= ino[f].size => size \div BlockSize <= old /\ ~Wide(size)
      BY <1>1, <1>2, DivisionIsMonotone, IntBlocks
    <2> QED BY <2>1, <2>2
  <1>7. ino[f].size = 0 => old = 0
    BY <1>1
  <1>8. new = IF Growing(f, size) /\ int < old THEN old ELSE int
    BY DEF LastOf
  <1>9. /\ Resize(f, size).idx = IF Growing(f, size) THEN old ELSE int
        /\ Resize(f, size).left = IF Growing(f, size) THEN Turns(old, int) ELSE Turns(int, old)
    BY <1>4 DEF Resize, NoCall
  <1> HIDE DEF old, int, new
  <1>10. /\ new \in Nat
         /\ Growing(f, size) => old <= new /\ Turns(old, int) = new - old
         /\ ~Growing(f, size) => new = int /\ new <= old /\ Turns(int, old) = old - new
         /\ ~Wide(size) => new = size \div BlockSize
    BY <1>4, <1>5, <1>6, <1>8 DEF Turns
  <1> QED BY <1>1, <1>3, <1>4, <1>6, <1>7, <1>9, <1>10 DEF BlocksFor, old, new

(***************************************************************************)
(* A call begins: whatever it does, the files have not changed yet.        *)
(***************************************************************************)
LEMMA BeginUses ==
    ASSUME FilesInv, pc \notin {"point", "point_indirect"},
           pc' \notin {"point", "point_indirect"},
           UNCHANGED <<ino, data_bitmap, blk>>
    PROVE  UseInv'
  <1>1. View = ino /\ View' = ino
    <2>1. View = ino
      BY StateTypes DEF FilesInv
    <2>2. View' = [i \in Files |-> ino[i]]
      BY DEF View
    <2>3. ino = [i \in Files |-> ino[i]]
      BY DEF FilesInv, FilesTypeOK
    <2> QED BY <2>1, <2>2, <2>3
  <1>2. Reserved = {} /\ Reserved' = {}
    BY DEF Reserved
  <1> QED BY <1>1, <1>2 DEF FilesInv, UseInv

LEMMA BeginResize ==
    ASSUME FilesInv, pc = "idle", NoneIsWide, NEW f \in Files, NEW size \in Nat, ino[f].size # size,
           Room(f, size),
           call' \in CallType, call'.file = f, call'.size = size, ~call'.filled,
           call'.idx = Resize(f, size).idx, call'.left = Resize(f, size).left,
           call'.written = 0, call'.op \in {"truncate", "write"},
           IntBlock(call'.at) >= 0,
           call'.op = "write" => call'.buf \in Buffers /\ Growing(f, size)
                                 /\ call'.at + call'.n = size
                                 /\ IntBlock(call'.at) <= IntBlock(size),
           pc' = ResizeStep(f, size),
           UNCHANGED <<ino, d_ino, data_bitmap, blk, emptied>>
    PROVE  FilesInv'
  <1> DEFINE old == ino[f].size \div BlockSize
             new == LastOf(f, size)
  <1>1. /\ old \in Nat /\ new \in Nat /\ ino[f].size \in Nat /\ emptied[f] \in Nat
        /\ Growing(f, size) => old <= new
        /\ ~Growing(f, size) => new <= old /\ ino[f].size > 0
        /\ ino[f].size = 0 => old = 0
        /\ ino[f].blocks = emptied[f] + (IF ino[f].size = 0 THEN 0 ELSE old + 1)
    BY ResizeFacts
  <1>2. /\ call'.idx = IF Growing(f, size) THEN old ELSE new
        /\ call'.left = IF Growing(f, size) THEN new - old ELSE old - new
    BY ResizeFacts
  <1>3. /\ Growing(file, call.size)' = Growing(f, size)
        /\ file' = f /\ ino' = ino /\ View' = ino
        /\ Target' = emptied[f] + new + 1
        /\ pc' = IF Growing(f, size) /\ ino[f].size = 0 THEN "reserve" ELSE "fill"
    <2>1. View' = [i \in Files |-> ino[i]]
      BY DEF View, ResizeStep
    <2>2. View' = ino
      BY <2>1 DEF FilesInv, FilesTypeOK
    <2>3. LastBlock' = new
      BY DEF LastBlock, LastOf, Growing, file
    <2> HIDE DEF new
    <2> QED BY <2>2, <2>3 DEF Growing, file, Target, ResizeStep
  <1>4. ino[f].size < size <=> Growing(f, size)
    BY DEF Growing
  <1>5. RoomInv'
    <2> DEFINE from == ino[f].blocks
               to == emptied[f] + new + 1
    <2>1. SUFFICES ASSUME Growing(f, size)
                   PROVE  Need(from, to) + Cardinality(data_bitmap) <= NumDataBlocks
      BY <1>3 DEF RoomInv, next
    <2>2. /\ from \in Nat /\ to \in Nat /\ from <= to
          /\ to = from + new - old + (IF ino[f].size = 0 THEN 1 ELSE 0)
      <3> HIDE DEF old, new
      <3> QED BY <1>1, <2>1
    <2> HIDE DEF from, to
    <2>3. /\ Cardinality(from .. to - 1) + Cardinality({n \in from .. to - 1 : NeedsPointers(n)})
                + Cardinality(data_bitmap) <= NumDataBlocks
      <3>1. from + Resize(f, size).left + (IF ino[f].size = 0 THEN 1 ELSE 0) = to
        <4>1. Resize(f, size).left = new - old
          BY <2>1, ResizeFacts
        <4> HIDE DEF old, new
        <4> QED BY <1>1, <2>2, <4>1
      <3> QED BY <2>1, <3>1 DEF Room, from
    <2>4. Cardinality(from .. to - 1) = to - from
      <3>1. to - from \in Nat /\ from + (to - from) - 1 = to - 1
        BY <2>2
      <3> QED BY <2>2, <3>1, IntervalSize
    <2> QED BY <2>3, <2>4 DEF Need
  <1> HIDE DEF old, new
  <1>6. FilesTypeOK'
    BY DEF FilesInv, FilesTypeOK, CallType, ResizeStep, Steppers
  <1>7. UseInv'
    <2>1. pc' \notin {"point", "point_indirect"}
      BY <1>3
    <2> QED BY <2>1, BeginUses
  <1>8. CallInv'
    <2>1. pc' = "fill" => call'.idx < ino[f].blocks
      BY <1>1, <1>2, <1>3, <1>4
    <2>2. pc' = "reserve" => call'.idx = 0 /\ Growing(f, size)
      BY <1>1, <1>2, <1>3
    <2>3. pc' \in {"fill", "reserve"}
      BY <1>3
    <2> QED BY <1>3, <2>1, <2>2, <2>3 DEF CallInv, Adding, Resizing
  <1>9. CountInv'
    <2>1. \A i \in Files : i # f => ino[i].blocks = BlocksFor(i)
      <3>1. \A i \in Files : i # file
        BY Params DEF FilesInv, CallInv, file
      <3> QED BY <3>1 DEF FilesInv, CountInv, NoneIsWide
    <2>2. IF Growing(f, size)
          THEN ino[f].blocks + call'.left + (IF pc' = "reserve" THEN 1 ELSE 0)
                  = emptied[f] + new + 1
          ELSE ino[f].blocks = emptied[f] + new + 1 + call'.left
      BY <1>1, <1>2, <1>3
    <2>3. pc' \in {"fill", "reserve"}
      BY <1>3
    <2>4. \A i \in Files : BlocksFor(i)' = BlocksFor(i)
      BY DEF BlocksFor
    <2> QED BY <1>3, <2>1, <2>2, <2>3, <2>4 DEF CountInv, Resizing, Adding
  <1>10. NarrowInv'
    BY <1>3 DEF NarrowInv, NoneIsWide, Wide
  <1> QED BY <1>5, <1>6, <1>7, <1>8, <1>9, <1>10 DEF FilesInv

LEMMA ResizeCall ==
    ASSUME FilesInv, pc = "idle", NoneIsWide, NEW f \in Files, NEW size \in Nat, ino[f].size # size
    PROVE  /\ Resize(f, size) \in CallType
           /\ Resize(f, size).file = f /\ Resize(f, size).size = size
           /\ ~Resize(f, size).filled /\ Resize(f, size).written = 0
           /\ Resize(f, size).at = 0
  <1> DEFINE old == ino[f].size \div BlockSize
             new == LastOf(f, size)
             i == Resize(f, size).idx
             l == Resize(f, size).left
  <1>1. /\ old \in Nat /\ new \in Nat
        /\ Growing(f, size) => old <= new
        /\ ~Growing(f, size) => new <= old
        /\ i = IF Growing(f, size) THEN old ELSE new
        /\ l = IF Growing(f, size) THEN new - old ELSE old - new
    BY ResizeFacts
  <1>2. Resize(f, size) = [NoCall EXCEPT !.file = f, !.size = size, !.idx = i, !.left = l]
    BY DEF Resize, NoCall
  <1> HIDE DEF old, new
  <1>3. i \in Nat /\ l \in Nat
    BY <1>1
  <1> HIDE DEF i, l
  <1> DEFINE a == [NoCall EXCEPT !.file = f, !.size = size]
  <1>4. 0 \in Lbas
    BY Params DEF Lbas
  <1>5. NoCall \in CallType /\ NoCall.filled = FALSE /\ NoCall.written = 0 /\ NoCall.at = 0
    BY <1>4 DEF CallType, NoCall
  <1>6. Resize(f, size) = [a EXCEPT !.idx = i, !.left = l]
    BY <1>2
  <1> HIDE DEF a
  <1>7. /\ a \in CallType
        /\ a.file = f /\ a.size = size /\ a.filled = FALSE /\ a.written = 0 /\ a.at = 0
    BY <1>5 DEF CallType, a
  <1> QED BY <1>3, <1>6, <1>7 DEF CallType

LEMMA FirstBlockIsZero == IntBlock(0) = 0
  <1>1. 0 \div BlockSize = 0 /\ IntMax \in Nat
    BY Params
  <1>2. ~Wide(0)
    BY <1>1 DEF Wide
  <1> QED BY <1>1, <1>2, IntBlocks

LEMMA TruncateBegins ==
    ASSUME FilesInv, NEW f \in Files, NEW size \in Sizes, refs_truncate(f, size)
    PROVE  FilesInv'
  <1>1. /\ size \in Nat /\ pc = "idle" /\ ino[f].size # size /\ Room(f, size)
        /\ call' = [Resize(f, size) EXCEPT !.op = "truncate"]
        /\ pc' = ResizeStep(f, size)
        /\ NoneIsWide /\ UNCHANGED <<ino, d_ino, data_bitmap, blk, emptied>>
    BY FileBlocksAssumption DEF refs_truncate
  <1> DEFINE r == Resize(f, size)
  <1>2. /\ r \in CallType /\ r.file = f /\ r.size = size /\ ~r.filled /\ r.written = 0
        /\ r.at = 0
    BY <1>1, ResizeCall
  <1> HIDE DEF r
  <1>3. call' = [r EXCEPT !.op = "truncate"]
    BY <1>1 DEF r
  <1>4. /\ call' \in CallType /\ call'.file = f /\ call'.size = size /\ ~call'.filled
        /\ call'.idx = r.idx /\ call'.left = r.left /\ call'.written = 0
        /\ call'.op = "truncate" /\ call'.at = 0
    BY <1>2, <1>3 DEF CallType
  <1>5. IntBlock(call'.at) >= 0
    BY <1>4, FirstBlockIsZero
  <1> QED BY <1>1, <1>4, <1>5, BeginResize DEF r

LEMMA WriteBegins ==
    ASSUME FilesInv, NEW f \in Files, NEW at \in Sizes, NEW end \in Sizes, NEW buf \in Buffers,
           refs_write(f, at, end, buf)
    PROVE  FilesInv'
  <1>1. /\ at \in Nat /\ end \in Nat /\ at < end /\ end - at \in Nat
        /\ pc = "idle" /\ Room(f, end) /\ NoneIsWide /\ InOrder(at, end)
        /\ UNCHANGED <<ino, d_ino, data_bitmap, blk, emptied>>
    BY FileBlocksAssumption DEF refs_write
  <1>2. IntBlock(at) \in Nat /\ IntBlock(end) \in Int /\ IntBlock(at) <= IntBlock(end)
    <2>1. /\ at \div BlockSize \in Nat /\ end \div BlockSize \in Nat
          /\ at \div BlockSize <= end \div BlockSize
          /\ IntBlock(at) \in Int /\ IntBlock(end) \in Int
      BY <1>1, Params, IntBlocks, DivisionIsMonotone
    <2>2. /\ IntBlock(at) >= 0
          /\ IntBlock(end) - IntBlock(at) = (end \div BlockSize) - (at \div BlockSize)
      BY <1>1 DEF InOrder
    <2> QED BY <2>1, <2>2
  <1>3. ino[f].size \in Nat
    BY StateTypes, PlaceTypes DEF FilesInv
  <1>4. CASE Growing(f, end)
    <2> DEFINE r == Resize(f, end)
    <2>1. ino[f].size # end
      BY <1>1, <1>3, <1>4 DEF Growing
    <2>2. r \in CallType /\ r.file = f /\ r.size = end /\ ~r.filled /\ r.written = 0
      BY <1>1, <2>1, ResizeCall
    <2>3. /\ call' = [r EXCEPT !.op = "write", !.at = at, !.n = end - at, !.buf = buf,
                               !.idx = @]
          /\ pc' = ResizeStep(f, end)
      BY <1>4 DEF refs_write
    <2> HIDE DEF r
    <2>4. /\ call' \in CallType /\ call'.file = f /\ call'.size = end /\ ~call'.filled
          /\ call'.idx = r.idx /\ call'.left = r.left /\ call'.written = 0
          /\ call'.op = "write" /\ call'.buf = buf /\ call'.at = at /\ call'.n = end - at
      BY <1>1, <2>2, <2>3 DEF CallType
    <2>5. at + (end - at) = end
      BY <1>1
    <2> QED BY <1>1, <1>2, <1>4, <2>1, <2>3, <2>4, <2>5, BeginResize DEF r
  <1>5. CASE ~Growing(f, end)
    <2>1. /\ call' = [[NoCall EXCEPT !.file = f]
                         EXCEPT !.op = "write", !.at = at, !.n = end - at, !.buf = buf,
                                !.idx = IntBlock(at)]
          /\ pc' = "write"
      BY <1>5 DEF refs_write
    <2> DEFINE first == IntBlock(at)
               n == end - at
    <2>2. call' = [op |-> "write", file |-> f, size |-> 0, at |-> at, n |-> n, buf |-> buf,
                   lba |-> 0, idx |-> first, left |-> 0, filled |-> FALSE, written |-> 0]
      BY <2>1 DEF NoCall
    <2>3. first \in Nat /\ n \in Nat /\ at + n = end
      BY <1>1, <1>2
    <2> HIDE DEF first, n
    <2>4. call' \in CallType
      <3>1. 0 \in Lbas
        BY Params DEF Lbas
      <3> QED BY <1>1, <2>2, <2>3, <3>1 DEF CallType
    <2>5. UseInv'
      BY <1>1, <2>1, BeginUses
    <2>6. FilesTypeOK'
      BY <1>1, <2>1, <2>4 DEF FilesInv, FilesTypeOK, CallType, Steppers
    <2>7. CallInv'
      <3>1. ino[f].size > 0 /\ end <= ino[f].size
        BY <1>1, <1>3, <1>5 DEF Growing
      <3>2. first \in Nat /\ IntBlock(end) \in Int /\ first <= IntBlock(end)
        BY <1>2 DEF first
      <3>3. /\ call'.op = "write" /\ call'.buf = buf /\ call'.written = 0
            /\ call'.at + call'.n = end /\ call'.idx = first /\ call'.file = f
            /\ call'.at = at
        BY <2>2, <2>3
      <3>4. file' = f /\ ino' = ino
        BY <1>1, <3>3 DEF file
      <3>5. IntBlock(call'.at) >= 0 /\ IntBlock(end) < ino[f].blocks
        <4>1. IntBlock(at) >= 0
          BY <3>2 DEF first
        <4>2. IntBlock(end) = end \div BlockSize /\ end \div BlockSize <= ino[f].size \div BlockSize
          BY <1>1, <1>3, <3>1, Params, IntBlocks, DivisionIsMonotone DEF NoneIsWide
        <4>3. /\ ino[f].blocks = emptied[f] + (ino[f].size \div BlockSize) + 1
              /\ ino[f].size \div BlockSize \in Nat /\ emptied[f] \in Nat
          <5>1. ino[f].blocks = BlocksFor(f) /\ f # file
            BY <1>1, Params DEF FilesInv, CallInv, CountInv, NoneIsWide, file
          <5>2. ino[f].size \div BlockSize \in Nat /\ emptied[f] \in Nat
            BY <1>3, IntBlocks DEF FilesInv, FilesTypeOK
          <5> QED BY <1>3, <3>1, <5>1, <5>2 DEF BlocksFor
        <4> QED BY <1>2, <3>3, <4>1, <4>2, <4>3
      <3> QED BY <1>1, <2>1, <2>4, <3>1, <3>2, <3>3, <3>4, <3>5 DEF CallInv, Adding, Resizing
    <2>8. CountInv'
      <3>1. \A i \in Files : ino[i].blocks = BlocksFor(i)
        <4>1. \A i \in Files : i # file
          BY <1>1, Params DEF FilesInv, CallInv, file
        <4> QED BY <1>1, <4>1 DEF FilesInv, CountInv, NoneIsWide
      <3>2. \A i \in Files : BlocksFor(i)' = BlocksFor(i)
        BY <1>1 DEF BlocksFor
      <3> QED BY <1>1, <2>1, <3>1, <3>2 DEF CountInv, Resizing, Adding
    <2>9. RoomInv'
      BY <2>1 DEF RoomInv, Adding
    <2>10. NarrowInv'
      BY <1>1 DEF NarrowInv, NoneIsWide, Wide
    <2> QED BY <2>5, <2>6, <2>7, <2>8, <2>9, <2>10 DEF FilesInv
  <1> QED BY <1>4, <1>5

(***************************************************************************)
(* What a step of a resize may rely on.                                    *)
(***************************************************************************)
LEMMA StepFacts ==
    ASSUME FilesInv, pc # "idle"
    PROVE  /\ file \in Files /\ call \in CallType /\ call.file = file
           /\ ino[file] \in InodeType /\ next \in Nat /\ next = ino[file].blocks
           /\ ino[file].size \in Nat /\ call.size \in Nat /\ call.left \in Nat
           /\ emptied \in [Files -> Nat]
           /\ pc \in Resizing => LastBlock \in Nat /\ Target \in Nat
           /\ pc \in Adding => pc \in Resizing /\ next < Target
  <1>1. /\ file \in Files /\ call \in CallType /\ call.file = file
        /\ ino[file] \in InodeType /\ next = ino[file].blocks
        /\ emptied \in [Files -> Nat]
    BY DEF FilesInv, CallInv, FilesTypeOK, file, next
  <1>2. /\ next \in Nat /\ ino[file].size \in Nat /\ call.size \in Nat /\ call.left \in Nat
    BY <1>1 DEF InodeType, CallType
  <1>3. ASSUME pc \in Resizing PROVE LastBlock \in Nat
    <2>1. ~Wide(ino[file].size)
      BY <1>1, <1>3 DEF FilesInv, NarrowInv, Resizing, Adding
    <2>2. ~Growing(file, call.size) => IntBlock(call.size) \in Nat
      BY <1>2, <2>1, IntBlocks DEF Growing
    <2>3. IntBlock(call.size) \in Int /\ ino[file].size \div BlockSize \in Nat
      BY <1>2, IntBlocks
    <2> QED BY <2>2, <2>3 DEF LastBlock, LastOf
  <1>4. pc \in Resizing => Target \in Nat
    BY <1>1, <1>3 DEF Target
  <1>5. ASSUME pc \in Adding PROVE pc \in Resizing /\ next < Target
    <2>1. /\ Growing(file, call.size) /\ (call.filled => call.left > 0)
          /\ pc \in Resizing /\ call.filled \in BOOLEAN
      BY <1>1, <1>5 DEF FilesInv, CallInv, CallType, Resizing
    <2>2. next + call.left + (IF ~call.filled THEN 1 ELSE 0) = Target
      BY <1>1, <1>5, <2>1 DEF FilesInv, CountInv
    <2> QED BY <1>2, <1>4, <2>1, <2>2
  <1> QED BY <1>1, <1>2, <1>3, <1>4, <1>5

(***************************************************************************)
(* A step of a resize keeps its target, and no file has a wide size yet.   *)
(***************************************************************************)
LEMMA TargetStays ==
    ASSUME file' = file, call'.size = call.size, emptied' = emptied,
           ino'[file].size = ino[file].size
    PROVE  /\ LastBlock' = LastBlock /\ Target' = Target
           /\ Growing(file, call.size)' = Growing(file, call.size)
  BY DEF LastBlock, LastOf, Target, Growing

LEMMA NoneIsWideYet ==
    ASSUME FilesInv, pc \in Resizing
    PROVE  \A i \in Files : ~Wide(ino[i].size) /\ (i # file => ino[i].blocks = BlocksFor(i))
  BY DEF FilesInv, NarrowInv, CountInv, Resizing, Adding

LEMMA LastBlockFacts ==
    ASSUME FilesInv, pc \in Resizing
    PROVE  /\ LastBlock \in Nat /\ IntBlock(call.size) <= LastBlock
           /\ ~Wide(call.size) => LastBlock = call.size \div BlockSize
           /\ Growing(file, call.size) => ino[file].size \div BlockSize <= LastBlock
           /\ ~Growing(file, call.size) => ~Wide(call.size)
  <1>1. /\ LastBlock \in Nat /\ file \in Files /\ ino[file].size \in Nat /\ call.size \in Nat
        /\ BlockSize \in Nat \ {0}
    <2>1. pc # "idle"
      BY DEF Resizing, Adding
    <2> QED BY <2>1, StepFacts, Params
  <1>2. ~Wide(ino[file].size)
    BY <1>1, NoneIsWideYet
  <1>3. /\ call.size \div BlockSize \in Nat /\ ino[file].size \div BlockSize \in Nat
        /\ IntBlock(call.size) \in Int
        /\ ~Wide(call.size) => IntBlock(call.size) = call.size \div BlockSize
    BY <1>1, IntBlocks
  <1>4. Growing(file, call.size) => ino[file].size \div BlockSize <= call.size \div BlockSize
    BY <1>1, DivisionIsMonotone DEF Growing
  <1>5. ~Growing(file, call.size) => ~Wide(call.size)
    BY <1>1, <1>2, IntBlocks DEF Growing
  <1> QED BY <1>1, <1>3, <1>4, <1>5 DEF LastBlock, LastOf

LEMMA NarrowStays ==
    ASSUME FilesInv, pc # "idle", file' = file,
           \A i \in Files : ino'[i].size = ino[i].size,
           pc \in {"write", "reply"} => pc' \in {"write", "reply"}
    PROVE  NarrowInv'
  BY DEF FilesInv, NarrowInv

(***************************************************************************)
(* A block is reserved and cleared; a direct pointer will lead to it at    *)
(* once, an indirect one has to be stored first.                           *)
(***************************************************************************)
LEMMA ReserveIsFresh ==
    ASSUME FilesInv, pc = "reserve"
    PROVE  LET l == Lba(next_block)
           IN  /\ Need(next, Target) + Cardinality(data_bitmap) <= NumDataBlocks
               /\ Need(next, Target) =
                     Need(next + 1, Target) + 1 + (IF NeedsPointers(next) THEN 1 ELSE 0)
               /\ Need(next + 1, Target) \in Nat /\ Cardinality(data_bitmap) \in Nat
               /\ next_block \in 0 .. NumDataBlocks - 1
               /\ l \in 1 .. NumDataBlocks /\ l \in Lbas
               /\ l \notin Used(blk, ino) /\ l # 0 /\ Bit(l) = next_block
               /\ Cardinality(data_bitmap \cup {next_block}) = Cardinality(data_bitmap) + 1
  <1>1. pc \in Adding /\ pc # "idle"
    BY DEF Adding
  <1>2. /\ file \in Files /\ call \in CallType /\ call.file = file
        /\ ino[file] \in InodeType /\ next \in Nat /\ next = ino[file].blocks
        /\ Target \in Nat /\ next < Target
    BY <1>1, StepFacts
  <1>3. FilesTypeOK /\ UseInv /\ CallInv /\ NarrowInv /\ CountInv /\ RoomInv
    BY DEF FilesInv
  <1>4. View = ino /\ ino \in Inodes /\ blk \in Blocks /\ Reserved = {}
    BY <1>1, <1>3, StateTypes DEF Reserved
  <1>5. /\ Need(next, Target) + Cardinality(data_bitmap) <= NumDataBlocks
        /\ Need(next, Target) = Need(next + 1, Target) + 1 + (IF NeedsPointers(next) THEN 1 ELSE 0)
        /\ Need(next + 1, Target) \in Nat
        /\ Cardinality(data_bitmap) \in Nat
    <2>1. Growing(file, call.size)
      BY <1>1, <1>3 DEF CallInv
    <2> QED BY <1>1, <1>2, <1>3, <1>4, <2>1, NeedLess, StateTypes DEF RoomInv
  <1>6. Cardinality(data_bitmap) < NumDataBlocks
    BY <1>5, Params
  <1>7. /\ next_block \in 0 .. NumDataBlocks - 1
        /\ Lba(next_block) \in 1 .. NumDataBlocks /\ Lba(next_block) \in Lbas
        /\ Lba(next_block) \notin Used(blk, ino) /\ Lba(next_block) # 0
        /\ Bit(Lba(next_block)) = next_block
        /\ Cardinality(data_bitmap \cup {next_block}) = Cardinality(data_bitmap) + 1
    BY <1>3, <1>4, <1>6, FreeBlock
  <1> QED BY <1>5, <1>7

LEMMA ReserveKeeps ==
    ASSUME FilesInv, ReserveBlock
    PROVE  FilesInv'
  <1> DEFINE l == Lba(next_block)
             b == [blk EXCEPT ![l] = ZeroBlock]
  <1>1. /\ pc = "reserve" /\ pc \in Adding
        /\ data_bitmap' = data_bitmap \cup {next_block}
        /\ blk' = b /\ call' = [call EXCEPT !.lba = l]
        /\ pc' = IF Indirect(next) THEN "point_indirect" ELSE "point"
        /\ UNCHANGED <<ino, d_ino, emptied>>
    BY DEF ReserveBlock, Adding
  <1>2. /\ file \in Files /\ call \in CallType /\ call.file = file
        /\ ino[file] \in InodeType /\ next \in Nat /\ next = ino[file].blocks
        /\ Target \in Nat /\ next < Target
    BY <1>1, StepFacts
  <1>3. FilesTypeOK /\ UseInv /\ CallInv /\ NarrowInv /\ CountInv /\ RoomInv
    BY DEF FilesInv
  <1>4. View = ino /\ ino \in Inodes /\ blk \in Blocks /\ Reserved = {}
    BY <1>1, <1>3, StateTypes DEF Reserved
  <1>5. /\ Need(next, Target) + Cardinality(data_bitmap) <= NumDataBlocks
        /\ Need(next, Target) = Need(next + 1, Target) + 1 + (IF NeedsPointers(next) THEN 1 ELSE 0)
        /\ Need(next + 1, Target) \in Nat
        /\ Cardinality(data_bitmap) \in Nat
    BY <1>1, ReserveIsFresh
  <1>6. /\ next_block \in 0 .. NumDataBlocks - 1
        /\ l \in 1 .. NumDataBlocks /\ l \in Lbas
        /\ l \notin Used(blk, ino) /\ l # 0
        /\ Bit(l) = next_block
        /\ Cardinality(data_bitmap') = Cardinality(data_bitmap) + 1
    BY <1>1, ReserveIsFresh
  <1> HIDE DEF l
  <1>7. /\ call' \in CallType /\ call'.lba = l /\ call'.file = call.file
        /\ call'.op = call.op /\ call'.size = call.size /\ call'.at = call.at
        /\ call'.n = call.n /\ call'.buf = call.buf /\ call'.idx = call.idx
        /\ call'.left = call.left /\ call'.filled = call.filled
        /\ call'.written = call.written
    BY <1>1, <1>2, <1>6 DEF CallType
  <1>8. OneUse(b, ino) /\ Used(b, ino) = Used(blk, ino)
    <2>1. OneUse(blk, ino)
      BY <1>3, <1>4 DEF UseInv
    <2>2. \A i \in Files : \A n \in Held(ino[i]) : ino[i].ptrs[index(n)] # l
      BY <1>6, Uses
    <2> QED BY <1>4, <2>1, <2>2, OtherBlocks
  <1>9. b \in Blocks
    <2>1. ZeroBlock \in [Cells -> Cell]
      BY DEF ZeroBlock, Cell
    <2> QED BY <1>4, <2>1 DEF Blocks
  <1>10. next < NumDataBlocks
    BY <1>2, <1>4, <1>6, <1>8, <1>9, OneMoreFits
  <1> HIDE DEF b
  <1>11. /\ file' = file /\ next' = next /\ Target' = Target
         /\ Growing(file, call.size)' = Growing(file, call.size)
         /\ \A i \in Files : BlocksFor(i)' = BlocksFor(i)
    BY <1>1, <1>7, TargetStays DEF file, next, BlocksFor
  <1>12. FilesTypeOK'
    BY <1>1, <1>3, <1>6, <1>7, <1>9 DEF FilesTypeOK, CallType, Blocks, Steppers
  <1>13. UseInv' /\ View'[file].blocks = (IF Indirect(next) THEN next ELSE next + 1)
    <2>1. CASE Indirect(next)
      <3>1. View' = ino
        <4>1. View' = [i \in Files |-> ino[i]]
          BY <1>1, <2>1 DEF View
        <4> QED BY <4>1, <1>3 DEF FilesTypeOK
      <3>2. Reserved' = {l}
        BY <1>1, <1>7, <2>1 DEF Reserved
      <3>3. data_bitmap' = {Bit(k) : k \in Used(b, ino) \cup {l}}
        BY <1>1, <1>3, <1>4, <1>6, <1>8 DEF UseInv
      <3> QED BY <1>1, <1>2, <1>6, <1>8, <2>1, <3>1, <3>2, <3>3 DEF UseInv
    <2>2. CASE ~Indirect(next)
      <3> DEFINE u == View'
      <3>1. Reserved' = {}
        BY <1>1, <2>2 DEF Reserved
      <3>2. u = [i \in Files |-> IF i = file THEN Counted(ino[file], l) ELSE ino[i]]
        BY <1>1, <1>7, <1>11, <2>2 DEF View
      <3>3. /\ Counted(ino[file], l) \in InodeType
            /\ Counted(ino[file], l).blocks = next + 1
            /\ Counted(ino[file], l).ptrs = [ino[file].ptrs EXCEPT ![next] = l]
        BY <1>2, <1>6, <2>2, CountedType
      <3>4. u \in Inodes
        BY <1>4, <3>2, <3>3 DEF Inodes
      <3>5. u[file].blocks = next + 1 /\ u[file].ptrs = [ino[file].ptrs EXCEPT ![next] = l]
        BY <1>2, <3>2, <3>3
      <3>6. \A i \in Files : i # file => u[i] = ino[i]
        BY <3>2
      <3> HIDE DEF u
      <3>7. next \in PtrIdx /\ next < NumDirect
        BY <1>2, <1>10, <2>2, PlacesFit
      <3>8. PtrAt(b, u[file], next) = l
        BY <1>2, <2>2, <3>5, <3>7 DEF PtrAt, InodeType
      <3>9. With(b, u[file], next) = {l} /\ ~NeedsPointers(next)
        BY <2>2, <3>8 DEF With, NeedsPointers
      <3>10. ASSUME NEW n \in Count(ino[file])
             PROVE  PtrAt(b, u[file], n) = PtrAt(b, ino[file], n) /\ ~Indirect(n)
        <4>1. n \in Nat /\ n < next
          BY <1>2, <1>4, PlaceTypes
        <4>2. ~Indirect(n)
          BY <1>2, <2>2, <4>1, Params DEF Indirect
        <4>3. n \in PtrIdx /\ n # next
          BY <1>2, <1>10, <4>1, <4>2, PlacesFit, Params
        <4> QED BY <1>2, <3>5, <4>2, <4>3 DEF PtrAt, InodeType
      <3>11. OneUse(b, u) /\ Used(b, u) = Used(b, ino) \cup {l}
        <4>1. ASSUME NEW i \in Files
              PROVE  /\ u[i].blocks = IF i = file THEN ino[i].blocks + 1 ELSE ino[i].blocks
                     /\ \A n \in Count(ino[i]) : PtrAt(b, u[i], n) = PtrAt(b, ino[i], n)
                     /\ \A n \in Held(ino[i]) : u[i].ptrs[index(n)] = ino[i].ptrs[index(n)]
          <5>1. CASE i = file
            BY <1>2, <3>5, <3>10, <5>1 DEF Held
          <5>2. CASE i # file
            BY <3>6, <5>2
          <5> QED BY <5>1, <5>2
        <4>2. /\ With(b, u[file], ino[file].blocks) = {l}
              /\ With(b, u[file], ino[file].blocks) \cap (Used(b, ino) \cup {0}) = {}
              /\ ~NeedsPointers(ino[file].blocks)
              /\ ino[file].blocks < NumDataBlocks
          BY <1>2, <1>6, <1>8, <1>10, <3>9
        <4>3. OneUse(b, ino) /\ file \in Files /\ ino \in Inodes
          BY <1>2, <1>4, <1>8
        <4>4. /\ OneUse(b, u)
              /\ Used(b, u) = Used(b, ino) \cup With(b, u[file], ino[file].blocks)
          BY <3>4, <4>1, <4>2, <4>3, OneMoreUse
        <4> QED BY <4>2, <4>4
      <3>12. data_bitmap' = {Bit(k) : k \in Used(b, u)}
        BY <1>1, <1>3, <1>4, <1>6, <1>8, <3>11 DEF UseInv
      <3> QED BY <1>1, <2>2, <3>1, <3>5, <3>11, <3>12 DEF UseInv, u
    <2> QED BY <2>1, <2>2
  <1>14. CallInv'
    BY <1>1, <1>3, <1>7, <1>11 DEF CallInv, Adding, Resizing
  <1>15. CountInv'
    BY <1>1, <1>3, <1>7, <1>11 DEF CountInv, Adding, Resizing
  <1>16. RoomInv'
    <2>1. CASE Indirect(next)
      BY <1>1, <1>5, <1>6, <1>11, <2>1, Params DEF RoomInv
    <2>2. CASE ~Indirect(next)
      <3>1. ~NeedsPointers(next)
        BY <2>2 DEF NeedsPointers
      <3>2. View'[file].blocks = next + 1
        BY <1>13, <2>2
      <3> QED BY <1>1, <1>5, <1>6, <1>11, <2>2, <3>1, <3>2, Params DEF RoomInv
    <2> QED BY <2>1, <2>2
  <1>17. NarrowInv'
    BY <1>1, <1>11, NarrowStays
  <1> QED BY <1>12, <1>13, <1>14, <1>15, <1>16, <1>17 DEF FilesInv
(***************************************************************************)
(* An indirect pointer is stored, in the pointer block that the file has   *)
(* for it or, with the first one, in a block that nothing else has.        *)
(***************************************************************************)
LEMMA PointerPlaced ==
    ASSUME FilesInv, PointIndirect
    PROVE  LET q == ino'[file].ptrs[index(next)]
           IN  /\ next < NumDataBlocks /\ Indirect(next)
               /\ index(next) \in PtrIdx /\ offset(next) \in Cells
               /\ OneUse(blk, ino) /\ call.lba \in Lbas
               /\ call.lba \notin Used(blk, ino) \cup {0}
               /\ q \in Lbas /\ q \notin {call.lba, 0}
               /\ ino' \in Inodes
               /\ \A i \in Files : /\ ino'[i].blocks = ino[i].blocks
                                   /\ ino'[i].size = ino[i].size
                                   /\ i # file => ino'[i] = ino[i]
               /\ IF NeedsPointers(next)
                  THEN /\ q \notin Used(blk, ino) /\ Bit(q) = next_block
                       /\ next_block \in 0 .. NumDataBlocks - 1
                       /\ \A k \in PtrIdx : k # index(next) =>
                             ino'[file].ptrs[k] = ino[file].ptrs[k]
                       /\ Cardinality(data_bitmap') = Cardinality(data_bitmap) + 1
                  ELSE /\ ino' = ino /\ next - 1 \in Held(ino[file])
                       /\ index(next - 1) = index(next)
                       /\ Cardinality(data_bitmap') = Cardinality(data_bitmap)
  <1> DEFINE q == ino'[file].ptrs[index(next)]
  <1>1. /\ pc = "point_indirect" /\ pc \in Adding
        /\ IF NeedsPointers(next)
           THEN /\ ino' = [ino EXCEPT ![file].ptrs[index(next)] = Lba(next_block)]
                /\ data_bitmap' = data_bitmap \cup {next_block}
           ELSE UNCHANGED <<ino, data_bitmap>>
    BY DEF PointIndirect, Adding
  <1>2. FilesTypeOK /\ UseInv /\ CallInv /\ NarrowInv /\ CountInv /\ RoomInv
    BY DEF FilesInv
  <1>3. /\ file \in Files /\ call \in CallType
        /\ ino[file] \in InodeType /\ next \in Nat /\ next = ino[file].blocks
        /\ Target \in Nat /\ next < Target
    BY <1>1, StepFacts
  <1>4. View = ino /\ ino \in Inodes /\ blk \in Blocks /\ Reserved = {call.lba}
    BY <1>1, <1>2, StateTypes DEF Reserved
  <1>5. /\ OneUse(blk, ino) /\ call.lba \in Lbas
        /\ call.lba \notin Used(blk, ino) \cup {0}
        /\ call.lba \in 1 .. NumDataBlocks
    <2>1. OneUse(blk, ino) /\ call.lba \notin Used(blk, ino) \cup {0}
      BY <1>2, <1>4 DEF UseInv
    <2>2. call.lba \in Lbas
      BY <1>2 DEF FilesTypeOK
    <2> QED BY <2>1, <2>2, Params DEF Lbas
  <1>6. next < NumDataBlocks /\ Indirect(next)
    <2>1. Indirect(next)
      BY <1>1, <1>2 DEF CallInv
    <2> QED BY <1>3, <1>4, <1>5, <2>1, OneMoreFits
  <1>7. index(next) \in PtrIdx /\ offset(next) \in Cells
    BY <1>3, <1>6, PlacesFit
  <1>8. CASE NeedsPointers(next)
    <2> DEFINE p == Lba(next_block)
    <2>1. Cardinality(data_bitmap) < NumDataBlocks
      <3>1. Growing(file, call.size)
        BY <1>1, <1>2 DEF CallInv
      <3>2. Need(next + 1, Target) + 1 + Cardinality(data_bitmap) <= NumDataBlocks
        BY <1>1, <1>2, <1>8, <3>1 DEF RoomInv
      <3>3. Need(next + 1, Target) \in Nat /\ Cardinality(data_bitmap) \in Nat
        BY <1>2, <1>3, NeedLess, StateTypes
      <3> QED BY <3>2, <3>3, Params
    <2>2. /\ next_block \in 0 .. NumDataBlocks - 1 /\ p \in Lbas
          /\ p \notin Used(blk, ino) \cup {call.lba} \cup {0} /\ Bit(p) = next_block
          /\ Cardinality(data_bitmap \cup {next_block}) = Cardinality(data_bitmap) + 1
      BY <1>2, <1>4, <2>1, FreeBlock
    <2> HIDE DEF p
    <2>3. ino' = [ino EXCEPT ![file].ptrs[index(next)] = p]
      BY <1>1, <1>8 DEF p
    <2> DEFINE a == [ino[file].ptrs EXCEPT ![index(next)] = p]
               j == [ino[file] EXCEPT !.ptrs = a]
    <2>4. a \in [PtrIdx -> Lbas] /\ a[index(next)] = p
          /\ \A k \in PtrIdx : k # index(next) => a[k] = ino[file].ptrs[k]
      BY <1>3, <1>7, <2>2 DEF InodeType
    <2>5. ino' = [ino EXCEPT ![file] = j]
      BY <2>3
    <2> HIDE DEF a
    <2>6. /\ j \in InodeType /\ j.ptrs = a
          /\ j.blocks = ino[file].blocks /\ j.size = ino[file].size
      BY <1>3, <2>4 DEF InodeType
    <2> HIDE DEF j
    <2>7. /\ ino' \in Inodes /\ ino'[file] = j
          /\ \A i \in Files : i # file => ino'[i] = ino[i]
      BY <1>3, <1>4, <2>5, <2>6 DEF Inodes
    <2>8. q = p
      BY <2>4, <2>6, <2>7
    <2>9. \A k \in PtrIdx : k # index(next) => ino'[file].ptrs[k] = ino[file].ptrs[k]
      BY <2>4, <2>6, <2>7
    <2>10. \A i \in Files : ino'[i].blocks = ino[i].blocks /\ ino'[i].size = ino[i].size
      BY <2>6, <2>7
    <2> QED BY <1>1, <1>5, <1>6, <1>7, <1>8, <2>2, <2>7, <2>8, <2>9, <2>10
  <1>9. CASE ~NeedsPointers(next)
    <2>1. ino' = ino /\ data_bitmap' = data_bitmap
      BY <1>1, <1>9
    <2>2. next - 1 \in Nat /\ Indirect(next - 1) /\ index(next - 1) = index(next)
      BY <1>3, <1>6, <1>9, LaterPointer
    <2>3. next - 1 \in Held(ino[file])
      <3>1. next - 1 < ino[file].blocks
        BY <1>3
      <3> QED BY <1>3, <1>4, <2>2, <3>1, PlaceTypes DEF Held
    <2>4. q = ino[file].ptrs[index(next - 1)]
      BY <2>1, <2>2
    <2>5. q \in Used(blk, ino)
      BY <1>3, <2>3, <2>4, Uses
    <2>6. q \in Lbas
      <3>1. ino[file].ptrs \in [PtrIdx -> Lbas]
        BY <1>3 DEF InodeType
      <3> QED BY <1>7, <2>1, <3>1
    <2>7. q \notin {call.lba, 0}
      BY <1>5, <2>5 DEF OneUse
    <2> HIDE DEF q
    <2> QED BY <1>4, <1>5, <1>6, <1>7, <1>9, <2>1, <2>2, <2>3, <2>6, <2>7 DEF q
  <1> QED BY <1>8, <1>9

(***************************************************************************)
(* The pointer goes where no other pointer and no byte of a file is.       *)
(***************************************************************************)
LEMMA PointersStay ==
    ASSUME FilesInv, PointIndirect
    PROVE  /\ \A i \in Files :
                 /\ \A n \in Held(ino[i]) : ino'[i].ptrs[index(n)] = ino[i].ptrs[index(n)]
                 /\ \A n \in Count(ino[i]) :
                       /\ ~Indirect(n) => ino'[i].ptrs[n] = ino[i].ptrs[n]
                       /\ PtrAt(blk', ino'[i], n) = PtrAt(blk, ino[i], n)
                       /\ blk'[PtrAt(blk, ino[i], n)] = blk[PtrAt(blk, ino[i], n)]
           /\ PtrAt(blk', ino'[file], next) = call.lba
           /\ blk'[call.lba] = blk[call.lba]
           /\ blk' \in Blocks
  <1> DEFINE l == call.lba
             q == ino'[file].ptrs[index(next)]
             x == [blk[q] EXCEPT ![offset(next)] = Pointer(l)]
             c == [blk EXCEPT ![q] = x]
  <1>1. blk' = c
    BY DEF PointIndirect
  <1>2. /\ file \in Files /\ next \in Nat /\ next = ino[file].blocks
        /\ ino[file] \in InodeType
    BY StepFacts DEF PointIndirect
  <1>3. ino \in Inodes /\ blk \in Blocks
    BY StateTypes DEF FilesInv
  <1>4. /\ next < NumDataBlocks /\ Indirect(next)
        /\ index(next) \in PtrIdx /\ offset(next) \in Cells
        /\ OneUse(blk, ino) /\ l \in Lbas
        /\ q \in Lbas /\ q \notin {l, 0}
        /\ \A i \in Files : i # file => ino'[i] = ino[i]
    BY PointerPlaced
  <1>5. NeedsPointers(next) =>
            /\ q \notin Used(blk, ino)
            /\ \A k \in PtrIdx : k # index(next) => ino'[file].ptrs[k] = ino[file].ptrs[k]
    BY PointerPlaced
  <1>6. ~NeedsPointers(next) =>
            /\ ino' = ino /\ next - 1 \in Held(ino[file])
            /\ index(next - 1) = index(next)
    BY PointerPlaced
  <1> HIDE DEF q, l
  <1>7. /\ x \in [Cells -> Cell] /\ x[offset(next)] = Pointer(l)
         /\ \A o \in Cells : o # offset(next) => x[o] = blk[q][o]
    <2>1. Pointer(l) \in Cell
      BY <1>4 DEF Pointer, Cell
    <2>2. blk[q] \in [Cells -> Cell]
      BY <1>3, <1>4 DEF Blocks
    <2> QED BY <1>4, <2>1, <2>2
  <1> HIDE DEF x
  <1>8. c \in Blocks /\ c[q] = x /\ \A p \in Lbas : p # q => c[p] = blk[p]
    BY <1>3, <1>4, <1>7 DEF Blocks
  <1> HIDE DEF c
  <1>9. ASSUME NEW i \in Files, NEW n \in Held(ino[i])
         PROVE  /\ ino'[i].ptrs[index(n)] = ino[i].ptrs[index(n)]
                /\ ino[i].ptrs[index(n)] \in Lbas
                /\ ino[i].ptrs[index(n)] = q => i = file /\ index(n) = index(next) /\ n < next
    <2>1. /\ n \in Count(ino[i]) /\ n \in Nat /\ Indirect(n)
          /\ n < ino[i].blocks /\ ino[i].blocks <= NumDataBlocks
          /\ ino[i].blocks \in Nat /\ NumDataBlocks \in Nat
      BY <1>3, <1>4, PlaceTypes, Params DEF OneUse
    <2>2. ino[i].ptrs[index(n)] \in Lbas /\ ino[i].ptrs[index(n)] \in Used(blk, ino)
      BY <1>3, <1>4, <2>1, PointersOnDisk, Uses
    <2>3. index(n) \in PtrIdx
      BY <2>1, PlacesFit
    <2>4. CASE NeedsPointers(next)
      <3>1. ASSUME i = file PROVE index(n) # index(next)
        <4>1. index(n) < index(next) /\ index(n) \in Nat
          BY <1>2, <2>1, <2>4, <3>1, FirstPointer, IndirectPlace
        <4> QED BY <4>1
      <3> QED BY <1>4, <1>5, <2>2, <2>3, <2>4, <3>1
    <2>5. CASE ~NeedsPointers(next)
      <3>1. ino'[i].ptrs[index(n)] = ino[i].ptrs[index(n)]
        BY <1>6, <2>5
      <3>2. ASSUME ino[i].ptrs[index(n)] = q PROVE i = file /\ index(n) = index(next)
        <4>1. q = ino[file].ptrs[index(next - 1)]
          BY <1>6, <2>5 DEF q
        <4>2. i = file /\ index(n) = index(next - 1)
          BY <1>2, <1>4, <1>6, <2>5, <3>2, <4>1 DEF OneUse
        <4> QED BY <1>6, <2>5, <4>2
      <3> QED BY <1>2, <2>1, <2>2, <3>1, <3>2
    <2> QED BY <2>4, <2>5
  <1>10. ASSUME NEW i \in Files, NEW n \in Count(ino[i])
         PROVE  PtrAt(c, ino'[i], n) = PtrAt(blk, ino[i], n)
    <2>1. CASE Indirect(n)
      <3> DEFINE p == ino[i].ptrs[index(n)]
      <3>1. /\ n \in Held(ino[i]) /\ n \in Nat
            /\ n < NumDataBlocks
        <4>1. /\ n \in Held(ino[i]) /\ n \in Nat
              /\ n < ino[i].blocks /\ ino[i].blocks \in Nat
          BY <1>3, <2>1, PlaceTypes DEF Held
        <4>2. ino[i].blocks <= NumDataBlocks
          BY <1>4 DEF OneUse
        <4> QED BY <4>1, <4>2, Params
      <3>2. /\ ino'[i].ptrs[index(n)] = p /\ p \in Lbas
            /\ p = q => i = file /\ index(n) = index(next) /\ n < next
        BY <1>9, <3>1
      <3>3. c[p][offset(n)] = blk[p][offset(n)]
        <4>1. CASE p = q
          <5>1. offset(n) # offset(next)
            BY <1>2, <1>4, <2>1, <3>1, <3>2, <4>1, SamePlace
          <5>2. offset(n) \in Cells
            BY <2>1, <3>1, PlacesFit
          <5> QED BY <1>7, <1>8, <4>1, <5>1, <5>2
        <4>2. CASE p # q
          BY <1>8, <3>2, <4>2
        <4> QED BY <4>1, <4>2
      <3> QED BY <2>1, <3>2, <3>3 DEF PtrAt
    <2>2. CASE ~Indirect(n)
      <3>1. n \in Nat /\ n < NumDataBlocks
        BY <1>3, <1>4, PlaceTypes, Params DEF OneUse
      <3>2. n \in PtrIdx /\ n # index(next)
        <4>1. n \in PtrIdx /\ n < NumDirect /\ index(next) >= NumDirect /\ index(next) \in Nat
          BY <1>2, <1>4, <2>2, <3>1, PlacesFit, IndirectPlace
        <4> QED BY <4>1, Params
      <3>3. ino'[i].ptrs[n] = ino[i].ptrs[n]
        <4>1. CASE i = file
          BY <1>5, <1>6, <3>2, <4>1
        <4>2. CASE i # file
          BY <1>4, <4>2
        <4> QED BY <4>1, <4>2
      <3> QED BY <2>2, <3>3 DEF PtrAt
    <2> QED BY <2>1, <2>2
  <1>11. ASSUME NEW i \in Files, NEW n \in Count(ino[i])
         PROVE  /\ ~Indirect(n) => ino'[i].ptrs[n] = ino[i].ptrs[n]
                /\ c[PtrAt(blk, ino[i], n)] = blk[PtrAt(blk, ino[i], n)]
    <2>1. ~Indirect(n) => ino'[i].ptrs[n] = ino[i].ptrs[n]
      BY <1>10 DEF PtrAt
    <2>2. PtrAt(blk, ino[i], n) \in Lbas /\ PtrAt(blk, ino[i], n) \in Used(blk, ino)
      BY <1>3, <1>4, PointersOnDisk, Uses DEF OneUse
    <2>3. PtrAt(blk, ino[i], n) # q
      <3>1. CASE NeedsPointers(next)
        BY <1>5, <2>2, <3>1
      <3>2. CASE ~NeedsPointers(next)
        <4>1. q = ino[file].ptrs[index(next - 1)]
          BY <1>6, <3>2 DEF q
        <4> QED BY <1>2, <1>4, <1>6, <3>2, <4>1 DEF OneUse
      <3> QED BY <3>1, <3>2
    <2> QED BY <1>8, <2>1, <2>2, <2>3
  <1>12. PtrAt(c, ino'[file], next) = l
    <2>1. c[ino'[file].ptrs[index(next)]][offset(next)] = Pointer(l)
      BY <1>7, <1>8 DEF q
    <2> QED BY <1>4, <2>1 DEF PtrAt, AsPointer, Pointer
  <1>13. c[l] = blk[l]
    BY <1>4, <1>8
  <1> QED BY <1>1, <1>8, <1>9, <1>10, <1>11, <1>12, <1>13 DEF l, c

LEMMA PointIndirectKeeps ==
    ASSUME FilesInv, PointIndirect
    PROVE  FilesInv'
  <1> DEFINE l == call.lba
             B == next
             q == ino'[file].ptrs[index(next)]
             x == [blk[q] EXCEPT ![offset(next)] = Pointer(l)]
             c == [blk EXCEPT ![q] = x]
             u == View'
  <1>1. /\ pc = "point_indirect" /\ pc \in Adding
        /\ data_bitmap' = data_bitmap \cup {n \in {next_block} : NeedsPointers(next)}
        /\ blk' = c /\ pc' = "point"
        /\ UNCHANGED <<d_ino, call, emptied>>
    BY DEF PointIndirect, Adding
  <1>2. FilesTypeOK /\ UseInv /\ CallInv /\ NarrowInv /\ CountInv /\ RoomInv
    BY DEF FilesInv
  <1>3. /\ file \in Files /\ call \in CallType
        /\ ino[file] \in InodeType /\ next \in Nat /\ next = ino[file].blocks
        /\ Target \in Nat /\ next < Target
    BY <1>1, StepFacts
  <1>4. View = ino /\ ino \in Inodes /\ blk \in Blocks /\ Reserved = {l}
    BY <1>1, <1>2, StateTypes DEF Reserved
  <1>5. /\ next < NumDataBlocks /\ Indirect(next)
        /\ index(next) \in PtrIdx /\ offset(next) \in Cells
        /\ OneUse(blk, ino) /\ l \in Lbas
        /\ l \notin Used(blk, ino) \cup {0}
        /\ q \in Lbas /\ q \notin {l, 0}
        /\ ino' \in Inodes
        /\ \A i \in Files : /\ ino'[i].blocks = ino[i].blocks
                            /\ ino'[i].size = ino[i].size
                            /\ i # file => ino'[i] = ino[i]
    BY PointerPlaced
  <1>6. NeedsPointers(next) =>
            /\ q \notin Used(blk, ino) /\ Bit(q) = next_block
            /\ next_block \in 0 .. NumDataBlocks - 1
            /\ \A k \in PtrIdx : k # index(next) => ino'[file].ptrs[k] = ino[file].ptrs[k]
            /\ Cardinality(data_bitmap') = Cardinality(data_bitmap) + 1
    BY PointerPlaced
  <1>7. ~NeedsPointers(next) =>
            /\ ino' = ino /\ next - 1 \in Held(ino[file])
            /\ index(next - 1) = index(next)
            /\ Cardinality(data_bitmap') = Cardinality(data_bitmap)
    BY PointerPlaced
  <1>8. /\ u = [i \in Files |-> IF i = file THEN Counted(ino'[file], l) ELSE ino'[i]]
        /\ file' = file
    BY <1>1 DEF View, file
  <1>9. ino'[file] \in InodeType /\ ino'[file].blocks = next /\ ino'[file].size = ino[file].size
    BY <1>3, <1>5 DEF Inodes
  <1>10. /\ Counted(ino'[file], l) \in InodeType
         /\ Counted(ino'[file], l).blocks = next + 1
         /\ Counted(ino'[file], l).ptrs = ino'[file].ptrs
    BY <1>5, <1>9, CountedType
  <1>11. /\ u \in Inodes
         /\ u[file].blocks = next + 1 /\ u[file].ptrs = ino'[file].ptrs
         /\ \A i \in Files : i # file => u[i] = ino[i]
    BY <1>3, <1>5, <1>8, <1>10 DEF Inodes
  <1> HIDE DEF u, q, l
  <1>12. /\ x \in [Cells -> Cell] /\ x[offset(next)] = Pointer(l)
         /\ \A o \in Cells : o # offset(next) => x[o] = blk[q][o]
    <2>1. Pointer(l) \in Cell
      BY <1>5 DEF Pointer, Cell
    <2>2. blk[q] \in [Cells -> Cell]
      BY <1>4, <1>5 DEF Blocks
    <2> QED BY <1>5, <2>1, <2>2
  <1> HIDE DEF x
  <1>13. c \in Blocks /\ c[q] = x /\ \A p \in Lbas : p # q => c[p] = blk[p]
    BY <1>4, <1>5, <1>12 DEF Blocks
  <1> HIDE DEF c
  <1>14. ASSUME NEW i \in Files
         PROVE  /\ \A n \in Count(ino[i]) : PtrAt(c, u[i], n) = PtrAt(blk, ino[i], n)
                /\ \A n \in Held(ino[i]) : u[i].ptrs[index(n)] = ino[i].ptrs[index(n)]
    <2>1. u[i].ptrs = ino'[i].ptrs
      BY <1>5, <1>11
    <2> QED BY <1>1, <2>1, PointersStay DEF PtrAt, c
  <1>15. PtrAt(c, u[file], next) = l
    BY <1>1, <1>11, PointersStay DEF PtrAt, l, c
  <1>16. /\ With(c, u[file], ino[file].blocks) = {l} \cup {k \in {q} : NeedsPointers(next)}
         /\ u[file].ptrs[index(ino[file].blocks)] = q
    BY <1>3, <1>11, <1>15 DEF With, q
  <1>17. /\ OneUse(c, u)
         /\ Used(c, u) = Used(blk, ino) \cup With(c, u[file], ino[file].blocks)
    <2>1. ASSUME NEW i \in Files
          PROVE  /\ u[i].blocks = IF i = file THEN ino[i].blocks + 1 ELSE ino[i].blocks
                 /\ \A n \in Count(ino[i]) : PtrAt(c, u[i], n) = PtrAt(blk, ino[i], n)
                 /\ \A n \in Held(ino[i]) : u[i].ptrs[index(n)] = ino[i].ptrs[index(n)]
      BY <1>3, <1>11, <1>14
    <2>2. With(c, u[file], ino[file].blocks) \cap (Used(blk, ino) \cup {0}) = {}
      BY <1>5, <1>6, <1>16
    <2>3. /\ u[file].ptrs[index(ino[file].blocks)] # PtrAt(c, u[file], ino[file].blocks)
          /\ ino[file].blocks < NumDataBlocks
      BY <1>3, <1>5, <1>15, <1>16
    <2>4. /\ OneUse(blk, ino) /\ file \in Files /\ ino \in Inodes /\ u \in Inodes
          /\ ino[file].blocks < NumDataBlocks
      BY <1>3, <1>4, <1>5, <1>11, <2>3
    <2>5. NeedsPointers(ino[file].blocks) =>
              u[file].ptrs[index(ino[file].blocks)] # PtrAt(c, u[file], ino[file].blocks)
      BY <2>3
    <2>6. \A i \in Files :
             /\ u[i].blocks = IF i = file THEN ino[i].blocks + 1 ELSE ino[i].blocks
             /\ \A n \in Count(ino[i]) : PtrAt(c, u[i], n) = PtrAt(blk, ino[i], n)
             /\ \A n \in Held(ino[i]) : u[i].ptrs[index(n)] = ino[i].ptrs[index(n)]
      BY <2>1
    <2> QED BY <2>2, <2>4, <2>5, <2>6, OneMoreUse
  <1>18. UseInv'
    <2>1. Reserved' = {}
      BY <1>1 DEF Reserved
    <2>2. data_bitmap = {Bit(k) : k \in Used(blk, ino) \cup {l}}
      BY <1>2, <1>4 DEF UseInv
    <2>3. {n \in {next_block} : NeedsPointers(next)} =
              {Bit(k) : k \in {h \in {q} : NeedsPointers(next)}}
      BY <1>6
    <2>4. data_bitmap' = {Bit(k) : k \in Used(c, u)}
      BY <1>1, <1>16, <1>17, <2>2, <2>3
    <2> QED BY <1>1, <1>17, <2>1, <2>4 DEF UseInv, u
  <1>19. /\ next' = next /\ Target' = Target
         /\ Growing(file, call.size)' = Growing(file, call.size)
         /\ \A i \in Files : BlocksFor(i)' = BlocksFor(i)
    BY <1>1, <1>3, <1>5, <1>8, <1>9, TargetStays DEF next, BlocksFor
  <1>20. FilesTypeOK'
    <2>1. data_bitmap' \subseteq 0 .. NumDataBlocks - 1
      BY <1>1, <1>2, <1>6 DEF FilesTypeOK
    <2> QED BY <1>1, <1>2, <1>5, <1>13, <2>1 DEF FilesTypeOK, Blocks, Inodes, Steppers
  <1>21. CallInv'
    BY <1>1, <1>2, <1>8, <1>19 DEF CallInv, Adding, Resizing
  <1>22. CountInv'
    <2>1. pc \in Resizing /\ pc' \in Resizing /\ pc' \in Adding /\ pc' \notin {"write", "reply"}
      BY <1>1 DEF Adding, Resizing
    <2>2. \A i \in Files : i # file => ino'[i].blocks = BlocksFor(i)'
      BY <1>5, <1>19, <2>1, NoneIsWideYet
    <2>3. IF Growing(file, call.size)
          THEN next + call.left + (IF ~call.filled THEN 1 ELSE 0) = Target
          ELSE next = Target + call.left
      BY <1>1, <1>2, <1>3, <2>1 DEF CountInv
    <2>4. ino'[file].blocks = next /\ call' = call
      BY <1>1, <1>9
    <2> QED BY <1>8, <1>19, <2>1, <2>2, <2>3, <2>4 DEF CountInv
  <1>23. RoomInv'
    <2>1. ASSUME Growing(file, call.size)
          PROVE  Need(next + 1, Target) + Cardinality(data_bitmap') <= NumDataBlocks
      <3>1. /\ Need(next + 1, Target) + (IF NeedsPointers(next) THEN 1 ELSE 0)
                 + Cardinality(data_bitmap) <= NumDataBlocks
            /\ Need(next + 1, Target) \in Nat /\ Cardinality(data_bitmap) \in Nat
        BY <1>1, <1>2, <1>3, <2>1, NeedLess, StateTypes DEF RoomInv
      <3> QED BY <1>6, <1>7, <3>1, Params
    <2>2. View'[file'].blocks = next + 1
      BY <1>8, <1>11 DEF u
    <2> QED BY <1>1, <1>8, <1>19, <2>1, <2>2 DEF RoomInv
  <1>24. NarrowInv'
    BY <1>1, <1>5, <1>8, NarrowStays
  <1> QED BY <1>18, <1>20, <1>21, <1>22, <1>23, <1>24 DEF FilesInv

(***************************************************************************)
(* The inode with the new block becomes the file's.                        *)
(***************************************************************************)
LEMMA BlockCounted ==
    ASSUME FilesInv, PointToBlock
    PROVE  /\ ino' = View
           /\ ino'[file].blocks = next + 1 /\ ino'[file].size = ino[file].size
           /\ \A i \in Files : i # file => ino'[i] = ino[i]
  <1>1. pc = "point"
    BY DEF PointToBlock
  <1>2. file \in Files /\ ino[file] \in InodeType /\ next \in Nat /\ next = ino[file].blocks
    BY <1>1, StepFacts
  <1>3. ino \in Inodes /\ call.lba \in Lbas
    BY StateTypes DEF FilesInv, FilesTypeOK
  <1>4. ino' = View
    <2> DEFINE p == IF Indirect(next) THEN ino[file].ptrs
                                      ELSE [ino[file].ptrs EXCEPT ![next] = call.lba]
               j == [ino[file] EXCEPT !.ptrs = p]
    <2>1. ino' = [ino EXCEPT ![file].ptrs = p, ![file].blocks = @ + 1]
      BY DEF PointToBlock
    <2>2. Counted(ino[file], call.lba) = [j EXCEPT !.blocks = @ + 1]
      BY <1>2 DEF Counted
    <2> HIDE DEF p
    <2>3. ino' = [ino EXCEPT ![file] = [j EXCEPT !.blocks = @ + 1]]
      <3> DEFINE k == [ino EXCEPT ![file].ptrs = p]
                 m == [j EXCEPT !.blocks = @ + 1]
      <3>1. k = [ino EXCEPT ![file] = j]
        OBVIOUS
      <3>2. ino' = [k EXCEPT ![file].blocks = @ + 1]
        BY <2>1
      <3> HIDE DEF j, k
      <3>3. k[file] = j
        BY <1>2, <1>3, <3>1 DEF Inodes
      <3>4. ino' = [k EXCEPT ![file] = m]
        BY <3>2, <3>3
      <3> HIDE DEF m
      <3>5. ino' = [ino EXCEPT ![file] = m]
        BY <1>3, <3>1, <3>4 DEF Inodes
      <3> QED BY <3>5 DEF m
    <2> HIDE DEF j
    <2>4. View = [i \in Files |-> IF i = file THEN Counted(ino[file], call.lba) ELSE ino[i]]
      BY <1>1 DEF View
    <2> QED BY <1>3, <2>2, <2>3, <2>4 DEF Inodes
  <1>5. /\ ino'[file].blocks = next + 1 /\ ino'[file].size = ino[file].size
        /\ \A i \in Files : i # file => ino'[i] = ino[i]
    <2>1. /\ Counted(ino[file], call.lba).blocks = next + 1
          /\ Counted(ino[file], call.lba).size = ino[file].size
      BY <1>2, <1>3, CountedType
    <2> QED BY <1>1, <1>2, <1>4, <2>1 DEF View
  <1> QED BY <1>4, <1>5

LEMMA PointToBlockKeeps ==
    ASSUME FilesInv, PointToBlock
    PROVE  FilesInv'
  <1>1. /\ pc = "point" /\ pc \in Adding /\ pc \in Resizing
        /\ d_ino' = ino'
        /\ call' = [call EXCEPT !.left = IF call.filled THEN call.left - 1 ELSE call.left]
        /\ pc' = IF call.filled THEN Loop(call.left - 1) ELSE "fill"
        /\ UNCHANGED <<data_bitmap, blk, emptied>>
    BY DEF PointToBlock, LeftToReserve, Adding, Resizing
  <1>2. FilesTypeOK /\ UseInv /\ CallInv /\ NarrowInv /\ CountInv /\ RoomInv
    BY DEF FilesInv
  <1>3. /\ file \in Files /\ call \in CallType
        /\ ino[file] \in InodeType /\ next \in Nat /\ next = ino[file].blocks
        /\ ino[file].size \in Nat /\ call.size \in Nat /\ call.left \in Nat
        /\ Target \in Nat /\ next < Target
    BY <1>1, StepFacts
  <1>4. ino \in Inodes /\ View \in Inodes /\ call.lba \in Lbas
    BY <1>2, StateTypes DEF FilesTypeOK
  <1>5. /\ Growing(file, call.size)
        /\ IF call.filled THEN call.left > 0 ELSE call.idx = 0
    BY <1>1, <1>2 DEF CallInv
  <1>6. /\ Loop(call.left - 1) = IF call.left - 1 = 0 THEN "set_size" ELSE "reserve"
        /\ pc' \notin {"point", "point_indirect", "write", "reply", "idle", "remove"}
        /\ pc' \in Resizing
    BY <1>1, <1>5 DEF Loop, Resizing, Adding
  <1>7. /\ call' \in CallType /\ call'.file = call.file
        /\ call'.op = call.op /\ call'.size = call.size /\ call'.at = call.at
        /\ call'.n = call.n /\ call'.buf = call.buf /\ call'.idx = call.idx
        /\ call'.left = (IF call.filled THEN call.left - 1 ELSE call.left)
        /\ call'.filled = call.filled /\ call'.lba = call.lba
        /\ call'.written = call.written
    <2> DEFINE e == IF call.filled THEN call.left - 1 ELSE call.left
    <2>1. e \in Nat
      BY <1>3, <1>5
    <2>2. call' = [call EXCEPT !.left = e]
      BY <1>1
    <2> HIDE DEF e
    <2>3. /\ call' \in CallType /\ call'.file = call.file
          /\ call'.op = call.op /\ call'.size = call.size /\ call'.at = call.at
          /\ call'.n = call.n /\ call'.buf = call.buf /\ call'.idx = call.idx
          /\ call'.left = e
          /\ call'.filled = call.filled /\ call'.lba = call.lba
          /\ call'.written = call.written
      BY <1>3, <2>1, <2>2 DEF CallType
    <2> QED BY <2>3 DEF e
  <1>8. ino' = View
    BY BlockCounted
  <1>9. /\ View' = ino' /\ Reserved = {} /\ Reserved' = {}
    <2>1. View' = [i \in Files |-> ino'[i]]
      BY <1>6 DEF View
    <2>2. ino' = [i \in Files |-> ino'[i]]
      BY <1>4, <1>8 DEF Inodes
    <2> QED BY <1>1, <1>6, <2>1, <2>2 DEF Reserved
  <1>10. /\ ino'[file].blocks = next + 1 /\ ino'[file].size = ino[file].size
         /\ \A i \in Files : i # file => ino'[i] = ino[i]
    BY BlockCounted
  <1>11. /\ file' = file /\ next' = next + 1 /\ Target' = Target
         /\ Growing(file, call.size)' = Growing(file, call.size)
         /\ \A i \in Files : i # file => BlocksFor(i)' = BlocksFor(i)
    BY <1>1, <1>7, <1>10, TargetStays DEF file, next, BlocksFor
  <1>12. FilesTypeOK'
    BY <1>1, <1>2, <1>4, <1>6, <1>7, <1>8 DEF FilesTypeOK, Inodes, CallType, Steppers, Resizing, Adding
  <1>13. UseInv'
    BY <1>1, <1>2, <1>8, <1>9 DEF UseInv
  <1>14. CallInv'
    <2>1. pc' = "fill" => call'.idx < ino'[file].blocks /\ ~call'.filled
      BY <1>1, <1>3, <1>5, <1>6, <1>7, <1>10
    <2>2. pc' = "set_size" => call'.left = 0
      BY <1>1, <1>6, <1>7
    <2>3. pc' \in Adding => pc' = "reserve" /\ call'.filled /\ call'.left > 0
      BY <1>1, <1>3, <1>5, <1>6, <1>7 DEF Adding
    <2>4. /\ IntBlock(call'.at) >= 0
          /\ call'.op = "write" => call.op = "write" /\ call'.buf \in Buffers
                                   /\ call'.at + call'.n = call'.size
                                   /\ IntBlock(call'.at) <= IntBlock(call'.size)
      BY <1>1, <1>2, <1>7 DEF CallInv
    <2> QED BY <1>1, <1>2, <1>5, <1>6, <1>7, <1>11, <2>1, <2>2, <2>3, <2>4 DEF CallInv
  <1>15. CountInv'
    <2>1. \A i \in Files : i # file => ino'[i].blocks = BlocksFor(i)'
      BY <1>1, <1>10, <1>11, NoneIsWideYet
    <2>2. next + call.left + (IF ~call.filled THEN 1 ELSE 0) = Target
      BY <1>1, <1>2, <1>3, <1>5 DEF CountInv
    <2>3. pc' \in Adding => call.filled
      BY <1>1, <1>6 DEF Adding
    <2>4. next + 1 + call'.left + (IF pc' \in Adding /\ ~call.filled THEN 1 ELSE 0) = Target
      BY <1>3, <1>5, <1>7, <2>2, <2>3
    <2> QED BY <1>5, <1>6, <1>7, <1>10, <1>11, <2>1, <2>4 DEF CountInv
  <1>16. RoomInv'
    <2>1. Need(View[file].blocks, Target) + Cardinality(data_bitmap) <= NumDataBlocks
      BY <1>1, <1>2, <1>5 DEF RoomInv
    <2> QED BY <1>1, <1>6, <1>8, <1>9, <1>11, <2>1 DEF RoomInv
  <1>17. NarrowInv'
    BY <1>1, <1>3, <1>10, <1>11, NarrowStays
  <1> QED BY <1>12, <1>13, <1>14, <1>15, <1>16, <1>17 DEF FilesInv

(***************************************************************************)
(* Bytes go to a block that no pointer is in.                              *)
(***************************************************************************)
LEMMA BytesWritten ==
    ASSUME FilesInv, pc \notin {"idle", "point", "point_indirect"},
           NEW n \in Nat, n < ino[file].blocks,
           NEW x \in [Cells -> Cell], file_write_block(file, n, x),
           UNCHANGED <<ino, data_bitmap>>, file' = file,
           pc' \notin {"point", "point_indirect"}
    PROVE  UseInv' /\ blk' \in Blocks /\ View = ino /\ View' = ino
  <1> DEFINE l == PtrAt(blk, ino[file], n)
  <1>1. FilesTypeOK /\ UseInv /\ file \in Files
    BY DEF FilesInv, CallInv
  <1>2. View = ino /\ ino \in Inodes /\ blk \in Blocks /\ Reserved = {} /\ Reserved' = {}
    BY <1>1, StateTypes DEF Reserved
  <1>3. View' = ino
    <2>1. View' = [i \in Files |-> ino[i]]
      BY DEF View
    <2> QED BY <1>1, <2>1 DEF FilesTypeOK
  <1>4. OneUse(blk, ino)
    BY <1>1, <1>2 DEF UseInv
  <1>5. blk' = [blk EXCEPT ![l] = x]
    BY DEF file_write_block, BlockPtr, PtrAt
  <1>6. n \in Count(ino[file])
    BY <1>1, <1>2, PlaceTypes
  <1>7. \A i \in Files : \A m \in Held(ino[i]) : ino[i].ptrs[index(m)] # l
    BY <1>1, <1>4, <1>6 DEF OneUse
  <1> HIDE DEF l
  <1>8. OneUse(blk', ino) /\ Used(blk', ino) = Used(blk, ino)
    BY <1>2, <1>4, <1>5, <1>7, OtherBlocks
  <1>9. blk' \in Blocks
    BY <1>2, <1>5 DEF Blocks
  <1> QED BY <1>1, <1>2, <1>3, <1>8, <1>9 DEF UseInv

LEMMA FillBlockKeeps ==
    ASSUME FilesInv, FillBlock
    PROVE  FilesInv'
  <1> DEFINE old == file_read_block(file, call.idx)
             x == fill(old, (SmallerSize % BlockSize) + 1)
  <1>1. /\ pc = "fill" /\ pc \in Resizing /\ pc \notin Adding
        /\ file_write_block(file, call.idx, x)
        /\ call' = [call EXCEPT !.filled = TRUE]
        /\ pc' = Loop(call.left)
        /\ UNCHANGED <<ino, d_ino, data_bitmap, emptied>>
    BY DEF FillBlock, Adding, Resizing
  <1>2. FilesTypeOK /\ UseInv /\ CallInv /\ NarrowInv /\ CountInv /\ RoomInv
    BY DEF FilesInv
  <1>3. /\ file \in Files /\ call \in CallType
        /\ ino[file] \in InodeType /\ ino[file].blocks \in Nat
        /\ call.left \in Nat /\ Target \in Nat /\ call.idx \in Nat
        /\ call.idx < ino[file].blocks
    BY <1>1, <1>2, StepFacts DEF CallInv, CallType, InodeType
  <1>4. /\ pc' = IF call.left = 0 THEN "set_size"
                 ELSE IF Growing(file, call.size) THEN "reserve" ELSE "remove"
        /\ pc' \in Resizing
        /\ pc' \notin {"point", "point_indirect", "write", "reply", "idle", "fill"}
    BY <1>1 DEF Loop, Resizing, Adding
  <1>5. /\ call' \in CallType /\ call'.file = call.file
        /\ call'.op = call.op /\ call'.size = call.size /\ call'.at = call.at
        /\ call'.n = call.n /\ call'.buf = call.buf /\ call'.idx = call.idx
        /\ call'.left = call.left /\ call'.filled /\ call'.lba = call.lba
        /\ call'.written = call.written
    BY <1>1, <1>3 DEF CallType
  <1>6. x \in [Cells -> Cell]
    <2>1. PtrAt(blk, ino[file], call.idx) \in Lbas
      <3>1. View = ino /\ ino \in Inodes /\ blk \in Blocks
        BY <1>1, <1>2, StateTypes
      <3>2. ino[file].blocks <= NumDataBlocks
        BY <1>2, <1>3, <3>1 DEF UseInv, OneUse
      <3> QED BY <1>3, <3>1, <3>2, PlaceTypes, PointersOnDisk
    <2>2. old \in [Cells -> Cell]
      BY <1>2, <2>1 DEF file_read_block, BlockPtr, PtrAt, FilesTypeOK
    <2>3. Zero \in Cell
      BY DEF Cell
    <2> HIDE DEF old
    <2> QED BY <2>2, <2>3 DEF fill
  <1> HIDE DEF x
  <1>7. /\ file' = file /\ Target' = Target
        /\ Growing(file, call.size)' = Growing(file, call.size)
        /\ \A i \in Files : BlocksFor(i)' = BlocksFor(i)
    BY <1>1, <1>5, TargetStays DEF file, BlocksFor
  <1>8. UseInv' /\ blk' \in Blocks /\ View = ino /\ View' = ino
    BY <1>1, <1>3, <1>4, <1>6, <1>7, BytesWritten
  <1>9. FilesTypeOK'
    BY <1>1, <1>2, <1>4, <1>5, <1>8
       DEF FilesTypeOK, Blocks, CallType, Steppers, Resizing, Adding
  <1>10. CallInv'
    <2>1. pc' \in Adding => pc' = "reserve" /\ Growing(file, call.size) /\ call.left > 0
      BY <1>3, <1>4 DEF Adding
    <2>2. pc' = "remove" => ~Growing(file, call.size) /\ call.left > 0
      BY <1>3, <1>4
    <2>3. /\ IntBlock(call'.at) >= 0
          /\ call'.op = "write" => call'.buf \in Buffers /\ Growing(file, call.size)
                                   /\ call'.at + call'.n = call'.size
                                   /\ IntBlock(call'.at) <= IntBlock(call'.size)
      BY <1>1, <1>2, <1>5 DEF CallInv
    <2> QED BY <1>1, <1>2, <1>4, <1>5, <1>7, <2>1, <2>2, <2>3 DEF CallInv
  <1>11. CountInv'
    BY <1>1, <1>2, <1>4, <1>5, <1>7 DEF CountInv
  <1>12. RoomInv'
    BY <1>1, <1>2, <1>4, <1>7, <1>8 DEF RoomInv
  <1>13. NarrowInv'
    BY <1>1, <1>7, NarrowStays
  <1> QED BY <1>8, <1>9, <1>10, <1>11, <1>12, <1>13 DEF FilesInv

LEMMA WriteBlockKeeps ==
    ASSUME FilesInv, WriteBlock
    PROVE  FilesInv'
  <1> DEFINE first == IntBlock(call.at)
             last == IntBlock(call.at + call.n)
             begin == IF call.idx = first THEN call.at % BlockSize ELSE 0
             n == IF call.idx = last THEN call.n - call.written ELSE BlockSize - begin
             source == [k \in Cells |-> Byte(call.at + call.written + k, call.buf)]
             old == file_read_block(file, call.idx)
             x == memcpy(old, begin, n, source)
  <1>1. /\ pc = "write"
        /\ file_write_block(file, call.idx, x)
        /\ call' = [call EXCEPT !.idx = @ + 1, !.written = call.written + n]
        /\ pc' = IF call.idx = last THEN "reply" ELSE "write"
        /\ UNCHANGED <<ino, d_ino, data_bitmap, emptied>>
    BY DEF WriteBlock, Written
  <1>2. FilesTypeOK /\ UseInv /\ CallInv /\ NarrowInv /\ CountInv /\ RoomInv
    BY DEF FilesInv
  <1>3. /\ file \in Files /\ call \in CallType
        /\ ino[file].blocks \in Nat /\ ino[file].size \in Nat
        /\ call.idx \in Nat /\ call.at \in Nat /\ call.n \in Nat /\ call.written \in Int
        /\ BlockSize \in Nat \ {0} /\ emptied[file] \in Nat
    BY <1>1, <1>2, StepFacts, Params DEF CallType, InodeType
  <1>4. /\ call.op = "write" /\ ino[file].size > 0
        /\ call.at + call.n <= ino[file].size /\ call.idx <= last
        /\ last < ino[file].blocks
        /\ call.buf \in Buffers /\ call.written >= 0
    BY <1>1, <1>2 DEF CallInv
  <1>5. last \in Int
    BY <1>3, IntBlocks
  <1>6. /\ begin \in Nat /\ begin < BlockSize
    <2>1. call.at % BlockSize \in Nat /\ call.at % BlockSize < BlockSize
      BY <1>3
    <2> QED BY <1>3, <2>1
  <1> HIDE DEF last, begin
  <1>7. n \in Int /\ (call.idx # last => n >= 0)
    BY <1>3, <1>6
  <1>8. call.idx < ino[file].blocks
    BY <1>3, <1>4, <1>5
  <1> HIDE DEF n
  <1>9. source \in [Cells -> Cell]
    <2>1. ASSUME NEW k \in Cells PROVE Byte(call.at + call.written + k, call.buf) \in Cell
      <3>1. k \in Nat
        BY <1>3, <2>1 DEF Cells
      <3>2. call.at + call.written + k \in Nat
        BY <1>3, <1>4, <3>1
      <3> QED BY <1>4, <3>2 DEF Cell, Byte
    <2> QED BY <2>1
  <1> HIDE DEF source
  <1>10. x \in [Cells -> Cell]
    <2>1. PtrAt(blk, ino[file], call.idx) \in Lbas
      <3>1. View = ino /\ ino \in Inodes /\ blk \in Blocks
        BY <1>1, <1>2, StateTypes
      <3>2. ino[file].blocks <= NumDataBlocks
        BY <1>2, <1>3, <3>1 DEF UseInv, OneUse
      <3> QED BY <1>3, <1>8, <3>1, <3>2, PlaceTypes, PointersOnDisk
    <2>2. old \in [Cells -> Cell]
      BY <1>2, <2>1 DEF file_read_block, BlockPtr, PtrAt, FilesTypeOK
    <2> HIDE DEF old
    <2>3. ASSUME NEW c \in Cells, c \in begin .. begin + n - 1 PROVE c - begin \in Cells
      BY <1>3, <1>6, <1>7, <2>3 DEF Cells
    <2> QED BY <1>9, <2>2, <2>3 DEF memcpy
  <1> HIDE DEF x
  <1>11. /\ call' \in CallType /\ call'.file = call.file
         /\ call'.op = call.op /\ call'.size = call.size /\ call'.at = call.at
         /\ call'.n = call.n /\ call'.buf = call.buf /\ call'.idx = call.idx + 1
         /\ call'.left = call.left /\ call'.filled = call.filled /\ call'.lba = call.lba
         /\ call'.written = call.written + n
    <2> DEFINE i == call.idx + 1
               w == call.written + n
    <2>1. i \in Nat /\ w \in Int
      BY <1>3, <1>7
    <2>2. call' = [call EXCEPT !.idx = i, !.written = w]
      BY <1>1
    <2> HIDE DEF i, w
    <2>3. /\ call' \in CallType /\ call'.file = call.file
          /\ call'.op = call.op /\ call'.size = call.size /\ call'.at = call.at
          /\ call'.n = call.n /\ call'.buf = call.buf /\ call'.idx = i
          /\ call'.left = call.left /\ call'.filled = call.filled /\ call'.lba = call.lba
          /\ call'.written = w
      BY <1>3, <2>1, <2>2 DEF CallType
    <2> QED BY <2>3 DEF i, w
  <1>12. /\ file' = file /\ last' = last
         /\ \A i \in Files : BlocksFor(i)' = BlocksFor(i)
         /\ pc' \in {"reply", "write"}
    BY <1>1, <1>11 DEF file, last, BlocksFor
  <1>13. UseInv' /\ blk' \in Blocks
    BY <1>1, <1>3, <1>8, <1>10, <1>12, BytesWritten
  <1>14. FilesTypeOK'
    BY <1>1, <1>2, <1>11, <1>12, <1>13 DEF FilesTypeOK, Blocks, CallType, Steppers
  <1>15. CallInv'
    <2>1. pc' = "write" => call'.idx <= last' /\ call'.written >= 0
      <3>1. SUFFICES ASSUME pc' = "write"
                     PROVE  call'.idx <= last' /\ call'.written >= 0
        OBVIOUS
      <3>2. call.idx # last
        BY <1>1, <3>1
      <3>3. call.idx + 1 <= last
        <4>1. call.idx \in Nat /\ last \in Int /\ call.idx <= last
          BY <1>3, <1>4, <1>5
        <4> QED BY <3>2, <4>1
      <3>4. call.written + n >= 0
        BY <1>3, <1>4, <1>7, <3>2
      <3> QED BY <1>11, <1>12, <3>3, <3>4
    <2>2. pc' \notin Resizing /\ pc' \notin Adding /\ pc' \notin {"fill", "remove", "set_size"}
      BY <1>12 DEF Resizing, Adding
    <2>3. IntBlock(call'.at) >= 0
      BY <1>2, <1>11 DEF CallInv
    <2> QED BY <1>1, <1>3, <1>4, <1>11, <1>12, <2>1, <2>2, <2>3 DEF CallInv, last
  <1>16. CountInv'
    <2>1. /\ pc' \notin Resizing
          /\ \A i \in Files : ~Wide(ino[i].size) => ino[i].blocks = BlocksFor(i)
      BY <1>1, <1>2, <1>12 DEF CountInv, Resizing, Adding
    <2> QED BY <1>1, <1>12, <2>1 DEF CountInv
  <1>17. RoomInv'
    BY <1>12 DEF RoomInv, Adding
  <1>18. NarrowInv'
    BY <1>1, <1>12, NarrowStays
  <1> QED BY <1>13, <1>14, <1>15, <1>16, <1>17, <1>18 DEF FilesInv

(***************************************************************************)
(* The last block leaves the file and the bitmap together, with its        *)
(* pointer block if it was the first one there.                            *)
(***************************************************************************)
LEMMA BlockDropped ==
    ASSUME FilesInv, RemoveBlock
    PROVE  /\ ino' \in Inodes
           /\ \A i \in Files :
                 /\ ino'[i].blocks = IF i = file THEN ino[i].blocks - 1 ELSE ino[i].blocks
                 /\ ino'[i].ptrs = ino[i].ptrs /\ ino'[i].size = ino[i].size
  <1> DEFINE e == ino[file].blocks - 1
             j == [ino[file] EXCEPT !.blocks = e]
  <1>1. pc = "remove" /\ pc \in Resizing /\ pc \notin Adding /\ ino' = [ino EXCEPT ![file] = j]
    BY DEF RemoveBlock, Resizing, Adding
  <1>2. /\ file \in Files /\ ino \in Inodes
        /\ ino[file] \in InodeType /\ ino[file].blocks \in Nat
        /\ call.left \in Nat /\ Target \in Nat
    BY <1>1, StateTypes, StepFacts DEF InodeType, FilesInv
  <1>3. call.left > 0 /\ ino[file].blocks = Target + call.left
    BY <1>1 DEF FilesInv, CallInv, CountInv
  <1>4. e \in Nat
    BY <1>2, <1>3
  <1> HIDE DEF e
  <1>5. j \in InodeType /\ j.blocks = e /\ j.ptrs = ino[file].ptrs /\ j.size = ino[file].size
    BY <1>2, <1>4 DEF InodeType
  <1> HIDE DEF j
  <1> QED BY <1>1, <1>2, <1>5 DEF Inodes, e

LEMMA RemoveBlockKeeps ==
    ASSUME FilesInv, RemoveBlock
    PROVE  FilesInv'
  <1> DEFINE W == With(blk, ino[file], ino[file].blocks - 1)
  <1>1. /\ pc = "remove" /\ pc \in Resizing /\ pc \notin Adding
        /\ data_bitmap' = data_bitmap \ {Bit(l) : l \in W}
        /\ ino' = [ino EXCEPT ![file].blocks = @ - 1]
        /\ d_ino' = ino'
        /\ call' = [call EXCEPT !.left = @ - 1]
        /\ pc' = Loop(call.left - 1)
        /\ UNCHANGED <<blk, emptied>>
    BY DEF RemoveBlock, Freed, With, BlockPtr, PtrAt, Adding, Resizing
  <1>2. FilesTypeOK /\ UseInv /\ CallInv /\ NarrowInv /\ CountInv /\ RoomInv
    BY DEF FilesInv
  <1>3. /\ file \in Files /\ call \in CallType
        /\ ino[file] \in InodeType /\ ino[file].blocks \in Nat
        /\ call.left \in Nat /\ Target \in Nat
    BY <1>1, <1>2, StepFacts DEF InodeType
  <1>4. /\ ~Growing(file, call.size) /\ call.filled /\ call.left > 0
        /\ ino[file].blocks = Target + call.left
    BY <1>1, <1>2 DEF CallInv, CountInv
  <1>5. /\ View = ino /\ ino \in Inodes /\ blk \in Blocks /\ Reserved = {}
        /\ OneUse(blk, ino) /\ data_bitmap = {Bit(l) : l \in Used(blk, ino)}
    BY <1>1, <1>2, StateTypes DEF Reserved, UseInv
  <1>6. /\ call' \in CallType /\ call'.file = call.file
        /\ call'.op = call.op /\ call'.size = call.size /\ call'.at = call.at
        /\ call'.n = call.n /\ call'.buf = call.buf /\ call'.idx = call.idx
        /\ call'.left = call.left - 1 /\ call'.filled /\ call'.lba = call.lba
        /\ call'.written = call.written
    <2> DEFINE e == call.left - 1
    <2>1. e \in Nat /\ call' = [call EXCEPT !.left = e]
      BY <1>1, <1>3, <1>4
    <2> HIDE DEF e
    <2>2. /\ call' \in CallType /\ call'.file = call.file
          /\ call'.op = call.op /\ call'.size = call.size /\ call'.at = call.at
          /\ call'.n = call.n /\ call'.buf = call.buf /\ call'.idx = call.idx
          /\ call'.left = e /\ call'.filled /\ call'.lba = call.lba
          /\ call'.written = call.written
      BY <1>3, <1>4, <2>1 DEF CallType
    <2> QED BY <2>2 DEF e
  <1>7. /\ pc' = IF call.left - 1 = 0 THEN "set_size" ELSE "remove"
        /\ pc' \in Resizing /\ pc' \notin Adding
        /\ pc' \notin {"point", "point_indirect", "write", "reply", "idle", "fill"}
    BY <1>1, <1>4 DEF Loop, Resizing, Adding
  <1>8. /\ ino' \in Inodes
        /\ \A i \in Files :
              /\ ino'[i].blocks = IF i = file THEN ino[i].blocks - 1 ELSE ino[i].blocks
              /\ ino'[i].ptrs = ino[i].ptrs /\ ino'[i].size = ino[i].size
    BY BlockDropped
  <1>9. /\ OneUse(blk, ino') /\ Used(blk, ino') = Used(blk, ino) \ W
        /\ W \subseteq Used(blk, ino)
    <2>1. ino[file].blocks > 0 /\ ino[file].blocks - 1 \in Nat
      BY <1>3, <1>4
    <2>2. OneUse(blk, ino') /\ Used(blk, ino') = Used(blk, ino) \ W
      BY <1>3, <1>5, <1>8, <2>1, OneLessUse
    <2>3. ino[file].blocks - 1 < ino[file].blocks
      BY <1>3
    <2>4. ino[file].blocks - 1 \in Count(ino[file])
      BY <1>3, <1>5, <2>1, <2>3, PlaceTypes
    <2>5. W \subseteq Used(blk, ino)
      BY <1>3, <2>4, Uses DEF With, Held, NeedsPointers
    <2> QED BY <2>2, <2>5
  <1> HIDE DEF W
  <1>10. data_bitmap' = {Bit(l) : l \in Used(blk, ino')}
    <2>1. Used(blk, ino) \subseteq Int
      BY <1>5, UsedOnDisk
    <2>2. \A l, k \in Int : Bit(l) = Bit(k) => l = k
      BY DEF Bit
    <2>3. \A l, k \in Used(blk, ino) : Bit(l) = Bit(k) => l = k
      BY <2>1, <2>2
    <2>4. data_bitmap' = {Bit(l) : l \in Used(blk, ino)} \ {Bit(l) : l \in W}
      BY <1>1, <1>5
    <2>5. W \subseteq Used(blk, ino)
      BY <1>9
    <2>6. {Bit(l) : l \in Used(blk, ino)} \ {Bit(l) : l \in W} =
              {Bit(l) : l \in Used(blk, ino) \ W}
      BY <2>3, <2>5
    <2> QED BY <1>9, <2>4, <2>6
  <1>11. View' = ino' /\ Reserved' = {}
    <2>1. View' = [i \in Files |-> ino'[i]]
      BY <1>7 DEF View
    <2> QED BY <1>7, <1>8, <2>1 DEF Inodes, Reserved
  <1>12. /\ file' = file /\ Target' = Target
         /\ Growing(file, call.size)' = Growing(file, call.size)
         /\ \A i \in Files : BlocksFor(i)' = BlocksFor(i)
    BY <1>1, <1>3, <1>6, <1>8, TargetStays DEF file, BlocksFor
  <1>13. FilesTypeOK'
    <2>1. data_bitmap' \subseteq 0 .. NumDataBlocks - 1
      BY <1>1, <1>2 DEF FilesTypeOK
    <2> QED BY <1>1, <1>2, <1>6, <1>7, <1>8, <2>1
            DEF FilesTypeOK, Inodes, CallType, Steppers, Resizing, Adding
  <1>14. UseInv'
    BY <1>1, <1>9, <1>10, <1>11 DEF UseInv
  <1>15. CallInv'
    <2>1. pc' = "set_size" => call'.left = 0
      BY <1>6, <1>7
    <2>2. pc' = "remove" => call'.left > 0
      BY <1>3, <1>4, <1>6, <1>7
    <2>3. call'.op # "write"
      BY <1>1, <1>2, <1>4, <1>6 DEF CallInv
    <2>4. pc' # "point_indirect" /\ pc # "reply" /\ pc # "idle"
      BY <1>1, <1>7
    <2>5. IntBlock(call'.at) >= 0
      BY <1>2, <1>6 DEF CallInv
    <2> QED BY <1>2, <1>4, <1>6, <1>7, <1>12, <2>1, <2>2, <2>3, <2>4, <2>5 DEF CallInv
  <1>16. CountInv'
    <2>1. ino'[file].blocks = Target + call'.left
      BY <1>3, <1>4, <1>6, <1>8
    <2>2. \A i \in Files : i # file => ino'[i].blocks = BlocksFor(i)
      BY <1>1, <1>8, NoneIsWideYet
    <2> QED BY <1>4, <1>7, <1>12, <2>1, <2>2 DEF CountInv
  <1>17. RoomInv'
    BY <1>4, <1>7, <1>12 DEF RoomInv
  <1>18. NarrowInv'
    BY <1>1, <1>3, <1>8, <1>12, NarrowStays
  <1> QED BY <1>13, <1>14, <1>15, <1>16, <1>17, <1>18 DEF FilesInv

(***************************************************************************)
(* The new size makes the blocks the ones of the size again.               *)
(***************************************************************************)
LEMMA SizeIsSet ==
    ASSUME FilesInv, SetSize
    PROVE  /\ ino' \in Inodes
           /\ \A i \in Files :
                 /\ ino'[i].size = IF i = file THEN call.size ELSE ino[i].size
                 /\ ino'[i].ptrs = ino[i].ptrs /\ ino'[i].blocks = ino[i].blocks
  <1> DEFINE j == [ino[file] EXCEPT !.size = call.size]
  <1>1. pc = "set_size" /\ ino' = [ino EXCEPT ![file] = j]
    BY DEF SetSize
  <1>2. file \in Files /\ ino[file] \in InodeType /\ call.size \in Nat /\ ino \in Inodes
    BY <1>1, StateTypes, StepFacts DEF FilesInv
  <1>3. /\ j \in InodeType /\ j.size = call.size
        /\ j.ptrs = ino[file].ptrs /\ j.blocks = ino[file].blocks
    BY <1>2 DEF InodeType
  <1> HIDE DEF j
  <1> QED BY <1>1, <1>2, <1>3 DEF Inodes

LEMMA SetSizeKeeps ==
    ASSUME FilesInv, SetSize
    PROVE  FilesInv'
  <1> DEFINE more == IF call.size = 0 THEN emptied[file] + 1 ELSE emptied[file]
             first == IntBlock(call.at)
             last == IntBlock(call.at + call.n)
  <1>1. /\ pc = "set_size" /\ pc \in Resizing /\ pc \notin Adding
        /\ ino' = [ino EXCEPT ![file].size = call.size]
        /\ d_ino' = ino'
        /\ emptied' = [emptied EXCEPT ![file] = more]
        /\ call' = [call EXCEPT !.idx = first]
        /\ pc' = IF call.op = "write" THEN "write" ELSE "reply"
        /\ UNCHANGED <<data_bitmap, blk>>
    BY DEF SetSize, Adding, Resizing
  <1>2. FilesTypeOK /\ UseInv /\ CallInv /\ NarrowInv /\ CountInv /\ RoomInv
    BY DEF FilesInv
  <1>3. /\ file \in Files /\ call \in CallType /\ call.file = file
        /\ ino[file] \in InodeType /\ ino[file].blocks \in Nat /\ ino[file].size \in Nat
        /\ call.left = 0 /\ call.size \in Nat /\ call.at \in Nat /\ call.n \in Nat
        /\ emptied \in [Files -> Nat] /\ BlockSize \in Nat \ {0}
    BY <1>1, <1>2, StepFacts, Params DEF InodeType, CallInv, CallType
  <1>4. /\ first \in Nat /\ last \in Int
        /\ call.size \div BlockSize \in Nat /\ IntBlock(call.size) \in Int
        /\ call.op = "write" => call.at + call.n = call.size /\ first <= last
                                /\ call.buf \in Buffers /\ Growing(file, call.size)
    <2>1. /\ IntBlock(call.at) >= 0
          /\ call.op = "write" => call.at + call.n = call.size
                                  /\ IntBlock(call.at) <= IntBlock(call.size)
                                  /\ call.buf \in Buffers /\ Growing(file, call.size)
      BY <1>1, <1>2 DEF CallInv
    <2>2. call.at + call.n \in Nat
      BY <1>3
    <2> QED BY <1>3, <2>1, <2>2, IntBlocks
  <1>5. /\ ino[file].blocks = emptied[file] + LastBlock + 1
        /\ LastBlock \in Nat /\ IntBlock(call.size) <= LastBlock
        /\ ~Wide(call.size) => LastBlock = call.size \div BlockSize
    <2>1. Target \in Nat /\ ino[file].blocks = Target /\ LastBlock \in Nat
      BY <1>1, <1>2, <1>3, StepFacts DEF CountInv
    <2>2. ~Wide(call.size) => IntBlock(call.size) = call.size \div BlockSize
      BY <1>3, IntBlocks
    <2>3. Growing(file, call.size) => ino[file].size \div BlockSize <= call.size \div BlockSize
      BY <1>3, DivisionIsMonotone DEF Growing
    <2>4. ino[file].size \div BlockSize \in Nat
      BY <1>3, IntBlocks
    <2> QED BY <1>4, <2>1, <2>2, <2>3, <2>4 DEF Target, LastBlock, LastOf
  <1> HIDE DEF first, last
  <1>6. /\ call' \in CallType /\ call'.file = call.file
        /\ call'.op = call.op /\ call'.size = call.size /\ call'.at = call.at
        /\ call'.n = call.n /\ call'.buf = call.buf /\ call'.idx = first
        /\ call'.left = call.left /\ call'.filled = call.filled /\ call'.lba = call.lba
        /\ call'.written = call.written
    BY <1>1, <1>3, <1>4 DEF CallType
  <1>7. /\ ino' \in Inodes
        /\ \A i \in Files :
              /\ ino'[i].size = IF i = file THEN call.size ELSE ino[i].size
              /\ ino'[i].ptrs = ino[i].ptrs /\ ino'[i].blocks = ino[i].blocks
    BY SizeIsSet
  <1>8. /\ pc' \in {"write", "reply"} /\ pc' \notin Resizing /\ pc' \notin Adding
        /\ file' = file
    BY <1>1, <1>6 DEF Resizing, Adding, file
  <1>9. UseInv'
    <2>1. View = ino /\ ino \in Inodes /\ Reserved = {} /\ Reserved' = {}
      BY <1>1, <1>2, <1>8, StateTypes DEF Reserved
    <2>2. View' = ino'
      <3>1. View' = [i \in Files |-> ino'[i]]
        BY <1>8 DEF View
      <3> QED BY <1>7, <3>1 DEF Inodes
    <2>3. OneUse(blk, ino)
      BY <1>2, <2>1 DEF UseInv
    <2>4. OneUse(blk, ino') /\ Used(blk, ino') = Used(blk, ino)
      <3>1. \A i \in Files :
               /\ ino'[i].blocks = ino[i].blocks
               /\ \A n \in Count(ino[i]) : PtrAt(blk, ino'[i], n) = PtrAt(blk, ino[i], n)
               /\ \A n \in Held(ino[i]) : ino'[i].ptrs[index(n)] = ino[i].ptrs[index(n)]
        BY <1>7 DEF PtrAt
      <3> QED BY <1>7, <2>1, <2>3, <3>1, Same
    <2> QED BY <1>1, <1>2, <2>1, <2>2, <2>4 DEF UseInv
  <1>10. emptied' \in [Files -> Nat] /\ emptied'[file] = more
         /\ \A i \in Files : i # file => emptied'[i] = emptied[i]
    <2>1. more \in Nat
      BY <1>3
    <2> HIDE DEF more
    <2> QED BY <1>1, <1>3, <2>1
  <1>11. FilesTypeOK'
    BY <1>1, <1>2, <1>6, <1>7, <1>8, <1>10 DEF FilesTypeOK, Inodes, CallType, Steppers
  <1>12. CallInv'
    <2>1. ASSUME call.op = "write"
          PROVE  /\ call.buf \in Buffers /\ call.size > 0
                 /\ call.at + call.n <= call.size
                 /\ first <= last /\ last < ino[file].blocks
      <3>1. call.size > 0 /\ call.at + call.n <= call.size
        BY <1>3, <1>4, <2>1 DEF Growing
      <3>2. last = IntBlock(call.size)
        BY <1>4, <2>1 DEF last
      <3> QED BY <1>3, <1>4, <1>5, <2>1, <3>1, <3>2
    <2>2. pc' = "write" =>
              /\ call'.op = "write" /\ ino'[file].size > 0
              /\ call'.at + call'.n <= ino'[file].size
              /\ call'.idx <= last' /\ last' < ino'[file].blocks
      BY <1>1, <1>3, <1>4, <1>6, <1>7, <2>1 DEF last
    <2>4. IntBlock(call'.at) >= 0
      BY <1>4, <1>6 DEF first
    <2>3. pc' \notin {"idle", "fill", "remove", "set_size", "point_indirect"}
      BY <1>8
    <2> QED BY <1>1, <1>2, <1>3, <1>6, <1>8, <2>1, <2>2, <2>3, <2>4 DEF CallInv, last
  <1>13. CountInv'
    <2>1. ~Wide(call.size) => ino'[file].blocks = BlocksFor(file)'
      <3>1. call.size = 0 => call.size \div BlockSize = 0
        BY <1>3
      <3>2. ~Wide(call.size) => ino'[file].blocks = emptied'[file]
                + (IF ino'[file].size = 0 THEN 0 ELSE (ino'[file].size \div BlockSize) + 1)
        BY <1>3, <1>4, <1>5, <1>7, <1>10, <3>1
      <3> QED BY <1>8, <3>2 DEF BlocksFor
    <2>2. ASSUME NEW i \in Files, i # file PROVE ino'[i].blocks = BlocksFor(i)'
      <3>1. ino[i].blocks = BlocksFor(i)
        BY <1>1, <2>2, NoneIsWideYet
      <3> QED BY <1>7, <1>10, <2>2, <3>1 DEF BlocksFor
    <2>3. ino'[file].size = call.size
      BY <1>3, <1>7
    <2> QED BY <1>8, <2>1, <2>2, <2>3 DEF CountInv
  <1>14. RoomInv'
    BY <1>8 DEF RoomInv
  <1>15. NarrowInv'
    BY <1>1, <1>7, <1>8, NoneIsWideYet DEF NarrowInv
  <1> QED BY <1>9, <1>11, <1>12, <1>13, <1>14, <1>15 DEF FilesInv

LEMMA ReplyKeeps ==
    ASSUME FilesInv, Reply
    PROVE  FilesInv'
  <1>1. /\ pc = "reply" /\ pc' = "idle" /\ call' = NoCall
        /\ UNCHANGED <<ino, d_ino, data_bitmap, blk, emptied>>
    BY DEF Reply
  <1>2. NoCall \in CallType
    <2>1. 0 \in Lbas
      BY Params DEF Lbas
    <2> QED BY <2>1 DEF CallType, NoCall
  <1>3. UseInv'
    BY <1>1, BeginUses
  <1>4. FilesTypeOK'
    BY <1>1, <1>2 DEF FilesInv, FilesTypeOK, CallType
  <1>5. CallInv'
    BY <1>1, <1>2, FirstBlockIsZero DEF CallInv, NoCall, Resizing, Adding
  <1>6. CountInv'
    <2>1. \A i \in Files : ~Wide(ino[i].size) => ino[i].blocks = BlocksFor(i)
      BY <1>1 DEF FilesInv, CountInv
    <2>2. \A i \in Files : BlocksFor(i)' = BlocksFor(i)
      BY <1>1 DEF BlocksFor
    <2> QED BY <1>1, <2>1, <2>2 DEF CountInv, Resizing, Adding
  <1>7. RoomInv'
    BY <1>1 DEF RoomInv, Adding
  <1>8. NarrowInv'
    BY <1>1 DEF NarrowInv
  <1> QED BY <1>3, <1>4, <1>5, <1>6, <1>7, <1>8 DEF FilesInv

LEMMA FilesBegin ==
    ASSUME Init
    PROVE  FilesInv
  <1>1. /\ ino = [f \in Files |-> ZeroInode] /\ d_ino = ino /\ data_bitmap = {}
        /\ blk = [k \in Lbas |-> ZeroBlock] /\ pc = "idle" /\ call = NoCall
        /\ emptied = [f \in Files |-> 0]
    BY DEF Init
  <1>2. 0 \in Lbas
    BY Params DEF Lbas
  <1>3. ZeroInode \in InodeType /\ ZeroInode.size = 0 /\ ZeroInode.blocks = 0
    BY <1>2 DEF ZeroInode, InodeType
  <1>4. FilesTypeOK
    <2>1. ZeroBlock \in [Cells -> Cell]
      BY DEF ZeroBlock, Cell
    <2>2. call.file = 0 /\ call.lba = 0 /\ call.left = 0
      BY <1>1 DEF NoCall
    <2> QED BY <1>1, <1>2, <1>3, <2>1, <2>2 DEF FilesTypeOK
  <1>5. View = ino /\ ino \in Inodes /\ Reserved = {}
    BY <1>1, <1>4, StateTypes DEF Reserved
  <1>6. \A i \in Files : ino[i].blocks = 0 /\ ino[i].size = 0
    BY <1>1, <1>3
  <1>7. \A i \in Files : Count(ino[i]) = {} /\ Held(ino[i]) = {}
    BY <1>6 DEF Count, Held
  <1>8. Used(blk, ino) = {}
    BY <1>7, Uses
  <1>9. OneUse(blk, ino)
    BY <1>6, <1>7, <1>8, Params DEF OneUse
  <1>10. UseInv
    BY <1>1, <1>5, <1>8, <1>9 DEF UseInv
  <1>11. CallInv
    <2>1. NoCall \in CallType
      BY <1>2 DEF NoCall, CallType
    <2> QED BY <1>1, <2>1, FirstBlockIsZero DEF CallInv, NoCall, Resizing, Adding
  <1>12. CountInv
    BY <1>1, <1>6 DEF CountInv, BlocksFor, Resizing, Adding
  <1>13. RoomInv
    BY <1>1 DEF RoomInv, Adding
  <1>14. NarrowInv
    BY <1>1 DEF NarrowInv
  <1> QED BY <1>4, <1>10, <1>11, <1>12, <1>13, <1>14 DEF FilesInv

LEMMA FilesStay ==
    ASSUME FilesInv, UNCHANGED vars
    PROVE  FilesInv'
  <1>1. UNCHANGED <<ino, d_ino, data_bitmap, blk, pc, call, emptied>>
    BY DEF vars
  <1>2. file' = file /\ next' = next /\ Target' = Target /\ View' = View /\ Reserved' = Reserved
    BY <1>1 DEF file, next, Target, LastBlock, LastOf, Growing, View, Reserved
  <1>3. FilesTypeOK'
    BY <1>1 DEF FilesInv, FilesTypeOK
  <1>4. UseInv'
    BY <1>1, <1>2 DEF FilesInv, UseInv
  <1>5. CallInv'
    BY <1>1, <1>2 DEF FilesInv, CallInv, Growing
  <1>6. CountInv'
    <2>1. \A i \in Files : BlocksFor(i)' = BlocksFor(i)
      BY <1>1 DEF BlocksFor
    <2> QED BY <1>1, <1>2, <2>1 DEF FilesInv, CountInv, Growing
  <1>7. RoomInv'
    BY <1>1, <1>2 DEF FilesInv, RoomInv, Growing
  <1>8. NarrowInv'
    BY <1>1, <1>2 DEF FilesInv, NarrowInv
  <1> QED BY <1>3, <1>4, <1>5, <1>6, <1>7, <1>8 DEF FilesInv

-----------------------------------------------------------------------------
(***************************************************************************)
(* Every step keeps the invariant.                                         *)
(***************************************************************************)
THEOREM FilesInvariant == Spec => []FilesInv
  <1>1. Init => FilesInv
    BY FilesBegin
  <1>2. FilesInv /\ [Next]_vars => FilesInv'
    <2>1. SUFFICES ASSUME FilesInv, [Next]_vars PROVE FilesInv'
      OBVIOUS
    <2>2. ASSUME NEW i \in Files, NEW n \in Sizes, refs_truncate(i, n) PROVE FilesInv'
      BY <2>1, <2>2, TruncateBegins
    <2>3. ASSUME NEW i \in Files, NEW n \in Sizes, Refuse(i, n) PROVE FilesInv'
      BY <2>1, <2>3, FilesStay DEF Refuse
    <2>4. ASSUME NEW i \in Files, NEW n \in Sizes, NEW m \in Sizes, NEW b \in Buffers,
                 refs_write(i, m, n, b)
          PROVE  FilesInv'
      BY <2>1, <2>4, WriteBegins
    <2>5. CASE ReserveBlock
      BY <2>1, <2>5, ReserveKeeps
    <2>6. CASE PointIndirect
      BY <2>1, <2>6, PointIndirectKeeps
    <2>7. CASE PointToBlock
      BY <2>1, <2>7, PointToBlockKeeps
    <2>8. CASE FillBlock
      BY <2>1, <2>8, FillBlockKeeps
    <2>9. CASE RemoveBlock
      BY <2>1, <2>9, RemoveBlockKeeps
    <2>10. CASE SetSize
      BY <2>1, <2>10, SetSizeKeeps
    <2>11. CASE WriteBlock
      BY <2>1, <2>11, WriteBlockKeeps
    <2>12. CASE Reply
      BY <2>1, <2>12, ReplyKeeps
    <2>13. CASE UNCHANGED vars
      BY <2>1, <2>13, FilesStay
    <2> QED BY <2>1, <2>2, <2>3, <2>4, <2>5, <2>6, <2>7, <2>8, <2>9, <2>10, <2>11, <2>12, <2>13
            DEF Next
  <1> QED BY <1>1, <1>2, PTL DEF Spec

(***************************************************************************)
(* No pointer leaves the disk, no index the pointers and the pad of an     *)
(* inode, no bit the bitmap (refs.c:978-985).                              *)
(***************************************************************************)
THEOREM FilesTypes == Spec => []FilesTypeOK
  <1>1. FilesInv => FilesTypeOK
    BY DEF FilesInv
  <1> QED BY <1>1, FilesInvariant, PTL

(***************************************************************************)
(* Counting the new block changes no pointer that is counted already.      *)
(***************************************************************************)
LEMMA ViewKeepsPointers ==
    ASSUME FilesInv, NEW i \in Files
    PROVE  /\ ino[i].blocks <= View[i].blocks
           /\ \A n \in Count(ino[i]) :
                 /\ PtrAt(blk, ino[i], n) = PtrAt(blk, View[i], n)
                 /\ IF Indirect(n) THEN ino[i].ptrs[index(n)] = View[i].ptrs[index(n)]
                                   ELSE ino[i].ptrs[n] = View[i].ptrs[n]
  <1>1. FilesTypeOK /\ UseInv /\ ino \in Inodes /\ View \in Inodes /\ call.lba \in Lbas
    BY StateTypes DEF FilesInv, FilesTypeOK
  <1>2. CASE pc # "point" \/ i # file
    <2>1. View[i] = ino[i]
      BY <1>1, <1>2, StateTypes
    <2> QED BY <1>1, <2>1, PlaceTypes
  <1>3. CASE pc = "point" /\ i = file
    <2>1. /\ file \in Files /\ next \in Nat /\ next = ino[file].blocks
          /\ ino[file] \in InodeType
      BY <1>3, StepFacts
    <2>2. /\ View[file].blocks = next + 1
          /\ View[file].ptrs = IF Indirect(next) THEN ino[file].ptrs
                               ELSE [ino[file].ptrs EXCEPT ![next] = call.lba]
      <3>1. View[file] = Counted(ino[file], call.lba)
        BY <1>3, <2>1 DEF View
      <3> QED BY <1>1, <2>1, <3>1, CountedType
    <2>3. ASSUME NEW n \in Count(ino[file])
          PROVE  /\ PtrAt(blk, ino[file], n) = PtrAt(blk, View[file], n)
                 /\ IF Indirect(n) THEN ino[file].ptrs[index(n)] = View[file].ptrs[index(n)]
                                   ELSE ino[file].ptrs[n] = View[file].ptrs[n]
      <3>1. n \in Nat /\ n < next
        BY <1>1, <2>1, PlaceTypes
      <3>2. CASE Indirect(next)
        BY <2>2, <3>2 DEF PtrAt
      <3>3. CASE ~Indirect(next)
        <4>1. ~Indirect(n) /\ n # next
          BY <2>1, <3>1, <3>3, Params DEF Indirect
        <4>2. [ino[file].ptrs EXCEPT ![next] = call.lba][n] = ino[file].ptrs[n]
          <5>1. View[file].blocks <= NumDataBlocks
            BY <1>1, <2>1 DEF UseInv, OneUse
          <5>2. n < NumDataBlocks
            BY <2>1, <2>2, <3>1, <5>1, Params
          <5>3. n \in PtrIdx
            BY <3>1, <4>1, <5>2, PlacesFit
          <5> QED BY <2>1, <4>1, <5>3 DEF InodeType
        <4> QED BY <2>2, <3>3, <4>1, <4>2 DEF PtrAt
      <3> QED BY <3>2, <3>3
    <2> QED BY <1>3, <2>1, <2>2, <2>3
  <1> QED BY <1>2, <1>3

LEMMA OneUseNow ==
    ASSUME FilesInv
    PROVE  OneUse(blk, ino)
  <1>1. UseInv /\ ino \in Inodes /\ View \in Inodes
    BY StateTypes DEF FilesInv
  <1>2. ASSUME NEW i \in Files
        PROVE  /\ ino[i].blocks <= View[i].blocks
               /\ \A n \in Count(ino[i]) : PtrAt(blk, ino[i], n) = PtrAt(blk, View[i], n)
               /\ \A n \in Held(ino[i]) : ino[i].ptrs[index(n)] = View[i].ptrs[index(n)]
    BY ViewKeepsPointers DEF Held
  <1>3. OneUse(blk, View)
    BY <1>1 DEF UseInv
  <1> QED BY <1>1, <1>2, <1>3, Fewer

LEMMA AllBlocksAreUses ==
    \A i \in Files : AllBlocks(ino[i]) = UsedBy(blk, ino[i])
  BY DEF AllBlocks, PointerBlocks, FileBlocksOf, UsedBy, Held, Count, BlockPtr, PtrAt

(***************************************************************************)
(* Every block has one use, in every state of every call: pointer blocks   *)
(* lead to no block of another file or position, and are never data.       *)
(***************************************************************************)
THEOREM OneUseEach == Spec => []BlocksHaveOneUse
  <1>1. ASSUME FilesInv PROVE BlocksHaveOneUse
    <2>1. OneUse(blk, ino) /\ ino \in Inodes
      BY <1>1, OneUseNow, StateTypes DEF FilesInv
    <2>2. ASSUME NEW i \in Files
          PROVE  /\ Cardinality(AllBlocks(ino[i])) =
                       ino[i].blocks + NumPointerBlocks(ino[i].blocks)
                 /\ 0 \notin AllBlocks(ino[i])
      <3>1. 0 \notin UsedBy(blk, ino[i])
        BY <2>1 DEF OneUse, Used
      <3> QED BY <2>1, <3>1, UsesAreCounted, AllBlocksAreUses
    <2>3. ASSUME NEW i \in Files, NEW j \in Files, i # j,
                 NEW l \in AllBlocks(ino[i]), l \in AllBlocks(ino[j])
          PROVE  FALSE
      <3>1. /\ \/ \E n \in Held(ino[i]) : l = ino[i].ptrs[index(n)]
               \/ \E n \in Count(ino[i]) : l = PtrAt(blk, ino[i], n)
            /\ \/ \E n \in Held(ino[j]) : l = ino[j].ptrs[index(n)]
               \/ \E n \in Count(ino[j]) : l = PtrAt(blk, ino[j], n)
        BY <2>3, AllBlocksAreUses DEF UsedBy
      <3> QED BY <2>1, <2>3, <3>1 DEF OneUse
    <2> QED BY <2>2, <2>3 DEF BlocksHaveOneUse
  <1> QED BY <1>1, FilesInvariant, PTL

(***************************************************************************)
(* Between calls the bitmap marks the blocks of the files and no others    *)
(* (refs.c:924-997).                                                       *)
(***************************************************************************)
THEOREM NothingIsLost == Spec => []NothingLeaks
  <1>1. ASSUME FilesInv PROVE NothingLeaks
    <2>1. SUFFICES ASSUME pc = "idle" PROVE data_bitmap = {Bit(l) : l \in InUse}
      BY DEF NothingLeaks
    <2>2. View = ino /\ Reserved = {}
      BY <1>1, <2>1, StateTypes DEF FilesInv, Reserved
    <2>3. InUse = Used(blk, ino)
      BY AllBlocksAreUses DEF InUse, Used
    <2> QED BY <1>1, <2>2, <2>3 DEF FilesInv, UseInv
  <1> QED BY <1>1, FilesInvariant, PTL

(***************************************************************************)
(* Between calls a file has the blocks of its size, unless that is wide,   *)
(* and one for each time it was truncated to nothing (refs.c:1095, 1124).  *)
(***************************************************************************)
LEMMA CountedNow ==
    ASSUME FilesInv, pc = "idle"
    PROVE  \A i \in Files : ~Wide(ino[i].size) => ino[i].blocks = BlocksFor(i)
  <1>1. \A i \in Files : i # file
    BY Params DEF FilesInv, CallInv, file
  <1> QED BY <1>1 DEF FilesInv, CountInv

THEOREM BlocksAreCounted == Spec => []BlocksCounted
  <1>1. FilesInv => BlocksCounted
    BY CountedNow DEF BlocksCounted, BlocksFor
  <1> QED BY <1>1, FilesInvariant, PTL

-----------------------------------------------------------------------------
(***************************************************************************)
(* Where the bytes of a read come from (refs.c:1564-1613): the pieces      *)
(* cover the read, each byte by the block and the place that it has in the *)
(* file.                                                                   *)
(***************************************************************************)
LEMMA PlaceInBlock ==
    ASSUME NEW b \in Nat, NEW c \in Nat \ {0}, NEW r \in Nat, r < c,
           NEW a \in Nat, a = b * c + r
    PROVE  a \div c = b /\ a % c = r
  <1> DEFINE p == a \div c
             s == a % c
  <1>1. p \in Nat /\ p * c \in Nat /\ p * c <= a /\ a < p * c + c
    BY Division
  <1>2. a = c * p + s
    BY DEF p, s
  <1>3. s \in Nat
    BY DEF s
  <1> HIDE DEF p, s
  <1>4. b * c \in Nat /\ b * c < p * c + c /\ p * c < b * c + c
    BY <1>1
  <1>5. b <= p /\ p <= b
    BY <1>1, <1>4, SmallerFactor
  <1>6. p = b
    BY <1>1, <1>5
  <1>7. c * p = b * c
    BY <1>1, <1>6
  <1>8. s = r
    BY <1>2, <1>3, <1>4, <1>7
  <1> QED BY <1>6, <1>8 DEF p, s

(***************************************************************************)
(* The bytes up to the one at off + n, and the blocks that they are in.    *)
(***************************************************************************)
LEMMA ReadPlaces ==
    ASSUME NEW n \in Nat, NEW off \in Nat
    PROVE  LET first == off \div BlockSize
               last == (n + off) \div BlockSize
               begin == off % BlockSize
               read(b) == (BlockSize - begin) + (b - first - 1) * BlockSize
           IN  /\ first \in Nat /\ last \in Nat /\ first <= last
               /\ begin \in Nat /\ begin < BlockSize
               /\ first * BlockSize \in Nat /\ off = first * BlockSize + begin
               /\ last * BlockSize \in Nat /\ last * BlockSize <= n + off
               /\ n + off < last * BlockSize + BlockSize
               /\ \A b \in Nat : b > first =>
                     /\ read(b) \in Nat /\ b * BlockSize \in Nat
                     /\ off + read(b) = b * BlockSize
  <1> DEFINE first == off \div BlockSize
             last == (n + off) \div BlockSize
             begin == off % BlockSize
             read(b) == (BlockSize - begin) + (b - first - 1) * BlockSize
  <1>1. n + off \in Nat /\ off <= n + off /\ BlockSize \in Nat \ {0}
    BY Params
  <1>2. /\ first \in Nat /\ last \in Nat /\ first <= last
        /\ first * BlockSize \in Nat
        /\ last * BlockSize \in Nat /\ last * BlockSize <= n + off
        /\ n + off < last * BlockSize + BlockSize
    BY <1>1, Division, DivisionIsMonotone
  <1>3. begin \in Nat /\ begin < BlockSize
    BY <1>1
  <1>4. off = first * BlockSize + begin
    <2>1. off = BlockSize * first + begin
      BY <1>1
    <2> HIDE DEF first, begin
    <2> QED BY <1>1, <1>2, <1>3, <2>1
  <1> HIDE DEF first, last, begin
  <1>5. ASSUME NEW b \in Nat, b > first
        PROVE  read(b) \in Nat /\ b * BlockSize \in Nat /\ off + read(b) = b * BlockSize
    <2> DEFINE d == b - first - 1
    <2>1. d \in Nat /\ b = d + first + 1
      BY <1>2, <1>5
    <2> HIDE DEF d
    <2>2. d * BlockSize \in Nat
      BY <1>1, <2>1
    <2>3. read(b) = (BlockSize - begin) + d * BlockSize
      BY DEF d
    <2>4. b * BlockSize = d * BlockSize + first * BlockSize + BlockSize
      BY <1>1, <1>2, <2>1
    <2> HIDE DEF read
    <2> QED BY <1>1, <1>2, <1>3, <1>4, <2>2, <2>3, <2>4
  <1> QED BY <1>2, <1>3, <1>4, <1>5 DEF first, last, begin

LEMMA NarrowPlaces ==
    ASSUME NEW n \in Nat, NEW off \in Nat, ~Wide(n + off)
    PROVE  IntBlock(off) = off \div BlockSize /\ IntBlock(n + off) = (n + off) \div BlockSize
  <1>1. n + off \in Nat /\ off <= n + off
    OBVIOUS
  <1> QED BY <1>1, IntBlocks

LEMMA PiecesArePlaced ==
    ASSUME NEW n \in Nat, NEW off \in Nat, ~Wide(n + off), NEW p \in Pieces(n, off)
    PROVE  /\ p.block \in Nat /\ p.block <= (n + off) \div BlockSize
           /\ \A k \in 0 .. n - 1 : k \in p.to .. p.to + p.n - 1 =>
                 /\ (off + k) \div BlockSize = p.block
                 /\ (off + k) % BlockSize = p.from + (k - p.to)
  <1> DEFINE first == off \div BlockSize
             last == (n + off) \div BlockSize
             begin == off % BlockSize
             read(b) == (BlockSize - begin) + (b - first - 1) * BlockSize
  <1>1. /\ first \in Nat /\ last \in Nat /\ first <= last
        /\ begin \in Nat /\ begin < BlockSize
        /\ first * BlockSize \in Nat /\ off = first * BlockSize + begin
        /\ last * BlockSize \in Nat /\ last * BlockSize <= n + off
        /\ n + off < last * BlockSize + BlockSize
        /\ \A b \in Nat : b > first =>
              /\ read(b) \in Nat /\ b * BlockSize \in Nat
              /\ off + read(b) = b * BlockSize
    BY ReadPlaces
  <1>2. p \in IF first = last THEN {[block |-> first, from |-> begin, to |-> 0, n |-> n]}
              ELSE {[block |-> first, from |-> begin, to |-> 0, n |-> BlockSize - begin],
                    [block |-> last, from |-> 0, to |-> read(last), n |-> n - read(last)]}
                   \cup {[block |-> b, from |-> 0, to |-> read(b), n |-> BlockSize] :
                            b \in first + 1 .. last - 1}
    <2>1. IntBlock(off) = first /\ IntBlock(n + off) = last
      BY NarrowPlaces
    <2> QED BY <2>1 DEF Pieces
  <1> HIDE DEF first, last, begin, read
  <1>3. BlockSize \in Nat \ {0}
    BY Params
  <1>4. ASSUME NEW b \in Nat, NEW r \in Nat, r < BlockSize, NEW k \in Nat,
               off + k = b * BlockSize + r
        PROVE  (off + k) \div BlockSize = b /\ (off + k) % BlockSize = r
    <2>1. off + k \in Nat
      BY <1>4
    <2> QED BY <1>3, <1>4, <2>1, PlaceInBlock
  <1>5. CASE p.block = first /\ p.from = begin /\ p.to = 0
             /\ p.n = IF first = last THEN n ELSE BlockSize - begin
    <2>1. ASSUME NEW k \in 0 .. n - 1, k \in 0 .. p.n - 1
          PROVE  (off + k) \div BlockSize = first /\ (off + k) % BlockSize = begin + k
      <3>1. k \in Nat /\ begin + k < BlockSize /\ begin + k \in Nat
        <4>1. CASE first = last
          BY <1>1, <1>3, <2>1, <4>1
        <4>2. CASE first # last
          BY <1>1, <1>3, <1>5, <2>1, <4>2
        <4> QED BY <4>1, <4>2
      <3>2. off + k = first * BlockSize + (begin + k)
        BY <1>1, <3>1
      <3> QED BY <1>1, <1>4, <3>1, <3>2
    <2>2. p.n \in Int
      BY <1>1, <1>3, <1>5
    <2>3. p.to .. p.to + p.n - 1 = 0 .. p.n - 1
      BY <1>5, <2>2
    <2>4. ASSUME NEW k \in 0 .. n - 1, k \in p.to .. p.to + p.n - 1
          PROVE  /\ (off + k) \div BlockSize = p.block
                 /\ (off + k) % BlockSize = p.from + (k - p.to)
      <3>1. k - p.to = k
        BY <1>5, <2>4
      <3> QED BY <1>5, <2>1, <2>3, <2>4, <3>1
    <2>5. p.block \in Nat /\ p.block <= last
      BY <1>1, <1>5
    <2> QED BY <2>4, <2>5 DEF last
  <1>6. ASSUME NEW b \in Nat, b > first, b <= last,
               p.block = b, p.from = 0, p.to = read(b),
               p.n = IF b = last THEN n - read(b) ELSE BlockSize
        PROVE  /\ p.block \in Nat /\ p.block <= last
               /\ \A k \in 0 .. n - 1 : k \in p.to .. p.to + p.n - 1 =>
                     /\ (off + k) \div BlockSize = p.block
                     /\ (off + k) % BlockSize = p.from + (k - p.to)
    <2>1. read(b) \in Nat /\ b * BlockSize \in Nat /\ off + read(b) = b * BlockSize
      BY <1>1, <1>6
    <2>2. ASSUME NEW k \in 0 .. n - 1, k \in read(b) .. read(b) + p.n - 1
          PROVE  (off + k) \div BlockSize = b /\ (off + k) % BlockSize = 0 + (k - read(b))
      <3> DEFINE r == k - read(b)
      <3>1. k \in Nat /\ r \in Nat /\ k = read(b) + r
        BY <2>1, <2>2
      <3>2. r < BlockSize
        <4>1. CASE b = last
          BY <1>1, <1>3, <2>1, <2>2, <4>1
        <4>2. CASE b # last
          BY <1>3, <1>6, <2>1, <2>2, <4>2
        <4> QED BY <4>1, <4>2
      <3> HIDE DEF r
      <3>3. off + k = b * BlockSize + r
        BY <2>1, <3>1
      <3>4. (off + k) \div BlockSize = b /\ (off + k) % BlockSize = r
        BY <1>4, <3>1, <3>2, <3>3
      <3> QED BY <3>1, <3>4 DEF r
    <2> QED BY <1>6, <2>2
  <1>7. ASSUME first # last, p \notin {[block |-> first, from |-> begin, to |-> 0,
                                        n |-> BlockSize - begin]}
        PROVE  \E b \in Nat : /\ b > first /\ b <= last
                              /\ p.block = b /\ p.from = 0 /\ p.to = read(b)
                              /\ p.n = IF b = last THEN n - read(b) ELSE BlockSize
    <2>1. CASE p = [block |-> last, from |-> 0, to |-> read(last), n |-> n - read(last)]
      BY <1>1, <1>7, <2>1
    <2>2. ASSUME NEW b \in first + 1 .. last - 1,
                 p = [block |-> b, from |-> 0, to |-> read(b), n |-> BlockSize]
          PROVE  b \in Nat /\ b > first /\ b <= last /\ b # last
      BY <1>1, <2>2
    <2> QED BY <1>2, <1>7, <2>1, <2>2
  <1> QED BY <1>2, <1>5, <1>6, <1>7 DEF last

LEMMA PiecesCover ==
    ASSUME NEW n \in Nat, NEW off \in Nat, ~Wide(n + off), NEW k \in 0 .. n - 1
    PROVE  \E p \in Pieces(n, off) : k \in p.to .. p.to + p.n - 1
  <1> DEFINE first == off \div BlockSize
             last == (n + off) \div BlockSize
             begin == off % BlockSize
             read(b) == (BlockSize - begin) + (b - first - 1) * BlockSize
             b == (off + k) \div BlockSize
  <1>1. /\ first \in Nat /\ last \in Nat /\ first <= last
        /\ begin \in Nat /\ begin < BlockSize
        /\ first * BlockSize \in Nat /\ off = first * BlockSize + begin
        /\ last * BlockSize \in Nat /\ last * BlockSize <= n + off
        /\ n + off < last * BlockSize + BlockSize
        /\ \A c \in Nat : c > first =>
              /\ read(c) \in Nat /\ c * BlockSize \in Nat
              /\ off + read(c) = c * BlockSize
    BY ReadPlaces
  <1>2. Pieces(n, off) =
            IF first = last THEN {[block |-> first, from |-> begin, to |-> 0, n |-> n]}
            ELSE {[block |-> first, from |-> begin, to |-> 0, n |-> BlockSize - begin],
                  [block |-> last, from |-> 0, to |-> read(last), n |-> n - read(last)]}
                 \cup {[block |-> c, from |-> 0, to |-> read(c), n |-> BlockSize] :
                          c \in first + 1 .. last - 1}
    <2>1. IntBlock(off) = first /\ IntBlock(n + off) = last
      BY NarrowPlaces
    <2> QED BY <2>1 DEF Pieces
  <1>3. /\ BlockSize \in Nat \ {0} /\ k \in Nat /\ k < n /\ off + k \in Nat
        /\ off <= off + k /\ off + k <= n + off /\ n + off \in Nat
    BY Params
  <1>4. /\ b \in Nat /\ first <= b /\ b <= last
        /\ b * BlockSize \in Nat /\ b * BlockSize <= off + k
        /\ off + k < b * BlockSize + BlockSize
    BY <1>3, Division, DivisionIsMonotone
  <1> HIDE DEF first, last, begin, read, b
  <1>5. CASE first = last
    <2>1. k \in 0 .. 0 + n - 1
      BY <1>3
    <2> QED BY <1>2, <1>5, <2>1
  <1>6. CASE first # last /\ b = first
    <2>1. k \in 0 .. 0 + (BlockSize - begin) - 1
      BY <1>1, <1>3, <1>4, <1>6
    <2> DEFINE p == [block |-> first, from |-> begin, to |-> 0, n |-> BlockSize - begin]
    <2>2. p \in Pieces(n, off)
      BY <1>2, <1>6
    <2>3. p.to = 0 /\ p.n = BlockSize - begin
      OBVIOUS
    <2> HIDE DEF p
    <2> QED BY <2>1, <2>2, <2>3
  <1>7. CASE first # last /\ b # first
    <2>1. /\ b > first /\ read(b) \in Nat /\ off + read(b) = b * BlockSize
      BY <1>1, <1>4, <1>7
    <2>2. k >= read(b) /\ k < read(b) + BlockSize
      BY <1>3, <1>4, <2>1
    <2>3. CASE b = last
      <3>1. k \in read(last) .. read(last) + (n - read(last)) - 1
        BY <1>3, <2>1, <2>2, <2>3
      <3> DEFINE p == [block |-> last, from |-> 0, to |-> read(last), n |-> n - read(last)]
      <3>2. p \in Pieces(n, off)
        BY <1>2, <1>7
      <3>3. p.to = read(last) /\ p.n = n - read(last)
        OBVIOUS
      <3> HIDE DEF p
      <3> QED BY <3>1, <3>2, <3>3
    <2>4. CASE b # last
      <3>1. k \in read(b) .. read(b) + BlockSize - 1 /\ b \in first + 1 .. last - 1
        BY <1>1, <1>3, <1>4, <2>1, <2>2, <2>4
      <3> DEFINE p == [block |-> b, from |-> 0, to |-> read(b), n |-> BlockSize]
      <3>2. p \in Pieces(n, off)
        BY <1>2, <1>7, <3>1
      <3>3. p.to = read(b) /\ p.n = BlockSize
        OBVIOUS
      <3> HIDE DEF p
      <3> QED BY <3>1, <3>2, <3>3
    <2> QED BY <2>3, <2>4
  <1> QED BY <1>5, <1>6, <1>7

THEOREM ReadsGetTheBytes == Spec => []ReadsAreRight
  <1>1. ASSUME FilesInv, pc = "idle", NEW i \in Files, NEW off \in Sizes, NEW n \in Sizes,
               ~Wide(ino[i].size)
        PROVE  LET got == ReadSize(i, n, off)
               IN  /\ got = Cardinality({k \in off .. off + n - 1 : k < ino[i].size})
                   /\ do_read(i, n, off) = [k \in 0 .. got - 1 |-> Contents(ino[i])[off + k]]
                   /\ got > 0 => \A p \in Pieces(got, off) : p.block < ino[i].blocks
    <2> DEFINE got == ReadSize(i, n, off)
               size == ino[i].size
    <2>1. /\ off \in Nat /\ n \in Nat /\ size \in Nat
          /\ ino[i].blocks = BlocksFor(i) /\ emptied[i] \in Nat
          /\ BlockSize \in Nat \ {0}
      BY <1>1, FileBlocksAssumption, StateTypes, PlaceTypes, CountedNow
         DEF FilesInv, FilesTypeOK
    <2>2. got = IF size < off THEN 0 ELSE IF off + n > size THEN size - off ELSE n
      BY DEF ReadSize
    <2> HIDE DEF got
    <2>3. got \in Nat /\ (got > 0 => off + got <= size /\ ~Wide(got + off))
      <3>1. got \in Nat /\ (got > 0 => off + got <= size /\ got + off <= size)
        <4> HIDE DEF size
        <4> QED BY <2>1, <2>2
      <3>2. got + off <= size => ~Wide(got + off)
        BY <1>1, <2>1, <3>1, IntBlocks
      <3> QED BY <3>1, <3>2
    <2>4. got = Cardinality({k \in off .. off + n - 1 : k < size})
      <3>1. {k \in off .. off + n - 1 : k < size} = off .. off + got - 1
        <4> HIDE DEF size
        <4> QED BY <2>1, <2>2
      <3> QED BY <2>1, <2>3, <3>1, IntervalSize
    <2>5. ASSUME NEW k \in 0 .. got - 1
          PROVE  LET p == CHOOSE q \in Pieces(got, off) : k \in q.to .. q.to + q.n - 1
                 IN  file_read_block(i, p.block)[p.from + (k - p.to)] =
                        Contents(ino[i])[off + k]
      <3> DEFINE p == CHOOSE q \in Pieces(got, off) : k \in q.to .. q.to + q.n - 1
      <3>1. p \in Pieces(got, off) /\ k \in p.to .. p.to + p.n - 1
        BY <2>1, <2>3, PiecesCover
      <3> HIDE DEF p
      <3>2. (off + k) \div BlockSize = p.block /\ (off + k) % BlockSize = p.from + (k - p.to)
        BY <2>1, <2>3, <3>1, PiecesArePlaced
      <3>3. off + k \in 0 .. size - 1
        <4> HIDE DEF size
        <4> QED BY <2>1, <2>3
      <3>4. Contents(ino[i])[off + k] =
                blk[BlockPtr(ino[i], (off + k) \div BlockSize)][(off + k) % BlockSize]
        BY <3>3 DEF Contents
      <3> QED BY <3>2, <3>4 DEF file_read_block, p
    <2>6. do_read(i, n, off) = [k \in 0 .. got - 1 |-> Contents(ino[i])[off + k]]
      BY <2>5 DEF do_read, got
    <2>7. ASSUME got > 0, NEW p \in Pieces(got, off) PROVE p.block < ino[i].blocks
      <3>1. p.block \in Nat /\ p.block <= (got + off) \div BlockSize
        BY <2>1, <2>3, <2>7, PiecesArePlaced
      <3>2. /\ got + off \in Nat /\ got + off <= size /\ size # 0
        <4> HIDE DEF size
        <4> QED BY <2>1, <2>3, <2>7
      <3>3. /\ (got + off) \div BlockSize <= size \div BlockSize
            /\ (got + off) \div BlockSize \in Nat /\ size \div BlockSize \in Nat
        BY <2>1, <3>2, Division, DivisionIsMonotone
      <3>4. ino[i].blocks = emptied[i] + (size \div BlockSize) + 1
        BY <2>1, <3>2, <3>3 DEF BlocksFor
      <3> QED BY <2>1, <3>1, <3>3, <3>4
    <2> QED BY <2>4, <2>6, <2>7 DEF got
  <1>2. FilesInv => ReadsAreRight
    BY <1>1 DEF ReadsAreRight
  <1> QED BY <1>2, FilesInvariant, PTL
-----------------------------------------------------------------------------
(***************************************************************************)
(* The bytes.  The cell that holds byte k of an inode, in the blocks b.    *)
(***************************************************************************)
CellAt(b, i, k) == b[PtrAt(b, i, k \div BlockSize)][k % BlockSize]

(***************************************************************************)
(* The inodes on the disk lead to the blocks that those in memory lead to: *)
(* the pointer to a new pointer block is ahead of the disk, but leads to   *)
(* none that is counted.                                                   *)
(***************************************************************************)
SamePointers(i, j) ==
    \A n \in Count(i) : IF Indirect(n) THEN i.ptrs[index(n)] = j.ptrs[index(n)]
                                       ELSE i.ptrs[n] = j.ptrs[n]

DiskInv ==
    \A i \in Files : /\ d_ino[i].size = ino[i].size /\ d_ino[i].blocks = ino[i].blocks
                     /\ SamePointers(ino[i], d_ino[i])

(***************************************************************************)
(* The block in hand is clear, and what the call does next is where the    *)
(* bytes that were there before it tell.                                   *)
(***************************************************************************)
OldSize == Cardinality(DOMAIN was)

(***************************************************************************)
(* The call has given its file a wide size, and stores its bytes where the *)
(* ints of refs.c:1181-1182 tell.                                          *)
(***************************************************************************)
Lost == pc = "write" /\ Wide(ino[file].size)

NewBlockInv ==
    /\ pc \in {"point_indirect", "point"} => blk[call.lba] = ZeroBlock
    /\ pc = "point" /\ Indirect(next) => PtrAt(blk, ino[file], next) = call.lba

PlaceInv ==
    /\ pc \notin {"idle", "reply"} => OldSize \in Nat /\ DOMAIN was = 0 .. OldSize - 1
    /\ pc \in Resizing =>
          /\ ino[file].size = OldSize /\ call.size # OldSize /\ call.written = 0
          /\ call.op = "truncate" => call.size \in Sizes
          /\ call.op = "write" => call.at + call.n = call.size
          /\ Growing(file, call.size) =>
                call.left <= LastBlock - (OldSize \div BlockSize)
    /\ pc \in Resizing \ {"set_size"} => call.idx = SmallerSize \div BlockSize
    /\ pc \in Adding /\ ~call.filled => OldSize = 0
    /\ pc = "set_size" => call.filled
    /\ pc \notin {"idle", "reply"} /\ call.op = "write" =>
          call.n > 0 /\ call.at \in Sizes /\ call.at + call.n \in Sizes
    /\ pc = "write" =>
          ino[file].size = IF call.at + call.n > OldSize THEN call.at + call.n ELSE OldSize
    /\ pc = "write" /\ ~Lost =>
          /\ call.idx >= call.at \div BlockSize
          /\ call.at + call.written = IF call.idx = call.at \div BlockSize THEN call.at
                                      ELSE call.idx * BlockSize

(***************************************************************************)
(* Of the call's file: the bytes the call is not to write or cut, those it *)
(* has written, and the holes.                                             *)
(***************************************************************************)
LooseFile == emptied[file] > (IF OldSize = 0 THEN 1 ELSE 0)

NewSize == IF pc = "write" THEN ino[file].size ELSE call.size

Hole(k) ==
    /\ k > OldSize /\ k \div BlockSize < ino[file].blocks
    /\ IF pc = "write" THEN ~InRange(k) ELSE call.filled \/ k \div BlockSize # call.idx

BytesAsBefore ==
    pc \notin {"idle", "reply"} /\ ~Lost =>
        \A k \in 0 .. OldSize - 1 : ~InRange(k) => CellAt(blk, ino[file], k) = was[k]

BytesSoFar ==
    pc = "write" /\ ~Lost =>
        \A k \in call.at .. call.at + call.written - 1 :
            CellAt(blk, ino[file], k) = Byte(k, call.buf)

HolesAreEmpty ==
    pc \notin {"idle", "reply"} /\ ~Lost /\ ~LooseFile =>
        \A k \in 0 .. NewSize - 1 : Hole(k) => CellAt(blk, ino[file], k) \in {Nul, Zero}

BytesInv ==
    DiskInv /\ NewBlockInv /\ PlaceInv /\ BytesAsBefore /\ BytesSoFar /\ HolesAreEmpty
-----------------------------------------------------------------------------
LEMMA CellPlace ==
    ASSUME NEW k \in Nat
    PROVE  /\ k \div BlockSize \in Nat /\ k % BlockSize \in Cells
           /\ (k \div BlockSize) * BlockSize \in Nat
           /\ k = (k \div BlockSize) * BlockSize + (k % BlockSize)
  <1> DEFINE q == k \div BlockSize
             r == k % BlockSize
  <1>1. BlockSize \in Nat \ {0}
    BY Params
  <1>2. q \in Nat /\ q * BlockSize \in Nat
    BY <1>1, Division
  <1>3. k = BlockSize * q + r /\ r \in 0 .. BlockSize - 1
    BY <1>1
  <1>4. r \in Cells
    BY <1>3 DEF Cells
  <1>5. k = q * BlockSize + r
    <2> HIDE DEF q, r
    <2>1. BlockSize * q = q * BlockSize
      BY <1>1, <1>2
    <2> QED BY <1>3, <2>1
  <1> QED BY <1>2, <1>4, <1>5

(***************************************************************************)
(* The bytes of an inode are in its cells.                                 *)
(***************************************************************************)
LEMMA BytesAreCells ==
    /\ \A i : Contents(i) = [k \in 0 .. i.size - 1 |-> CellAt(blk, i, k)]
    /\ \A i \in Files :
          /\ Contents(ino[i])' = [k \in 0 .. ino'[i].size - 1 |-> CellAt(blk', ino'[i], k)]
          /\ Contents(d_ino[i])' = [k \in 0 .. d_ino'[i].size - 1 |-> CellAt(blk', d_ino'[i], k)]
  BY DEF Contents, CellAt, BlockPtr, PtrAt

(***************************************************************************)
(* A byte below the size is in a block that the file has, unless a         *)
(* truncate that is not done yet has already removed it; when all blocks   *)
(* are there, so are those of the new size.                                *)
(***************************************************************************)
Backed(i, k) == k \div BlockSize \in Count(i)

LEMMA BytesAreBacked ==
    ASSUME FilesInv, PlaceInv, NEW i \in Files, NEW k \in Nat, ~Wide(ino[i].size),
           \/ i # file \/ pc \in {"write", "reply"}
           \/ Growing(file, call.size) \/ k < call.size,
           \/ k < ino[i].size
           \/ i = file /\ pc = "set_size" /\ k < call.size /\ ~Wide(call.size)
    PROVE  Backed(ino[i], k)
  <1> DEFINE n == k \div BlockSize
             old == ino[i].size \div BlockSize
             new == call.size \div BlockSize
             last == LastBlock
  <1>1. /\ BlockSize \in Nat \ {0} /\ ino[i].blocks \in Nat /\ ino[i].size \in Nat
        /\ call.size \in Nat /\ call.left \in Nat /\ emptied[i] \in Nat
        /\ n \in Nat /\ old \in Nat /\ new \in Nat
        /\ k < ino[i].size => n <= old
        /\ k < call.size => n <= new
    <2>1. /\ BlockSize \in Nat \ {0} /\ ino[i].blocks \in Nat /\ ino[i].size \in Nat
          /\ emptied[i] \in Nat
      BY Params, StateTypes, PlaceTypes DEF FilesInv, FilesTypeOK
    <2>2. call.size \in Nat /\ call.left \in Nat
      BY DEF FilesInv, CallInv, CallType
    <2>3. n \in Nat /\ old \in Nat /\ new \in Nat
      BY <2>1, <2>2, Division
    <2>4. \A a \in Nat : k < a => n <= a \div BlockSize
      BY <2>1, DivisionIsMonotone
    <2> HIDE DEF n
    <2> QED BY <2>1, <2>2, <2>3, <2>4
  <1>2. CASE i # file \/ pc \in {"write", "reply"}
    <2>1. k < ino[i].size
      BY <1>2
    <2>2. ino[i].blocks = emptied[i] + old + 1
      <3>1. ino[i].blocks = BlocksFor(i) /\ ino[i].size # 0
        BY <1>1, <1>2, <2>1 DEF FilesInv, CountInv
      <3> QED BY <1>1, <3>1 DEF BlocksFor
    <2> HIDE DEF n, old
    <2>3. n < ino[i].blocks
      BY <1>1, <2>1, <2>2
    <2> QED BY <1>1, <2>3 DEF Backed, Count, n
  <1>3. CASE i = file /\ pc \notin {"write", "reply"}
    <2>1. pc \in Resizing
      <3>1. pc # "idle"
        BY <1>3, Params DEF FilesInv, CallInv, file
      <3> QED BY <1>3, <3>1 DEF FilesInv, FilesTypeOK, Steppers, Resizing, Adding
    <2>2. /\ Target = emptied[i] + last + 1 /\ last \in Nat
          /\ ~Wide(call.size) => last = new
          /\ Growing(file, call.size) => old <= last
          /\ ~Growing(file, call.size) => ~Wide(call.size)
      BY <1>3, <2>1, LastBlockFacts DEF Target
    <2>3. CASE Growing(file, call.size) /\ pc # "set_size"
      <3>1. k < ino[i].size /\ n <= old
        BY <1>1, <1>3, <2>3
      <3>2. ino[i].size = OldSize /\ OldSize # 0
        BY <1>1, <1>3, <2>1, <3>1 DEF PlaceInv
      <3>3. call.left <= last - old
        BY <1>3, <2>1, <2>3, <3>2 DEF PlaceInv
      <3>4. ino[i].blocks + call.left = Target
        <4>1. ~(pc \in Adding /\ ~call.filled)
          BY <3>2 DEF PlaceInv
        <4> QED BY <1>1, <1>3, <2>1, <2>3, <4>1 DEF FilesInv, CountInv
      <3> HIDE DEF n, old, new, last
      <3>5. n < ino[i].blocks
        BY <1>1, <2>2, <3>1, <3>3, <3>4
      <3> QED BY <1>1, <3>5 DEF Backed, Count, n
    <2>4. CASE ~Growing(file, call.size) \/ pc = "set_size"
      <3>1. ino[i].blocks >= Target
        <4>1. pc = "set_size" => call.left = 0 /\ pc \notin Adding
          BY DEF FilesInv, CallInv, Adding
        <4>2. Target \in Nat
          BY <1>1, <2>2
        <4> QED BY <1>1, <1>3, <2>1, <2>4, <4>1, <4>2 DEF FilesInv, CountInv
      <3>2. n <= last
        <4>1. CASE k < ino[i].size /\ Growing(file, call.size)
          <5> HIDE DEF n, old, new, last
          <5> QED BY <1>1, <2>2, <4>1
        <4>2. CASE ~(k < ino[i].size /\ Growing(file, call.size))
          <5>1. k < call.size /\ ~Wide(call.size)
            BY <1>1, <1>3, <2>2, <2>4, <4>2 DEF Growing
          <5> HIDE DEF n, old, new, last
          <5> QED BY <1>1, <2>2, <5>1
        <4> QED BY <4>1, <4>2
      <3> HIDE DEF n, old, new, last
      <3>3. n < ino[i].blocks
        BY <1>1, <2>2, <3>1, <3>2
      <3> QED BY <1>1, <3>3 DEF Backed, Count, n
    <2> QED BY <2>3, <2>4
  <1> QED BY <1>2, <1>3

(***************************************************************************)
(* What a new value of one block does to the cells of files.               *)
(***************************************************************************)
LEMMA BlockReplaced ==
    ASSUME NEW b \in Blocks, NEW t \in Inodes, OneUse(b, t), NEW l, NEW x,
           \A i \in Files : \A n \in Held(t[i]) : t[i].ptrs[index(n)] # l,
           NEW c, \A p \in Lbas : c[p] = IF p = l THEN x ELSE b[p],
           NEW i \in Files, NEW k \in Nat, Backed(t[i], k)
    PROVE  CellAt(c, t[i], k) =
               IF PtrAt(b, t[i], k \div BlockSize) = l THEN x[k % BlockSize]
               ELSE CellAt(b, t[i], k)
  <1> DEFINE n == k \div BlockSize
  <1>1. n \in Count(t[i])
    BY DEF Backed
  <1> HIDE DEF n
  <1>2. PtrAt(b, t[i], n) \in Lbas
    BY <1>1, PointersOnDisk DEF OneUse
  <1>3. PtrAt(c, t[i], n) = PtrAt(b, t[i], n)
    <2>1. CASE Indirect(n)
      <3>1. n \in Held(t[i]) /\ t[i].ptrs[index(n)] \in Lbas
        BY <1>1, <2>1, PointersOnDisk DEF Held, OneUse
      <3>2. c[t[i].ptrs[index(n)]] = b[t[i].ptrs[index(n)]]
        BY <3>1
      <3> QED BY <3>2 DEF PtrAt
    <2>2. CASE ~Indirect(n)
      BY <2>2 DEF PtrAt
    <2> QED BY <2>1, <2>2
  <1>4. c[PtrAt(b, t[i], n)] = IF PtrAt(b, t[i], n) = l THEN x ELSE b[PtrAt(b, t[i], n)]
    BY <1>2
  <1>5. CellAt(c, t[i], k) = c[PtrAt(b, t[i], n)][k % BlockSize]
    BY <1>3 DEF CellAt, n
  <1>6. CellAt(b, t[i], k) = b[PtrAt(b, t[i], n)][k % BlockSize]
    BY DEF CellAt, n
  <1> QED BY <1>4, <1>5, <1>6 DEF n

LEMMA BytesStored ==
    ASSUME FilesInv, pc # "idle", NEW n \in Nat, n < ino[file].blocks,
           NEW x, file_write_block(file, n, x), ino' = ino,
           NEW i \in Files, NEW k \in Nat, Backed(ino[i], k)
    PROVE  CellAt(blk', ino'[i], k) =
               IF i = file /\ k \div BlockSize = n THEN x[k % BlockSize]
               ELSE CellAt(blk, ino[i], k)
  <1> DEFINE l == PtrAt(blk, ino[file], n)
  <1>1. OneUse(blk, ino) /\ ino \in Inodes /\ blk \in Blocks /\ file \in Files
    BY OneUseNow, StateTypes, StepFacts DEF FilesInv
  <1>2. blk' = [blk EXCEPT ![l] = x]
    BY DEF file_write_block, BlockPtr, PtrAt
  <1>3. n \in Count(ino[file])
    BY <1>1, PlaceTypes
  <1>4. \A j \in Files : \A m \in Held(ino[j]) : ino[j].ptrs[index(m)] # l
    BY <1>1, <1>3 DEF OneUse
  <1>5. PtrAt(blk, ino[i], k \div BlockSize) = l <=> i = file /\ k \div BlockSize = n
    BY <1>1, <1>3 DEF OneUse, Backed
  <1>6. \A p \in Lbas : blk'[p] = IF p = l THEN x ELSE blk[p]
    BY <1>1, <1>2 DEF Blocks
  <1> HIDE DEF l
  <1>7. CellAt(blk', ino[i], k) = IF PtrAt(blk, ino[i], k \div BlockSize) = l
                                  THEN x[k % BlockSize] ELSE CellAt(blk, ino[i], k)
    <2>1. blk \in Blocks /\ ino \in Inodes /\ OneUse(blk, ino)
      BY <1>1
    <2>2. ino' = ino /\ i \in Files /\ k \in Nat /\ Backed(ino[i], k)
      OBVIOUS
    <2> QED BY <2>1, <2>2, <1>4, <1>6, BlockReplaced
  <1> QED BY <1>5, <1>7

(***************************************************************************)
(* A step that keeps the cells of all counted blocks.                      *)
(***************************************************************************)
CellsStay ==
    \A i \in Files : \A k \in Nat :
        Backed(ino[i], k) => CellAt(blk', ino'[i], k) = CellAt(blk, ino[i], k)

LEMMA SameCells ==
    ASSUME UNCHANGED blk, \A i \in Files : SamePointers(ino[i], ino'[i])
    PROVE  CellsStay
  <1>1. ASSUME NEW i \in Files, NEW k \in Nat, Backed(ino[i], k)
        PROVE  CellAt(blk', ino'[i], k) = CellAt(blk, ino[i], k)
    <2> DEFINE n == k \div BlockSize
    <2>1. n \in Count(ino[i])
      BY <1>1 DEF Backed
    <2> HIDE DEF n
    <2>2. PtrAt(blk, ino'[i], n) = PtrAt(blk, ino[i], n)
      BY <2>1 DEF PtrAt, SamePointers
    <2> QED BY <2>2 DEF CellAt, n
  <1> QED BY <1>1 DEF CellsStay

(***************************************************************************)
(* The steps that add and drop blocks leave the counted ones as they are.  *)
(***************************************************************************)
LEMMA ReserveCells ==
    ASSUME FilesInv, ReserveBlock
    PROVE  CellsStay /\ blk'[call'.lba] = ZeroBlock
  <1> DEFINE l == Lba(next_block)
  <1>1. /\ pc = "reserve" /\ ino' = ino
        /\ blk' = [blk EXCEPT ![l] = ZeroBlock] /\ call' = [call EXCEPT !.lba = l]
    BY DEF ReserveBlock
  <1>2. call \in CallType
    BY DEF FilesInv, CallInv
  <1>3. OneUse(blk, ino) /\ ino \in Inodes /\ blk \in Blocks
    BY OneUseNow, StateTypes DEF FilesInv
  <1>4. l \in Lbas /\ l \notin Used(blk, ino)
    BY <1>1, ReserveIsFresh
  <1> HIDE DEF l
  <1>5. call'.lba = l /\ blk'[l] = ZeroBlock
    BY <1>1, <1>2, <1>3, <1>4 DEF CallType, Blocks
  <1>6. ASSUME NEW i \in Files, NEW k \in Nat, Backed(ino[i], k)
        PROVE  CellAt(blk', ino'[i], k) = CellAt(blk, ino[i], k)
    <2>1. \A j \in Files : \A m \in Held(ino[j]) : ino[j].ptrs[index(m)] # l
      BY <1>4, Uses
    <2>2. PtrAt(blk, ino[i], k \div BlockSize) # l
      BY <1>4, <1>6, Uses DEF Backed
    <2>3. \A p \in Lbas : blk'[p] = IF p = l THEN ZeroBlock ELSE blk[p]
      BY <1>1, <1>3 DEF Blocks
    <2>4. CellAt(blk', ino[i], k) = IF PtrAt(blk, ino[i], k \div BlockSize) = l
                                    THEN ZeroBlock[k % BlockSize] ELSE CellAt(blk, ino[i], k)
      BY <1>3, <1>6, <2>1, <2>3, BlockReplaced
    <2> QED BY <1>1, <2>2, <2>4
  <1> QED BY <1>5, <1>6 DEF CellsStay

LEMMA PointIndirectCells ==
    ASSUME FilesInv, PointIndirect
    PROVE  CellsStay
  <1>1. ASSUME NEW i \in Files, NEW k \in Nat, Backed(ino[i], k)
        PROVE  CellAt(blk', ino'[i], k) = CellAt(blk, ino[i], k)
    <2> DEFINE n == k \div BlockSize
    <2>1. n \in Count(ino[i])
      BY <1>1 DEF Backed
    <2> HIDE DEF n
    <2>2. /\ PtrAt(blk', ino'[i], n) = PtrAt(blk, ino[i], n)
          /\ blk'[PtrAt(blk, ino[i], n)] = blk[PtrAt(blk, ino[i], n)]
      BY <2>1, PointersStay
    <2> QED BY <2>2 DEF CellAt, n
  <1> QED BY <1>1 DEF CellsStay

LEMMA PointToBlockCells ==
    ASSUME FilesInv, PointToBlock
    PROVE  CellsStay
  <1>1. ino' = View /\ blk' = blk
    BY BlockCounted DEF PointToBlock
  <1>2. \A i \in Files : SamePointers(ino[i], ino'[i])
    BY <1>1, ViewKeepsPointers DEF SamePointers
  <1> QED BY <1>1, <1>2, SameCells

LEMMA RemoveAndSizeCells ==
    ASSUME FilesInv, RemoveBlock \/ SetSize
    PROVE  CellsStay
  <1>1. \A i \in Files : ino'[i].ptrs = ino[i].ptrs
    BY BlockDropped, SizeIsSet
  <1>2. UNCHANGED blk
    BY DEF RemoveBlock, SetSize
  <1>3. \A i \in Files : SamePointers(ino[i], ino'[i])
    BY <1>1 DEF SamePointers
  <1> QED BY <1>2, <1>3, SameCells

(***************************************************************************)
(* Filling changes cells of one block of the call's file, writing the next *)
(* bytes of the call.                                                      *)
(***************************************************************************)
LEMMA FillCells ==
    ASSUME FilesInv, FillBlock, NEW i \in Files, NEW k \in Nat, Backed(ino[i], k)
    PROVE  CellAt(blk', ino'[i], k) =
               IF i = file /\ k \div BlockSize = call.idx
                           /\ k % BlockSize >= (SmallerSize % BlockSize) + 1
               THEN Zero ELSE CellAt(blk, ino[i], k)
  <1> DEFINE old == file_read_block(file, call.idx)
             begin == (SmallerSize % BlockSize) + 1
             x == fill(old, begin)
             n == call.idx
  <1>1. pc = "fill" /\ file_write_block(file, n, x) /\ ino' = ino
    BY DEF FillBlock
  <1>2. n \in Nat /\ n < ino[file].blocks
    BY <1>1 DEF FilesInv, CallInv, CallType
  <1>3. k % BlockSize \in Cells
    BY CellPlace
  <1>4. x[k % BlockSize] = IF k % BlockSize >= begin THEN Zero ELSE old[k % BlockSize]
    BY <1>3 DEF fill
  <1>5. i = file /\ k \div BlockSize = n => CellAt(blk, ino[i], k) = old[k % BlockSize]
    BY DEF CellAt, file_read_block, BlockPtr, PtrAt
  <1> HIDE DEF x, n, old
  <1>6. CellAt(blk', ino'[i], k) = IF i = file /\ k \div BlockSize = n THEN x[k % BlockSize]
                                   ELSE CellAt(blk, ino[i], k)
    BY <1>1, <1>2, BytesStored
  <1> HIDE DEF begin
  <1>7. CellAt(blk', ino'[i], k) =
            IF i = file /\ k \div BlockSize = n /\ k % BlockSize >= begin THEN Zero
            ELSE CellAt(blk, ino[i], k)
    BY <1>4, <1>5, <1>6
  <1> QED BY <1>7 DEF begin, n

LEMMA WriteCells ==
    ASSUME FilesInv, PlaceInv, WriteBlock, ~Lost
    PROVE  /\ file \in Files /\ call.at \in Nat /\ call.n \in Nat
           /\ call.written \in Nat /\ call'.written \in Nat
           /\ call.written <= call'.written /\ call'.written <= call.n
           /\ pc' = "reply" => call'.written = call.n
           /\ pc' = "write" => call.at + call'.written = (call.idx + 1) * BlockSize
           /\ \A i \in Files : \A k \in Nat : Backed(ino[i], k) =>
                 CellAt(blk', ino'[i], k) =
                     IF /\ i = file
                        /\ k \in call.at + call.written .. call.at + call'.written - 1
                     THEN Byte(k, call.buf) ELSE CellAt(blk, ino[i], k)
  <1> DEFINE first == IntBlock(call.at)
             last == IntBlock(call.at + call.n)
             begin == IF call.idx = first THEN call.at % BlockSize ELSE 0
             n == IF call.idx = last THEN call.n - call.written ELSE BlockSize - begin
             source == [c \in Cells |-> Byte(call.at + call.written + c, call.buf)]
             old == file_read_block(file, call.idx)
             x == memcpy(old, begin, n, source)
             start == call.at + call.written
             here == call.idx * BlockSize
  <1>1. /\ pc = "write" /\ file_write_block(file, call.idx, x) /\ ino' = ino
        /\ call' = [call EXCEPT !.idx = @ + 1, !.written = call.written + n]
        /\ pc' = IF call.idx = last THEN "reply" ELSE "write"
    BY DEF WriteBlock, Written
  <1>2. /\ file \in Files /\ call \in CallType /\ ino[file].blocks \in Nat
        /\ call.idx \in Nat /\ call.at \in Nat /\ call.n \in Nat /\ call.written \in Int
        /\ BlockSize \in Nat \ {0} /\ ino[file].size \in Nat /\ emptied[file] \in Nat
    BY <1>1, StepFacts, Params DEF CallType, InodeType
  <1>3. /\ call.written >= 0 /\ call.idx <= last /\ call.at + call.n <= ino[file].size
        /\ last < ino[file].blocks
    BY <1>1, <1>2 DEF FilesInv, CallInv
  <1>4. /\ call.idx >= first /\ first = call.at \div BlockSize
        /\ last = (call.at + call.n) \div BlockSize
        /\ start = IF call.idx = first THEN call.at ELSE here
    <2>1. ~Wide(ino[file].size)
      BY <1>1 DEF Lost
    <2>2. /\ call.at + call.n \in Nat /\ call.at <= call.at + call.n
          /\ call.at + call.n <= ino[file].size
      BY <1>2, <1>3
    <2>3. ~Wide(call.at + call.n) /\ ~Wide(call.at)
      BY <1>2, <2>1, <2>2, IntBlocks
    <2>4. first = call.at \div BlockSize /\ last = (call.at + call.n) \div BlockSize
      BY <1>2, <2>2, <2>3, IntBlocks
    <2> QED BY <1>1, <2>4 DEF PlaceInv
  <1>5. /\ first \in Nat /\ first * BlockSize \in Nat
        /\ call.at = first * BlockSize + (call.at % BlockSize)
        /\ call.at % BlockSize \in Nat /\ call.at % BlockSize < BlockSize
    <2>1. /\ first \in Nat /\ first * BlockSize \in Nat
          /\ call.at = first * BlockSize + (call.at % BlockSize)
          /\ call.at % BlockSize \in Cells
      BY <1>2, <1>4, CellPlace
    <2>2. \A c \in Cells : c \in Nat /\ c < BlockSize
      BY <1>2 DEF Cells
    <2> HIDE DEF first
    <2> QED BY <2>1, <2>2
  <1>6. /\ last \in Nat /\ last * BlockSize \in Nat
        /\ last * BlockSize <= call.at + call.n
        /\ call.at + call.n < last * BlockSize + BlockSize
    <2>1. call.at + call.n \in Nat
      BY <1>2
    <2> QED BY <1>2, <1>4, <2>1, Division
  <1>7. /\ begin \in Nat /\ begin < BlockSize /\ here \in Nat
        /\ start = here + begin
    <2>1. here \in Nat
      BY <1>2
    <2>2. call.idx = first => here = first * BlockSize
      OBVIOUS
    <2>3. begin = IF call.idx = first THEN call.at % BlockSize ELSE 0
      OBVIOUS
    <2>4. start = IF call.idx = first THEN call.at ELSE here
      BY <1>4
    <2> HIDE DEF first, last, here, begin, start
    <2> QED BY <1>2, <1>5, <2>1, <2>2, <2>3, <2>4
  <1>8. call.idx < last => here + BlockSize <= last * BlockSize
    <2>1. SUFFICES ASSUME call.idx < last PROVE here + BlockSize <= last * BlockSize
      OBVIOUS
    <2>2. call.idx + 1 <= last /\ call.idx + 1 \in Nat
      BY <1>2, <1>6, <2>1
    <2>3. (call.idx + 1) * BlockSize <= last * BlockSize
      <3> HIDE DEF last
      <3> QED BY <1>2, <1>6, <2>2
    <2>4. (call.idx + 1) * BlockSize = here + BlockSize
      BY <1>2
    <2> QED BY <2>3, <2>4
  <1>9. call.idx = last => here = last * BlockSize
    OBVIOUS
  <1>10. (call.idx + 1) * BlockSize = here + BlockSize
    BY <1>2
  <1>11. call.idx < ino[file].blocks
    <2> HIDE DEF last
    <2> QED BY <1>2, <1>3, <1>6
  <1> HIDE DEF first, last, begin, here
  <1>12. /\ n \in Nat /\ begin + n <= BlockSize
         /\ call.written + n <= call.n
         /\ call.idx = last => call.written + n = call.n
         /\ call.idx # last => start + n = here + BlockSize
    <2>1. CASE call.idx = last
      BY <1>2, <1>3, <1>4, <1>6, <1>7, <1>9, <2>1
    <2>2. CASE call.idx # last
      <3>1. call.idx < last
        BY <1>2, <1>3, <1>6, <2>2
      <3> QED BY <1>2, <1>3, <1>6, <1>7, <1>8, <2>2, <3>1
    <2> QED BY <2>1, <2>2
  <1> HIDE DEF n
  <1>13. call'.written = call.written + n
    <2> DEFINE w == call.written + n
    <2>1. call' = [call EXCEPT !.idx = @ + 1, !.written = w] /\ w \in Int
      BY <1>1, <1>2, <1>12
    <2> HIDE DEF w
    <2>2. call'.written = w
      BY <1>2, <2>1 DEF CallType
    <2> QED BY <2>2 DEF w
  <1>14. ASSUME NEW i \in Files, NEW k \in Nat, Backed(ino[i], k)
         PROVE  CellAt(blk', ino'[i], k) = IF i = file /\ k \in start .. start + n - 1
                                           THEN Byte(k, call.buf) ELSE CellAt(blk, ino[i], k)
    <2> DEFINE b == k \div BlockSize
               c == k % BlockSize
    <2>1. /\ b \in Nat /\ c \in Cells /\ c \in Nat /\ c < BlockSize
          /\ b * BlockSize \in Nat /\ k = b * BlockSize + c
      <3>1. /\ b \in Nat /\ c \in Cells
            /\ b * BlockSize \in Nat /\ k = b * BlockSize + c
        BY CellPlace
      <3> HIDE DEF b, c
      <3> QED BY <1>2, <3>1 DEF Cells
    <2>2. CellAt(blk', ino'[i], k) = IF i = file /\ b = call.idx THEN x[c]
                                     ELSE CellAt(blk, ino[i], k)
      <3> HIDE DEF x
      <3> QED BY <1>1, <1>2, <1>11, <1>14, BytesStored
    <2>3. i = file /\ b = call.idx => CellAt(blk, ino[i], k) = old[c]
      BY DEF CellAt, file_read_block, BlockPtr, PtrAt
    <2>4. x[c] = IF c \in begin .. begin + n - 1 THEN source[c - begin] ELSE old[c]
      <3> HIDE DEF source, old, c
      <3> QED BY <2>1 DEF memcpy
    <2>5. k \in start .. start + n - 1 <=> b = call.idx /\ c \in begin .. begin + n - 1
      <3>1. ASSUME k \in start .. start + n - 1 PROVE b = call.idx
        <4> HIDE DEF b, c, start
        <4>1. here <= k /\ k < here + BlockSize /\ k - here \in Nat
          BY <1>2, <1>7, <1>12, <3>1
        <4>2. k = here + (k - here) /\ k - here < BlockSize
          BY <1>2, <1>7, <4>1
        <4>3. k = call.idx * BlockSize + (k - here)
          BY <4>2 DEF here
        <4> QED BY <1>2, <4>1, <4>2, <4>3, PlaceInBlock DEF b
      <3>2. b = call.idx => b * BlockSize = here
        BY DEF here
      <3> HIDE DEF b, c
      <3> QED BY <1>2, <1>7, <1>12, <2>1, <3>1, <3>2
    <2>6. ASSUME b = call.idx, c \in begin .. begin + n - 1
          PROVE  source[c - begin] = Byte(k, call.buf)
      <3>1. c - begin \in Cells
        <4> HIDE DEF c
        <4> QED BY <1>2, <1>7, <2>1, <2>6 DEF Cells
      <3>2. start + (c - begin) = k
        <4>1. b * BlockSize = here
          BY <2>6 DEF here
        <4> HIDE DEF b, c, start
        <4> QED BY <1>7, <2>1, <4>1
      <3> QED BY <3>1, <3>2
    <2> HIDE DEF x, source, old, b, c
    <2> QED BY <2>2, <2>3, <2>4, <2>5, <2>6
  <1>15. pc' = "reply" => call.idx = last
    BY <1>1
  <1>16. pc' = "write" => call.idx # last
    BY <1>1
  <1>17. call'.written \in Nat /\ call.written \in Nat /\ call.written <= call'.written
    BY <1>2, <1>3, <1>12, <1>13
  <1>18. call.at + call'.written - 1 = start + n - 1 /\ call.at + call'.written = start + n
    BY <1>2, <1>3, <1>12, <1>13
  <1> QED BY <1>2, <1>10, <1>12, <1>13, <1>14, <1>15, <1>16, <1>17, <1>18
-----------------------------------------------------------------------------
(***************************************************************************)
(* A step inside a resize: the call is the same, and its file has the old  *)
(* size.                                                                   *)
(***************************************************************************)
SameCall ==
    /\ UNCHANGED <<was, emptied>>
    /\ call'.file = call.file /\ call'.op = call.op /\ call'.size = call.size
    /\ call'.at = call.at /\ call'.n = call.n /\ call'.buf = call.buf

ResizeGoesOn ==
    /\ SameCall
    /\ pc \in Resizing /\ pc \notin {"idle", "reply", "write", "set_size"}
    /\ pc' \in Resizing /\ pc' \notin {"idle", "reply", "write"}
    /\ ino'[file].size = ino[file].size
    /\ call'.idx = call.idx /\ call'.written = call.written /\ call'.left <= call.left
    /\ call'.left \in Nat

LEMMA CallStays ==
    ASSUME SameCall
    PROVE  /\ file' = file /\ OldSize' = OldSize
           /\ \A k : InRange(k)' = InRange(k)
  BY DEF SameCall, file, OldSize, InRange

LEMMA PlaceStays ==
    ASSUME FilesInv, PlaceInv, ResizeGoesOn,
           pc' \in Adding /\ ~call'.filled => pc \in Adding /\ ~call.filled,
           pc' = "set_size" => call'.filled
    PROVE  PlaceInv'
  <1>1. /\ file' = file /\ OldSize' = OldSize /\ was' = was
        /\ Growing(file, call.size)' = Growing(file, call.size)
        /\ SmallerSize' = SmallerSize
    BY CallStays DEF ResizeGoesOn, SameCall, Growing, file, SmallerSize
  <1>2. /\ call.left \in Nat /\ call.size \in Nat /\ OldSize \in Nat
        /\ DOMAIN was = 0 .. OldSize - 1
    BY DEF FilesInv, CallInv, CallType, ResizeGoesOn, PlaceInv
  <1>3. LastBlock \in Nat /\ OldSize \div BlockSize \in Nat /\ LastBlock' = LastBlock
    <2>1. pc \in Resizing
      BY DEF ResizeGoesOn
    <2>2. /\ ino'[file].size = ino[file].size /\ call'.size = call.size
          /\ UNCHANGED emptied
      BY DEF ResizeGoesOn, SameCall
    <2>3. LastBlock \in Nat
      BY <2>1, LastBlockFacts
    <2>4. LastBlock' = LastBlock
      BY <1>1, <2>2, TargetStays
    <2>5. OldSize \div BlockSize \in Nat
      BY <1>2, Params, Division
    <2> QED BY <2>3, <2>4, <2>5
  <1>4. Growing(file, call.size) => call'.left <= LastBlock' - (OldSize \div BlockSize)
    <2>1. Growing(file, call.size) => call.left <= LastBlock - (OldSize \div BlockSize)
      BY DEF PlaceInv, ResizeGoesOn
    <2>2. call'.left <= call.left /\ call'.left \in Nat
      BY DEF ResizeGoesOn
    <2> QED BY <1>2, <1>3, <2>1, <2>2
  <1>5. pc \in Resizing \ {"set_size"} /\ pc' \in Resizing /\ pc' # "write"
    BY DEF ResizeGoesOn
  <1>6. /\ call'.op = call.op /\ call'.size = call.size /\ call'.at = call.at
        /\ call'.n = call.n /\ call'.idx = call.idx /\ call'.written = call.written
        /\ ino'[file].size = ino[file].size
    BY DEF ResizeGoesOn, SameCall
  <1>7. /\ ino[file].size = OldSize /\ call.size # OldSize /\ call.written = 0
        /\ call.op = "truncate" => call.size \in Sizes
        /\ call.op = "write" => call.at + call.n = call.size
        /\ call.idx = SmallerSize \div BlockSize
        /\ call.op = "write" =>
              call.n > 0 /\ call.at \in Sizes /\ call.at + call.n \in Sizes
        /\ pc' \in Adding /\ ~call'.filled => OldSize = 0
    BY <1>5 DEF PlaceInv, ResizeGoesOn
  <1>8. (pc \in Resizing)' /\ pc' # "write"
    BY <1>5 DEF Resizing, Adding
  <1> QED BY <1>1, <1>2, <1>4, <1>6, <1>7, <1>8 DEF PlaceInv, Resizing, Adding

(***************************************************************************)
(* The bytes that were there before the call, if the step keeps those that *)
(* the call is not to write or cut.                                        *)
(***************************************************************************)
LEMMA KeptIsBacked ==
    ASSUME FilesInv, PlaceInv, pc \notin {"idle", "reply"}, ~Lost,
           NEW k \in 0 .. OldSize - 1, ~InRange(k)
    PROVE  k \in Nat /\ Backed(ino[file], k)
  <1>1. OldSize \in Nat /\ k \in Nat /\ k < OldSize
    BY DEF PlaceInv
  <1>2. /\ file \in Files /\ call \in CallType /\ call.op # "none"
        /\ ino[file].size \in Nat /\ call.size \in Nat /\ ~Wide(ino[file].size)
    BY StepFacts DEF FilesInv, CallInv, NarrowInv, Lost
  <1>3. CASE pc = "write"
    <2>1. /\ ino[file].size = IF call.at + call.n > OldSize THEN call.at + call.n ELSE OldSize
          /\ call.at + call.n \in Nat
      BY <1>2, <1>3 DEF PlaceInv, CallType
    <2>2. k < ino[file].size
      BY <1>1, <2>1
    <2> QED BY <1>1, <1>2, <1>3, <2>2, BytesAreBacked
  <1>4. CASE pc # "write"
    <2>1. pc \in Resizing
      BY <1>4 DEF FilesInv, FilesTypeOK, Steppers, Resizing, Adding
    <2>2. ino[file].size = OldSize
      BY <2>1 DEF PlaceInv
    <2>3. CASE call.op = "write"
      <3>1. Growing(file, call.size)
        BY <2>1, <2>3 DEF FilesInv, CallInv
      <3> QED BY <1>1, <1>2, <2>2, <3>1, BytesAreBacked
    <2>4. CASE call.op # "write"
      <3>1. k < call.size
        BY <1>1, <1>2, <2>4 DEF InRange
      <3> QED BY <1>1, <1>2, <2>2, <3>1, BytesAreBacked
    <2> QED BY <2>3, <2>4
  <1> QED BY <1>3, <1>4

LEMMA KeptStays ==
    ASSUME FilesInv, PlaceInv, BytesAsBefore, SameCall,
           pc \notin {"idle", "reply"}, ~Lost,
           \A k \in Nat : Backed(ino[file], k) /\ k < OldSize /\ ~InRange(k) =>
               CellAt(blk', ino'[file], k) = CellAt(blk, ino[file], k)
    PROVE  BytesAsBefore'
  <1>1. file' = file /\ OldSize' = OldSize /\ was' = was
    BY CallStays DEF SameCall
  <1>2. ASSUME NEW k \in 0 .. OldSize - 1, ~InRange(k)
        PROVE  CellAt(blk', ino'[file], k) = was[k]
    <2>1. k \in Nat /\ Backed(ino[file], k)
      BY <1>2, KeptIsBacked DEF Lost
    <2>2. k < OldSize
      BY <1>2, <2>1 DEF PlaceInv
    <2>3. CellAt(blk, ino[file], k) = was[k]
      BY <1>2 DEF BytesAsBefore, Lost
    <2> QED BY <1>2, <2>1, <2>2, <2>3
  <1>3. \A k : InRange(k)' = InRange(k)
    BY CallStays
  <1>4. \A k \in 0 .. OldSize' - 1 : ~InRange(k)' => CellAt(blk', ino'[file'], k) = was'[k]
    BY <1>1, <1>2, <1>3
  <1>5. \A k : CellAt(blk, ino[file], k)' = CellAt(blk', ino'[file'], k)
    BY DEF CellAt, PtrAt
  <1> QED BY <1>4, <1>5 DEF BytesAsBefore

(***************************************************************************)
(* The holes, if each is one already and keeps its cell, or gets an empty  *)
(* one.                                                                    *)
(***************************************************************************)
LEMMA HolesStay ==
    ASSUME SameCall, HolesAreEmpty, pc \notin {"idle", "reply"}, ~Lost,
           \A k \in Nat : Hole(k)' /\ k < NewSize' =>
               \/ /\ Hole(k) /\ k < NewSize /\ Backed(ino[file], k)
                  /\ CellAt(blk', ino'[file], k) = CellAt(blk, ino[file], k)
               \/ CellAt(blk', ino'[file], k) \in {Nul, Zero},
           NewSize' \in Nat, NewSize \in Nat
    PROVE  HolesAreEmpty'
  <1>1. file' = file /\ (LooseFile' <=> LooseFile)
    <2>1. file' = file /\ OldSize' = OldSize /\ emptied' = emptied
      BY CallStays DEF SameCall
    <2> QED BY <2>1 DEF LooseFile
  <1>2. ASSUME ~LooseFile, NEW k \in 0 .. NewSize' - 1, Hole(k)'
        PROVE  CellAt(blk', ino'[file], k) \in {Nul, Zero}
    <2>1. k \in Nat /\ k < NewSize'
      <3> DEFINE n == NewSize'
      <3>1. n \in Nat /\ k \in 0 .. n - 1
        BY <1>2
      <3> HIDE DEF n
      <3>2. k \in Nat /\ k < n
        BY <3>1
      <3> QED BY <3>2 DEF n
    <2>2. \/ /\ Hole(k) /\ k < NewSize
             /\ CellAt(blk', ino'[file], k) = CellAt(blk, ino[file], k)
          \/ CellAt(blk', ino'[file], k) \in {Nul, Zero}
      BY <1>2, <2>1
    <2>3. CASE /\ Hole(k) /\ k < NewSize
               /\ CellAt(blk', ino'[file], k) = CellAt(blk, ino[file], k)
      <3>1. k \in 0 .. NewSize - 1
        BY <2>1, <2>3
      <3>2. CellAt(blk, ino[file], k) \in {Nul, Zero}
        BY <1>2, <2>3, <3>1 DEF HolesAreEmpty, Lost
      <3> QED BY <2>3, <3>2
    <2> QED BY <2>2, <2>3
  <1>3. \A k : CellAt(blk, ino[file], k)' = CellAt(blk', ino'[file'], k)
    BY DEF CellAt, PtrAt
  <1>4. Nul' = Nul /\ Zero' = Zero
    BY DEF Nul, Zero
  <1>5. ASSUME ~LooseFile' PROVE \A k \in 0 .. NewSize' - 1 : Hole(k)' =>
                                    CellAt(blk, ino[file], k)' \in {Nul, Zero}
    BY <1>1, <1>2, <1>3, <1>5
  <1> QED BY <1>4, <1>5 DEF HolesAreEmpty

(***************************************************************************)
(* A step of a resize that keeps the cells of the blocks that are counted, *)
(* and after which a counted block is one from before, or the new, clear   *)
(* one.                                                                    *)
(***************************************************************************)
LEMMA ResizeKeepsBytes ==
    ASSUME FilesInv, BytesInv, ResizeGoesOn, CellsStay,
           pc' \in Adding /\ ~call'.filled => pc \in Adding /\ ~call.filled,
           pc' = "set_size" => call'.filled,
           call'.filled = call.filled,
           \A k \in Nat : k \div BlockSize < ino'[file].blocks =>
               \/ k \div BlockSize < ino[file].blocks
               \/ CellAt(blk', ino'[file], k) = Nul,
           DiskInv', NewBlockInv'
    PROVE  BytesInv'
  <1>1. PlaceInv /\ BytesAsBefore /\ HolesAreEmpty /\ SameCall
    BY DEF BytesInv, ResizeGoesOn
  <1>2. PlaceInv'
    BY <1>1, PlaceStays
  <1>3. /\ pc \notin {"idle", "reply", "write"} /\ pc' \notin {"idle", "reply", "write"}
        /\ file' = file /\ OldSize' = OldSize /\ call'.size = call.size /\ call'.idx = call.idx
    BY CallStays DEF ResizeGoesOn, SameCall
  <1>4. /\ file \in Files /\ call \in CallType /\ call.size \in Nat
        /\ ino \in Inodes /\ ino[file].blocks \in Nat
    BY <1>3, StepFacts, StateTypes DEF FilesInv, InodeType
  <1>5. BytesAsBefore'
    <2>1. \A k \in Nat : Backed(ino[file], k) /\ k < OldSize /\ ~InRange(k) =>
               CellAt(blk', ino'[file], k) = CellAt(blk, ino[file], k)
      BY <1>4 DEF CellsStay
    <2> QED BY <1>1, <1>3, <2>1, KeptStays DEF Lost
  <1>6. BytesSoFar'
    BY <1>3 DEF BytesSoFar
  <1>7. HolesAreEmpty'
    <2>1. NewSize = call.size /\ NewSize' = call.size
      BY <1>3 DEF NewSize
    <2>2. ASSUME NEW k \in Nat, Hole(k)', k < call.size
          PROVE  \/ /\ Hole(k) /\ k < NewSize /\ Backed(ino[file], k)
                    /\ CellAt(blk', ino'[file], k) = CellAt(blk, ino[file], k)
                 \/ CellAt(blk', ino'[file], k) \in {Nul, Zero}
      <3>1. /\ k > OldSize /\ k \div BlockSize < ino'[file].blocks
            /\ call.filled \/ k \div BlockSize # call.idx
        BY <1>3, <2>2 DEF Hole
      <3>2. CASE k \div BlockSize < ino[file].blocks
        <4>1. Hole(k)
          BY <1>3, <3>1, <3>2 DEF Hole
        <4>2. Backed(ino[file], k)
          <5>1. k \div BlockSize \in Nat
            BY CellPlace
          <5> QED BY <1>4, <3>2, <5>1, PlaceTypes DEF Backed
        <4>3. CellAt(blk', ino'[file], k) = CellAt(blk, ino[file], k)
          BY <1>4, <4>2 DEF CellsStay
        <4> QED BY <2>1, <2>2, <4>1, <4>2, <4>3
      <3>3. CASE CellAt(blk', ino'[file], k) = Nul
        BY <3>3
      <3> QED BY <3>1, <3>2, <3>3
    <2>3. ~Lost
      BY <1>3 DEF Lost
    <2> QED BY <1>1, <1>3, <1>4, <2>1, <2>2, <2>3, HolesStay
  <1> QED BY <1>2, <1>5, <1>6, <1>7 DEF BytesInv
-----------------------------------------------------------------------------
(***************************************************************************)
(* What the steps do to the call, and the bytes that they keep.            *)
(***************************************************************************)
LEMMA ReserveBytes ==
    ASSUME FilesInv, BytesInv, ReserveBlock
    PROVE  BytesInv'
  <1>1. /\ pc = "reserve" /\ UNCHANGED <<ino, d_ino, was, emptied>>
        /\ call' = [call EXCEPT !.lba = Lba(next_block)]
        /\ pc' = IF Indirect(next) THEN "point_indirect" ELSE "point"
    BY DEF ReserveBlock
  <1>2. CellsStay /\ blk'[call'.lba] = ZeroBlock
    BY ReserveCells
  <1>3. /\ call \in CallType /\ Lba(next_block) \in Lbas /\ file \in Files
    BY <1>1, StepFacts, ReserveIsFresh
  <1>4. /\ call'.file = call.file /\ call'.op = call.op /\ call'.size = call.size
        /\ call'.at = call.at /\ call'.n = call.n /\ call'.buf = call.buf
        /\ call'.idx = call.idx /\ call'.written = call.written
        /\ call'.left = call.left /\ call'.filled = call.filled /\ call.left \in Nat
    BY <1>1, <1>3 DEF CallType
  <1>5. ResizeGoesOn
    BY <1>1, <1>4 DEF ResizeGoesOn, SameCall, Resizing, Adding
  <1>6. DiskInv'
    <2>1. DiskInv
      BY DEF BytesInv
    <2>2. \A i \in Files : d_ino'[i].size = ino'[i].size /\ d_ino'[i].blocks = ino'[i].blocks
                           /\ SamePointers(ino'[i], d_ino'[i])
      BY <1>1, <2>1 DEF DiskInv
    <2> QED BY <2>2 DEF DiskInv, SamePointers
  <1>7. NewBlockInv'
    <2>1. pc' = "point" => ~Indirect(next)
      BY <1>1
    <2>2. next' = next
      BY <1>1, <1>4 DEF next, file
    <2>3. ZeroBlock' = ZeroBlock
      BY DEF ZeroBlock
    <2> QED BY <1>2, <2>1, <2>2, <2>3 DEF NewBlockInv, Indirect
  <1>8. pc \in Adding /\ pc' # "set_size"
    BY <1>1 DEF Adding
  <1> QED BY <1>1, <1>2, <1>4, <1>5, <1>6, <1>7, <1>8, ResizeKeepsBytes

LEMMA PointIndirectBytes ==
    ASSUME FilesInv, BytesInv, PointIndirect
    PROVE  BytesInv'
  <1>1. /\ pc = "point_indirect" /\ pc' = "point" /\ UNCHANGED <<d_ino, call, was, emptied>>
        /\ ino' = [ino EXCEPT ![file].ptrs[index(next)] = Lba(next_block)] \/ ino' = ino
    BY DEF PointIndirect
  <1>2. call \in CallType /\ file \in Files /\ call.left \in Nat /\ ino \in Inodes
    BY <1>1, StepFacts, StateTypes DEF FilesInv
  <1>3. \A i \in Files : ino'[i].size = ino[i].size /\ ino'[i].blocks = ino[i].blocks
    <2>1. CASE ino' = ino
      BY <2>1
    <2>2. CASE ino' = [ino EXCEPT ![file].ptrs[index(next)] = Lba(next_block)]
      BY <1>2, <2>2 DEF Inodes, InodeType
    <2> QED BY <1>1, <2>1, <2>2
  <1>4. CellsStay
    BY PointIndirectCells
  <1>5. /\ \A i \in Files :
              /\ \A n \in Held(ino[i]) : ino'[i].ptrs[index(n)] = ino[i].ptrs[index(n)]
              /\ \A n \in Count(ino[i]) : ~Indirect(n) => ino'[i].ptrs[n] = ino[i].ptrs[n]
        /\ PtrAt(blk', ino'[file], next) = call.lba
        /\ blk'[call.lba] = blk[call.lba]
    BY PointersStay
  <1>6. ResizeGoesOn
    BY <1>1, <1>2, <1>3 DEF ResizeGoesOn, SameCall, Resizing, Adding
  <1>7. DiskInv'
    <2>1. DiskInv
      BY DEF BytesInv
    <2>2. ASSUME NEW i \in Files PROVE SamePointers(ino'[i], d_ino'[i])
      <3>1. SamePointers(ino[i], d_ino[i])
        BY <2>1 DEF DiskInv
      <3>2. Count(ino'[i]) = Count(ino[i])
        BY <1>3 DEF Count
      <3>3. \A n \in Count(ino[i]) : Indirect(n) => n \in Held(ino[i])
        BY DEF Held
      <3> QED BY <1>1, <1>5, <3>1, <3>2, <3>3 DEF SamePointers
    <2>3. \A i \in Files : d_ino'[i].size = ino'[i].size /\ d_ino'[i].blocks = ino'[i].blocks
                           /\ SamePointers(ino'[i], d_ino'[i])
      BY <1>1, <1>3, <2>1, <2>2 DEF DiskInv
    <2> QED BY <2>3 DEF DiskInv, SamePointers
  <1>8. NewBlockInv'
    <2>1. blk[call.lba] = ZeroBlock
      BY <1>1 DEF BytesInv, NewBlockInv
    <2>2. file' = file /\ next' = next
      BY <1>1, <1>2, <1>3 DEF next, file
    <2>3. ZeroBlock' = ZeroBlock
      BY DEF ZeroBlock
    <2>4. PtrAt(blk, ino[file], next)' = PtrAt(blk', ino'[file], next)
      BY <2>2 DEF PtrAt, Indirect, index, offset
    <2> QED BY <1>1, <1>5, <2>1, <2>2, <2>3, <2>4 DEF NewBlockInv
  <1>9. pc \in Adding /\ pc' # "set_size" /\ call'.filled = call.filled
    BY <1>1 DEF Adding
  <1> QED BY <1>3, <1>2, <1>4, <1>6, <1>7, <1>8, <1>9, ResizeKeepsBytes

LEMMA WrittenInode ==
    ASSUME d_ino' = ino'
    PROVE  DiskInv'
  BY DEF DiskInv, SamePointers

LEMMA PointToBlockBytes ==
    ASSUME FilesInv, BytesInv, PointToBlock
    PROVE  BytesInv'
  <1> DEFINE e == IF call.filled THEN call.left - 1 ELSE call.left
  <1>1. /\ pc = "point" /\ d_ino' = ino' /\ UNCHANGED <<blk, was, emptied>>
        /\ call' = [call EXCEPT !.left = e]
        /\ pc' = IF call.filled THEN Loop(call.left - 1) ELSE "fill"
    BY DEF PointToBlock, LeftToReserve
  <1>2. /\ call \in CallType /\ file \in Files /\ call.left \in Nat /\ next = ino[file].blocks
        /\ next \in Nat /\ ino \in Inodes
    BY <1>1, StepFacts, StateTypes DEF FilesInv
  <1>3. /\ Growing(file, call.size)
        /\ call.filled => call.left > 0
    BY <1>1 DEF FilesInv, CallInv, Adding
  <1>4. e \in Nat /\ e <= call.left
    BY <1>2, <1>3
  <1> HIDE DEF e
  <1>5. /\ call'.file = call.file /\ call'.op = call.op /\ call'.size = call.size
        /\ call'.at = call.at /\ call'.n = call.n /\ call'.buf = call.buf
        /\ call'.idx = call.idx /\ call'.written = call.written
        /\ call'.left = e /\ call'.filled = call.filled
    BY <1>1, <1>2, <1>4 DEF CallType
  <1>6. pc' \in {"set_size", "reserve", "fill"} /\ (pc' # "fill" => call.filled)
    BY <1>1, <1>3 DEF Loop
  <1>7. /\ ino' = View /\ ino'[file].blocks = next + 1
        /\ ino'[file].size = ino[file].size
    BY BlockCounted
  <1>8. ResizeGoesOn
    BY <1>1, <1>4, <1>5, <1>6, <1>7 DEF ResizeGoesOn, SameCall, Resizing, Adding
  <1>9. ASSUME NEW k \in Nat, k \div BlockSize < ino'[file].blocks
        PROVE  k \div BlockSize < ino[file].blocks \/ CellAt(blk', ino'[file], k) = Nul
    <2> DEFINE n == k \div BlockSize
    <2>1. n \in Nat /\ k % BlockSize \in Cells
      BY CellPlace
    <2>2. n < next + 1
      BY <1>7, <1>9
    <2>3. n < next \/ n = next
      <3> HIDE DEF n
      <3> QED BY <1>2, <2>1, <2>2
    <2>4. PtrAt(blk', ino'[file], next) = call.lba
      <3>1. CASE Indirect(next)
        <4>1. PtrAt(blk, ino[file], next) = call.lba
          BY <1>1, <3>1 DEF BytesInv, NewBlockInv
        <4>2. ino'[file].ptrs = ino[file].ptrs
          <5>1. View[file].ptrs = ino[file].ptrs
            BY <1>1, <1>2, <3>1 DEF View, Counted, Inodes, InodeType
          <5> QED BY <1>7, <5>1
        <4> QED BY <1>1, <3>1, <4>1, <4>2 DEF PtrAt
      <3>2. CASE ~Indirect(next)
        <4>1. next \in PtrIdx
          <5>1. next < NumDataBlocks
            <6>1. OneUse(blk, View) /\ View[file].blocks <= NumDataBlocks
              BY <1>2 DEF FilesInv, UseInv, OneUse
            <6> QED BY <1>2, <1>7, <6>1, Params
          <5> QED BY <1>2, <3>2, <5>1, PlacesFit
        <4>2. View[file].ptrs[next] = call.lba
          BY <1>1, <1>2, <3>2, <4>1 DEF View, Counted, Inodes, InodeType
        <4> QED BY <1>7, <3>2, <4>2 DEF PtrAt
      <3> QED BY <3>1, <3>2
    <2>5. n = next => CellAt(blk', ino'[file], k) = Nul
      <3>1. blk'[call.lba] = ZeroBlock
        BY <1>1 DEF BytesInv, NewBlockInv
      <3>2. n = next => CellAt(blk', ino'[file], k) = blk'[call.lba][k % BlockSize]
        BY <2>4 DEF CellAt
      <3> QED BY <2>1, <3>1, <3>2 DEF ZeroBlock
    <2> QED BY <1>2, <2>3, <2>5
  <1>10. CellsStay
    BY PointToBlockCells
  <1>11. DiskInv' /\ NewBlockInv'
    BY <1>1, <1>6, WrittenInode DEF NewBlockInv
  <1>12. pc \in Adding
    BY <1>1 DEF Adding
  <1>13. pc' = "set_size" => call'.filled
    BY <1>5, <1>6
  <1>14. pc' \in Adding /\ ~call'.filled => pc \in Adding /\ ~call.filled
    BY <1>5, <1>12
  <1> QED BY <1>5, <1>8, <1>9, <1>10, <1>11, <1>13, <1>14, ResizeKeepsBytes

LEMMA RemoveBytes ==
    ASSUME FilesInv, BytesInv, RemoveBlock
    PROVE  BytesInv'
  <1> DEFINE e == call.left - 1
  <1>1. /\ pc = "remove" /\ d_ino' = ino' /\ UNCHANGED <<blk, was, emptied>>
        /\ call' = [call EXCEPT !.left = e]
        /\ pc' = Loop(e)
    BY DEF RemoveBlock
  <1>2. /\ call \in CallType /\ file \in Files /\ call.left \in Nat
        /\ ino \in Inodes /\ ino[file].blocks \in Nat
    BY <1>1, StepFacts, StateTypes DEF FilesInv, InodeType
  <1>3. ~Growing(file, call.size) /\ call.filled /\ call.left > 0
    BY <1>1 DEF FilesInv, CallInv
  <1>4. e \in Nat /\ e <= call.left
    BY <1>2, <1>3
  <1>5. pc' \in {"set_size", "remove"}
    BY <1>1, <1>3 DEF Loop
  <1> HIDE DEF e
  <1>6. /\ call'.file = call.file /\ call'.op = call.op /\ call'.size = call.size
        /\ call'.at = call.at /\ call'.n = call.n /\ call'.buf = call.buf
        /\ call'.idx = call.idx /\ call'.written = call.written
        /\ call'.left = e /\ call'.filled = call.filled
    BY <1>1, <1>2, <1>4 DEF CallType
  <1>7. ino'[file].size = ino[file].size /\ ino'[file].blocks = ino[file].blocks - 1
    BY <1>2, BlockDropped
  <1>8. ResizeGoesOn
    BY <1>1, <1>4, <1>5, <1>6, <1>7 DEF ResizeGoesOn, SameCall, Resizing, Adding
  <1>9. ASSUME NEW k \in Nat, k \div BlockSize < ino'[file].blocks
        PROVE  k \div BlockSize < ino[file].blocks
    <2> DEFINE n == k \div BlockSize
    <2>1. n \in Nat /\ n < ino[file].blocks - 1
      BY <1>7, <1>9, CellPlace
    <2> HIDE DEF n
    <2>2. n < ino[file].blocks
      BY <1>2, <2>1
    <2> QED BY <2>2 DEF n
  <1>10. CellsStay
    BY RemoveAndSizeCells
  <1>11. DiskInv' /\ NewBlockInv'
    BY <1>1, <1>5, WrittenInode DEF NewBlockInv
  <1>12. pc' \notin Adding /\ call'.filled = call.filled /\ call'.filled
    BY <1>3, <1>5, <1>6 DEF Adding
  <1> QED BY <1>8, <1>9, <1>10, <1>11, <1>12, ResizeKeepsBytes

(***************************************************************************)
(* The fill reaches the bytes of the block after the smaller size, but for *)
(* the first of them: none that is kept, and every hole in the block.      *)
(***************************************************************************)
LEMMA AfterEnd ==
    ASSUME NEW k \in Nat, NEW s \in Nat, k \div BlockSize = s \div BlockSize
    PROVE  k % BlockSize >= (s % BlockSize) + 1 <=> k > s
  <1> DEFINE b == (s \div BlockSize) * BlockSize
             c == k % BlockSize
             d == s % BlockSize
  <1>1. /\ b \in Nat /\ k = b + c /\ s = b + d
        /\ c \in Cells /\ d \in Cells
    BY CellPlace
  <1>2. c \in Nat /\ d \in Nat
    BY <1>1, Params DEF Cells
  <1> HIDE DEF b, c, d
  <1>3. c >= d + 1 <=> k > s
    BY <1>1, <1>2
  <1> QED BY <1>3 DEF c, d

LEMMA FillAfterEnd ==
    ASSUME FilesInv, PlaceInv, FillBlock, NEW i \in Files, NEW k \in Nat, Backed(ino[i], k)
    PROVE  CellAt(blk', ino'[i], k) =
               IF i = file /\ k \div BlockSize = call.idx /\ k > SmallerSize THEN Zero
               ELSE CellAt(blk, ino[i], k)
  <1> DEFINE s == SmallerSize
  <1>1. pc = "fill"
    BY DEF FillBlock
  <1>2. call.size \in Nat /\ ino[file].size \in Nat
    BY <1>1, StepFacts
  <1>3. call.idx = s \div BlockSize /\ s \in Nat
    BY <1>1, <1>2 DEF PlaceInv, Resizing, SmallerSize
  <1> HIDE DEF s
  <1>4. CellAt(blk', ino'[i], k) =
            IF /\ i = file /\ k \div BlockSize = call.idx
               /\ k % BlockSize >= (s % BlockSize) + 1
            THEN Zero ELSE CellAt(blk, ino[i], k)
    BY FillCells DEF s
  <1>5. CASE k \div BlockSize = call.idx
    BY <1>3, <1>4, <1>5, AfterEnd DEF s
  <1>6. CASE k \div BlockSize # call.idx
    BY <1>4, <1>6
  <1> QED BY <1>5, <1>6

LEMMA FillKeeps ==
    ASSUME FilesInv, PlaceInv, FillBlock, NEW i \in Files, NEW k \in Nat, Backed(ino[i], k),
           k < ino[i].size, ~(i = file /\ InRange(k))
    PROVE  CellAt(blk', ino'[i], k) = CellAt(blk, ino[i], k)
  <1>1. pc = "fill" /\ pc \in Resizing
    BY DEF FillBlock, Resizing
  <1>2. call.size \in Nat /\ ino[file].size \in Nat
    BY <1>1, StepFacts
  <1>3. ASSUME i = file PROVE k <= SmallerSize
    <2>1. CASE Growing(file, call.size)
      BY <1>2, <1>3, <2>1 DEF SmallerSize
    <2>2. CASE ~Growing(file, call.size)
      <3>1. call.op # "write"
        BY <1>1, <2>2 DEF FilesInv, CallInv
      <3> QED BY <1>2, <1>3, <2>2, <3>1 DEF InRange, SmallerSize
    <2> QED BY <2>1, <2>2
  <1>4. SmallerSize \in Nat
    BY <1>2 DEF SmallerSize
  <1> QED BY <1>3, <1>4, FillAfterEnd

LEMMA FillBytes ==
    ASSUME FilesInv, BytesInv, FillBlock
    PROVE  BytesInv'
  <1> DEFINE s == SmallerSize
  <1>1. /\ pc = "fill" /\ UNCHANGED <<ino, d_ino, was, emptied>>
        /\ call' = [call EXCEPT !.filled = TRUE]
        /\ pc' = Loop(call.left)
    BY DEF FillBlock
  <1>2. /\ call \in CallType /\ file \in Files /\ call.left \in Nat /\ call.size \in Nat
        /\ ino \in Inodes /\ ino[file].blocks \in Nat /\ ino[file].size \in Nat
    BY <1>1, StepFacts, StateTypes DEF FilesInv, InodeType
  <1>3. PlaceInv /\ BytesAsBefore /\ HolesAreEmpty /\ DiskInv
    BY DEF BytesInv
  <1>4. /\ ino[file].size = OldSize /\ call.idx = s \div BlockSize /\ OldSize \in Nat
        /\ s = IF Growing(file, call.size) THEN OldSize ELSE call.size
    BY <1>1, <1>3 DEF PlaceInv, Resizing, SmallerSize
  <1>5. /\ call'.file = call.file /\ call'.op = call.op /\ call'.size = call.size
        /\ call'.at = call.at /\ call'.n = call.n /\ call'.buf = call.buf
        /\ call'.idx = call.idx /\ call'.written = call.written
        /\ call'.left = call.left /\ call'.filled = TRUE
    BY <1>1, <1>2 DEF CallType
  <1>6. pc' \in {"set_size", "reserve", "remove"}
    BY <1>1 DEF Loop
  <1>7. SameCall /\ ResizeGoesOn
    BY <1>1, <1>2, <1>5, <1>6 DEF ResizeGoesOn, SameCall, Resizing, Adding
  <1>8. PlaceInv'
    BY <1>3, <1>5, <1>7, PlaceStays
  <1>9. DiskInv' /\ NewBlockInv'
    <2>1. \A i \in Files : d_ino'[i].size = ino'[i].size /\ d_ino'[i].blocks = ino'[i].blocks
                           /\ SamePointers(ino'[i], d_ino'[i])
      BY <1>1, <1>3 DEF DiskInv
    <2> QED BY <1>6, <2>1 DEF DiskInv, SamePointers, NewBlockInv
  <1>10. s \in Nat /\ (Growing(file, call.size) <=> OldSize < call.size)
    BY <1>2, <1>4 DEF Growing
  <1> HIDE DEF s
  <1>11. ASSUME NEW k \in Nat, Backed(ino[file], k)
         PROVE  CellAt(blk', ino'[file], k) =
                    IF k \div BlockSize = call.idx /\ k > s THEN Zero
                    ELSE CellAt(blk, ino[file], k)
    BY <1>2, <1>3, <1>11, FillAfterEnd DEF s
  <1>12. BytesAsBefore'
    <2>1. ASSUME NEW k \in Nat, Backed(ino[file], k), k < OldSize, ~InRange(k)
          PROVE  CellAt(blk', ino'[file], k) = CellAt(blk, ino[file], k)
      BY <1>2, <1>3, <1>4, <2>1, FillKeeps
    <2> QED BY <1>1, <1>3, <1>7, <2>1, KeptStays DEF Lost
  <1>13. HolesAreEmpty'
    <2>1. /\ NewSize = call.size /\ NewSize' = call.size /\ OldSize' = OldSize
          /\ file' = file
      BY <1>1, <1>5, <1>6, <1>7, CallStays DEF NewSize
    <2>2. ASSUME NEW k \in Nat, Hole(k)', k < call.size
          PROVE  \/ /\ Hole(k) /\ k < NewSize /\ Backed(ino[file], k)
                    /\ CellAt(blk', ino'[file], k) = CellAt(blk, ino[file], k)
                 \/ CellAt(blk', ino'[file], k) \in {Nul, Zero}
      <3>1. k > OldSize /\ k \div BlockSize < ino[file].blocks
        BY <1>1, <2>1, <2>2 DEF Hole
      <3>2. Backed(ino[file], k)
        <4>1. k \div BlockSize \in Nat
          BY CellPlace
        <4> QED BY <1>2, <3>1, <4>1, PlaceTypes DEF Backed
      <3>3. s = OldSize
        BY <1>2, <1>4, <1>10, <2>2, <3>1
      <3>4. CASE k \div BlockSize = call.idx
        BY <1>11, <3>1, <3>2, <3>3, <3>4
      <3>5. CASE k \div BlockSize # call.idx
        <4>1. Hole(k)
          BY <1>1, <3>1, <3>5 DEF Hole
        <4> QED BY <1>11, <2>1, <2>2, <3>2, <3>5, <4>1
      <3> QED BY <3>4, <3>5
    <2>3. pc \notin {"idle", "reply"} /\ ~Lost
      BY <1>1 DEF Lost
    <2> QED BY <1>2, <1>3, <1>7, <2>1, <2>2, <2>3, HolesStay
  <1>14. BytesSoFar'
    BY <1>6 DEF BytesSoFar
  <1> QED BY <1>8, <1>9, <1>12, <1>13, <1>14 DEF BytesInv

LEMMA SetSizeBytes ==
    ASSUME FilesInv, BytesInv, SetSize
    PROVE  BytesInv'
  <1> DEFINE first == IntBlock(call.at)
  <1>1. /\ pc = "set_size" /\ d_ino' = ino' /\ UNCHANGED <<blk, was>>
        /\ emptied' = [emptied EXCEPT ![file] = IF call.size = 0 THEN @ + 1 ELSE @]
        /\ call' = [call EXCEPT !.idx = first]
        /\ pc' = IF call.op = "write" THEN "write" ELSE "reply"
    BY DEF SetSize
  <1>2. /\ call \in CallType /\ file \in Files /\ call.size \in Nat
        /\ ino \in Inodes /\ ino[file].blocks \in Nat /\ ino[file].size \in Nat
        /\ call.at \in Nat /\ call.n \in Nat /\ emptied \in [Files -> Nat]
    BY <1>1, StepFacts, StateTypes DEF FilesInv, InodeType, CallType
  <1>3. first \in Nat
    <2>1. IntBlock(call.at) >= 0
      BY DEF FilesInv, CallInv
    <2> QED BY <1>2, <2>1, IntBlocks
  <1>4. PlaceInv /\ BytesAsBefore /\ HolesAreEmpty /\ ~Lost
    BY <1>1 DEF BytesInv, Lost
  <1> HIDE DEF first
  <1>5. /\ call'.file = call.file /\ call'.op = call.op /\ call'.size = call.size
        /\ call'.at = call.at /\ call'.n = call.n /\ call'.buf = call.buf
        /\ call'.idx = first /\ call'.written = call.written
    BY <1>1, <1>2, <1>3 DEF CallType
  <1>6. /\ ino'[file].size = call.size /\ ino'[file].blocks = ino[file].blocks
    BY <1>2, SizeIsSet
  <1>7. DiskInv'
    BY <1>1, WrittenInode
  <1>8. NewBlockInv' /\ file' = file /\ OldSize' = OldSize
    BY <1>1, <1>5 DEF NewBlockInv, file, OldSize
  <1>9. CASE call.op # "write"
    <2>1. pc' = "reply"
      BY <1>1, <1>9
    <2> QED BY <1>7, <1>8, <2>1
            DEF BytesInv, PlaceInv, BytesAsBefore, BytesSoFar, HolesAreEmpty, Resizing, Adding
  <1>10. CASE call.op = "write"
    <2>1. pc' = "write"
      BY <1>1, <1>10
    <2>2. /\ OldSize \in Nat /\ DOMAIN was = 0 .. OldSize - 1
          /\ ino[file].size = OldSize /\ call.written = 0 /\ call.at + call.n = call.size
          /\ call.n > 0 /\ call.at \in Sizes /\ call.at + call.n \in Sizes /\ call.filled
      BY <1>1, <1>4, <1>10 DEF PlaceInv, Resizing
    <2>3. Growing(file, call.size) /\ call.size > OldSize
      <3>1. Growing(file, call.size)
        BY <1>1, <1>10 DEF FilesInv, CallInv, Resizing
      <3> QED BY <1>2, <2>2, <3>1 DEF Growing
    <2>4. emptied' = emptied
      BY <1>1, <1>2, <2>2, <2>3
    <2>5. SameCall
      BY <1>1, <1>5, <2>4 DEF SameCall
    <2>6. PlaceInv'
      <3>1. ino'[file].size = IF call.at + call.n > OldSize THEN call.at + call.n ELSE OldSize
        BY <1>6, <2>2, <2>3
      <3>2. /\ call'.idx >= first /\ call'.idx = first
            /\ call'.at + call'.written = call.at
        BY <1>2, <1>3, <1>5, <2>2
      <3>6. ~Lost' => first = call.at \div BlockSize
        <4>1. ~Lost' => ~Wide(call.size)
          BY <1>6, <1>8, <2>1 DEF Lost
        <4>2. call.at <= call.size
          BY <1>2, <2>2
        <4> QED BY <1>2, <4>1, <4>2, IntBlocks DEF first
      <3>3. pc' \notin Resizing /\ pc' \notin Adding
        BY <2>1 DEF Resizing, Adding
      <3>4. (call.at \div BlockSize)' = call.at \div BlockSize
        BY <1>5
      <3>5. was' = was
        BY <1>1
      <3> QED BY <1>5, <1>8, <2>1, <2>2, <3>1, <3>2, <3>3, <3>4, <3>5, <3>6 DEF PlaceInv
    <2>7. CellsStay
      BY RemoveAndSizeCells
    <2>8. BytesAsBefore'
      <3>1. \A k \in Nat : Backed(ino[file], k) /\ k < OldSize /\ ~InRange(k) =>
                 CellAt(blk', ino'[file], k) = CellAt(blk, ino[file], k)
        BY <1>2, <2>7 DEF CellsStay
      <3> QED BY <1>1, <1>4, <2>5, <3>1, KeptStays
    <2>9. BytesSoFar'
      <3>1. call'.at .. call'.at + call'.written - 1 = {}
        BY <1>2, <1>5, <2>2
      <3> QED BY <3>1 DEF BytesSoFar
    <2>10. HolesAreEmpty'
      <3>1. NewSize = call.size /\ NewSize' = call.size
        BY <1>1, <1>6, <1>8, <2>1 DEF NewSize
      <3>2. ASSUME NEW k \in Nat, Hole(k)', k < call.size
            PROVE  /\ Hole(k) /\ k < NewSize /\ Backed(ino[file], k)
                   /\ CellAt(blk', ino'[file], k) = CellAt(blk, ino[file], k)
        <4>1. k > OldSize /\ k \div BlockSize < ino[file].blocks
          BY <1>6, <1>8, <3>2 DEF Hole
        <4>2. Hole(k)
          BY <1>1, <2>2, <4>1 DEF Hole
        <4>3. Backed(ino[file], k)
          <5>1. k \div BlockSize \in Nat
            BY CellPlace
          <5> QED BY <1>2, <4>1, <5>1, PlaceTypes DEF Backed
        <4> QED BY <1>2, <2>7, <3>1, <3>2, <4>2, <4>3 DEF CellsStay
      <3>3. pc \notin {"idle", "reply"}
        BY <1>1
      <3>4. NewSize \in Nat /\ NewSize' \in Nat
        BY <1>2, <3>1
      <3>5. \A k \in Nat : Hole(k)' /\ k < NewSize' =>
               /\ Hole(k) /\ k < NewSize /\ Backed(ino[file], k)
               /\ CellAt(blk', ino'[file], k) = CellAt(blk, ino[file], k)
        BY <3>1, <3>2
      <3> QED BY <1>4, <2>5, <3>3, <3>4, <3>5, HolesStay
    <2> QED BY <1>7, <1>8, <2>6, <2>8, <2>9, <2>10 DEF BytesInv
  <1> QED BY <1>9, <1>10

(***************************************************************************)
(* The write goes on where it is, and with the last block has put all its  *)
(* bytes where they belong.                                                *)
(***************************************************************************)
LEMMA WrittenSoFar ==
    ASSUME FilesInv, PlaceInv, BytesSoFar, WriteBlock, ~Lost,
           NEW k \in call.at .. call.at + call'.written - 1
    PROVE  CellAt(blk', ino'[file], k) = Byte(k, call.buf)
  <1>1. pc = "write" /\ ~Wide(ino[file].size)
    BY DEF WriteBlock, Lost
  <1>2. /\ file \in Files /\ call.at \in Nat /\ call.n \in Nat
        /\ call.written \in Nat /\ call'.written \in Nat /\ call'.written <= call.n
        /\ \A j \in Nat : Backed(ino[file], j) =>
              CellAt(blk', ino'[file], j) =
                  IF j \in call.at + call.written .. call.at + call'.written - 1
                  THEN Byte(j, call.buf) ELSE CellAt(blk, ino[file], j)
    BY WriteCells
  <1>3. k \in Nat /\ k < call.at + call.n /\ k >= call.at
    BY <1>2
  <1>4. Backed(ino[file], k)
    <2>1. call.at + call.n <= ino[file].size /\ ino[file].size \in Nat
      BY <1>1, StepFacts DEF FilesInv, CallInv
    <2>2. k < ino[file].size
      BY <1>2, <1>3, <2>1
    <2> QED BY <1>1, <1>2, <1>3, <2>2, BytesAreBacked
  <1>5. CASE k >= call.at + call.written
    <2>1. k \in call.at + call.written .. call.at + call'.written - 1
      BY <1>2, <1>3, <1>5
    <2> QED BY <1>2, <1>3, <1>4, <2>1
  <1>6. CASE k < call.at + call.written
    <2>1. /\ k \notin call.at + call.written .. call.at + call'.written - 1
          /\ k \in call.at .. call.at + call.written - 1
      BY <1>2, <1>3, <1>6
    <2>2. CellAt(blk, ino[file], k) = Byte(k, call.buf)
      BY <1>1, <2>1 DEF BytesSoFar, Lost
    <2> QED BY <1>2, <1>3, <1>4, <2>1, <2>2
  <1> QED BY <1>2, <1>3, <1>5, <1>6

LEMMA WriteBytes ==
    ASSUME FilesInv, BytesInv, WriteBlock
    PROVE  BytesInv'
  <1> DEFINE first == call.at \div BlockSize
  <1>1. /\ pc = "write" /\ pc' \in {"write", "reply"} /\ UNCHANGED <<ino, d_ino, was, emptied>>
        /\ \E w : call' = [call EXCEPT !.idx = @ + 1, !.written = w]
    BY DEF WriteBlock
  <1>2. PlaceInv /\ BytesAsBefore /\ BytesSoFar /\ HolesAreEmpty /\ DiskInv
    BY DEF BytesInv
  <1>3. /\ call \in CallType /\ file \in Files /\ call.idx \in Nat
        /\ ino \in Inodes /\ ino[file].blocks \in Nat /\ ino[file].size \in Nat
        /\ call.at \in Nat /\ call.n \in Nat
    BY <1>1, StepFacts, StateTypes DEF FilesInv, InodeType, CallType
  <1>4. /\ call'.file = call.file /\ call'.op = call.op /\ call'.size = call.size
        /\ call'.at = call.at /\ call'.n = call.n /\ call'.buf = call.buf
        /\ call'.idx = call.idx + 1
    BY <1>1, <1>3 DEF CallType
  <1>5. SameCall
    BY <1>1, <1>4 DEF SameCall
  <1>6. DiskInv' /\ NewBlockInv'
    <2>1. \A i \in Files : d_ino'[i].size = ino'[i].size /\ d_ino'[i].blocks = ino'[i].blocks
                           /\ SamePointers(ino'[i], d_ino'[i])
      BY <1>1, <1>2 DEF DiskInv
    <2> QED BY <1>1, <2>1 DEF DiskInv, SamePointers, NewBlockInv
  <1>11. file' = file /\ OldSize' = OldSize /\ Lost' = (pc' = "write" /\ Lost)
    BY <1>1, <1>4 DEF file, OldSize, Lost
  <1>12. CASE Lost /\ pc' = "write"
    <2>1. pc' \notin Resizing /\ pc' \notin Adding
      BY <1>12 DEF Resizing, Adding
    <2>2. PlaceInv'
      BY <1>1, <1>2, <1>4, <1>11, <1>12, <2>1 DEF PlaceInv
    <2> QED BY <1>6, <1>11, <1>12, <2>2 DEF BytesInv, BytesAsBefore, BytesSoFar, HolesAreEmpty
  <1>9. CASE pc' = "reply"
    BY <1>6, <1>9
       DEF BytesInv, PlaceInv, BytesAsBefore, BytesSoFar, HolesAreEmpty, Resizing, Adding, Lost
  <1> SUFFICES ASSUME ~Lost PROVE BytesInv'
    BY <1>1, <1>9, <1>12
  <1>7. /\ call.written \in Nat /\ call'.written \in Nat /\ call'.written <= call.n
        /\ pc' = "write" => call.at + call'.written = (call.idx + 1) * BlockSize
        /\ \A k \in Nat : Backed(ino[file], k) =>
              CellAt(blk', ino'[file], k) =
                  IF k \in call.at + call.written .. call.at + call'.written - 1
                  THEN Byte(k, call.buf) ELSE CellAt(blk, ino[file], k)
    BY <1>2, WriteCells
  <1>8. file' = file /\ OldSize' = OldSize /\ \A k : InRange(k)' = InRange(k)
    BY <1>5, CallStays
  <1>10. CASE pc' = "write"
    <2>1. call.op = "write"
      BY <1>1 DEF FilesInv, CallInv
    <2>2. \A k \in Nat : Backed(ino[file], k) /\ ~InRange(k) =>
              CellAt(blk', ino'[file], k) = CellAt(blk, ino[file], k)
      <3>1. \A k : k \in call.at + call.written .. call.at + call'.written - 1 => InRange(k)
        BY <1>3, <1>7, <2>1 DEF InRange
      <3> QED BY <1>7, <3>1
    <2>3. PlaceInv'
      <3>1. /\ OldSize \in Nat /\ DOMAIN was = 0 .. OldSize - 1
            /\ call.n > 0 /\ call.at \in Sizes /\ call.at + call.n \in Sizes
            /\ ino[file].size = IF call.at + call.n > OldSize THEN call.at + call.n
                                ELSE OldSize
            /\ call.idx >= first
        BY <1>1, <1>2, <2>1 DEF PlaceInv
      <3>2. first \in Nat
        BY <1>3, Params, Division
      <3>3. first' = first
        BY <1>4
      <3> HIDE DEF first
      <3>4. /\ call'.idx >= first /\ call'.idx # first
            /\ call'.at + call'.written = call'.idx * BlockSize
        BY <1>3, <1>4, <1>7, <1>10, <3>1, <3>2
      <3>5. pc' \notin Resizing /\ pc' \notin Adding
        BY <1>10 DEF Resizing, Adding
      <3> QED BY <1>1, <1>4, <1>8, <1>10, <3>1, <3>3, <3>4, <3>5 DEF PlaceInv, first
    <2>4. BytesAsBefore'
      BY <1>1, <1>2, <1>5, <2>2, KeptStays
    <2>5. BytesSoFar'
      <3>1. \A k \in call.at .. call.at + call'.written - 1 :
                CellAt(blk', ino'[file], k) = Byte(k, call.buf)
        BY <1>2, WrittenSoFar
      <3>2. \A k : /\ CellAt(blk, ino[file], k)' = CellAt(blk', ino'[file'], k)
                   /\ Byte(k, call.buf)' = Byte(k, call'.buf)
        BY DEF CellAt, PtrAt, Byte
      <3> QED BY <1>4, <1>8, <3>1, <3>2 DEF BytesSoFar
    <2>6. HolesAreEmpty'
      <3>1. NewSize = ino[file].size /\ NewSize' = ino[file].size
        BY <1>1, <1>8, <1>10 DEF NewSize
      <3>2. ASSUME NEW k \in Nat, Hole(k)', k < NewSize'
            PROVE  /\ Hole(k) /\ k < NewSize /\ Backed(ino[file], k)
                   /\ CellAt(blk', ino'[file], k) = CellAt(blk, ino[file], k)
        <4>1. k > OldSize /\ k \div BlockSize < ino[file].blocks /\ ~InRange(k)
          BY <1>1, <1>8, <1>10, <3>2 DEF Hole
        <4>2. Hole(k)
          BY <1>1, <4>1 DEF Hole
        <4>3. Backed(ino[file], k)
          <5>1. k \div BlockSize \in Nat
            BY CellPlace
          <5> QED BY <1>3, <4>1, <5>1, PlaceTypes DEF Backed
        <4> QED BY <2>2, <3>1, <3>2, <4>1, <4>2, <4>3
      <3>3. pc \notin {"idle", "reply"}
        BY <1>1
      <3> QED BY <1>2, <1>3, <1>5, <3>1, <3>2, <3>3, HolesStay
    <2> QED BY <1>6, <2>3, <2>4, <2>5, <2>6 DEF BytesInv
  <1> QED BY <1>1, <1>9, <1>10

(***************************************************************************)
(* A call begins: its file has the bytes it had, and no hole yet.          *)
(***************************************************************************)
LEMMA BeginCells ==
    ASSUME FilesInv, DiskInv, NEW f \in Files, was' = Contents(ino[f]), call'.file = f,
           UNCHANGED <<ino, d_ino, blk, emptied>>,
           pc' \notin {"point_indirect", "point"}
    PROVE  /\ DiskInv' /\ NewBlockInv' /\ BytesAsBefore'
           /\ file' = f /\ OldSize' = ino[f].size /\ ino[f].size \in Nat
           /\ DOMAIN was' = 0 .. ino[f].size - 1
  <1>1. ino[f].size \in Nat
    BY StateTypes, PlaceTypes DEF FilesInv
  <1>2. was' = [k \in 0 .. ino[f].size - 1 |-> CellAt(blk, ino[f], k)]
    BY BytesAreCells
  <1>3. Cardinality(0 .. ino[f].size - 1) = ino[f].size
    <2> DEFINE n == ino[f].size
    <2>1. 0 + n - 1 = n - 1
      BY <1>1
    <2>2. Cardinality(0 .. 0 + n - 1) = n
      BY <1>1, IntervalSize
    <2> QED BY <2>1, <2>2
  <1>4. DOMAIN was' = 0 .. ino[f].size - 1
    BY <1>2
  <1>5. OldSize' = ino[f].size
    BY <1>3, <1>4 DEF OldSize
  <1>6. file' = f
    BY DEF file
  <1>7. BytesAsBefore'
    <2>1. \A k \in 0 .. ino[f].size - 1 : CellAt(blk', ino'[f], k) = was'[k]
      BY <1>2
    <2>2. \A k : CellAt(blk, ino[file], k)' = CellAt(blk', ino'[file'], k)
      BY DEF CellAt, PtrAt
    <2> QED BY <1>5, <1>6, <2>1, <2>2 DEF BytesAsBefore
  <1>8. DiskInv'
    <2>1. \A i \in Files : d_ino'[i].size = ino'[i].size /\ d_ino'[i].blocks = ino'[i].blocks
                           /\ SamePointers(ino'[i], d_ino'[i])
      BY DEF DiskInv
    <2> QED BY <2>1 DEF DiskInv, SamePointers
  <1>9. NewBlockInv'
    BY DEF NewBlockInv
  <1> QED BY <1>1, <1>4, <1>5, <1>6, <1>7, <1>8, <1>9

LEMMA BeginResizeBytes ==
    ASSUME FilesInv, BytesInv, pc = "idle", NoneIsWide, NEW f \in Files, NEW size \in Sizes,
           ino[f].size # size, was' = Contents(ino[f]),
           call'.file = f, call'.size = size, ~call'.filled,
           call'.idx = Resize(f, size).idx, call'.left = Resize(f, size).left,
           call'.written = 0, call'.op \in {"truncate", "write"},
           call'.op = "write" => /\ call'.n > 0 /\ call'.at \in Sizes
                                 /\ call'.at + call'.n = size,
           pc' = ResizeStep(f, size),
           UNCHANGED <<ino, d_ino, data_bitmap, blk, emptied>>
    PROVE  BytesInv'
  <1> DEFINE old == ino[f].size \div BlockSize
             new == LastOf(f, size)
  <1>1. size \in Nat
    BY FileBlocksAssumption
  <1>2. /\ old \in Nat /\ new \in Nat /\ ino[f].size \in Nat /\ emptied[f] \in Nat
        /\ Growing(f, size) => old <= new
        /\ ~Growing(f, size) => new <= old /\ ino[f].size > 0
        /\ ino[f].size = 0 => old = 0
        /\ ino[f].blocks = emptied[f] + (IF ino[f].size = 0 THEN 0 ELSE old + 1)
        /\ ~Growing(f, size) => new = size \div BlockSize
    BY <1>1, ResizeFacts
  <1>3. /\ call'.idx = IF Growing(f, size) THEN old ELSE new
        /\ call'.left = IF Growing(f, size) THEN new - old ELSE old - new
    BY <1>1, ResizeFacts
  <1>4. pc' \in {"reserve", "fill"} /\ (pc' = "reserve" => ino[f].size = 0)
    BY DEF ResizeStep
  <1>5. /\ DiskInv' /\ NewBlockInv' /\ BytesAsBefore'
        /\ file' = f /\ OldSize' = ino[f].size
        /\ DOMAIN was' = 0 .. ino[f].size - 1
    BY <1>4, BeginCells DEF BytesInv
  <1>6. /\ Growing(file, call.size)' = Growing(f, size)
        /\ SmallerSize' = IF Growing(f, size) THEN ino[f].size ELSE size
    BY <1>5 DEF Growing, SmallerSize
  <1>7. (SmallerSize \div BlockSize)' = IF Growing(f, size) THEN old ELSE new
    BY <1>2, <1>6
  <1>8. call'.left <= new - old \/ ~Growing(f, size)
    BY <1>2, <1>3
  <1>9. /\ LastBlock' = new /\ (OldSize \div BlockSize)' = old
    BY <1>5 DEF LastBlock, LastOf, Growing
  <1>10. Growing(f, size) <=> ino[f].size < size
    BY DEF Growing
  <1> HIDE DEF old, new
  <1>11. PlaceInv'
    <2>1. ino'[f].size = OldSize' /\ OldSize' \in Nat /\ size # OldSize'
      BY <1>2, <1>5
    <2>2. pc' \in Resizing /\ pc' \notin {"set_size", "write"}
          /\ (pc' \in Adding => OldSize' = 0)
      BY <1>4, <1>5 DEF Resizing, Adding
    <2>3. (Growing(file, call.size) =>
              call.left <= LastBlock - (OldSize \div BlockSize))'
      BY <1>6, <1>8, <1>9
    <2>4. call'.idx = (SmallerSize \div BlockSize)'
      BY <1>3, <1>7
    <2> QED BY <1>5, <2>1, <2>2, <2>3, <2>4 DEF PlaceInv
  <1>12. BytesSoFar'
    BY <1>4 DEF BytesSoFar
  <1>13. HolesAreEmpty'
    <2>1. NewSize' = size
      BY <1>4 DEF NewSize
    <2>2. ASSUME ~LooseFile', NEW k \in 0 .. size - 1, Hole(k)' PROVE FALSE
      <3> DEFINE n == k \div BlockSize
      <3>1. /\ k \in Nat /\ k < size /\ k > ino[f].size
            /\ n < ino[f].blocks /\ n # call'.idx /\ n \in Nat
        <4>1. k \in Nat /\ k < size
          BY <1>1, <2>2
        <4>2. k > ino[f].size /\ n < ino[f].blocks /\ n # call'.idx
          BY <1>4, <1>5, <2>2 DEF Hole
        <4> QED BY <4>1, <4>2, CellPlace
      <3>2. Growing(f, size)
        BY <1>1, <1>2, <1>10, <3>1
      <3>3. old <= n
        BY <1>2, <3>1, Params, DivisionIsMonotone DEF old
      <3>4. emptied[f] <= IF ino[f].size = 0 THEN 1 ELSE 0
        <4>1. ~(emptied[f] > (IF ino[f].size = 0 THEN 1 ELSE 0))
          BY <1>5, <2>2 DEF LooseFile
        <4> QED BY <1>2, <4>1
      <3> HIDE DEF n
      <3> QED BY <1>2, <1>3, <3>1, <3>2, <3>3, <3>4
    <2> QED BY <2>1, <2>2 DEF HolesAreEmpty
  <1> QED BY <1>5, <1>11, <1>12, <1>13 DEF BytesInv

LEMMA TruncateBytes ==
    ASSUME FilesInv, BytesInv, NEW f \in Files, NEW size \in Sizes, refs_truncate(f, size)
    PROVE  BytesInv'
  <1>1. /\ size \in Nat /\ pc = "idle" /\ ino[f].size # size
        /\ call' = [Resize(f, size) EXCEPT !.op = "truncate"]
        /\ pc' = ResizeStep(f, size) /\ was' = Contents(ino[f])
        /\ NoneIsWide /\ UNCHANGED <<ino, d_ino, data_bitmap, blk, emptied>>
    BY FileBlocksAssumption DEF refs_truncate
  <1> DEFINE r == Resize(f, size)
  <1>2. /\ r \in CallType /\ r.file = f /\ r.size = size /\ ~r.filled /\ r.written = 0
        /\ r.at = 0
    BY <1>1, ResizeCall
  <1> HIDE DEF r
  <1>3. call' = [r EXCEPT !.op = "truncate"]
    BY <1>1 DEF r
  <1>4. /\ call'.file = f /\ call'.size = size /\ ~call'.filled
        /\ call'.idx = r.idx /\ call'.left = r.left /\ call'.written = 0
        /\ call'.op = "truncate"
    BY <1>2, <1>3 DEF CallType
  <1> QED BY <1>1, <1>4, BeginResizeBytes DEF r

LEMMA WriteBeginsBytes ==
    ASSUME FilesInv, BytesInv, NEW f \in Files, NEW at \in Sizes, NEW end \in Sizes,
           NEW buf \in Buffers, refs_write(f, at, end, buf)
    PROVE  BytesInv'
  <1>1. /\ at \in Nat /\ end \in Nat /\ at < end /\ end - at \in Nat
        /\ pc = "idle" /\ was' = Contents(ino[f]) /\ NoneIsWide
        /\ UNCHANGED <<ino, d_ino, data_bitmap, blk, emptied>>
    BY FileBlocksAssumption DEF refs_write
  <1>2. ino[f].size \in Nat
    BY StateTypes, PlaceTypes DEF FilesInv
  <1>3. end - at > 0 /\ at + (end - at) = end
    BY <1>1
  <1>4. CASE Growing(f, end)
    <2> DEFINE r == Resize(f, end)
    <2>1. ino[f].size # end
      BY <1>1, <1>2, <1>4 DEF Growing
    <2>2. r \in CallType /\ r.file = f /\ r.size = end /\ ~r.filled /\ r.written = 0
      BY <1>1, <2>1, ResizeCall
    <2>3. /\ call' = [r EXCEPT !.op = "write", !.at = at, !.n = end - at, !.buf = buf,
                               !.idx = @]
          /\ pc' = ResizeStep(f, end)
      BY <1>4 DEF refs_write
    <2> HIDE DEF r
    <2>4. /\ call'.file = f /\ call'.size = end /\ ~call'.filled
          /\ call'.idx = r.idx /\ call'.left = r.left /\ call'.written = 0
          /\ call'.op = "write" /\ call'.at = at /\ call'.n = end - at
      BY <1>1, <2>2, <2>3 DEF CallType
    <2> QED BY <1>1, <1>3, <2>1, <2>3, <2>4, BeginResizeBytes DEF r
  <1>5. CASE ~Growing(f, end)
    <2> DEFINE first == at \div BlockSize
               n == end - at
    <2>0. IntBlock(at) = at \div BlockSize /\ ~Wide(ino[f].size)
      <3>1. ~Wide(ino[f].size) /\ at <= ino[f].size
        BY <1>1, <1>2, <1>5 DEF NoneIsWide, Growing
      <3> QED BY <1>1, <1>2, <3>1, IntBlocks
    <2>1. /\ call' = [[NoCall EXCEPT !.file = f]
                         EXCEPT !.op = "write", !.at = at, !.n = end - at, !.buf = buf,
                                !.idx = at \div BlockSize]
          /\ pc' = "write"
      BY <1>5, <2>0 DEF refs_write
    <2>2. /\ call'.file = f /\ call'.op = "write" /\ call'.at = at /\ call'.n = n
          /\ call'.idx = first /\ call'.written = 0
      BY <2>1 DEF NoCall
    <2>3. first \in Nat
      BY <1>1, Params, Division
    <2>4. /\ DiskInv' /\ NewBlockInv' /\ BytesAsBefore'
          /\ file' = f /\ OldSize' = ino[f].size
          /\ DOMAIN was' = 0 .. ino[f].size - 1
      BY <1>1, <2>1, <2>2, BeginCells DEF BytesInv
    <2>5. n > 0 /\ n \in Nat /\ at + n = end
      BY <1>1, <1>3
    <2>6. (call.at \div BlockSize)' = first
      BY <2>2
    <2> HIDE DEF first, n
    <2>7. end <= ino[f].size
      BY <1>1, <1>2, <1>5 DEF Growing
    <2>8. PlaceInv'
      <3>1. pc' \notin Resizing /\ pc' \notin Adding
        BY <2>1 DEF Resizing, Adding
      <3>2. ino'[f].size = IF at + n > OldSize' THEN at + n ELSE OldSize'
        BY <1>1, <1>2, <2>4, <2>5, <2>7
      <3>3. first >= first /\ at + 0 = at
        BY <1>1, <2>3
      <3> QED BY <1>2, <2>1, <2>2, <2>4, <2>5, <2>6, <3>1, <3>2, <3>3 DEF PlaceInv
    <2>9. BytesSoFar'
      <3>1. call'.at .. call'.at + call'.written - 1 = {}
        BY <1>1, <2>2
      <3> QED BY <3>1 DEF BytesSoFar
    <2>10. HolesAreEmpty'
      <3>1. NewSize' = ino[f].size
        BY <1>1, <2>1, <2>4 DEF NewSize
      <3>2. ASSUME NEW k \in 0 .. ino[f].size - 1, Hole(k)' PROVE FALSE
        <4>1. k > ino[f].size
          BY <2>4, <3>2 DEF Hole
        <4> QED BY <1>2, <4>1
      <3> QED BY <3>1, <3>2 DEF HolesAreEmpty
    <2> QED BY <2>4, <2>8, <2>9, <2>10 DEF BytesInv
  <1> QED BY <1>4, <1>5

LEMMA ReplyBytes ==
    ASSUME FilesInv, BytesInv, Reply
    PROVE  BytesInv'
  <1>1. pc' = "idle" /\ UNCHANGED <<ino, d_ino, blk>>
    BY DEF Reply
  <1>2. DiskInv'
    <2>1. \A i \in Files : d_ino'[i].size = ino'[i].size /\ d_ino'[i].blocks = ino'[i].blocks
                           /\ SamePointers(ino'[i], d_ino'[i])
      BY <1>1 DEF BytesInv, DiskInv
    <2> QED BY <2>1 DEF DiskInv, SamePointers
  <1> QED BY <1>1, <1>2 DEF BytesInv, NewBlockInv, PlaceInv, BytesAsBefore, BytesSoFar,
                            HolesAreEmpty, Resizing, Adding

LEMMA BytesBegin ==
    ASSUME Init
    PROVE  BytesInv
  <1>1. pc = "idle" /\ d_ino = ino
    BY DEF Init
  <1> QED BY <1>1 DEF BytesInv, DiskInv, SamePointers, NewBlockInv, PlaceInv, BytesAsBefore,
                      BytesSoFar, HolesAreEmpty, Resizing, Adding

LEMMA BytesStay ==
    ASSUME BytesInv, UNCHANGED vars
    PROVE  BytesInv'
  <1>1. UNCHANGED <<ino, d_ino, blk, pc, call, was, emptied>>
    BY DEF vars
  <1>2. /\ file' = file /\ next' = next /\ OldSize' = OldSize /\ SmallerSize' = SmallerSize
        /\ ZeroBlock' = ZeroBlock /\ NewSize' = NewSize /\ Nul' = Nul /\ Zero' = Zero
        /\ LooseFile' = LooseFile /\ \A k : InRange(k)' = InRange(k) /\ Hole(k)' = Hole(k)
        /\ \A k : CellAt(blk, ino[file], k)' = CellAt(blk, ino[file], k)
        /\ Growing(file, call.size)' = Growing(file, call.size)
    BY <1>1 DEF file, next, OldSize, SmallerSize, Growing, ZeroBlock, NewSize, LooseFile,
                InRange, Hole, Nul, Zero, CellAt, PtrAt
  <1>0. LastBlock' = LastBlock /\ Lost' = Lost
    BY <1>1 DEF LastBlock, LastOf, Growing, Lost, file
  <1>3. DiskInv' = DiskInv /\ NewBlockInv' = NewBlockInv /\ PlaceInv' = PlaceInv
    BY <1>0, <1>1, <1>2 DEF DiskInv, SamePointers, NewBlockInv, PlaceInv, PtrAt
  <1>4. BytesAsBefore'
    BY <1>0, <1>1, <1>2 DEF BytesInv, BytesAsBefore
  <1>5. BytesSoFar'
    BY <1>0, <1>1, <1>2 DEF BytesInv, BytesSoFar, Byte
  <1>6. HolesAreEmpty'
    BY <1>0, <1>1, <1>2 DEF BytesInv, HolesAreEmpty
  <1> QED BY <1>3, <1>4, <1>5, <1>6 DEF BytesInv
-----------------------------------------------------------------------------
FilesAndBytes == FilesInv /\ BytesInv

(***************************************************************************)
(* Every step keeps the bytes where they belong: those from before the     *)
(* call, those it has written, and the holes (refs.c:1046-1217), until the *)
(* call sets a wide size.                                                  *)
(***************************************************************************)
THEOREM BytesInvariant == Spec => []FilesAndBytes
  <1>1. Init => BytesInv
    BY BytesBegin
  <1>2. FilesInv /\ BytesInv /\ [Next]_vars => BytesInv'
    <2>1. SUFFICES ASSUME FilesInv, BytesInv, [Next]_vars PROVE BytesInv'
      OBVIOUS
    <2>2. ASSUME NEW i \in Files, NEW n \in Sizes, refs_truncate(i, n) PROVE BytesInv'
      BY <2>1, <2>2, TruncateBytes
    <2>3. ASSUME NEW i \in Files, NEW n \in Sizes, Refuse(i, n) PROVE BytesInv'
      BY <2>1, <2>3, BytesStay DEF Refuse
    <2>4. ASSUME NEW i \in Files, NEW n \in Sizes, NEW m \in Sizes, NEW b \in Buffers,
                 refs_write(i, m, n, b)
          PROVE  BytesInv'
      BY <2>1, <2>4, WriteBeginsBytes
    <2>5. CASE ReserveBlock
      BY <2>1, <2>5, ReserveBytes
    <2>6. CASE PointIndirect
      BY <2>1, <2>6, PointIndirectBytes
    <2>7. CASE PointToBlock
      BY <2>1, <2>7, PointToBlockBytes
    <2>8. CASE FillBlock
      BY <2>1, <2>8, FillBytes
    <2>9. CASE RemoveBlock
      BY <2>1, <2>9, RemoveBytes
    <2>10. CASE SetSize
      BY <2>1, <2>10, SetSizeBytes
    <2>11. CASE WriteBlock
      BY <2>1, <2>11, WriteBytes
    <2>12. CASE Reply
      BY <2>1, <2>12, ReplyBytes
    <2>13. CASE UNCHANGED vars
      BY <2>1, <2>13, BytesStay
    <2> QED BY <2>1, <2>2, <2>3, <2>4, <2>5, <2>6, <2>7, <2>8, <2>9, <2>10, <2>11, <2>12, <2>13
            DEF Next
  <1> QED BY <1>1, <1>2, FilesInvariant, PTL DEF Spec, FilesAndBytes

(***************************************************************************)
(* Of two inodes that lead to the same blocks, the bytes are the same.     *)
(***************************************************************************)
LEMMA SameBytes ==
    ASSUME NEW b, NEW i, NEW j, SamePointers(i, j), NEW k, Backed(i, k)
    PROVE  CellAt(b, j, k) = CellAt(b, i, k)
  <1> DEFINE n == k \div BlockSize
  <1>1. n \in Count(i)
    BY DEF Backed
  <1> HIDE DEF n
  <1>2. PtrAt(b, j, n) = PtrAt(b, i, n)
    BY <1>1 DEF PtrAt, SamePointers
  <1> QED BY <1>2 DEF CellAt, n

(***************************************************************************)
(* Every byte that the call is not to write or cut is in a block of its    *)
(* file, unless the size of that file is wide.                             *)
(***************************************************************************)
BytesBacked ==
    pc # "idle" =>
        \A i \in Files : \A k \in Nat :
            /\ ~Wide(ino[i].size) /\ k < ino[i].size /\ ~(i = file /\ InRange(k))
            => Backed(ino[i], k)

LEMMA BackedNow ==
    ASSUME FilesInv, BytesInv
    PROVE  BytesBacked
  <1>1. ASSUME pc # "idle", NEW i \in Files, NEW k \in Nat,
               ~Wide(ino[i].size), k < ino[i].size, ~(i = file /\ InRange(k))
        PROVE  Backed(ino[i], k)
    <2>1. PlaceInv
      BY DEF BytesInv
    <2>2. CASE i # file \/ pc \in {"write", "reply"}
      BY <1>1, <2>1, <2>2, BytesAreBacked
    <2>3. CASE i = file /\ pc \notin {"write", "reply"}
      <3>1. pc \in Resizing
        BY <1>1, <2>3 DEF FilesInv, FilesTypeOK, Steppers, Resizing, Adding
      <3>2. ino[file].size = OldSize /\ OldSize \in Nat
        BY <2>1, <2>3, <3>1, <1>1 DEF PlaceInv
      <3>3. k \in 0 .. OldSize - 1 /\ ~Lost
        BY <1>1, <2>3, <3>2 DEF Lost
      <3> QED BY <1>1, <2>1, <2>3, <3>3, KeptIsBacked
    <2> QED BY <2>2, <2>3
  <1> QED BY <1>1 DEF BytesBacked

LEMMA StepKeepsCall ==
    ASSUME FilesInv,
           \/ ReserveBlock \/ PointIndirect \/ PointToBlock \/ FillBlock
           \/ RemoveBlock \/ SetSize \/ WriteBlock
    PROVE  /\ pc # "idle" /\ pc' # "idle" /\ was' = was
           /\ call'.file = call.file /\ call'.op = call.op /\ call'.size = call.size
           /\ call'.at = call.at /\ call'.n = call.n /\ call'.buf = call.buf
           /\ file' = file /\ \A k : InRange(k)' = InRange(k)
  <1>1. pc # "idle" /\ pc' # "idle" /\ was' = was
    BY DEF ReserveBlock, PointIndirect, PointToBlock, FillBlock, RemoveBlock, SetSize,
           WriteBlock, Loop
  <1>2. call \in CallType
    BY DEF FilesInv, CallInv
  <1>3. /\ call'.file = call.file /\ call'.op = call.op /\ call'.size = call.size
        /\ call'.at = call.at /\ call'.n = call.n /\ call'.buf = call.buf
    <2>1. CASE ReserveBlock
      BY <1>2, <2>1 DEF ReserveBlock, CallType
    <2>2. CASE PointIndirect
      BY <2>2 DEF PointIndirect
    <2>3. CASE PointToBlock
      BY <1>2, <2>3 DEF PointToBlock, CallType
    <2>4. CASE FillBlock
      BY <1>2, <2>4 DEF FillBlock, CallType
    <2>5. CASE RemoveBlock
      BY <1>2, <2>5 DEF RemoveBlock, CallType
    <2>6. CASE SetSize
      BY <1>2, <2>6 DEF SetSize, CallType
    <2>7. CASE WriteBlock
      <3>1. \E w : call' = [call EXCEPT !.idx = @ + 1, !.written = w]
        BY <2>7 DEF WriteBlock
      <3> QED BY <1>2, <3>1 DEF CallType
    <2> QED BY <2>1, <2>2, <2>3, <2>4, <2>5, <2>6, <2>7
  <1> QED BY <1>1, <1>3 DEF file, InRange

(***************************************************************************)
(* What a step leaves alone: the bytes that no call is to write or cut.    *)
(***************************************************************************)
LEMMA OthersStay ==
    ASSUME FilesInv, BytesInv, BytesBacked,
           \/ ReserveBlock \/ PointIndirect \/ PointToBlock \/ FillBlock
           \/ RemoveBlock \/ SetSize \/ WriteBlock,
           NEW i \in Files, ~Wide(ino[i].size),
           NEW k \in Nat, k < ino[i].size, ~(i = file /\ InRange(k))
    PROVE  /\ Backed(ino[i], k)
           /\ CellAt(blk', ino'[i], k) = CellAt(blk, ino[i], k)
  <1>1. PlaceInv /\ pc # "idle"
    BY StepKeepsCall DEF BytesInv
  <1>2. Backed(ino[i], k)
    BY <1>1 DEF BytesBacked
  <1>3. CASE CellsStay
    BY <1>2, <1>3 DEF CellsStay
  <1>4. CASE FillBlock
    BY <1>1, <1>2, <1>4, FillKeeps
  <1>5. CASE WriteBlock /\ ~Lost
    <2>1. /\ call.at \in Nat /\ call.n \in Nat
          /\ call.written \in Nat /\ call'.written \in Nat /\ call'.written <= call.n
          /\ CellAt(blk', ino'[i], k) =
                 IF /\ i = file
                    /\ k \in call.at + call.written .. call.at + call'.written - 1
                 THEN Byte(k, call.buf) ELSE CellAt(blk, ino[i], k)
      BY <1>1, <1>2, <1>5, WriteCells
    <2>2. call.op = "write"
      BY <1>5 DEF WriteBlock, FilesInv, CallInv
    <2>3. k \in call.at + call.written .. call.at + call'.written - 1 => InRange(k)
      BY <2>1, <2>2 DEF InRange
    <2> QED BY <1>2, <2>1, <2>3
  <1>6. ReserveBlock \/ PointIndirect \/ PointToBlock \/ RemoveBlock \/ SetSize => CellsStay
    BY ReserveCells, PointIndirectCells, PointToBlockCells, RemoveAndSizeCells
  <1>7. CASE WriteBlock /\ Lost
    <2>1. i # file /\ pc = "write" /\ ino' = ino
      BY <1>7 DEF Lost, WriteBlock
    <2>2. \E x : file_write_block(file, call.idx, x)
      BY <1>7 DEF WriteBlock
    <2>3. call.idx \in Nat /\ call.idx < ino[file].blocks
      <3>1. /\ call.idx \in Nat /\ ino[file].blocks \in Nat
            /\ call.at \in Nat /\ call.n \in Nat
        BY <2>1, StepFacts DEF CallType, InodeType
      <3>2. IntBlock(call.at + call.n) \in Int
        BY <3>1, IntBlocks
      <3>3. /\ call.idx <= IntBlock(call.at + call.n)
            /\ IntBlock(call.at + call.n) < ino[file].blocks
        BY <2>1 DEF FilesInv, CallInv
      <3> QED BY <3>1, <3>2, <3>3
    <2> QED BY <1>1, <1>2, <2>1, <2>2, <2>3, BytesStored
  <1> QED BY <1>2, <1>3, <1>4, <1>5, <1>6, <1>7

(***************************************************************************)
(* Only the step that sets a size changes it, and that one keeps the       *)
(* blocks.                                                                 *)
(***************************************************************************)
LEMMA SizeChanges ==
    ASSUME FilesInv,
           \/ ReserveBlock \/ PointIndirect \/ PointToBlock \/ FillBlock
           \/ RemoveBlock \/ SetSize \/ WriteBlock,
           NEW i \in Files
    PROVE  \/ ino'[i].size = ino[i].size
           \/ SetSize /\ i = file /\ ino'[i].blocks = ino[i].blocks
  <1>1. ino \in Inodes
    BY StateTypes DEF FilesInv
  <1>2. CASE PointIndirect
    <2>1. ino' = [ino EXCEPT ![file].ptrs[index(next)] = Lba(next_block)] \/ ino' = ino
      BY <1>2 DEF PointIndirect
    <2> QED BY <1>1, <2>1 DEF Inodes, InodeType
  <1>3. CASE ReserveBlock \/ FillBlock \/ WriteBlock
    BY <1>1, <1>3 DEF ReserveBlock, FillBlock, WriteBlock
  <1>4. CASE PointToBlock
    BY <1>1, <1>4, BlockCounted
  <1>5. CASE RemoveBlock
    BY <1>1, <1>5, BlockDropped
  <1>6. CASE SetSize
    BY <1>1, <1>6, SizeIsSet
  <1> QED BY <1>2, <1>3, <1>4, <1>5, <1>6

(***************************************************************************)
(* A crash between two disk writes leaves the other files as they were,    *)
(* and of its own file what is not to be written or cut, unless its size   *)
(* is wide (refs.c:1093-1131, 1181-1214).                                  *)
(***************************************************************************)
THEOREM TornCallsAreLocal == Spec => TornCallsStayLocal
  <1> DEFINE All == FilesInv /\ BytesInv /\ BytesBacked
             Kept(i) == ~Wide(d_ino[i].size) =>
                            \A k \in DOMAIN Contents(d_ino[i]) : k < d_ino'[i].size =>
                                Contents(d_ino[i])'[k] = Contents(d_ino[i])[k]
                                    \/ (i = call.file /\ InRange(k))
  <1>1. FilesAndBytes => BytesBacked
    BY BackedNow DEF FilesAndBytes
  <1>2. All /\ All' /\ [Next]_vars => \A i \in Files : Kept(i)
    <2>1. SUFFICES ASSUME All, All', [Next]_vars, NEW i \in Files, ~Wide(d_ino[i].size),
                          NEW k \in DOMAIN Contents(d_ino[i]), k < d_ino'[i].size,
                          ~(i = call.file /\ InRange(k))
                   PROVE  Contents(d_ino[i])'[k] = Contents(d_ino[i])[k]
      OBVIOUS
    <2>2. FilesInv /\ BytesInv /\ BytesBacked /\ FilesInv' /\ BytesInv' /\ BytesBacked'
      BY <2>1
    <2> HIDE DEF All
    <2>3. CASE UNCHANGED <<blk, d_ino>>
      <3>1. Contents(d_ino[i])' = Contents(d_ino[i])
        BY <2>3 DEF Contents, BlockPtr
      <3> QED BY <3>1
    <2>4. CASE \/ ReserveBlock \/ PointIndirect \/ PointToBlock \/ FillBlock
               \/ RemoveBlock \/ SetSize \/ WriteBlock
      <3>0. k \in 0 .. d_ino[i].size - 1
        BY <2>1, BytesAreCells
      <3>2. /\ d_ino[i].size = ino[i].size /\ SamePointers(ino[i], d_ino[i])
            /\ d_ino'[i].size = ino'[i].size /\ SamePointers(ino'[i], d_ino'[i])
        BY <2>2 DEF BytesInv, DiskInv, SamePointers
      <3>3. ino[i].size \in Nat /\ ino'[i].size \in Nat
        BY <2>2 DEF FilesInv, FilesTypeOK, InodeType
      <3>4. k \in Nat /\ k < ino[i].size /\ k < ino'[i].size /\ ~Wide(ino[i].size)
        BY <2>1, <3>0, <3>2, <3>3
      <3>1. /\ Contents(d_ino[i])[k] = CellAt(blk, d_ino[i], k)
            /\ Contents(d_ino[i])'[k] = CellAt(blk', d_ino'[i], k)
        <4>1. k \in 0 .. d_ino'[i].size - 1
          BY <3>2, <3>3, <3>4
        <4> QED BY <3>0, <4>1, BytesAreCells
      <3>5. pc' # "idle" /\ file' = file /\ InRange(k)' = InRange(k) /\ file = call.file
        BY <2>2, <2>4, StepKeepsCall DEF file
      <3>6. Backed(ino[i], k) /\ CellAt(blk', ino'[i], k) = CellAt(blk, ino[i], k)
        BY <2>1, <2>2, <2>4, <3>4, <3>5, OthersStay
      <3>7. Backed(ino'[i], k)
        <4>1. CASE ~Wide(ino'[i].size)
          <5>1. Wide(ino[i].size)' = Wide(ino'[i].size)
            BY DEF Wide
          <5>2. Backed(ino[i], k)'
            BY <2>1, <2>2, <3>4, <3>5, <4>1, <5>1 DEF BytesBacked
          <5> QED BY <5>2 DEF Backed, Count
        <4>2. CASE Wide(ino'[i].size)
          <5>1. ino'[i].blocks = ino[i].blocks
            BY <2>2, <2>4, <3>4, <4>2, SizeChanges
          <5> QED BY <3>6, <5>1 DEF Backed, Count
        <4> QED BY <4>1, <4>2
      <3>8. /\ CellAt(blk, d_ino[i], k) = CellAt(blk, ino[i], k)
            /\ CellAt(blk', d_ino'[i], k) = CellAt(blk', ino'[i], k)
        BY <3>2, <3>6, <3>7, SameBytes
      <3> QED BY <3>1, <3>6, <3>8
    <2>5. ASSUME NEW f \in Files, NEW n \in Sizes,
                 \/ refs_truncate(f, n) \/ Refuse(f, n)
                 \/ \E m \in Sizes, b \in Buffers : refs_write(f, m, n, b)
          PROVE  UNCHANGED <<blk, d_ino>>
      BY <2>5 DEF refs_truncate, Refuse, refs_write, vars
    <2>6. CASE Reply
      BY <2>3, <2>6 DEF Reply
    <2>7. CASE UNCHANGED vars
      BY <2>3, <2>7 DEF vars
    <2> QED BY <2>1, <2>3, <2>4, <2>5, <2>6, <2>7 DEF Next
  <1>3. All /\ All' /\ [Next]_vars => [\A i \in Files : Kept(i)]_vars
    BY <1>2
  <1>4. FilesAndBytes => All
    BY <1>1 DEF FilesAndBytes
  <1> QED BY <1>3, <1>4, BytesInvariant, PTL DEF Spec, TornCallsStayLocal
-----------------------------------------------------------------------------
(***************************************************************************)
(* The file of bytes.  What the calls that follow see, and what makes the  *)
(* steps of FileBlocks steps of ByteFile.                                  *)
(***************************************************************************)
SizeSeen(i) == Cardinality(DOMAIN Seen(i))

LEMMA SeenStays ==
    ASSUME \A i \in Files : Seen(i)' = Seen(i), emptied' = emptied
    PROVE  UNCHANGED BF!bfvars
  <1>1. [i \in Files |-> Cardinality(DOMAIN Seen(i))]'
            = [i \in Files |-> Cardinality(DOMAIN Seen(i))]
    OBVIOUS
  <1>2. [i \in Files |-> Seen(i)]' = [i \in Files |-> Seen(i)]
    OBVIOUS
  <1> QED BY <1>1, <1>2 DEF BF!bfvars

LEMMA KeepsMaps ==
    ASSUME NEW f \in Files, NEW n \in Nat, NEW w,
           DOMAIN Seen(f)' = 0 .. n - 1,
           ~Wide(n) => \A k \in 0 .. n - 1 :
               IF k \in DOMAIN w THEN Seen(f)'[k] = w[k]
               ELSE IF k < SizeSeen(f) THEN Seen(f)'[k] = Seen(f)[k]
               ELSE \/ k = SizeSeen(f) \/ emptied[f] > (IF SizeSeen(f) = 0 THEN 1 ELSE 0)
                    \/ Seen(f)'[k] \in {Nul, Zero},
           \A h \in Files : h # f => Seen(h)' = Seen(h)
    PROVE  BF!Becomes(f, n, w)
  <1>1. SizeSeen(f)' = n
    <2>1. 0 + n - 1 = n - 1
      OBVIOUS
    <2>2. Cardinality(0 .. 0 + n - 1) = n
      BY IntervalSize
    <2> QED BY <2>1, <2>2 DEF SizeSeen
  <1>2. [i \in Files |-> SizeSeen(i)]' = [[i \in Files |-> SizeSeen(i)] EXCEPT ![f] = n]
    BY <1>1 DEF SizeSeen
  <1> QED BY <1>2 DEF BF!Becomes, BF!Loose, SizeSeen, Addressable

(***************************************************************************)
(* A step of one call leaves all other files as they are.                  *)
(***************************************************************************)
LEMMA OtherFilesStay ==
    ASSUME FilesInv, BytesInv, BytesBacked,
           \/ ReserveBlock \/ PointIndirect \/ PointToBlock \/ FillBlock
           \/ RemoveBlock \/ SetSize \/ WriteBlock,
           NEW i \in Files, i # file
    PROVE  Seen(i)' = Seen(i)
  <1>1. ino'[i].size = ino[i].size /\ ino[i].size \in Nat
    <2>1. ino[i].size \in Nat
      BY StateTypes, PlaceTypes DEF FilesInv
    <2> QED BY <2>1, SizeChanges
  <1>5. ~Wide(ino[i].size)
    BY StepKeepsCall DEF FilesInv, NarrowInv
  <1>2. ASSUME NEW k \in 0 .. ino[i].size - 1
        PROVE  CellAt(blk', ino'[i], k) = CellAt(blk, ino[i], k)
    <2>1. k \in Nat /\ k < ino[i].size
      BY <1>1
    <2> QED BY <1>5, <2>1, OthersStay
  <1>3. Contents(ino[i])' = Contents(ino[i])
    BY <1>1, <1>2, BytesAreCells
  <1>4. call'.file = call.file /\ file = call.file
    BY StepKeepsCall DEF file
  <1>6. ~Busy(i) /\ ~Busy(i)'
    BY <1>4 DEF Busy
  <1>7. Wide(ino[i].size)' = Wide(ino[i].size)
    BY <1>1 DEF Wide
  <1> QED BY <1>3, <1>5, <1>6, <1>7 DEF Seen

(***************************************************************************)
(* The last step of a call: what its file holds then.                      *)
(***************************************************************************)
LEMMA LastStep ==
    ASSUME FilesInv, BytesInv, BytesBacked, SetSize \/ WriteBlock, pc' = "reply",
           NEW f \in Files, f = file
    PROVE  /\ file \in Files /\ NewSize \in Nat /\ OldSize \in Nat
           /\ ino'[file].size = NewSize
           /\ Seen(f) = was /\ SizeSeen(f) = OldSize
           /\ DOMAIN Seen(f)' = 0 .. NewSize - 1
           /\ ~Wide(NewSize) =>
                 Seen(f)' = [k \in 0 .. NewSize - 1 |-> CellAt(blk', ino'[file], k)]
           /\ ~Wide(NewSize) => \A k \in 0 .. NewSize - 1 :
                 /\ k < OldSize /\ ~InRange(k) => Seen(f)'[k] = Seen(f)[k]
                 /\ k > OldSize /\ ~LooseFile /\ (InRange(k) => call.op = "truncate") =>
                       Seen(f)'[k] \in {Nul, Zero}
  <1>1. /\ pc \in {"set_size", "write"} /\ (pc = "set_size" <=> SetSize)
        /\ pc \notin {"idle", "reply"}
    BY DEF SetSize, WriteBlock
  <1>2. /\ file \in Files /\ call.size \in Nat /\ ino[file].size \in Nat
        /\ ino[file].blocks \in Nat /\ ino \in Inodes
        /\ call.file = file /\ call'.file = file /\ file' = file
    BY <1>1, StepFacts, StepKeepsCall, StateTypes DEF FilesInv, InodeType, file
  <1>3. PlaceInv /\ BytesAsBefore /\ HolesAreEmpty /\ OldSize \in Nat
        /\ DOMAIN was = 0 .. OldSize - 1
    BY <1>1 DEF BytesInv, PlaceInv
  <1>4. NewSize \in Nat /\ ino'[file].size = NewSize
    <2>1. CASE SetSize
      BY <1>1, <1>2, <2>1, SizeIsSet DEF NewSize
    <2>2. CASE WriteBlock
      BY <1>2, <2>2 DEF NewSize, WriteBlock
    <2> QED BY <2>1, <2>2
  <1>5. Seen(f) = was /\ SizeSeen(f) = OldSize
    BY <1>1, <1>2 DEF Seen, Busy, SizeSeen, OldSize
  <1>6. /\ DOMAIN Seen(f)' = 0 .. NewSize - 1
        /\ ~Wide(NewSize) =>
              Seen(f)' = [k \in 0 .. NewSize - 1 |-> CellAt(blk', ino'[file], k)]
    <2>1. Seen(f)' = IF Wide(ino[f].size)' THEN [k \in 0 .. ino'[f].size - 1 |-> Nul]
                     ELSE Contents(ino[f])'
      <3>1. ~Busy(f)'
        BY DEF Busy
      <3> QED BY <3>1 DEF Seen, Nul
    <2>2. Contents(ino[f])' = [k \in 0 .. ino'[file].size - 1 |-> CellAt(blk', ino'[file], k)]
      BY <1>2 DEF Contents, CellAt, BlockPtr, PtrAt
    <2>3. Wide(ino[f].size)' = Wide(NewSize)
      BY <1>4 DEF Wide
    <2> QED BY <1>4, <2>1, <2>2, <2>3
  <1>8. ~Wide(NewSize) => /\ ~Wide(ino[file].size) /\ ~Lost
                          /\ (pc = "set_size" => ~Wide(call.size))
    <2>1. CASE pc = "write"
      BY <2>1 DEF NewSize, Lost
    <2>2. CASE pc = "set_size"
      BY <1>2, <2>2, NoneIsWideYet DEF NewSize, Lost, Resizing
    <2> QED BY <1>1, <2>1, <2>2
  <1>7. ASSUME ~Wide(NewSize), NEW k \in 0 .. NewSize - 1
        PROVE  /\ k < OldSize /\ ~InRange(k) => Seen(f)'[k] = Seen(f)[k]
               /\ k > OldSize /\ ~LooseFile /\ (InRange(k) => call.op = "truncate") =>
                     Seen(f)'[k] \in {Nul, Zero}
    <2>1. k \in Nat /\ k < NewSize /\ Seen(f)'[k] = CellAt(blk', ino'[file], k)
      BY <1>4, <1>6, <1>7
    <2>0. ~Wide(ino[file].size) /\ ~Lost /\ (pc = "set_size" => ~Wide(call.size))
      BY <1>7, <1>8
    <2>2. ASSUME k < OldSize, ~InRange(k) PROVE Seen(f)'[k] = Seen(f)[k]
      <3>1. k \in 0 .. OldSize - 1
        BY <1>3, <2>1, <2>2
      <3>2. CellAt(blk, ino[file], k) = was[k]
        BY <1>1, <1>3, <2>0, <2>2, <3>1 DEF BytesAsBefore
      <3>3. k < ino[file].size
        <4>1. CASE pc = "write"
          BY <2>1, <4>1 DEF NewSize
        <4>2. CASE pc = "set_size"
          BY <1>3, <2>2, <4>2 DEF PlaceInv, Resizing
        <4> QED BY <1>1, <4>1, <4>2
      <3>4. CellAt(blk', ino'[file], k) = CellAt(blk, ino[file], k)
        BY <1>2, <2>0, <2>1, <2>2, <3>3, OthersStay
      <3> QED BY <1>5, <2>1, <3>2, <3>4
    <2>3. ASSUME k > OldSize, ~LooseFile, InRange(k) => call.op = "truncate"
          PROVE  Seen(f)'[k] \in {Nul, Zero}
      <3>1. Backed(ino[file], k)
        <4>1. CASE pc = "write"
          BY <1>2, <1>3, <2>0, <2>1, <4>1, BytesAreBacked DEF NewSize
        <4>2. CASE pc = "set_size"
          <5>1. k < call.size
            BY <2>1, <4>2 DEF NewSize
          <5> QED BY <1>2, <1>3, <2>0, <2>1, <4>2, <5>1, BytesAreBacked
        <4> QED BY <1>1, <4>1, <4>2
      <3>2. k \div BlockSize < ino[file].blocks
        <4>1. k \div BlockSize \in Nat
          BY <2>1, CellPlace
        <4> QED BY <1>2, <3>1, <4>1, PlaceTypes DEF Backed
      <3>3. Hole(k)
        <4>1. CASE pc = "set_size"
          BY <1>3, <2>3, <3>2, <4>1 DEF Hole, PlaceInv
        <4>2. CASE pc = "write"
          <5>1. call.op = "write"
            BY <4>2 DEF FilesInv, CallInv
          <5> QED BY <2>3, <3>2, <4>2, <5>1 DEF Hole
        <4> QED BY <1>1, <4>1, <4>2
      <3>4. CellAt(blk, ino[file], k) \in {Nul, Zero}
        BY <1>1, <1>3, <2>0, <2>1, <2>3, <3>3 DEF HolesAreEmpty
      <3>5. CellAt(blk', ino'[file], k) = CellAt(blk, ino[file], k)
        <4>1. CASE SetSize
          BY <1>2, <2>1, <3>1, <4>1, RemoveAndSizeCells DEF CellsStay
        <4>2. CASE WriteBlock
          <5>1. pc = "write" /\ call.op = "write"
            BY <4>2 DEF WriteBlock, FilesInv, CallInv
          <5>2. ~InRange(k) /\ k < ino[file].size
            BY <2>1, <2>3, <5>1 DEF NewSize
          <5> QED BY <1>2, <2>0, <2>1, <4>2, <5>2, OthersStay
        <4> QED BY <4>1, <4>2
      <3> QED BY <2>1, <3>4, <3>5
    <2> QED BY <2>2, <2>3
  <1> QED BY <1>2, <1>3, <1>4, <1>5, <1>6, <1>7

LEMMA TruncateMaps ==
    ASSUME FilesInv, BytesInv, BytesBacked, SetSize, call.op # "write"
    PROVE  BF!Next
  <1>1. /\ pc = "set_size" /\ pc' = "reply"
        /\ emptied' = [emptied EXCEPT ![file] = IF call.size = 0 THEN @ + 1 ELSE @]
    BY DEF SetSize
  <1>2. call.op = "truncate" /\ call.size \in Nat
    BY <1>1 DEF FilesInv, CallInv, CallType
  <1>3. call.size \in Sizes /\ call.size # OldSize /\ NewSize = call.size
    BY <1>1, <1>2 DEF BytesInv, PlaceInv, Resizing, NewSize
  <1>4. file \in Files
    BY <1>1, StepFacts
  <1>5. PICK f \in Files : f = file
    BY <1>4
  <1>6. /\ OldSize \in Nat /\ SizeSeen(f) = OldSize
        /\ DOMAIN Seen(f)' = 0 .. call.size - 1
        /\ ~Wide(call.size) => \A k \in 0 .. call.size - 1 :
              /\ k < OldSize /\ ~InRange(k) => Seen(f)'[k] = Seen(f)[k]
              /\ k > OldSize /\ ~LooseFile => Seen(f)'[k] \in {Nul, Zero}
    BY <1>1, <1>2, <1>3, <1>5, LastStep
  <1>7. ~Wide(call.size) => \A k \in 0 .. call.size - 1 :
            IF k < SizeSeen(f) THEN Seen(f)'[k] = Seen(f)[k]
            ELSE \/ k = SizeSeen(f)
                 \/ emptied[f] > (IF SizeSeen(f) = 0 THEN 1 ELSE 0)
                 \/ Seen(f)'[k] \in {Nul, Zero}
    <2>1. \A k \in 0 .. call.size - 1 : ~InRange(k)
      BY <1>2 DEF InRange
    <2>2. \A k \in 0 .. call.size - 1 : k < OldSize \/ k = OldSize \/ k > OldSize
      BY <1>2, <1>6
    <2> QED BY <1>6, <1>5, <2>1, <2>2 DEF LooseFile
  <1>8. \A h \in Files : h # f => Seen(h)' = Seen(h)
    BY <1>5, OtherFilesStay
  <1>9. BF!Becomes(f, call.size, [k \in {} |-> k])
    <2> DEFINE w == [k \in {} |-> k]
    <2>1. DOMAIN w = {}
      OBVIOUS
    <2> HIDE DEF w
    <2>2. ~Wide(call.size) => \A k \in 0 .. call.size - 1 :
               IF k \in DOMAIN w THEN Seen(f)'[k] = w[k]
               ELSE IF k < SizeSeen(f) THEN Seen(f)'[k] = Seen(f)[k]
               ELSE \/ k = SizeSeen(f) \/ emptied[f] > (IF SizeSeen(f) = 0 THEN 1 ELSE 0)
                    \/ Seen(f)'[k] \in {Nul, Zero}
      BY <1>7, <2>1
    <2>3. BF!Becomes(f, call.size, w)
      BY <1>2, <1>6, <1>8, <2>2, KeepsMaps
    <2> QED BY <2>3 DEF w
  <1>10. BF!Truncate(f, call.size)
    BY <1>1, <1>3, <1>6, <1>9, <1>5 DEF BF!Truncate, SizeSeen
  <1> QED BY <1>3, <1>6, <1>10 DEF BF!Next

LEMMA WriteMaps ==
    ASSUME FilesInv, BytesInv, BytesBacked, WriteBlock, pc' = "reply"
    PROVE  BF!Next
  <1> DEFINE end == call.at + call.n
             W == call.at .. end - 1
             w == [k \in W |-> Byte(k, call.buf)]
  <1>1. /\ pc = "write" /\ call.op = "write" /\ call.buf \in Buffers
        /\ UNCHANGED <<ino, emptied>>
    BY DEF WriteBlock, FilesInv, CallInv
  <1>2. /\ PlaceInv /\ BytesSoFar /\ call.n > 0 /\ call.at \in Sizes /\ end \in Sizes
        /\ NewSize = ino[file].size
        /\ ino[file].size = IF end > OldSize THEN end ELSE OldSize
    BY <1>1 DEF BytesInv, PlaceInv, NewSize
  <1>3. file \in Files
    BY <1>1, StepFacts
  <1>4. PICK f \in Files : f = file
    BY <1>3
  <1>5. /\ OldSize \in Nat /\ NewSize \in Nat
        /\ SizeSeen(f) = OldSize /\ DOMAIN Seen(f)' = 0 .. NewSize - 1
        /\ ~Wide(NewSize) =>
              Seen(f)' = [k \in 0 .. NewSize - 1 |-> CellAt(blk', ino'[file], k)]
        /\ ~Wide(NewSize) => \A k \in 0 .. NewSize - 1 :
              /\ k < OldSize /\ ~InRange(k) => Seen(f)'[k] = Seen(f)[k]
              /\ k > OldSize /\ ~LooseFile /\ ~InRange(k) => Seen(f)'[k] \in {Nul, Zero}
    BY <1>1, <1>4, LastStep
  <1>6. /\ call.at \in Nat /\ call.n \in Nat
        /\ ~Wide(NewSize) => ~Lost /\ call'.written = call.n
    <2>1. call.at \in Nat /\ call.n \in Nat
      BY DEF FilesInv, CallInv, CallType
    <2>2. ~Wide(NewSize) => ~Lost
      BY <1>2 DEF Lost
    <2> QED BY <1>1, <1>2, <2>1, <2>2, WriteCells
  <1>7. end \in Nat /\ call.at < end /\ end <= NewSize
    BY <1>2, <1>5, <1>6
  <1>8. ASSUME NEW k PROVE InRange(k) <=> k \in W
    <2>1. call.op = "write"
      BY <1>1
    <2>2. InRange(k) <=> k \in call.at .. call.at + call.n - 1
      BY <2>1 DEF InRange
    <2> QED BY <1>6, <2>2
  <1>9. ~Wide(NewSize) => \A k \in W : CellAt(blk', ino'[file], k) = Byte(k, call.buf)
    BY <1>2, <1>6, WrittenSoFar
  <1> HIDE DEF end
  <1>10. ~Wide(NewSize) => \A k \in W : Seen(f)'[k] = Byte(k, call.buf)
    <2>1. \A k \in W : k \in 0 .. NewSize - 1
      BY <1>5, <1>6, <1>7
    <2> QED BY <1>5, <1>9, <2>1
  <1>11. ~Wide(NewSize) => \A k \in (0 .. NewSize - 1) \ W :
            IF k < SizeSeen(f) THEN Seen(f)'[k] = Seen(f)[k]
            ELSE \/ k = SizeSeen(f)
                 \/ emptied[f] > (IF SizeSeen(f) = 0 THEN 1 ELSE 0)
                 \/ Seen(f)'[k] \in {Nul, Zero}
    <2>1. \A k \in 0 .. NewSize - 1 : k < OldSize \/ k = OldSize \/ k > OldSize
      BY <1>5
    <2> HIDE DEF W
    <2> QED BY <1>5, <1>8, <1>4, <2>1 DEF LooseFile
  <1>12. \A h \in Files : h # f => Seen(h)' = Seen(h)
    BY <1>4, OtherFilesStay
  <1> HIDE DEF W
  <1>13. BF!Becomes(f, NewSize, w)
    <2>1. DOMAIN w = W /\ \A k \in W : w[k] = Byte(k, call.buf)
      OBVIOUS
    <2> HIDE DEF w
    <2>2. ~Wide(NewSize) => \A k \in 0 .. NewSize - 1 :
               IF k \in DOMAIN w THEN Seen(f)'[k] = w[k]
               ELSE IF k < SizeSeen(f) THEN Seen(f)'[k] = Seen(f)[k]
               ELSE \/ k = SizeSeen(f) \/ emptied[f] > (IF SizeSeen(f) = 0 THEN 1 ELSE 0)
                    \/ Seen(f)'[k] \in {Nul, Zero}
      BY <1>10, <1>11, <2>1
    <2> QED BY <1>5, <1>12, <2>2, KeepsMaps
  <1>14. BF!Write(f, call.at, end, call.buf)
    <2>1. NewSize = IF end > SizeSeen(f) THEN end ELSE SizeSeen(f)
      BY <1>2, <1>5 DEF end
    <2> QED BY <1>1, <1>5, <1>7, <1>13, <1>4, <2>1 DEF BF!Write, SizeSeen, W
  <1> QED BY <1>1, <1>2, <1>5, <1>14 DEF BF!Next

(***************************************************************************)
(* The steps before the last one change nothing that the calls after this  *)
(* one can see.                                                            *)
(***************************************************************************)
LEMMA BeginsUnseen ==
    ASSUME FilesInv, pc = "idle", NoneIsWide,
           NEW f \in Files, call'.file = f, was' = Contents(ino[f]),
           UNCHANGED <<ino, blk, emptied>>
    PROVE  UNCHANGED BF!bfvars
  <1>1. ASSUME NEW i \in Files PROVE Seen(i)' = Seen(i)
    <2>1. Seen(i) = Contents(ino[i]) /\ ~Wide(ino[i].size)
      BY DEF Seen, Busy, NoneIsWide
    <2>5. Wide(ino[i].size)' = Wide(ino[i].size)
      BY DEF Wide
    <2>2. Contents(ino[i])' = Contents(ino[i])
      BY DEF Contents, BlockPtr
    <2>3. Busy(i)' => i = f
      BY DEF Busy
    <2>4. Seen(i)' = IF Busy(i)' THEN was' ELSE Contents(ino[i])'
      BY <2>1, <2>5 DEF Seen
    <2> QED BY <2>1, <2>2, <2>3, <2>4
  <1> QED BY <1>1, SeenStays

LEMMA GoesOnUnseen ==
    ASSUME FilesInv, BytesInv, BytesBacked,
           \/ ReserveBlock \/ PointIndirect \/ PointToBlock \/ FillBlock
           \/ RemoveBlock \/ SetSize \/ WriteBlock,
           pc' # "reply"
    PROVE  UNCHANGED BF!bfvars
  <1>1. /\ pc \notin {"idle", "reply"} /\ pc' \notin {"idle", "reply"}
        /\ was' = was /\ call'.file = call.file /\ file = call.file
    <2>1. pc # "reply"
      BY DEF ReserveBlock, PointIndirect, PointToBlock, FillBlock, RemoveBlock, SetSize,
             WriteBlock
    <2> QED BY <2>1, StepKeepsCall DEF file
  <1>2. ASSUME NEW i \in Files PROVE Seen(i)' = Seen(i)
    <2>1. CASE i # file
      BY <2>1, OtherFilesStay
    <2>2. CASE i = file
      <3>1. Busy(i) /\ Busy(i)'
        BY <1>1, <2>2 DEF Busy
      <3> QED BY <1>1, <3>1 DEF Seen
    <2> QED BY <2>1, <2>2
  <1>3. emptied' = emptied
    <2>1. CASE SetSize
      <3>1. pc = "set_size" /\ call.op = "write"
        BY <2>1 DEF SetSize
      <3>2. call.size # 0
        <4>1. call.size \in Nat /\ ino[file].size \in Nat
          BY <1>1, StepFacts
        <4>2. Growing(file, call.size)
          BY <3>1 DEF FilesInv, CallInv, Resizing
        <4> QED BY <4>1, <4>2 DEF Growing
      <3>3. emptied' = [emptied EXCEPT ![file] = emptied[file]]
        BY <2>1, <3>2 DEF SetSize
      <3>4. emptied \in [Files -> Nat]
        BY DEF FilesInv, FilesTypeOK
      <3> QED BY <3>3, <3>4
    <2>2. CASE ~SetSize
      BY <2>2 DEF ReserveBlock, PointIndirect, PointToBlock, FillBlock, RemoveBlock,
                  WriteBlock
    <2> QED BY <2>1, <2>2
  <1> QED BY <1>2, <1>3, SeenStays

(***************************************************************************)
(* Every call is one step of a file of bytes, the step that completes it;  *)
(* all others change nothing that the calls after it can see               *)
(* (refs.c:1046-1217).  Of the bytes of a file with a wide size nothing is *)
(* said, of those of the other files that they stay.                       *)
(***************************************************************************)
THEOREM FilesOfBytes == Spec => ImplementsByteFile
  <1> DEFINE All == FilesInv /\ BytesInv /\ BytesBacked
  <1>1. Init => BF!Init
    <2>1. SUFFICES ASSUME Init PROVE BF!Init
      OBVIOUS
    <2>2. ASSUME NEW i \in Files
          PROVE  Seen(i) = [k \in {} |-> k] /\ Cardinality(DOMAIN Seen(i)) = 0
      <3>1. pc = "idle" /\ ino[i].size = 0
        BY <2>1, <2>2 DEF Init, ZeroInode
      <3>2. Seen(i) = [k \in 0 .. -1 |-> CellAt(blk, ino[i], k)]
        BY <3>1, BytesAreCells DEF Seen, Busy
      <3>3. 0 .. -1 = {}
        OBVIOUS
      <3>4. Seen(i) = [k \in {} |-> k]
        BY <3>2, <3>3
      <3> QED BY <3>4, FS_EmptySet
    <2> QED BY <2>1, <2>2 DEF Init, BF!Init
  <1>2. All /\ [Next]_vars => [BF!Next]_BF!bfvars
    <2>1. SUFFICES ASSUME FilesInv, BytesInv, BytesBacked, [Next]_vars
                   PROVE  BF!Next \/ UNCHANGED BF!bfvars
      OBVIOUS
    <2>2. ASSUME NEW f \in Files, NEW n \in Sizes, refs_truncate(f, n)
          PROVE  UNCHANGED BF!bfvars
      <3>1. /\ pc = "idle" /\ call' = [Resize(f, n) EXCEPT !.op = "truncate"]
            /\ was' = Contents(ino[f]) /\ UNCHANGED <<ino, blk, emptied>>
            /\ n \in Nat /\ ino[f].size # n /\ NoneIsWide
        BY <2>2, FileBlocksAssumption DEF refs_truncate
      <3>2. Resize(f, n) \in CallType /\ Resize(f, n).file = f
        BY <2>1, <3>1, ResizeCall
      <3>3. call'.file = f
        BY <3>1, <3>2 DEF CallType
      <3> QED BY <2>1, <3>1, <3>3, BeginsUnseen
    <2>3. ASSUME NEW f \in Files, NEW end \in Sizes, NEW at \in Sizes, NEW b \in Buffers,
                 refs_write(f, at, end, b)
          PROVE  UNCHANGED BF!bfvars
      <3>1. /\ pc = "idle" /\ was' = Contents(ino[f]) /\ UNCHANGED <<ino, blk, emptied>>
            /\ NoneIsWide
        BY <2>3 DEF refs_write
      <3>2. call'.file = f
        <4> DEFINE c == IF Growing(f, end) THEN Resize(f, end) ELSE [NoCall EXCEPT !.file = f]
        <4>1. c.file = f
          BY DEF Resize, NoCall
        <4>2. \E n, i : call' = [c EXCEPT !.op = "write", !.at = at, !.n = n, !.buf = b,
                                          !.idx = i]
          BY <2>3 DEF refs_write
        <4>3. DOMAIN c = DOMAIN NoCall
          BY DEF Resize, NoCall
        <4> HIDE DEF c
        <4> QED BY <4>1, <4>2, <4>3 DEF NoCall
      <3> QED BY <2>1, <3>1, <3>2, BeginsUnseen
    <2>4. CASE UNCHANGED vars
      <3>1. \A i \in Files : Seen(i)' = Seen(i)
        BY <2>4 DEF vars, Seen, Busy, Contents, BlockPtr
      <3> QED BY <2>4, <3>1, SeenStays DEF vars
    <2>5. CASE Reply
      <3>1. \A i \in Files : Seen(i)' = Seen(i)
        BY <2>5 DEF Reply, Seen, Busy, Contents, BlockPtr
      <3> QED BY <2>5, <3>1, SeenStays DEF Reply
    <2>6. CASE \/ ReserveBlock \/ PointIndirect \/ PointToBlock \/ FillBlock
               \/ RemoveBlock \/ SetSize \/ WriteBlock
      <3>1. CASE pc' # "reply"
        BY <2>1, <2>6, <3>1, GoesOnUnseen
      <3>2. CASE pc' = "reply" /\ SetSize
        <4>1. call.op # "write"
          BY <3>2 DEF SetSize
        <4> QED BY <2>1, <3>2, <4>1, TruncateMaps
      <3>3. CASE pc' = "reply" /\ WriteBlock
        BY <2>1, <3>3, WriteMaps
      <3>4. pc' = "reply" => SetSize \/ WriteBlock
        BY <2>6 DEF ReserveBlock, PointIndirect, PointToBlock, FillBlock, RemoveBlock, Loop
      <3> QED BY <2>6, <3>1, <3>2, <3>3, <3>4
    <2>7. ASSUME NEW f \in Files, NEW n \in Sizes, Refuse(f, n) PROVE UNCHANGED vars
      BY <2>7 DEF Refuse
    <2> QED BY <2>1, <2>2, <2>3, <2>4, <2>5, <2>6, <2>7 DEF Next
  <1>3. FilesAndBytes => All
    BY BackedNow DEF FilesAndBytes
  <1> QED BY <1>1, <1>2, <1>3, BytesInvariant, PTL DEF Spec, ImplementsByteFile, BF!Spec
=============================================================================
