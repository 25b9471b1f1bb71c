---------------------------- MODULE BitmapBytes -----------------------------
(***************************************************************************)
(* bitmap.c as it is written: an array of bytes, addressed by byte index   *)
(* and one-bit mask, and first_unset_bit as its two nested scans.  Every   *)
(* behaviour of it is a behaviour of BitmapPool under BitsOf.              *)
(***************************************************************************)
EXTENDS Bitmap

CONSTANTS
    NValid,             \* n_valid_bits
    BlockSize           \* bytes in a disk block: bitmaps are padded to it

VARIABLES bytes, got, op, held       \* as in BitmapPool

vars == <<bytes, got, op, held>>

BLOCK_ROUND_UP(n) == ((n + (BlockSize - 1)) \div BlockSize) * BlockSize

(***************************************************************************)
(* allocate_bitmap: the smallest number of bytes, rounded up to a block.   *)
(***************************************************************************)
n_bytes == BLOCK_ROUND_UP((NValid + (ByteBits - 1)) \div ByteBits)

(***************************************************************************)
(* A full bitmap hands out bit NValid, whose byte the padding must hold    *)
(* (1024 and 2492 bits in a buffer of 4096 bytes).                         *)
(***************************************************************************)
ASSUME PaddingAssumption == NValid < n_bytes * ByteBits

BIT_IDX_TO_BYTE(i) == i \div ByteBits
BIT_IDX_TO_MASK(i) == 2 ^ (i % ByteBits)

Full == 2 ^ ByteBits - 1        \* the bit pattern `11111111`

(***************************************************************************)
(* byte & mask, for a mask of one bit.                                     *)
(***************************************************************************)
Masked(byte, mask) == ((byte \div mask) % 2) * mask

get_bit(b, i) ==
    IF Masked(b[BIT_IDX_TO_BYTE(i)], BIT_IDX_TO_MASK(i)) # 0 THEN 1 ELSE 0

(* Mutant: the mask is added, whether or not its bit is set. *)
SetBitByAdding(b, i) ==
    [b EXCEPT ![BIT_IDX_TO_BYTE(i)] = @ + BIT_IDX_TO_MASK(i)]

set_bit(b, i) ==
    LET mask == BIT_IDX_TO_MASK(i)
    IN  [b EXCEPT ![BIT_IDX_TO_BYTE(i)] = (@ - Masked(@, mask)) + mask]

clear_bit(b, i) ==
    LET mask == BIT_IDX_TO_MASK(i)
    IN  [b EXCEPT ![BIT_IDX_TO_BYTE(i)] = @ - Masked(@, mask)]

(* Mutant: the bit scan gives up before the last bit of a byte. *)
ScanBytesShort(b) ==
    LET scan_bits[bit \in 0 .. ByteBits - 1, k \in Nat] ==
            IF Masked(b[k], 2 ^ bit) = 0 \/ bit = ByteBits - 2
            THEN k * ByteBits + bit ELSE scan_bits[bit + 1, k]
        scan[k \in 0 .. ScanBytes(NValid)] ==
            IF k = ScanBytes(NValid) THEN NValid
            ELSE IF b[k] # Full THEN scan_bits[0, k]
            ELSE scan[k + 1]
    IN  scan[0]

(* Mutant: a scan that finds nothing answers 0.                            *)
ScanBytesOrZero(b) ==
    LET scan_bits[bit \in 0 .. ByteBits - 1, k \in Nat] ==
            IF Masked(b[k], 2 ^ bit) = 0 THEN k * ByteBits + bit
                                         ELSE scan_bits[bit + 1, k]
        scan[k \in 0 .. ScanBytes(NValid)] ==
            IF k = ScanBytes(NValid) THEN 0
            ELSE IF b[k] # Full THEN scan_bits[0, k]
            ELSE scan[k + 1]
    IN  scan[0]

(***************************************************************************)
(* The byte scan and, in the first byte that is not full, the bit scan.    *)
(***************************************************************************)
scan_bytes(b) ==
    LET scan_bits[bit \in 0 .. ByteBits - 1, k \in Nat] ==
            IF Masked(b[k], 2 ^ bit) = 0 THEN k * ByteBits + bit
                                         ELSE scan_bits[bit + 1, k]
        scan[k \in 0 .. ScanBytes(NValid)] ==
            IF k = ScanBytes(NValid) THEN NValid
            ELSE IF b[k] # Full THEN scan_bits[0, k]
            ELSE scan[k + 1]
    IN  scan[0]

Init ==
    /\ bytes = [k \in 0 .. n_bytes - 1 |-> 0]
    /\ got = 0
    /\ op = "allocate"
    /\ held = {}

SetBit(i) ==
    /\ bytes' = set_bit(bytes, i)
    /\ op' = "set"
    /\ UNCHANGED <<got, held>>

ClearBit(i) ==
    /\ bytes' = clear_bit(bytes, i)
    /\ op' = "clear"
    /\ held' = held \ {i}
    /\ UNCHANGED got

(* Mutant: the index is returned without setting its bit. *)
ReserveWithoutSet ==
    /\ got' = scan_bytes(bytes)
    /\ op' = "reserve"
    /\ held' = held \cup {got'}
    /\ UNCHANGED bytes

Reserve ==
    /\ got' = scan_bytes(bytes)
    /\ bytes' = set_bit(bytes, got')
    /\ op' = "reserve"
    /\ held' = held \cup {got'}

Next ==
    \/ \E i \in 0 .. NValid - 1 : SetBit(i) \/ ClearBit(i)
    \/ Reserve

Spec == Init /\ [][Next]_vars
-----------------------------------------------------------------------------
BitsOf(b) == {i \in 0 .. n_bytes * ByteBits - 1 : get_bit(b, i) = 1}

(***************************************************************************)
(* Bytes stay bytes: the masks of set_bit and clear_bit neither borrow     *)
(* from nor carry into a neighbouring bit, and the padding after the bits  *)
(* first_unset_bit can return is never written (bitmap.c:87,98).           *)
(***************************************************************************)
BytesTypeOK ==
    /\ bytes \in [0 .. n_bytes - 1 -> 0 .. Full]
    /\ BitsOf(bytes) \subseteq BitIndexes(NValid)

Pool == INSTANCE BitmapPool WITH bits <- BitsOf(bytes)

(***************************************************************************)
(* The byte array with its masks and scans implements the pool: set_bit,   *)
(* clear_bit and first_unset_bit change and read exactly one logical bit,  *)
(* and the scan finds the lowest unset one (bitmap.c:72-130).              *)
(***************************************************************************)
ImplementsPool == Pool!Spec

(***************************************************************************)
(* What the pool promises of a reservation, of the index that the byte     *)
(* scan answers: fresh while an object is free, and out of bounds          *)
(* otherwise (bitmap.c:106-129).  Proved of the pool in BitmapProofs.      *)
(***************************************************************************)
ReserveIsFresh == Pool!ReserveIsFresh
FullIsOutOfBounds == Pool!FullIsOutOfBounds
=============================================================================
