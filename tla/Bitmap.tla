------------------------------- MODULE Bitmap -------------------------------
(***************************************************************************)
(* The bitmaps of ReFS (bitmap.c) as mathematics: a bitmap is the set of   *)
(* the indexes of its set bits, so set_bit adds an element, clear_bit      *)
(* removes one and get_bit is membership.  What is left to define is the   *)
(* allocator, first_unset_bit, whose result at the limit is the part that  *)
(* callers have to be careful with.  BitmapBytes shows that the bytes and  *)
(* the masks of bitmap.c implement this view.                              *)
(***************************************************************************)
EXTENDS Naturals

CONSTANT ByteBits       \* bits in a byte: 8 in the code, smaller in a model

ASSUME ByteBitsAssumption == ByteBits \in Nat \ {0}

(***************************************************************************)
(* first_unset_bit scans whole bytes: n valid bits take ScanBytes(n) bytes *)
(* and the last of them may hold padding bits, which the scan also visits. *)
(***************************************************************************)
ScanBytes(n) == (n + (ByteBits - 1)) \div ByteBits
ScanBits(n)  == ScanBytes(n) * ByteBits

(***************************************************************************)
(* Every index first_unset_bit can return for a bitmap of n valid bits: a  *)
(* scanned bit, or n itself, the out-of-bounds bit that signals an error.  *)
(***************************************************************************)
BitIndexes(n) == (0 .. ScanBits(n) - 1) \cup {n}

(* Mutant: the scan visits the byte after the last, too. *)
UnsetPast(bits, n) == (0 .. ScanBits(n) + (ByteBits - 1)) \ bits

Unset(bits, n) == (0 .. ScanBits(n) - 1) \ bits

Least(S) == CHOOSE i \in S : \A j \in S : i <= j

first_unset_bit(bits, n) ==
    IF Unset(bits, n) = {} THEN n ELSE Least(Unset(bits, n))

(***************************************************************************)
(* No bit that stands for a real object is free.                           *)
(***************************************************************************)
Exhausted(bits, n) == (0 .. n - 1) \subseteq bits
=============================================================================
