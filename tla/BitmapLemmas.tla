---------------------------- MODULE BitmapLemmas ----------------------------
(***************************************************************************)
(* Facts that hold for bitmaps and blocks of every size: division that     *)
(* rounds down, as C's on unsigned operands, and what first_unset_bit      *)
(* returns.                                                                *)
(***************************************************************************)
EXTENDS Bitmap, FiniteSetTheorems, WellFoundedInduction, TLAPS

(***************************************************************************)
(* Division that rounds down, as C's on unsigned operands.                 *)
(***************************************************************************)
LEMMA Division ==
    ASSUME NEW a \in Nat, NEW c \in Nat \ {0}
    PROVE  /\ a \div c \in Nat
           /\ (a \div c) * c \in Nat
           /\ (a \div c) * c <= a
           /\ a < (a \div c) * c + c
  <1>1. a = c * (a \div c) + (a % c) /\ a % c \in 0 .. c - 1 /\ a \div c \in Nat
    OBVIOUS
  <1>2. c * (a \div c) = (a \div c) * c /\ (a \div c) * c \in Nat
    BY <1>1
  <1> QED BY <1>1, <1>2

(***************************************************************************)
(* Comparing multiples of a block or group compares their numbers.         *)
(***************************************************************************)
LEMMA SmallerFactor ==
    ASSUME NEW p \in Nat, NEW q \in Nat, NEW c \in Nat \ {0}, p * c < q * c + c
    PROVE  p <= q
  <1>1. SUFFICES ASSUME p >= q + 1 PROVE FALSE
    OBVIOUS
  <1>2. p * c >= (q + 1) * c
    BY <1>1
  <1>3. (q + 1) * c = q * c + c
    OBVIOUS
  <1> QED BY <1>2, <1>3

(***************************************************************************)
(* More bytes never take fewer blocks (BYTES_TO_BLKS, refs.h:36).          *)
(***************************************************************************)
LEMMA DivisionIsMonotone ==
    ASSUME NEW a \in Nat, NEW b \in Nat, a <= b, NEW c \in Nat \ {0}
    PROVE  a \div c <= b \div c
  <1> DEFINE p == a \div c
             q == b \div c
  <1>1. /\ p \in Nat /\ p * c \in Nat /\ p * c <= a
        /\ q \in Nat /\ q * c \in Nat /\ b < q * c + c
    BY Division
  <1> HIDE DEF p, q
  <1>2. p * c < q * c + c
    BY <1>1
  <1>3. p <= q
    BY <1>1, <1>2, SmallerFactor
  <1> QED BY <1>3 DEF p, q

(***************************************************************************)
(* Whole blocks are counted exactly (BLOCK_ROUND_UP, refs.h:30).           *)
(***************************************************************************)
LEMMA DivisionIsExact ==
    ASSUME NEW k \in Nat, NEW c \in Nat \ {0}
    PROVE  (k * c) \div c = k
  <1> DEFINE p == (k * c) \div c
  <1>1. k * c \in Nat
    OBVIOUS
  <1>2. p \in Nat /\ p * c \in Nat /\ p * c <= k * c /\ k * c < p * c + c
    BY <1>1, Division
  <1> HIDE DEF p
  <1>3. p <= k
    BY <1>1, <1>2, SmallerFactor
  <1>4. k <= p
    BY <1>1, <1>2, SmallerFactor
  <1>5. p = k
    BY <1>2, <1>3, <1>4
  <1> QED BY <1>5 DEF p
(***************************************************************************)
(* A whole number of things in groups: the last group ends with the last   *)
(* thing (NumInodes inodes, INODES_PER_BLOCK to a block).                  *)
(***************************************************************************)
LEMMA WholeGroups ==
    ASSUME NEW n \in Nat, NEW c \in Nat \ {0}, n % c = 0
    PROVE  n = (n \div c) * c
  <1>1. n = c * (n \div c) + (n % c) /\ n \div c \in Nat
    OBVIOUS
  <1>2. c * (n \div c) = (n \div c) * c /\ c * (n \div c) \in Nat
    BY <1>1
  <1> QED BY <1>1, <1>2
-----------------------------------------------------------------------------
(***************************************************************************)
(* A non-empty set of naturals has a least element, which Least picks: the *)
(* byte and bit scans of bitmap.c:106-130 find it.  The interval up to the *)
(* least element is the smallest one under inclusion, and inclusion of     *)
(* finite sets is well-founded.                                            *)
(***************************************************************************)
LEMMA LeastIsMin ==
    ASSUME NEW S \in SUBSET Nat, S # {}
    PROVE  /\ Least(S) \in S
           /\ \A j \in S : Least(S) <= j
  <1> DEFINE T == {0 .. i : i \in S}
             R == StrictSubsetOrdering(Nat)
  <1>1. T \subseteq FiniteSubsetsOf(Nat) /\ T # {}
    <2>1. ASSUME NEW i \in S PROVE 0 .. i \in SUBSET Nat /\ IsFiniteSet(0 .. i)
      BY <2>1, FS_Interval
    <2> QED BY <2>1 DEF FiniteSubsetsOf
  <1>2. \E x \in T : \A y \in T : ~ (<<y, x>> \in R)
    <2> HIDE DEF R, T
    <2>1. IsWellFoundedOn(R, FiniteSubsetsOf(Nat))
      BY FS_StrictSubsetOrderingWellFounded DEF R
    <2> QED BY <1>1, <2>1, WFMin
  <1>3. PICK x \in S : \A y \in S : ~ (<<0 .. y, 0 .. x>> \in R)
    BY <1>2
  <1>4. ASSUME NEW y \in S PROVE x <= y
    <2>1. SUFFICES ASSUME y < x PROVE FALSE
      OBVIOUS
    <2>2. 0 .. y \subseteq 0 .. x /\ x \in 0 .. x /\ x \notin 0 .. y
      BY <2>1
    <2>3. <<0 .. y, 0 .. x>> \in R
      BY <2>2 DEF StrictSubsetOrdering
    <2> QED BY <1>3, <2>3
  <1> QED
    BY <1>4 DEF Least

(***************************************************************************)
(* Scanning whole bytes visits every valid bit (bitmap.c:112, n_valid_bits *)
(* rounded up to bytes).                                                   *)
(***************************************************************************)
LEMMA ScanCoversValid ==
    ASSUME NEW n \in Nat
    PROVE  ScanBytes(n) \in Nat /\ ScanBits(n) \in Nat /\ n <= ScanBits(n)
  <1> USE ByteBitsAssumption
  <1> DEFINE m == n + (ByteBits - 1)
  <1>1. m \in Nat /\ ByteBits \in Nat /\ ByteBits > 0
    OBVIOUS
  <1>2. m \div ByteBits \in Nat /\ m % ByteBits \in 0 .. ByteBits - 1
        /\ m = ByteBits * (m \div ByteBits) + (m % ByteBits)
    <2> HIDE DEF m
    <2> QED BY <1>1
  <1>3. ByteBits * (m \div ByteBits) = (m \div ByteBits) * ByteBits
        /\ (m \div ByteBits) * ByteBits \in Nat
    BY <1>1, <1>2
  <1>4. (m \div ByteBits) * ByteBits >= m - (ByteBits - 1)
    <2> HIDE DEF m
    <2> QED BY <1>1, <1>2, <1>3
  <1> QED BY <1>1, <1>2, <1>3, <1>4 DEF ScanBytes, ScanBits

(***************************************************************************)
(* first_unset_bit returns a bit it scanned that is not set, or the number *)
(* of valid bits; a valid one whenever one is free, and an invalid one     *)
(* otherwise (bitmap.c:106-130).                                           *)
(***************************************************************************)
LEMMA FirstUnsetBit ==
    ASSUME NEW n \in Nat, NEW b
    PROVE  LET i == first_unset_bit(b, n)
           IN  /\ i \in BitIndexes(n) /\ i \in Nat
               /\ ~Exhausted(b, n) => i < n /\ i \notin b
               /\ Exhausted(b, n) => i >= n
  <1>1. ScanBits(n) \in Nat /\ n <= ScanBits(n)
    BY ScanCoversValid
  <1>2. Unset(b, n) \in SUBSET Nat
    BY <1>1 DEF Unset
  <1>3. CASE Unset(b, n) = {}
    <2>1. Exhausted(b, n)
      BY <1>1, <1>3 DEF Unset, Exhausted
    <2>2. first_unset_bit(b, n) = n
      BY <1>3 DEF first_unset_bit
    <2> QED BY <2>1, <2>2 DEF BitIndexes
  <1>4. CASE Unset(b, n) # {}
    <2> DEFINE i == first_unset_bit(b, n)
    <2>1. i \in Unset(b, n) /\ \A j \in Unset(b, n) : i <= j
      BY <1>2, <1>4, LeastIsMin DEF first_unset_bit
    <2> HIDE DEF i
    <2>2. i \in 0 .. ScanBits(n) - 1 /\ i \notin b
      BY <2>1 DEF Unset
    <2>3. ASSUME ~Exhausted(b, n) PROVE i < n
      <3>1. PICK j \in 0 .. n - 1 : j \notin b
        BY <2>3 DEF Exhausted
      <3>2. j \in Unset(b, n)
        BY <1>1, <3>1 DEF Unset
      <3> QED BY <1>1, <2>1, <2>2, <3>2
    <2>4. ASSUME Exhausted(b, n) PROVE i >= n
      BY <2>2, <2>4, <1>1 DEF Exhausted
    <2> QED BY <1>1, <2>2, <2>3, <2>4 DEF BitIndexes, i
  <1> QED BY <1>3, <1>4
=============================================================================
