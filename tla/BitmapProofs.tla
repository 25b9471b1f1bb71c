---------------------------- MODULE BitmapProofs ----------------------------
(***************************************************************************)
(* What the pool of objects behind a bitmap promises, for pools of every   *)
(* size and bytes of every width.                                          *)
(***************************************************************************)
EXTENDS BitmapPool, BitmapLemmas, TLAPS

(***************************************************************************)
(* The bits of a pool are bits the scan can reach, and every index handed  *)
(* out is one of them: set_bit never writes outside the allocated bytes    *)
(* (bitmap.c:84-88).                                                       *)
(***************************************************************************)
THEOREM PoolTypes ==
    ASSUME NValid \in Nat \ {0}
    PROVE  Spec => []PoolTypeOK
  <1>1. Init => PoolTypeOK
    <2>1. ScanBits(NValid) \in Nat /\ NValid <= ScanBits(NValid)
      BY ScanCoversValid
    <2> QED BY <2>1 DEF Init, PoolTypeOK, BitIndexes
  <1>2. PoolTypeOK /\ [Next]_vars => PoolTypeOK'
    <2> SUFFICES ASSUME PoolTypeOK, [Next]_vars PROVE PoolTypeOK'
      OBVIOUS
    <2>1. ScanBits(NValid) \in Nat /\ NValid <= ScanBits(NValid)
      BY ScanCoversValid
    <2>2. first_unset_bit(bits, NValid) \in BitIndexes(NValid)
      BY FirstUnsetBit
    <2>3. ASSUME NEW i \in 0 .. NValid - 1, SetBit(i) PROVE PoolTypeOK'
      BY <2>1, <2>3 DEF SetBit, PoolTypeOK, BitIndexes
    <2>4. ASSUME NEW i \in 0 .. NValid - 1, ClearBit(i) PROVE PoolTypeOK'
      BY <2>4 DEF ClearBit, PoolTypeOK
    <2>5. CASE Reserve
      BY <2>2, <2>5 DEF Reserve, PoolTypeOK
    <2>6. CASE UNCHANGED vars
      BY <2>6 DEF vars, PoolTypeOK
    <2> QED BY <2>3, <2>4, <2>5, <2>6 DEF Next
  <1> QED BY <1>1, <1>2, PTL DEF Spec

(***************************************************************************)
(* Only a Reserve step leaves a new result behind the name "reserve".      *)
(***************************************************************************)
LEMMA ReserveResult ==
    ASSUME [Next]_vars, ~UNCHANGED vars, op' = "reserve"
    PROVE  got' = first_unset_bit(bits, NValid)
  BY DEF Next, SetBit, ClearBit, Reserve

(***************************************************************************)
(* A reservation never returns an object that is taken or still held while *)
(* one is free (bitmap.c:106): what is held has its bit set.               *)
(***************************************************************************)
THEOREM ReservationsAreFresh ==
    ASSUME NValid \in Nat \ {0}
    PROVE  Spec => ReserveIsFresh
  <1>1. ASSUME PoolTypeOK, [Next]_vars
        PROVE  [ op' = "reserve" /\ ~Exhausted(bits, NValid)
                    => got' < NValid /\ got' \notin bits \cup held ]_vars
    BY <1>1, ReserveResult, FirstUnsetBit DEF PoolTypeOK
  <1> QED BY <1>1, PoolTypes, PTL DEF Spec, ReserveIsFresh

(***************************************************************************)
(* A reservation from a full pool is out of bounds (bitmap.c:128), as its  *)
(* callers would have to check.                                            *)
(***************************************************************************)
THEOREM FullPoolsSignal ==
    ASSUME NValid \in Nat \ {0}
    PROVE  Spec => FullIsOutOfBounds
  <1>1. ASSUME [Next]_vars
        PROVE  [ op' = "reserve" /\ Exhausted(bits, NValid) => got' >= NValid ]_vars
    BY <1>1, ReserveResult, FirstUnsetBit
  <1> QED BY <1>1, PTL DEF Spec, FullIsOutOfBounds
=============================================================================
