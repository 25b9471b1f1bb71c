----------------------------- MODULE BitmapPool -----------------------------
(***************************************************************************)
(* What bitmap.c promises its callers: a pool of NValid objects, each with *)
(* a bit that says it is taken.  reserve_data_block and reserve_inode of   *)
(* refs.c take an object with first_unset_bit followed by set_bit; the     *)
(* release paths give one back with clear_bit.                             *)
(***************************************************************************)
EXTENDS Bitmap

CONSTANT NValid         \* n_valid_bits

VARIABLES
    bits,               \* the set of indexes whose bit is 1
    got,                \* the index handed out by the last reservation
    op,                 \* the last operation (history)
    held                \* the indexes handed out and not given back (history)

vars == <<bits, got, op, held>>

PoolTypeOK ==
    /\ bits \subseteq BitIndexes(NValid)
    /\ got \in BitIndexes(NValid)
    /\ op \in {"allocate", "set", "clear", "reserve"}
    /\ held \subseteq bits

Init == bits = {} /\ got = 0 /\ op = "allocate" /\ held = {}

SetBit(i) ==
    /\ bits' = bits \cup {i}
    /\ op' = "set"
    /\ UNCHANGED <<got, held>>

ClearBit(i) ==
    /\ bits' = bits \ {i}
    /\ op' = "clear"
    /\ held' = held \ {i}
    /\ UNCHANGED got

(***************************************************************************)
(* The two calls every reservation in refs.c makes, back to back.          *)
(***************************************************************************)
Reserve ==
    /\ got' = first_unset_bit(bits, NValid)
    /\ bits' = bits \cup {got'}
    /\ op' = "reserve"
    /\ held' = held \cup {got'}

Next ==
    \/ \E i \in 0 .. NValid - 1 : SetBit(i) \/ ClearBit(i)
    \/ Reserve

Spec == Init /\ [][Next]_vars
-----------------------------------------------------------------------------
(***************************************************************************)
(* While an object is free, a reservation returns a valid object that no   *)
(* earlier reservation returned without a release since, and whose bit was *)
(* not set in any other way (bitmap.c:103, "find the first unset bit").    *)
(***************************************************************************)
ReserveIsFresh ==
    [][ op' = "reserve" /\ ~Exhausted(bits, NValid)
            => got' < NValid /\ got' \notin bits \cup held ]_vars

(***************************************************************************)
(* When every object is taken the result is out of bounds, the error       *)
(* signal of bitmap.c:128, although it may be a padding bit of the last    *)
(* byte and not n_valid_bits itself.                                       *)
(***************************************************************************)
FullIsOutOfBounds ==
    [][ op' = "reserve" /\ Exhausted(bits, NValid) => got' >= NValid ]_vars
=============================================================================
