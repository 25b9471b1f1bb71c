------------------------------ MODULE ByteFile ------------------------------
(***************************************************************************)
(* What truncate and write promise about the bytes of a file: to the calls *)
(* after it each call is atomic, a write puts the caller's bytes where     *)
(* they belong, and nothing else changes.                                  *)
(*                                                                         *)
(* Two promises are weaker than those of a native file, because the code   *)
(* is.  The bytes that a growing file gets without a write (holes) are NUL *)
(* or the character '0' (EmptyBytes), and two kinds of them may be         *)
(* anything: the byte right at the old end (refs.c:1103), and every hole   *)
(* of a file that still has blocks it does not need, because it was once   *)
(* truncated to nothing (Loose).  src/write_test.sh:64-76 wants NUL        *)
(* (HolesReadAsNul in FileBlocksProperties).                               *)
(*                                                                         *)
(* And nothing is promised of the bytes of a file with a size that is not  *)
(* addressable; the other files keep theirs even then.                     *)
(***************************************************************************)
EXTENDS Naturals

CONSTANTS
    Files,              \* the regular files
    Sizes,              \* the file offsets and sizes callers use
    Buffers,            \* the buffers callers write from
    Byte(_, _),         \* the byte of a buffer that goes to a file position
    Addressable(_),     \* the sizes whose bytes a file system can tell apart
    EmptyBytes          \* the bytes of holes

VARIABLES
    size,               \* the size of each file
    bytes,              \* its bytes, a function on the positions below its size
    emptied             \* how often it was truncated to nothing

bfvars == <<size, bytes, emptied>>

Init ==
    /\ size = [f \in Files |-> 0]
    /\ bytes = [f \in Files |-> [k \in {} |-> k]]
    /\ emptied = [f \in Files |-> 0]

Loose(f) == emptied[f] > (IF size[f] = 0 THEN 1 ELSE 0)

(***************************************************************************)
(* The file's size becomes n.  Of its bytes, some are written; kept ones   *)
(* stay; others are holes.                                                 *)
(***************************************************************************)
Becomes(f, n, written) ==
    /\ size' = [size EXCEPT ![f] = n]
    /\ \A h \in Files \ {f} : bytes'[h] = bytes[h]
    /\ DOMAIN bytes'[f] = 0 .. n - 1
    /\ Addressable(n) =>
          \A k \in 0 .. n - 1 :
              IF k \in DOMAIN written THEN bytes'[f][k] = written[k]
              ELSE IF k < size[f] THEN bytes'[f][k] = bytes[f][k]
              ELSE k = size[f] \/ Loose(f) \/ bytes'[f][k] \in EmptyBytes

Truncate(f, n) ==
    /\ n # size[f]
    /\ Becomes(f, n, [k \in {} |-> k])
    /\ emptied' = [emptied EXCEPT ![f] = IF n = 0 THEN @ + 1 ELSE @]

Write(f, offset, end, buf) ==
    /\ offset < end
    /\ Becomes(f, IF end > size[f] THEN end ELSE size[f],
               [k \in offset .. end - 1 |-> Byte(k, buf)])
    /\ UNCHANGED emptied

Next ==
    \E f \in Files, n \in Sizes :
        \/ Truncate(f, n)
        \/ \E m \in Sizes, b \in Buffers : Write(f, m, n, b)

Spec == Init /\ [][Next]_bfvars
=============================================================================
