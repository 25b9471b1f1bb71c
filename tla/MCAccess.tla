------------------------------ MODULE MCAccess ------------------------------
(***************************************************************************)
(* Callers and modes for model-checking Access: the superuser, two members *)
(* of a group and a stranger; every class of the file reads or writes or   *)
(* not, and the directory's modes differ in x too.                         *)
(***************************************************************************)
EXTENDS Access

MCCallers == {[uid |-> 0, gid |-> 0], [uid |-> 1, gid |-> 1],
              [uid |-> 2, gid |-> 1], [uid |-> 3, gid |-> 2]}

MCDirModes == {[k \in Classes |-> IF k \in S THEN Perms ELSE {"r", "x"}] :
                  S \in {Classes, {"owner"}}}

MCFileModes == [Classes -> SUBSET {"r", "w"}]
=============================================================================
