------------------------------- MODULE Access -------------------------------
(***************************************************************************)
(* Permissions (refs_access, refs.c:636-695) and when they are asked for:  *)
(* at open and again at every read, write and truncate, but not of the     *)
(* file when it is created, and of nobody for chmod and unlink.  One       *)
(* directory, one file in it and one open handle.                          *)
(***************************************************************************)
EXTENDS Naturals

CONSTANTS
    Callers,            \* who makes calls: the uid and gid of fuse_get_context
    DirModes,           \* modes of the directory
    FileModes           \* modes of the file

Perms == {"r", "w", "x"}
Classes == {"owner", "group", "other"}
Modes == [Classes -> SUBSET Perms]

ASSUME AccessAssumption ==
    /\ Callers \subseteq [uid : Nat, gid : Nat]
    /\ DirModes \subseteq Modes
    /\ FileModes \subseteq Modes

VARIABLES
    dir,                \* the directory's inode
    file,               \* the file's inode
    handle              \* the open handle, and since when its mode stands (history)

vars == <<dir, file, handle>>

Absent == [exists |-> FALSE]
NoHandle == [how |-> "closed"]

(***************************************************************************)
(* The access modes of open as sets of bits: O_RDONLY has none.            *)
(***************************************************************************)
O_RDONLY == {}
O_WRONLY == {1}
O_RDWR == {2}
Flags == {O_RDONLY, O_WRONLY, O_RDWR}
-----------------------------------------------------------------------------
(***************************************************************************)
(* The permissions of every class the caller is in, added up.              *)
(***************************************************************************)
InClass(c, ino, k) ==
    \/ k = "owner" /\ c.uid = ino.uid
    \/ k = "group" /\ c.gid = ino.gid
    \/ k = "other"

(* Mutant: the group's permissions are those of the first class. *)
AllowedTwiceOwner(c, ino) ==
    UNION {IF k = "group" THEN ino.mode["owner"] ELSE ino.mode[k] :
              k \in {l \in Classes : InClass(c, ino, l)}}

allowed_mode(c, ino) ==
    UNION {ino.mode[k] : k \in {l \in Classes : InClass(c, ino, l)}}

refs_access(c, ino, mask) == mask \subseteq allowed_mode(c, ino)

(* Mutant: O_RDWR asks to read. *)
ReqModeReads(flags) ==
    {p \in {"r"} : O_RDONLY \subseteq flags} \cup {p \in {"w"} : O_WRONLY \subseteq flags}

(***************************************************************************)
(* What open asks for; no flags at all is O_RDONLY, and every call has it. *)
(***************************************************************************)
req_mode(flags) ==
    {p \in {"r"} : O_RDONLY \subseteq flags}
        \cup {p \in {"w"} : O_WRONLY \subseteq flags}
        \cup {p \in {"r", "w"} : O_RDWR \subseteq flags}

(***************************************************************************)
(* The checks of refs_read, refs_write and refs_truncate, each time.       *)
(***************************************************************************)
CanRead(c) == refs_access(c, file, {"r"})
CanWrite(c) == refs_access(c, file, {"w"})
-----------------------------------------------------------------------------
(* Mutant: the new inode keeps the uid of its former life. *)
ReservedByRoot(c, mode) == [exists |-> TRUE, uid |-> 0, gid |-> c.gid, mode |-> mode]

(***************************************************************************)
(* A reserved inode belongs to the caller.                                 *)
(***************************************************************************)
reserve_inode(c, mode) == [exists |-> TRUE, uid |-> c.uid, gid |-> c.gid, mode |-> mode]

refs_create(c, flags, mode) ==
    /\ ~file.exists /\ handle = NoHandle
    /\ refs_access(c, dir, {"w"})
    /\ file' = reserve_inode(c, mode)
    /\ handle' = [how |-> "create", caller |-> c, flags |-> flags]
    /\ UNCHANGED dir

refs_open(c, flags) ==
    /\ file.exists /\ handle = NoHandle
    /\ refs_access(c, file, req_mode(flags))
    /\ handle' = [how |-> "open", caller |-> c, flags |-> flags]
    /\ UNCHANGED <<dir, file>>

refs_release ==
    /\ handle # NoHandle
    /\ handle' = NoHandle
    /\ UNCHANGED <<dir, file>>

(***************************************************************************)
(* Anybody may change a mode, also under an open handle.                   *)
(***************************************************************************)
ChmodFile(mode) ==
    /\ file.exists
    /\ file' = [file EXCEPT !.mode = mode]
    /\ handle' = IF handle = NoHandle THEN handle ELSE [handle EXCEPT !.how = "chmod"]
    /\ UNCHANGED dir

ChmodDir(mode) ==
    /\ dir' = [dir EXCEPT !.mode = mode]
    /\ UNCHANGED <<file, handle>>

(***************************************************************************)
(* unlink asks for no permission.  Removing an open file is left out: FUSE *)
(* renames it instead, which ReFS does not implement.                      *)
(***************************************************************************)
refs_unlink ==
    /\ file.exists /\ handle = NoHandle
    /\ file' = Absent
    /\ UNCHANGED <<dir, handle>>

(***************************************************************************)
(* The root directory is made by mkfs, which runs as uid 0.                *)
(***************************************************************************)
Init ==
    /\ dir = [exists |-> TRUE, uid |-> 0, gid |-> 0, mode |-> [k \in Classes |-> Perms]]
    /\ file = Absent
    /\ handle = NoHandle

Next ==
    \/ \E c \in Callers, fl \in Flags :
          \/ \E m \in FileModes : refs_create(c, fl, m)
          \/ refs_open(c, fl)
    \/ refs_release \/ refs_unlink
    \/ \E m \in FileModes : ChmodFile(m)
    \/ \E m \in DirModes : ChmodDir(m)

Spec == Init /\ [][Next]_vars
-----------------------------------------------------------------------------
(***************************************************************************)
(* What POSIX grants: the permissions of the first class that fits.        *)
(***************************************************************************)
PosixClass(c, ino) == IF c.uid = ino.uid THEN "owner"
                      ELSE IF c.gid = ino.gid THEN "group" ELSE "other"

PosixAllows(c, ino, mask) == mask \subseteq ino.mode[PosixClass(c, ino)]

(***************************************************************************)
(* refs_access refuses nothing that POSIX grants.  It grants more only to  *)
(* an owner or a member of the group, whose own class says less than a     *)
(* class after it (refs.c:657-692).                                        *)
(***************************************************************************)
ClassesAgree ==
    \A c \in Callers, mask \in SUBSET Perms, i \in {dir, file} :
        i.exists =>
            /\ PosixAllows(c, i, mask) => refs_access(c, i, mask)
            /\ PosixClass(c, i) = "other" =>
                  (refs_access(c, i, mask) => PosixAllows(c, i, mask))

(***************************************************************************)
(* The checks at open and at each call fit together: while nobody changes  *)
(* the mode, a handle that was opened is never refused the reads and       *)
(* writes it was opened for, and one that came with the file is refused    *)
(* only what the file's mode denies its owner (refs.c:1432, 1460-1472).    *)
(***************************************************************************)
Needs(flags) == IF flags = O_RDONLY THEN {"r"}
                ELSE IF flags = O_WRONLY THEN {"w"} ELSE {"r", "w"}

Grants(c) == {p \in {"r"} : CanRead(c)} \cup {p \in {"w"} : CanWrite(c)}

OpenedCanBeUsed ==
    /\ handle.how = "open" => Needs(handle.flags) \subseteq Grants(handle.caller)
    /\ handle.how = "create" =>
          Needs(handle.flags) \cap file.mode["owner"] \subseteq Grants(handle.caller)
=============================================================================
