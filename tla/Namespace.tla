----------------------------- MODULE Namespace ------------------------------
(***************************************************************************)
(* What ReFS promises about names: a tree of directories and files.  There *)
(* are no hard links (refs_operations has no .link), so an inode that is   *)
(* in the tree has exactly one name, held by exactly one directory, and    *)
(* the tree is the function ns from inodes to their place in it.           *)
(*                                                                         *)
(* A directory entry appears and disappears in one atomic, durable step,   *)
(* whatever crashes happen around it.  ok is FALSE once the file system    *)
(* has run past one of its limits and promises nothing any more.           *)
(***************************************************************************)
EXTENDS Naturals

CONSTANTS
    Inums,              \* the inode numbers
    Root,               \* the root directory's inode number
    Names               \* names of directory entries

VARIABLES ns, ok

nsvars == <<ns, ok>>

Kinds == {"dir", "reg"}

(***************************************************************************)
(* An inode that is not in the tree, and the root's own place.             *)
(***************************************************************************)
Absent == [kind |-> "none"]
RootNode == [kind |-> "root"]
Node == [kind : Kinds, parent : Inums, name : Names]

Live == {i \in Inums : ns[i] # Absent}
IsDir(i) == ns[i].kind \in {"dir", "root"}
Children(d) == {i \in Inums : ns[i].kind \in Kinds /\ ns[i].parent = d}

Init ==
    /\ ns = [i \in Inums |-> IF i = Root THEN RootNode ELSE Absent]
    /\ ok = TRUE

(***************************************************************************)
(* mkdir and mknod: a new child of a directory, under a name it lacks.     *)
(***************************************************************************)
Link(i, k, d, n) ==
    /\ ns[i] = Absent
    /\ IsDir(d)
    /\ \A c \in Children(d) : ns[c].name # n
    /\ ns' = [ns EXCEPT ![i] = [kind |-> k, parent |-> d, name |-> n]]

(***************************************************************************)
(* rmdir and unlink: a child without children of its own.                  *)
(***************************************************************************)
Unlink(i) ==
    /\ ns[i].kind \in Kinds
    /\ Children(i) = {}
    /\ ns' = [ns EXCEPT ![i] = Absent]

(***************************************************************************)
(* Past its limits the file system may do anything to the tree.            *)
(***************************************************************************)
Broken ==
    /\ ok' = FALSE
    /\ ns' \in [Inums -> Node \cup {Absent, RootNode}]

Next ==
    \/ /\ ok /\ UNCHANGED ok
       /\ \/ \E i, d \in Inums, k \in Kinds, n \in Names : Link(i, k, d, n)
          \/ \E i \in Inums : Unlink(i)
    \/ Broken

Spec == Init /\ [][Next]_nsvars
-----------------------------------------------------------------------------
NsTypeOK ==
    /\ ns \in [Inums -> Node \cup {Absent, RootNode}]
    /\ ok \in BOOLEAN

(***************************************************************************)
(* Every entry is in a directory that is itself in the tree: removing a    *)
(* directory never orphans a child (refs.c:1312-1315).                     *)
(***************************************************************************)
ParentsAreLive ==
    ok => \A i \in Inums : ns[i].kind \in Kinds => IsDir(ns[i].parent)

(***************************************************************************)
(* A name denotes at most one child of a directory (refs.c:795-802).       *)
(***************************************************************************)
NamesUnique ==
    ok => \A i, j \in Inums :
            /\ ns[i].kind \in Kinds
            /\ ns[j].kind \in Kinds
            /\ ns[i].parent = ns[j].parent
            /\ ns[i].name = ns[j].name
            => i = j

(***************************************************************************)
(* The root is never removed, renamed or turned into a child of another    *)
(* directory (refs.c:263).                                                 *)
(***************************************************************************)
RootStays == ok => ns[Root] = RootNode
=============================================================================
