--------------------------- MODULE NamespaceProofs --------------------------
(***************************************************************************)
(* The safety of the promised tree, for every set of inodes and names.     *)
(* The four parts are inductive only together: that a removed inode is not *)
(* the root needs RootStays, that a new child's directory stays in the     *)
(* tree needs ParentsAreLive, and both need the types of the nodes.        *)
(***************************************************************************)
EXTENDS Namespace, TLAPS

TreeInv == NsTypeOK /\ ParentsAreLive /\ NamesUnique /\ RootStays

(***************************************************************************)
(* A child of a directory is a place, distinct from the root's and from    *)
(* none: what update_parent_inode adds is a named entry (refs.c:718-720).  *)
(***************************************************************************)
LEMMA NodeKinds ==
    /\ \A k \in Kinds, d \in Inums, n \in Names :
          [kind |-> k, parent |-> d, name |-> n] \in Node
    /\ \A x \in Node : x.kind \in Kinds /\ x.parent \in Inums /\ x # Absent /\ x # RootNode
    /\ Absent.kind = "none" /\ RootNode.kind = "root"
    /\ RootNode # Absent
    /\ "none" \notin Kinds /\ "root" \notin Kinds
  BY DEF Kinds, Node, Absent, RootNode

(***************************************************************************)
(* mkdir and mknod keep the tree a tree (refs.c:759-839, 1379-1444).       *)
(***************************************************************************)
LEMMA LinkKeepsTree ==
    ASSUME Root \in Inums, TreeInv, ok, UNCHANGED ok,
           NEW i \in Inums, NEW d \in Inums, NEW k \in Kinds, NEW n \in Names,
           Link(i, k, d, n)
    PROVE  TreeInv'
  <1> DEFINE x == [kind |-> k, parent |-> d, name |-> n]
  <1>1. /\ ns \in [Inums -> Node \cup {Absent, RootNode}]
        /\ ns[i] = Absent /\ IsDir(d)
        /\ ns' = [ns EXCEPT ![i] = x]
        /\ ok' = ok
    BY DEF TreeInv, NsTypeOK, Link
  <1>2. x \in Node /\ x.kind = k /\ x.parent = d /\ x.name = n
    BY NodeKinds
  <1> HIDE DEF x
  <1>3. ns'[i] = x /\ \A j \in Inums \ {i} : ns'[j] = ns[j]
    BY <1>1
  <1>4. i # d /\ i # Root
    BY <1>1, NodeKinds DEF TreeInv, RootStays, IsDir
  <1>5. NsTypeOK'
    BY <1>1, <1>2 DEF NsTypeOK, TreeInv
  <1>6. ParentsAreLive'
    <2>1. SUFFICES ASSUME NEW j \in Inums, ns'[j].kind \in Kinds
                   PROVE  ns'[ns'[j].parent].kind \in {"dir", "root"}
      BY DEF ParentsAreLive, IsDir
    <2>2. CASE j = i
      BY <2>2, <1>1, <1>2, <1>3, <1>4 DEF IsDir
    <2>3. CASE j # i
      <3>1. ns'[j] = ns[j] /\ ns[j] \in Node
        BY <2>1, <2>3, <1>1, <1>3, NodeKinds
      <3>2. ns[j].parent \in Inums /\ IsDir(ns[j].parent)
        BY <3>1, NodeKinds DEF TreeInv, ParentsAreLive
      <3>3. ns[j].parent # i
        BY <3>2, <1>1, NodeKinds DEF IsDir
      <3> QED BY <3>1, <3>2, <3>3, <1>3 DEF IsDir
    <2> QED BY <2>2, <2>3
  <1>7. NamesUnique'
    <2>1. SUFFICES ASSUME NEW a \in Inums, NEW b \in Inums,
                          ns'[a].kind \in Kinds, ns'[b].kind \in Kinds,
                          ns'[a].parent = ns'[b].parent, ns'[a].name = ns'[b].name
                   PROVE  a = b
      BY DEF NamesUnique
    <2>2. ASSUME NEW c \in Inums, c # i, ns'[c].kind \in Kinds, ns'[c].parent = d
          PROVE  ns'[c].name # n
      BY <2>2, <1>1, <1>3 DEF Link, Children
    <2>3. CASE a = i
      BY <2>1, <2>2, <2>3, <1>2, <1>3
    <2>4. CASE b = i
      BY <2>1, <2>2, <2>4, <1>2, <1>3
    <2>5. CASE a # i /\ b # i
      BY <2>1, <2>5, <1>3 DEF TreeInv, NamesUnique
    <2> QED BY <2>3, <2>4, <2>5
  <1>8. RootStays'
    BY <1>3, <1>4 DEF TreeInv, RootStays
  <1> QED BY <1>5, <1>6, <1>7, <1>8 DEF TreeInv

(***************************************************************************)
(* rmdir and unlink keep the tree a tree: the inode removed has no child   *)
(* and is not the root (refs.c:1307-1341, 1488-1516).                      *)
(***************************************************************************)
LEMMA UnlinkKeepsTree ==
    ASSUME Root \in Inums, TreeInv, ok, UNCHANGED ok, NEW i \in Inums, Unlink(i)
    PROVE  TreeInv'
  <1>1. /\ ns \in [Inums -> Node \cup {Absent, RootNode}]
        /\ ns[i].kind \in Kinds
        /\ ns' = [ns EXCEPT ![i] = Absent]
    BY DEF TreeInv, NsTypeOK, Unlink
  <1>2. ns'[i] = Absent /\ \A j \in Inums \ {i} : ns'[j] = ns[j]
    BY <1>1
  <1>3. i # Root
    BY <1>1, NodeKinds DEF TreeInv, RootStays
  <1>4. NsTypeOK'
    BY <1>1 DEF NsTypeOK, TreeInv
  <1>5. ParentsAreLive'
    <2>1. SUFFICES ASSUME NEW j \in Inums, ns'[j].kind \in Kinds
                   PROVE  ns'[ns'[j].parent].kind \in {"dir", "root"}
      BY DEF ParentsAreLive, IsDir
    <2>2. j # i /\ ns'[j] = ns[j]
      BY <2>1, <1>2, NodeKinds
    <2>3. ns[j].parent \in Inums /\ IsDir(ns[j].parent)
      BY <2>1, <2>2, <1>1, NodeKinds DEF TreeInv, ParentsAreLive
    <2>4. ns[j].parent # i
      BY <2>1, <2>2, <1>1 DEF Unlink, Children
    <2> QED BY <2>2, <2>3, <2>4, <1>2 DEF IsDir
  <1>6. NamesUnique'
    BY <1>2, NodeKinds DEF TreeInv, NamesUnique
  <1>7. RootStays'
    BY <1>2, <1>3 DEF TreeInv, RootStays
  <1> QED BY <1>4, <1>5, <1>6, <1>7 DEF TreeInv
-----------------------------------------------------------------------------
(***************************************************************************)
(* The tree stays a tree in every behaviour.                               *)
(***************************************************************************)
THEOREM TreeInvariant ==
    ASSUME Root \in Inums
    PROVE  Spec => []TreeInv
  <1>1. Init => TreeInv
    <2> SUFFICES ASSUME Init PROVE TreeInv
      OBVIOUS
    <2>1. \A i \in Inums : ns[i] = IF i = Root THEN RootNode ELSE Absent
      BY DEF Init
    <2>2. \A i \in Inums : ns[i].kind \notin Kinds
      BY <2>1, NodeKinds
    <2>3. NsTypeOK
      BY DEF Init, NsTypeOK
    <2> QED BY <2>1, <2>2, <2>3
            DEF TreeInv, ParentsAreLive, NamesUnique, RootStays
  <1>2. TreeInv /\ [Next]_nsvars => TreeInv'
    <2> SUFFICES ASSUME TreeInv, [Next]_nsvars PROVE TreeInv'
      OBVIOUS
    <2>1. ASSUME ok, UNCHANGED ok,
                 NEW i \in Inums, NEW d \in Inums, NEW k \in Kinds, NEW n \in Names,
                 Link(i, k, d, n)
          PROVE  TreeInv'
      BY <2>1, LinkKeepsTree
    <2>2. ASSUME ok, UNCHANGED ok, NEW i \in Inums, Unlink(i)
          PROVE  TreeInv'
      BY <2>2, UnlinkKeepsTree
    <2>3. CASE Broken
      BY <2>3 DEF Broken, TreeInv, NsTypeOK, ParentsAreLive, NamesUnique, RootStays
    <2>4. CASE UNCHANGED nsvars
      BY <2>4 DEF nsvars, TreeInv, NsTypeOK, ParentsAreLive, NamesUnique, RootStays,
                  IsDir
    <2> QED BY <2>1, <2>2, <2>3, <2>4 DEF Next
  <1> QED BY <1>1, <1>2, PTL DEF Spec

(***************************************************************************)
(* No entry is ever left in a directory that was removed                   *)
(* (refs.c:1312-1315).                                                     *)
(***************************************************************************)
THEOREM NoOrphans ==
    ASSUME Root \in Inums
    PROVE  Spec => []ParentsAreLive
  BY TreeInvariant, PTL DEF TreeInv

(***************************************************************************)
(* No directory ever has two entries of one name (refs.c:795-802).         *)
(***************************************************************************)
THEOREM NoDuplicateNames ==
    ASSUME Root \in Inums
    PROVE  Spec => []NamesUnique
  BY TreeInvariant, PTL DEF TreeInv

(***************************************************************************)
(* The root directory is never removed (refs.c:263).                       *)
(***************************************************************************)
THEOREM RootRemains ==
    ASSUME Root \in Inums
    PROVE  Spec => []RootStays
  BY TreeInvariant, PTL DEF TreeInv
=============================================================================
