---------------------------- MODULE AccessProofs ----------------------------
(***************************************************************************)
(* Permissions, for all callers and modes: what refs_access grants, and    *)
(* that what open granted is what the calls on the handle ask for.         *)
(***************************************************************************)
EXTENDS Access, TLAPS

(***************************************************************************)
(* Everything granted is granted by a class the caller is in, and every    *)
(* such class grants all of its permissions (refs.c:657-692).              *)
(***************************************************************************)
LEMMA ClassesAddUp ==
    ASSUME NEW c, NEW ino
    PROVE  /\ \A p \in allowed_mode(c, ino) :
                 \E k \in Classes : InClass(c, ino, k) /\ p \in ino.mode[k]
           /\ \A k \in Classes : InClass(c, ino, k) =>
                 ino.mode[k] \subseteq allowed_mode(c, ino)
  BY DEF allowed_mode

(***************************************************************************)
(* refs_access refuses nothing that POSIX grants, and grants strangers     *)
(* nothing more, whatever the modes and the ids are (refs.c:636-695).      *)
(***************************************************************************)
THEOREM AccessGrantsPosix == Spec => []ClassesAgree
  <1>1. ASSUME NEW c, NEW ino, NEW mask, PosixAllows(c, ino, mask)
        PROVE  refs_access(c, ino, mask)
    <2>1. PosixClass(c, ino) \in Classes /\ InClass(c, ino, PosixClass(c, ino))
      BY DEF PosixClass, Classes, InClass
    <2> QED BY <1>1, <2>1, ClassesAddUp DEF PosixAllows, refs_access
  <1>2. ASSUME NEW c, NEW ino, NEW mask, PosixClass(c, ino) = "other",
               refs_access(c, ino, mask)
        PROVE  PosixAllows(c, ino, mask)
    <2>1. \A k \in Classes : InClass(c, ino, k) => k = "other"
      BY <1>2 DEF PosixClass, InClass
    <2> QED BY <1>2, <2>1, ClassesAddUp DEF PosixAllows, refs_access
  <1>3. ClassesAgree
    BY <1>1, <1>2 DEF ClassesAgree
  <1> QED BY <1>3, PTL
-----------------------------------------------------------------------------
(***************************************************************************)
(* Why the checks fit together: an open handle's file has what its flags   *)
(* asked for, and a file that came with its handle belongs to the caller.  *)
(***************************************************************************)
InodeType == [exists : {TRUE}, uid : Nat, gid : Nat, mode : Modes]
HandleType == [how : {"open", "create", "chmod"}, caller : Callers, flags : Flags]

HandleInv ==
    /\ file \in InodeType \/ file = Absent
    /\ handle \in HandleType \/ handle = NoHandle
    /\ handle.how = "open" => refs_access(handle.caller, file, req_mode(handle.flags))
    /\ handle.how = "create" => file \in InodeType /\ file.uid = handle.caller.uid

LEMMA HandleInvariant == Spec => []HandleInv
  <1>1. Init => HandleInv
    BY DEF Init, HandleInv, NoHandle
  <1>2. ASSUME HandleInv, [Next]_vars PROVE HandleInv'
    <2>0. /\ "open" # "create" /\ "open" # "closed" /\ "create" # "closed"
          /\ "chmod" # "open" /\ "chmod" # "create"
      OBVIOUS
    <2>1. ASSUME NEW c \in Callers, NEW fl \in Flags, NEW m \in FileModes,
                 refs_create(c, fl, m)
          PROVE  HandleInv'
      <3>1. /\ file' \in InodeType /\ file'.uid = c.uid
        BY <2>1, AccessAssumption DEF refs_create, reserve_inode, InodeType
      <3>2. handle' \in HandleType /\ handle'.how = "create" /\ handle'.caller = c
        BY <2>1 DEF refs_create, HandleType
      <3> QED BY <3>1, <3>2 DEF HandleInv
    <2>2. ASSUME NEW c \in Callers, NEW fl \in Flags, refs_open(c, fl)
          PROVE  HandleInv'
      <3>1. /\ handle' \in HandleType /\ handle'.how = "open"
            /\ handle'.caller = c /\ handle'.flags = fl /\ file' = file
            /\ refs_access(c, file, req_mode(fl))
        BY <2>2 DEF refs_open, HandleType
      <3>2. refs_access(c, file, req_mode(fl))'
        BY <3>1 DEF refs_access, allowed_mode, req_mode, InClass
      <3>3. refs_access(handle.caller, file, req_mode(handle.flags))'
        BY <3>1, <3>2 DEF refs_access, allowed_mode, req_mode, InClass
      <3>4. (file \in InodeType \/ file = Absent)'
        BY <1>2, <3>1 DEF HandleInv, InodeType, Absent
      <3>5. handle'.how # "create"
        BY <3>1, <2>0
      <3> QED BY <3>1, <3>3, <3>4, <3>5 DEF HandleInv
    <2>3. CASE refs_release
      BY <1>2, <2>3 DEF refs_release, HandleInv, NoHandle
    <2>4. CASE refs_unlink
      BY <1>2, <2>4 DEF refs_unlink, HandleInv, NoHandle
    <2>5. ASSUME NEW m \in FileModes, ChmodFile(m) PROVE HandleInv'
      <3>1. file' \in InodeType
        <4>1. file \in InodeType
          BY <1>2, <2>5 DEF ChmodFile, HandleInv, Absent
        <4>2. file' = [file EXCEPT !.mode = m] /\ m \in Modes
          BY <2>5, AccessAssumption DEF ChmodFile
        <4> QED BY <4>1, <4>2 DEF InodeType
      <3>2. \/ handle' \in HandleType /\ handle'.how = "chmod"
            \/ handle' = NoHandle
        <4>1. CASE handle = NoHandle
          BY <2>5, <4>1 DEF ChmodFile
        <4>2. CASE handle \in HandleType /\ handle # NoHandle
          <5>1. handle' = [handle EXCEPT !.how = "chmod"]
            BY <2>5, <4>2 DEF ChmodFile
          <5> QED BY <4>2, <5>1 DEF HandleType
        <4> QED BY <1>2, <4>1, <4>2 DEF HandleInv
      <3>3. handle'.how = "chmod" \/ handle'.how = "closed"
        BY <3>2 DEF NoHandle
      <3> QED BY <3>1, <3>2, <3>3 DEF HandleInv
    <2>6. CASE (\E m \in DirModes : ChmodDir(m)) \/ UNCHANGED vars
      <3>1. file' = file /\ handle' = handle
        BY <1>2, <2>6 DEF ChmodDir, vars
      <3> QED BY <1>2, <3>1 DEF HandleInv, refs_access, allowed_mode, req_mode, InClass
    <2> QED BY <1>2, <2>1, <2>2, <2>3, <2>4, <2>5, <2>6 DEF Next
  <1> QED BY <1>1, <1>2, PTL DEF Spec

(***************************************************************************)
(* While nobody changes the mode, a handle that was opened is refused no   *)
(* read or write it was opened for, and one that came with the file only   *)
(* what the file's mode denies its owner (refs.c:1432, 1460-1472).         *)
(***************************************************************************)
THEOREM OpenedIsUsable == Spec => []OpenedCanBeUsed
  <1>1. ASSUME HandleInv PROVE OpenedCanBeUsed
    <2>1. ASSUME handle.how = "open"
          PROVE  Needs(handle.flags) \subseteq Grants(handle.caller)
      <3>1. /\ handle \in HandleType
            /\ req_mode(handle.flags) \subseteq allowed_mode(handle.caller, file)
        BY <1>1, <2>1 DEF HandleInv, NoHandle, refs_access
      <3>2. handle.flags \in Flags
        BY <3>1 DEF HandleType
      <3>3. Needs(handle.flags) \subseteq req_mode(handle.flags)
        BY <3>2 DEF Flags, Needs, req_mode, O_RDONLY, O_WRONLY, O_RDWR
      <3>4. Needs(handle.flags) \subseteq {"r", "w"}
        BY DEF Needs
      <3> QED BY <3>1, <3>3, <3>4 DEF Grants, CanRead, CanWrite, refs_access
    <2>2. ASSUME handle.how = "create"
          PROVE  Needs(handle.flags) \cap file.mode["owner"] \subseteq Grants(handle.caller)
      <3>1. file.uid = handle.caller.uid
        BY <1>1, <2>2 DEF HandleInv
      <3>2. file.mode["owner"] \subseteq allowed_mode(handle.caller, file)
        BY <3>1, ClassesAddUp DEF Classes, InClass
      <3>3. Needs(handle.flags) \subseteq {"r", "w"}
        BY DEF Needs
      <3> QED BY <3>2, <3>3 DEF Grants, CanRead, CanWrite, refs_access
    <2> QED BY <2>1, <2>2 DEF OpenedCanBeUsed
  <1> QED BY <1>1, HandleInvariant, PTL
=============================================================================
