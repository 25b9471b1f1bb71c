----------------------------- MODULE Directory ------------------------------
(***************************************************************************)
(* One block of directory entries: adding and removing them while a reader *)
(* lists them, buffer by buffer (refs_readdir), and what a name that fills *)
(* its whole field does to the entry after it.                             *)
(*                                                                         *)
(* Each readdir is one call of the file system, so changes fall between    *)
(* the calls of a listing.  The kernel passes on the offset that came with *)
(* the last entry it got, and stops at an answer without entries.          *)
(***************************************************************************)
EXTENDS Naturals, FiniteSets

CONSTANTS
    DirentsPerBlock,    \* DIRENTS_PER_BLOCK
    Names,              \* names that leave room for their terminator
    LongNames,          \* names of exactly MAX_PATH_LEN characters
    Inums,              \* the inode numbers the rest of the tree leaves free
    ByteRange,          \* the values of a byte of an inode number: 256
    Rooms,              \* how many entries a caller's buffer may take
    MaxChanges          \* bound: entries added and removed during one listing

ASSUME DirectoryAssumption ==
    /\ DirentsPerBlock \in Nat /\ DirentsPerBlock >= 2
    /\ {".", ".."} \cap (Names \cup LongNames) = {}
    /\ Inums \subseteq Nat
    /\ ByteRange \in Nat \ {0}
    /\ Rooms \subseteq Nat \ {0}
    /\ MaxChanges \in Nat

VARIABLES
    dirents,            \* the entries of the block
    reader,             \* "none", "reading" or, after the empty answer, "done"
    offset,             \* the offset of the reader's next call
    listed,             \* the names it got (history)
    again,              \* the names it got more than once (history)
    steady,             \* the names there during the whole listing (history)
    calls,              \* its calls, counted up to MaxCalls (history)
    adds, removals      \* changes during it (history)

reading == <<reader, offset, listed, again, calls>>
vars == <<dirents, reader, offset, listed, again, steady, calls, adds, removals>>

DirentIdx == 0 .. DirentsPerBlock - 1
Paths == Names \cup LongNames \cup {".", ".."}
dir_entry(i, n) == [is_valid |-> TRUE, inum |-> i, path |-> n]

MaxCalls == DirentsPerBlock + 1     \* bound: more than a listing takes

Valid == {s \in DirentIdx : dirents[s].is_valid}
Listable == {dirents[s].path : s \in Valid}
-----------------------------------------------------------------------------
(***************************************************************************)
(* strcpy of a name of MAX_PATH_LEN characters writes its terminator into  *)
(* the lowest byte of the next entry's inode number.                       *)
(***************************************************************************)
ClearLow(i) == (i \div ByteRange) * ByteRange

strcpy(d, s, n) ==
    [t \in DirentIdx |->
        IF t = s THEN [d[t] EXCEPT !.path = n]
        ELSE IF t = s + 1 /\ n \in LongNames THEN [d[t] EXCEPT !.inum = ClearLow(@)]
        ELSE d[t]]

(***************************************************************************)
(* Such a name ends where it should only while that byte is zero.          *)
(***************************************************************************)
Reads(s, n) ==
    /\ dirents[s].path = n
    /\ n \in LongNames => dirents[s + 1].inum % ByteRange = 0

Named(n) == {s \in Valid : Reads(s, n)}
FreeSlots == DirentIdx \ Valid

First(S) == CHOOSE s \in S : \A t \in S : s <= t

(***************************************************************************)
(* mkdir and mknod: the name is short enough and new; the entry takes the  *)
(* first free inode and the first free slot.  A long name in the last slot *)
(* would be written past the block: it is left out.                        *)
(***************************************************************************)
FreeInums == Inums \ {dirents[s].inum : s \in Valid}

update_parent_inode(n) ==
    LET s == First(FreeSlots)
        i == First(FreeInums)
    IN  /\ Named(n) = {} /\ FreeSlots # {} /\ FreeInums # {}
        /\ n \in LongNames => s + 1 \in DirentIdx
        /\ reader = "reading" => adds + removals < MaxChanges
        /\ dirents' = strcpy([dirents EXCEPT ![s] = dir_entry(i, n)], s, n)
        /\ adds' = IF reader = "reading" THEN adds + 1 ELSE adds
        /\ UNCHANGED <<reading, steady, removals>>

remove_child(n) ==
    LET s == First(Named(n))
    IN  /\ Named(n) # {}
        /\ reader = "reading" => adds + removals < MaxChanges
        /\ dirents' = [dirents EXCEPT ![s].is_valid = FALSE]
        /\ removals' = IF reader = "reading" THEN removals + 1 ELSE removals
        /\ steady' = steady \ {n}
        /\ UNCHANGED <<reading, adds>>
-----------------------------------------------------------------------------
(***************************************************************************)
(* The kernel begins a listing at offset 0.                                *)
(***************************************************************************)
OpenDir ==
    /\ reader \in {"none", "done"}
    /\ reader' = "reading"
    /\ offset' = 0
    /\ listed' = {} /\ again' = {}
    /\ steady' = Listable
    /\ calls' = 0 /\ adds' = 0 /\ removals' = 0
    /\ UNCHANGED dirents

(***************************************************************************)
(* num: how many valid entries come before a slot.                         *)
(***************************************************************************)
num(s) == Cardinality({t \in Valid : t < s})

(* Mutants: the comparison is off by one more. *)
ShownAfterNext == {s \in Valid : num(s) > offset + 1}

Shown == {s \in Valid : num(s) > offset}

(* Mutants of the offset that goes with an entry. *)
NextOffsetSame(n) == n
NextOffsetTwo(n) == n + 2
NextOffsetKept(n) == offset

NextOffset(n) == n + 1

(***************************************************************************)
(* The buffer takes the first entries shown; at the first one it has no    *)
(* room for, readdir returns.                                              *)
(***************************************************************************)
Given(room) == {s \in Shown : Cardinality({t \in Shown : t < s}) < room}

refs_readdir(room) ==
    LET got == Given(room)
        names == {dirents[s].path : s \in got}
        last == CHOOSE s \in got : \A t \in got : t <= s
    IN  /\ reader = "reading"
        /\ listed' = listed \cup names
        /\ again' = again \cup (listed \cap names)
        /\ offset' = IF got = {} THEN offset ELSE NextOffset(num(last))
        /\ reader' = IF got = {} THEN "done" ELSE "reading"
        /\ calls' = IF calls < MaxCalls THEN calls + 1 ELSE calls
        /\ UNCHANGED <<dirents, steady, adds, removals>>
-----------------------------------------------------------------------------
Init ==
    /\ dirents = [s \in DirentIdx |->
                    IF s = 0 THEN dir_entry(0, ".")
                    ELSE IF s = 1 THEN dir_entry(0, "..")
                    ELSE [is_valid |-> FALSE, inum |-> 0, path |-> "."]]
    /\ reader = "none" /\ offset = 0
    /\ listed = {} /\ again = {} /\ steady = {}
    /\ calls = 0 /\ adds = 0 /\ removals = 0

Change ==
    \E n \in Names \cup LongNames : update_parent_inode(n) \/ remove_child(n)

List == \E room \in Rooms : refs_readdir(room)

Next == OpenDir \/ List \/ Change

Spec == Init /\ [][Next]_vars

(***************************************************************************)
(* A reader that has begun keeps calling; nobody has to change anything.   *)
(***************************************************************************)
FairSpec == Spec /\ WF_vars(List)
-----------------------------------------------------------------------------
(***************************************************************************)
(* Types: no offset is beyond the number of entries (refs.c:894), and a    *)
(* listing takes at most one call for each.                                *)
(***************************************************************************)
DirectoryTypeOK ==
    /\ dirents \in [DirentIdx -> [is_valid : BOOLEAN, inum : Nat, path : Paths]]
    /\ reader \in {"none", "reading", "done"}
    /\ offset \in 0 .. DirentsPerBlock
    /\ again \subseteq listed /\ listed \subseteq Paths
    /\ calls \in 0 .. DirentsPerBlock
    /\ adds \in Nat /\ removals \in Nat /\ adds + removals <= MaxChanges

(***************************************************************************)
(* What a listing misses of the entries that are there all the time: one   *)
(* for each call, whose first entry the comparison of num with offset      *)
(* skips although the comment before refs_readdir rules it out (see        *)
(* UnreadAreCounted), and one for each entry removed meanwhile, which      *)
(* renumbers those after it.  Nothing else is missed (refs.c:874-905).     *)
(***************************************************************************)
MissesBounded ==
    reader = "done" => Cardinality(steady \ listed) <= calls + removals

(***************************************************************************)
(* An entry that is there all the time is listed once, unless two others   *)
(* were added into free slots before it: the first addition only undoes    *)
(* the skip (refs.c:711-716, 883-902).                                     *)
(***************************************************************************)
NoneTwice == adds < 2 => again \cap steady = {}

(***************************************************************************)
(* A listing ends, whatever is added and removed meanwhile: every answer   *)
(* but the last moves the offset on (refs.c:894).                          *)
(***************************************************************************)
ListingEnds == reader = "reading" ~> reader = "done"
-----------------------------------------------------------------------------
(***************************************************************************)
(* "the offset determines the number of valid directories that aren't      *)
(* read", and these are "the first offset directories" (refs.c:844-847):   *)
(* the answer that ends a listing is empty because the directory has no    *)
(* more than offset entries.  The code does not keep this claim:           *)
(* it does not read the entry after them either (refs.c:883), although the *)
(* offset that the filler got already counts the last one read (refs.c:894)*)
(***************************************************************************)
UnreadAreCounted ==
    [][ reader = "reading" /\ reader' = "done" => Cardinality(Valid) <= offset ]_vars

(***************************************************************************)
(* A name has room for its terminator in its entry, "MAX_PATH_LEN-1 is     *)
(* usable (we store `\0`)" (refs.h:100), so an entry that stays denotes    *)
(* the same inode.  The code, which lets MAX_PATH_LEN characters through   *)
(* (refs.c:790, 1412), does not keep this claim.                           *)
(***************************************************************************)
EntriesKeepInodes ==
    [][ \A s \in DirentIdx :
            /\ dirents[s].is_valid /\ dirents'[s].is_valid
            /\ dirents[s].path = dirents'[s].path
            => dirents[s].inum = dirents'[s].inum ]_vars
=============================================================================
