--------------------------- MODULE DirectoryProofs ---------------------------
(***************************************************************************)
(* Listing a directory that changes, for every size of the block and every *)
(* number of changes: what a reader misses, and what it gets twice.        *)
(*                                                                         *)
(* The argument counts the names that are LOST: there all the time, not    *)
(* listed, and numbered below the offset.  Only one valid slot has the     *)
(* number of the offset, so a call and a removal each lose one at most.    *)
(***************************************************************************)
EXTENDS Directory, FiniteSetTheorems, TLAPS

Slots(n) == {s \in Valid : dirents[s].path = n}
Lost == {n \in steady \ listed : \A s \in Slots(n) : num(s) < offset}

ListInv ==
    /\ DirectoryTypeOK
    /\ steady \subseteq Listable
    /\ reader = "reading" => 2 * calls <= offset
    /\ reader = "reading" => Cardinality(Lost) <= calls + removals
    /\ MissesBounded

(***************************************************************************)
(* With names that fit, no two entries have the same one, and a name that  *)
(* was listed is numbered below the offset, but for what was added.        *)
(***************************************************************************)
OnceInv ==
    /\ \A s, t \in Valid : dirents[s].path = dirents[t].path => s = t
    /\ reader = "reading" =>
          \A s \in Valid : dirents[s].path \in steady \cap listed =>
              num(s) + 1 <= offset + adds
    /\ NoneTwice
-----------------------------------------------------------------------------
(***************************************************************************)
(* First is the least slot or inode number of a set.  The intervals up to  *)
(* its elements have a smallest one under inclusion.                       *)
(***************************************************************************)
LEMMA FirstIsMin ==
    ASSUME NEW S \in SUBSET Nat, S # {}
    PROVE  First(S) \in S /\ \A t \in S : First(S) <= t
  <1> DEFINE T == {0 .. i : i \in S}
             R == StrictSubsetOrdering(Nat)
  <1>1. T \subseteq FiniteSubsetsOf(Nat) /\ T # {}
    <2>1. ASSUME NEW i \in S PROVE 0 .. i \in SUBSET Nat /\ IsFiniteSet(0 .. i)
      BY FS_Interval
    <2> QED BY <2>1 DEF FiniteSubsetsOf
  <1>2. \E x \in T : \A y \in T : ~ (<<y, x>> \in R)
    <2> HIDE DEF R, T
    <2>1. IsWellFoundedOn(R, FiniteSubsetsOf(Nat))
      BY FS_StrictSubsetOrderingWellFounded DEF R
    <2> QED BY <1>1, <2>1, WFMin
  <1>3. PICK x \in S : \A y \in S : ~ (<<0 .. y, 0 .. x>> \in R)
    BY <1>2
  <1>4. ASSUME NEW y \in S PROVE x <= y
    <2>1. SUFFICES ASSUME y < x PROVE FALSE
      OBVIOUS
    <2>2. 0 .. y \subseteq 0 .. x /\ x \in 0 .. x /\ x \notin 0 .. y
      BY <2>1
    <2>3. <<0 .. y, 0 .. x>> \in R
      BY <2>2 DEF StrictSubsetOrdering
    <2> QED BY <1>3, <2>3
  <1> QED BY <1>4 DEF First

LEMMA SlotNumbers ==
    /\ DirentsPerBlock \in Nat /\ DirentsPerBlock >= 2
    /\ \A s \in DirentIdx : s \in Nat /\ s <= DirentsPerBlock - 1
    /\ \A s \in Nat : s <= DirentsPerBlock - 1 => s \in DirentIdx
  <1>1. DirentsPerBlock \in Nat /\ DirentsPerBlock >= 2
    BY DirectoryAssumption
  <1> QED BY <1>1 DEF DirentIdx

(***************************************************************************)
(* A set of slots that is not empty has a last one.                        *)
(***************************************************************************)
LEMMA HasLast ==
    ASSUME NEW S \in SUBSET DirentIdx, S # {}
    PROVE  \E s \in S : \A t \in S : t <= s
  <1> DEFINE T == {DirentsPerBlock - s : s \in S}
  <1>1. T \in SUBSET Nat /\ T # {}
    BY SlotNumbers
  <1>2. PICK k \in T : \A j \in T : k <= j
    BY <1>1, FirstIsMin
  <1>3. PICK s \in S : k = DirentsPerBlock - s
    BY <1>2
  <1>4. ASSUME NEW t \in S PROVE t <= s
    <2>1. DirentsPerBlock - s <= DirentsPerBlock - t
      BY <1>2, <1>3
    <2> QED BY <2>1, SlotNumbers
  <1> QED BY <1>4

(***************************************************************************)
(* num, as a function of the set of valid slots.                           *)
(***************************************************************************)
Rank(S, s) == Cardinality({t \in S : t < s})

LEMMA Ranks ==
    ASSUME NEW S \in SUBSET DirentIdx
    PROVE  /\ \A s \in DirentIdx : Rank(S, s) \in 0 .. s
           /\ \A s \in S, t \in DirentIdx : s < t => Rank(S, s) + 1 <= Rank(S, t)
           /\ \A s, t \in S : Rank(S, s) <= Rank(S, t) <=> s <= t
           /\ \A s, t \in S : Rank(S, s) = Rank(S, t) => s = t
  <1> DEFINE B(s) == {t \in S : t < s}
  <1>1. ASSUME NEW s \in DirentIdx
        PROVE  IsFiniteSet(B(s)) /\ Cardinality(B(s)) \in 0 .. s
    <2>1. s \in Nat /\ \A t \in B(s) : t \in 0 .. s - 1
      BY SlotNumbers
    <2>2. B(s) \in SUBSET (0 .. s - 1)
      BY <2>1
    <2>3. 0 \in Int /\ s - 1 \in Int /\ s - 1 - 0 + 1 = s /\ (0 > s - 1 => s = 0)
      BY <2>1
    <2>4. IsFiniteSet(0 .. s - 1) /\ Cardinality(0 .. s - 1) = s
      BY <2>3, FS_Interval
    <2>5. IsFiniteSet(B(s)) /\ Cardinality(B(s)) <= s
      BY <2>2, <2>4, FS_Subset
    <2> QED BY <2>1, <2>5, FS_CardinalityType
  <1>2. ASSUME NEW s \in S, NEW t \in DirentIdx, s < t
        PROVE  Cardinality(B(s)) + 1 <= Cardinality(B(t))
    <2>1. s \in Nat /\ t \in Nat
      BY SlotNumbers
    <2>2. B(s) \cup {s} \in SUBSET B(t) /\ s \notin B(s)
      <3>1. \A r \in S : r \in Nat
        BY SlotNumbers
      <3>2. \A r \in B(s) : r \in S /\ r < t
        BY <1>2, <2>1, <3>1
      <3>3. ~ (s < s)
        BY <2>1
      <3> QED BY <1>2, <3>2, <3>3
    <2>3. Cardinality(B(s) \cup {s}) = Cardinality(B(s)) + 1
      BY <1>1, <2>2, FS_AddElement
    <2>4. Cardinality(B(s) \cup {s}) <= Cardinality(B(t))
      BY <1>1, <2>2, FS_Subset
    <2> QED BY <2>3, <2>4
  <1>3. \A s \in DirentIdx : Rank(S, s) \in 0 .. s
    BY <1>1 DEF Rank
  <1>4. \A s \in S, t \in DirentIdx : s < t => Rank(S, s) + 1 <= Rank(S, t)
    BY <1>2 DEF Rank
  <1>5. ASSUME NEW s \in S, NEW t \in S
        PROVE  /\ Rank(S, s) <= Rank(S, t) <=> s <= t
               /\ Rank(S, s) = Rank(S, t) => s = t
    <2>1. s \in Nat /\ t \in Nat /\ Rank(S, s) \in Nat /\ Rank(S, t) \in Nat
      BY <1>3, SlotNumbers
    <2>2. /\ s < t => Rank(S, s) + 1 <= Rank(S, t)
          /\ t < s => Rank(S, t) + 1 <= Rank(S, s)
      BY <1>4
    <2> QED BY <2>1, <2>2
  <1> QED BY <1>3, <1>4, <1>5

(***************************************************************************)
(* One slot more moves the number of another by one at most.               *)
(***************************************************************************)
LEMMA OneSlotMore ==
    ASSUME NEW S \in SUBSET DirentIdx, NEW x \in DirentIdx, NEW s \in DirentIdx
    PROVE  /\ Rank(S, s) <= Rank(S \cup {x}, s)
           /\ Rank(S \cup {x}, s) <= Rank(S, s) + 1
  <1> DEFINE B == {t \in S : t < s}
             C == {t \in S \cup {x} : t < s}
  <1>1. IsFiniteSet(B)
    <2>1. s \in Nat /\ \A t \in B : t \in 0 .. s - 1
      BY SlotNumbers
    <2>2. B \in SUBSET (0 .. s - 1)
      BY <2>1
    <2>3. IsFiniteSet(0 .. s - 1)
      BY <2>1, FS_Interval
    <2> QED BY <2>2, <2>3, FS_Subset
  <1>2. C = B \/ C = B \cup {x}
    OBVIOUS
  <1>3. /\ Cardinality(B) \in Nat
        /\ Cardinality(C) = Cardinality(B) \/ Cardinality(C) = Cardinality(B) + 1
    BY <1>1, <1>2, FS_AddElement, FS_CardinalityType
  <1> QED BY <1>3 DEF Rank
-----------------------------------------------------------------------------
(***************************************************************************)
(* What the operations do to the entries.  Adding one may clear a byte of  *)
(* another's inode number, never its name (strcpy, refs.c:719).            *)
(***************************************************************************)
LEMMA ValidSlots ==
    /\ Valid \in SUBSET DirentIdx
    /\ \A s \in DirentIdx : num(s) = Rank(Valid, s)
    /\ \A s, t \in Valid : num(s) = num(t) => s = t
    /\ \A s, t \in Valid : num(s) <= num(t) <=> s <= t
    /\ \A s \in DirentIdx : num(s) \in Nat /\ num(s) <= s
  <1>1. Valid \in SUBSET DirentIdx
    BY DEF Valid
  <1>2. \A s \in DirentIdx : num(s) = Rank(Valid, s)
    BY DEF num, Rank
  <1>3. /\ \A s \in DirentIdx : Rank(Valid, s) \in 0 .. s
        /\ \A s, t \in Valid : Rank(Valid, s) <= Rank(Valid, t) <=> s <= t
        /\ \A s, t \in Valid : Rank(Valid, s) = Rank(Valid, t) => s = t
    BY <1>1, Ranks
  <1>4. \A s \in DirentIdx : num(s) \in Nat /\ num(s) <= s
    BY <1>2, <1>3, SlotNumbers
  <1> QED BY <1>1, <1>2, <1>3, <1>4

LEMMA AddedEntry ==
    ASSUME DirectoryTypeOK, NEW n \in Names \cup LongNames, update_parent_inode(n)
    PROVE  /\ DirectoryTypeOK'
           /\ \E x \in DirentIdx \ Valid :
                 /\ Valid' = Valid \cup {x}
                 /\ dirents'[x].path = n
                 /\ \A s \in Valid : dirents'[s].path = dirents[s].path
  <1> DEFINE Entry == [is_valid : BOOLEAN, inum : Nat, path : Paths]
             x == First(FreeSlots)
             i == First(FreeInums)
             d == [dirents EXCEPT ![x] = dir_entry(i, n)]
  <1>1. x \in DirentIdx \ Valid
    <2>1. FreeSlots \in SUBSET Nat /\ FreeSlots # {}
      BY SlotNumbers DEF update_parent_inode, FreeSlots
    <2>2. First(FreeSlots) \in FreeSlots
      BY <2>1, FirstIsMin
    <2> QED BY <2>2 DEF FreeSlots
  <1>2. i \in Nat
    <2>1. FreeInums \in SUBSET Nat /\ FreeInums # {}
      BY DirectoryAssumption DEF update_parent_inode, FreeInums
    <2> QED BY <2>1, FirstIsMin
  <1>3. dirents' = strcpy(d, x, n)
    BY DEF update_parent_inode
  <1> HIDE DEF x, i
  <1>4. n \in Paths
    BY DEF Paths
  <1>5. d \in [DirentIdx -> Entry]
    <2>1. dir_entry(i, n) \in Entry
      BY <1>2, <1>4 DEF dir_entry
    <2>2. dirents \in [DirentIdx -> Entry]
      BY DEF DirectoryTypeOK
    <2> QED BY <2>1, <2>2
  <1>6. ASSUME NEW t \in DirentIdx
        PROVE  /\ dirents'[t] \in Entry
               /\ dirents'[t].is_valid = d[t].is_valid
               /\ dirents'[t].path = IF t = x THEN n ELSE d[t].path
    <2>1. d[t] \in Entry
      BY <1>5
    <2>2. ClearLow(d[t].inum) \in Nat
      <3>1. d[t].inum \in Nat /\ ByteRange \in Nat /\ ByteRange > 0
        BY <2>1, DirectoryAssumption
      <3>2. d[t].inum \div ByteRange \in Nat
        BY <3>1
      <3> QED BY <3>1, <3>2 DEF ClearLow
    <2> HIDE DEF d
    <2>3. dirents'[t] = IF t = x THEN [d[t] EXCEPT !.path = n]
                        ELSE IF t = x + 1 /\ n \in LongNames
                             THEN [d[t] EXCEPT !.inum = ClearLow(d[t].inum)] ELSE d[t]
      BY <1>3 DEF strcpy
    <2> QED BY <1>4, <2>1, <2>2, <2>3
  <1>7. dirents' \in [DirentIdx -> Entry]
    <2>1. dirents' = [t \in DirentIdx |-> dirents'[t]]
      BY <1>3 DEF strcpy
    <2> QED BY <1>6, <2>1
  <1>8. Valid' = Valid \cup {x}
    BY <1>1, <1>6 DEF Valid, dir_entry, DirectoryTypeOK
  <1>9. \A s \in Valid : dirents'[s].path = dirents[s].path
    BY <1>1, <1>6 DEF Valid, DirectoryTypeOK
  <1>10. dirents'[x].path = n
    BY <1>1, <1>6
  <1>11. DirectoryTypeOK'
    <2> HIDE DEF d
    <2>1. /\ adds \in Nat /\ removals \in Nat /\ adds + removals <= MaxChanges
          /\ MaxChanges \in Nat
      BY DirectoryAssumption DEF DirectoryTypeOK
    <2>2. /\ adds' \in Nat /\ adds' + removals <= MaxChanges
          /\ UNCHANGED <<reader, offset, listed, again, calls, removals>>
      BY <2>1 DEF update_parent_inode, reading
    <2> QED BY <1>7, <2>1, <2>2 DEF DirectoryTypeOK
  <1> QED BY <1>1, <1>8, <1>9, <1>10, <1>11

LEMMA RemovedEntry ==
    ASSUME DirectoryTypeOK, NEW n \in Names \cup LongNames, remove_child(n)
    PROVE  /\ DirectoryTypeOK'
           /\ \E x \in Valid :
                 /\ dirents[x].path = n
                 /\ Valid' = Valid \ {x}
                 /\ \A s \in Valid' : dirents'[s].path = dirents[s].path
  <1> DEFINE x == First(Named(n))
  <1>1. x \in Valid /\ dirents[x].path = n
    <2>1. Named(n) \in SUBSET Nat /\ Named(n) # {}
      BY SlotNumbers DEF remove_child, Named, Valid
    <2>2. First(Named(n)) \in Named(n)
      BY <2>1, FirstIsMin
    <2> QED BY <2>2 DEF Named, Reads
  <1>2. dirents' = [dirents EXCEPT ![x].is_valid = FALSE]
    BY DEF remove_child
  <1> HIDE DEF x
  <1>3. /\ dirents' \in [DirentIdx -> [is_valid : BOOLEAN, inum : Nat, path : Paths]]
        /\ Valid' = Valid \ {x}
        /\ \A s \in Valid' : dirents'[s].path = dirents[s].path
    BY <1>1, <1>2 DEF DirectoryTypeOK, Valid
  <1>4. /\ removals' \in Nat /\ adds + removals' <= MaxChanges
        /\ UNCHANGED <<reader, offset, listed, again, calls, adds>>
    BY DirectoryAssumption DEF DirectoryTypeOK, remove_child, reading
  <1> QED BY <1>1, <1>3, <1>4 DEF DirectoryTypeOK

(***************************************************************************)
(* An answer without entries leaves nothing above the offset; any other    *)
(* has a last entry and gives every one up to it (refs.c:883-902).         *)
(***************************************************************************)
LEMMA Answer ==
    ASSUME NEW room \in Rooms
    PROVE  /\ Given(room) \in SUBSET Shown /\ Shown \in SUBSET Valid
           /\ Given(room) = {} => Shown = {}
           /\ Given(room) # {} =>
                 LET last == CHOOSE s \in Given(room) : \A t \in Given(room) : t <= s
                 IN  /\ last \in Given(room)
                     /\ \A t \in Given(room) : t <= last
                     /\ \A t \in Shown : t <= last => t \in Given(room)
  <1>1. Given(room) \in SUBSET Shown /\ Shown \in SUBSET Valid /\ Shown \in SUBSET DirentIdx
    BY DEF Given, Shown, Valid
  <1>2. room \in Nat /\ room > 0
    BY DirectoryAssumption
  <1>3. \A s \in DirentIdx : Rank(Shown, s) \in Nat
    <2>1. \A s \in DirentIdx : Rank(Shown, s) \in 0 .. s
      BY <1>1, Ranks
    <2> QED BY <2>1, SlotNumbers
  <1>4. Given(room) = {s \in Shown : Rank(Shown, s) < room}
    BY DEF Given, Rank
  <1>5. ASSUME Shown # {} PROVE Given(room) # {}
    <2>1. Shown \in SUBSET Nat
      BY <1>1, SlotNumbers
    <2>2. First(Shown) \in Shown /\ \A t \in Shown : First(Shown) <= t
      BY <1>5, <2>1, FirstIsMin
    <2>3. \A t \in Shown : t \in Nat
      BY <2>1
    <2>4. {t \in Shown : t < First(Shown)} = {}
      BY <2>2, <2>3
    <2>5. Rank(Shown, First(Shown)) = 0
      BY <2>4, FS_EmptySet DEF Rank
    <2> QED BY <1>2, <1>4, <2>2, <2>5
  <1>6. ASSUME Given(room) # {}
        PROVE  LET last == CHOOSE s \in Given(room) : \A t \in Given(room) : t <= s
               IN  /\ last \in Given(room)
                   /\ \A t \in Given(room) : t <= last
                   /\ \A t \in Shown : t <= last => t \in Given(room)
    <2> DEFINE last == CHOOSE s \in Given(room) : \A t \in Given(room) : t <= s
    <2>1. last \in Given(room) /\ \A t \in Given(room) : t <= last
      <3>1. \E s \in Given(room) : \A t \in Given(room) : t <= s
        BY <1>1, <1>6, HasLast
      <3> QED BY <3>1
    <2> HIDE DEF last
    <2>2. ASSUME NEW t \in Shown, t <= last PROVE t \in Given(room)
      <3>1. Rank(Shown, t) <= Rank(Shown, last)
        BY <1>1, <2>1, <2>2, Ranks
      <3>2. Rank(Shown, last) < room
        BY <1>4, <2>1
      <3> QED BY <1>1, <1>2, <1>3, <1>4, <2>1, <3>1, <3>2
    <2> QED BY <2>1, <2>2 DEF last
  <1> QED BY <1>1, <1>5, <1>6
-----------------------------------------------------------------------------
(***************************************************************************)
(* The names there all the time are as many as there are slots at most, so *)
(* those that are lost can be counted; one more name is one more at most.  *)
(***************************************************************************)
LEMMA NamesAreFinite ==
    ASSUME steady \subseteq Listable
    PROVE  IsFiniteSet(steady) /\ IsFiniteSet(steady \ listed) /\ IsFiniteSet(Lost)
  <1>1. IsFiniteSet(Valid)
    <2>1. 0 \in Int /\ DirentsPerBlock - 1 \in Int
      BY SlotNumbers
    <2>2. IsFiniteSet(DirentIdx)
      BY <2>1, FS_Interval DEF DirentIdx
    <2> QED BY <2>2, ValidSlots, FS_Subset
  <1>2. IsFiniteSet(Listable)
    <2> DEFINE f == [s \in Valid |-> dirents[s].path]
    <2>1. f \in Surjection(Valid, Listable)
      BY DEF Surjection, Listable
    <2> QED BY <1>1, <2>1, FS_Surjection
  <1>3. steady \in SUBSET Listable
    OBVIOUS
  <1>4. IsFiniteSet(steady)
    BY <1>2, <1>3, FS_Subset
  <1>5. steady \ listed \in SUBSET steady /\ Lost \in SUBSET steady
    BY DEF Lost
  <1> QED BY <1>4, <1>5, FS_Subset

LEMMA OneMore ==
    ASSUME NEW S, IsFiniteSet(S), NEW e, NEW T, T \subseteq S \cup {e}
    PROVE  /\ Cardinality(S) \in Nat /\ Cardinality(T) \in Nat
           /\ Cardinality(T) <= Cardinality(S) + 1
  <1>1. IsFiniteSet(S \cup {e}) /\ Cardinality(S \cup {e}) <= Cardinality(S) + 1
    <2>1. Cardinality(S) \in Nat
      BY FS_CardinalityType
    <2>2. /\ IsFiniteSet(S \cup {e})
          /\ Cardinality(S \cup {e}) = IF e \in S THEN Cardinality(S) ELSE Cardinality(S) + 1
      BY FS_AddElement
    <2> QED BY <2>1, <2>2
  <1>2. IsFiniteSet(T) /\ Cardinality(T) <= Cardinality(S \cup {e})
    BY <1>1, FS_Subset
  <1>3. /\ Cardinality(S) \in Nat /\ Cardinality(T) \in Nat
        /\ Cardinality(S \cup {e}) \in Nat
    BY <1>1, <1>2, FS_CardinalityType
  <1> QED BY <1>1, <1>2, <1>3

LEMMA NotMore ==
    ASSUME NEW S, IsFiniteSet(S), NEW T, T \subseteq S
    PROVE  /\ Cardinality(S) \in Nat /\ Cardinality(T) \in Nat
           /\ Cardinality(T) <= Cardinality(S)
  BY FS_Subset, FS_CardinalityType

(***************************************************************************)
(* The one name that a step may lose: that of the slot at the offset.      *)
(***************************************************************************)
AtOffset == CHOOSE s \in Valid : num(s) = offset

LEMMA OneAtOffset ==
    \A s \in Valid : num(s) = offset => s = AtOffset
  BY ValidSlots DEF AtOffset

(***************************************************************************)
(* A call: the names it passes by are at the offset or given.              *)
(***************************************************************************)
LEMMA ReadLosesOne ==
    ASSUME ListInv, NEW room \in Rooms, refs_readdir(room)
    PROVE  ListInv'
  <1> DEFINE got == Given(room)
             names == {dirents[s].path : s \in got}
             last == CHOOSE s \in got : \A t \in got : t <= s
  <1>1. /\ reader = "reading" /\ UNCHANGED <<dirents, steady, adds, removals>>
        /\ listed' = listed \cup names /\ again' = again \cup (listed \cap names)
        /\ reader' = IF got = {} THEN "done" ELSE "reading"
        /\ offset' = IF got = {} THEN offset ELSE num(last) + 1
        /\ calls' = IF calls < MaxCalls THEN calls + 1 ELSE calls
    BY DEF refs_readdir, NextOffset
  <1>2. /\ got \in SUBSET Shown /\ Shown \in SUBSET Valid /\ Valid \in SUBSET DirentIdx
        /\ got = {} => Shown = {}
        /\ got # {} => /\ last \in got
                       /\ \A t \in got : t <= last
                       /\ \A t \in Shown : t <= last => t \in got
    BY Answer, ValidSlots
  <1>3. /\ DirectoryTypeOK /\ offset \in Nat /\ offset <= DirentsPerBlock
        /\ calls \in Nat /\ removals \in Nat /\ 2 * calls <= offset
        /\ DirentsPerBlock \in Nat /\ DirentsPerBlock >= 2
        /\ steady \subseteq Listable
        /\ Cardinality(Lost) <= calls + removals
    BY <1>1, SlotNumbers DEF ListInv, DirectoryTypeOK
  <1> HIDE DEF got, last
  <1>4. calls' = calls + 1
    BY <1>1, <1>3 DEF MaxCalls
  <1>5. got # {} => /\ num(last) > offset /\ num(last) \in Nat
                    /\ num(last) <= DirentsPerBlock - 1
    BY <1>2, <1>3, ValidSlots, SlotNumbers DEF Shown
  <1>6. DirectoryTypeOK'
    <2>1. names \subseteq Paths
      BY <1>2, <1>3 DEF DirectoryTypeOK
    <2>2. offset' \in 0 .. DirentsPerBlock
      BY <1>1, <1>3, <1>5
    <2>3. calls' \in 0 .. DirentsPerBlock
      BY <1>3, <1>4
    <2>4. again' \subseteq listed' /\ listed' \subseteq Paths
      BY <1>1, <1>3, <2>1 DEF DirectoryTypeOK
    <2>5. reader' \in {"none", "reading", "done"}
      BY <1>1
    <2> QED BY <1>1, <1>3, <2>2, <2>3, <2>4, <2>5 DEF DirectoryTypeOK
  <1>7. (steady \subseteq Listable)'
    BY <1>1, <1>3 DEF Listable, Valid
  <1>8. reader' = "reading" => 2 * calls' <= offset'
    BY <1>1, <1>3, <1>4, <1>5
  <1>9. reader' = "reading" => Cardinality(Lost') <= calls' + removals'
    <2>1. SUFFICES ASSUME got # {} PROVE Cardinality(Lost') <= calls' + removals'
      BY <1>1
    <2>2. ASSUME NEW n \in Lost', n \notin Lost PROVE n = dirents[AtOffset].path
      <3>1. /\ n \in steady /\ n \notin listed /\ n \notin names
            /\ \A s \in Slots(n) : num(s) < offset'
        BY <1>1, <2>2 DEF Lost, Slots, num, Valid
      <3>2. PICK s \in Slots(n) : ~(num(s) < offset)
        BY <2>2, <3>1 DEF Lost
      <3>3. s \in Valid /\ dirents[s].path = n /\ num(s) \in Nat
        BY <1>2, <3>2, ValidSlots DEF Slots
      <3>4. num(s) <= num(last)
        BY <1>1, <1>5, <2>1, <3>1, <3>2, <3>3
      <3>5. ASSUME num(s) > offset PROVE FALSE
        <4>1. s \in Shown
          BY <3>3, <3>5 DEF Shown
        <4>2. s <= last
          BY <1>2, <2>1, <3>3, <3>4, ValidSlots
        <4>3. s \in got
          BY <1>2, <2>1, <4>1, <4>2
        <4> QED BY <3>1, <3>3, <4>3
      <3>6. num(s) = offset
        BY <1>3, <3>2, <3>3, <3>5
      <3> QED BY <3>3, <3>6, OneAtOffset
    <2>3. Lost' \subseteq Lost \cup {dirents[AtOffset].path}
      BY <2>2
    <2>4. /\ Cardinality(Lost') <= Cardinality(Lost) + 1
          /\ Cardinality(Lost) \in Nat /\ Cardinality(Lost') \in Nat
      BY <1>3, <2>3, NamesAreFinite, OneMore
    <2> QED BY <1>1, <1>3, <1>4, <2>4
  <1>10. MissesBounded'
    <2>1. SUFFICES ASSUME got = {}
                   PROVE  Cardinality(steady' \ listed') <= calls' + removals'
      BY <1>1 DEF MissesBounded
    <2>2. ASSUME NEW n \in steady \ listed, n \notin Lost PROVE n = dirents[AtOffset].path
      <3>1. PICK s \in Slots(n) : ~(num(s) < offset)
        BY <2>2 DEF Lost
      <3>2. s \in Valid /\ dirents[s].path = n /\ num(s) \in Nat
        BY <1>2, <3>1, ValidSlots DEF Slots
      <3>3. ~(num(s) > offset)
        BY <1>2, <2>1, <3>2 DEF Shown
      <3> QED BY <1>3, <3>1, <3>2, <3>3, OneAtOffset
    <2>3. names = {}
      BY <2>1
    <2>4. steady' \ listed' \subseteq Lost \cup {dirents[AtOffset].path}
      BY <1>1, <2>2, <2>3
    <2>5. /\ Cardinality(steady' \ listed') <= Cardinality(Lost) + 1
          /\ Cardinality(Lost) \in Nat /\ Cardinality(steady' \ listed') \in Nat
      BY <1>3, <2>4, NamesAreFinite, OneMore
    <2> QED BY <1>1, <1>3, <1>4, <2>5
  <1> QED BY <1>6, <1>7, <1>8, <1>9, <1>10 DEF ListInv

(***************************************************************************)
(* An entry added before others only raises their numbers.                 *)
(***************************************************************************)
LEMMA AddLosesNone ==
    ASSUME ListInv, NEW n \in Names \cup LongNames, update_parent_inode(n)
    PROVE  ListInv'
  <1>1. UNCHANGED <<reader, offset, listed, again, calls, steady, removals>>
    BY DEF update_parent_inode, reading
  <1>2. DirectoryTypeOK /\ steady \subseteq Listable
    BY DEF ListInv
  <1>3. DirectoryTypeOK'
    BY <1>2, AddedEntry
  <1>4. PICK x \in DirentIdx \ Valid :
           /\ Valid' = Valid \cup {x}
           /\ dirents'[x].path = n
           /\ \A s \in Valid : dirents'[s].path = dirents[s].path
    BY <1>2, AddedEntry
  <1>5. ASSUME NEW s \in Valid PROVE num(s) <= num(s)' /\ num(s) \in Nat
    <2>1. Valid \in SUBSET DirentIdx /\ s \in DirentIdx
      BY ValidSlots
    <2>2. num(s) = Rank(Valid, s) /\ num(s)' = Rank(Valid', s)
      BY DEF num, Rank
    <2> QED BY <1>4, <2>1, <2>2, OneSlotMore, ValidSlots
  <1>6. (steady \subseteq Listable)'
    BY <1>1, <1>2, <1>4 DEF Listable
  <1>7. Lost' \subseteq Lost
    <2>1. ASSUME NEW m \in Lost', NEW s \in Slots(m) PROVE num(s) < offset
      <3>1. s \in Valid /\ s \in Slots(m)'
        BY <1>4, <2>1 DEF Slots
      <3>2. num(s)' < offset /\ s \in Nat /\ num(s)' \in Nat
        <4>1. num(s)' < offset
          BY <1>1, <2>1, <3>1 DEF Lost
        <4>2. Valid' \in SUBSET DirentIdx /\ s \in DirentIdx
          BY <3>1, <1>4, ValidSlots
        <4>3. num(s)' = Rank(Valid', s) /\ Rank(Valid', s) \in 0 .. s /\ s \in Nat
          BY <4>2, Ranks, SlotNumbers DEF num, Rank
        <4> QED BY <4>1, <4>3
      <3> QED BY <1>2, <1>5, <3>1, <3>2 DEF DirectoryTypeOK
    <2>2. ASSUME NEW m \in Lost' PROVE m \in steady \ listed
      BY <1>1, <2>2 DEF Lost
    <2> QED BY <2>1, <2>2 DEF Lost
  <1>8. reader' = "reading" => Cardinality(Lost') <= calls' + removals'
    <2>1. SUFFICES ASSUME reader = "reading" PROVE Cardinality(Lost') <= calls + removals
      BY <1>1
    <2>2. Cardinality(Lost) <= calls + removals /\ calls \in Nat /\ removals \in Nat
      BY <1>2, <2>1 DEF ListInv, DirectoryTypeOK
    <2> QED BY <1>2, <1>7, <2>2, NamesAreFinite, NotMore
  <1> QED BY <1>1, <1>3, <1>6, <1>8 DEF ListInv, MissesBounded

(***************************************************************************)
(* An entry removed lowers the numbers after it by one, past the offset at *)
(* most that of the slot which was at it.                                  *)
(***************************************************************************)
LEMMA RemoveLosesOne ==
    ASSUME ListInv, NEW n \in Names \cup LongNames, remove_child(n)
    PROVE  ListInv'
  <1>1. /\ UNCHANGED <<reader, offset, listed, again, calls, adds>>
        /\ steady' = steady \ {n}
        /\ removals' = IF reader = "reading" THEN removals + 1 ELSE removals
    BY DEF remove_child, reading
  <1>2. /\ DirectoryTypeOK /\ steady \subseteq Listable
        /\ offset \in Nat /\ calls \in Nat /\ removals \in Nat
    BY DEF ListInv, DirectoryTypeOK
  <1>3. DirectoryTypeOK'
    BY <1>2, RemovedEntry
  <1>4. PICK x \in Valid :
           /\ dirents[x].path = n
           /\ Valid' = Valid \ {x}
           /\ \A s \in Valid' : dirents'[s].path = dirents[s].path
    BY <1>2, RemovedEntry
  <1>5. ASSUME NEW s \in Valid
        PROVE  num(s) <= num(s)' + 1 /\ num(s) \in Nat /\ num(s)' \in Nat
    <2>1. Valid \in SUBSET DirentIdx /\ Valid' \in SUBSET DirentIdx /\ s \in DirentIdx
      BY <1>4, ValidSlots
    <2>2. num(s) = Rank(Valid, s) /\ num(s)' = Rank(Valid', s)
      BY DEF num, Rank
    <2>3. Valid' \cup {x} = Valid
      BY <1>4
    <2>4. Rank(Valid, s) <= Rank(Valid', s) + 1
      BY <1>4, <2>1, <2>3, OneSlotMore
    <2>5. Rank(Valid, s) \in 0 .. s /\ Rank(Valid', s) \in 0 .. s /\ s \in Nat
      BY <2>1, Ranks, SlotNumbers
    <2> QED BY <2>2, <2>4, <2>5
  <1>6. (steady \subseteq Listable)'
    BY <1>1, <1>2, <1>4 DEF Listable
  <1>7. Lost' \subseteq Lost \cup {dirents[AtOffset].path}
    <2>1. ASSUME NEW m \in Lost', m \notin Lost PROVE m = dirents[AtOffset].path
      <3>1. m \in steady \ listed /\ m # n /\ \A s \in Slots(m)' : num(s)' < offset
        BY <1>1, <2>1 DEF Lost
      <3>2. PICK s \in Slots(m) : ~(num(s) < offset)
        BY <2>1, <3>1 DEF Lost
      <3>3. s \in Valid /\ dirents[s].path = m /\ s \in Slots(m)'
        BY <1>4, <3>1, <3>2 DEF Slots
      <3>4. num(s) = offset
        BY <1>2, <1>5, <3>1, <3>2, <3>3
      <3> QED BY <3>3, <3>4, OneAtOffset
    <2> QED BY <2>1
  <1>8. reader' = "reading" => Cardinality(Lost') <= calls' + removals'
    <2>1. SUFFICES ASSUME reader = "reading"
                   PROVE  Cardinality(Lost') <= calls + removals + 1
      BY <1>1, <1>2
    <2>2. Cardinality(Lost) <= calls + removals
      BY <2>1 DEF ListInv
    <2>3. /\ Cardinality(Lost') <= Cardinality(Lost) + 1
          /\ Cardinality(Lost) \in Nat /\ Cardinality(Lost') \in Nat
      BY <1>2, <1>7, NamesAreFinite, OneMore
    <2> QED BY <1>2, <2>2, <2>3
  <1>9. MissesBounded'
    <2>1. SUFFICES ASSUME reader = "done"
                   PROVE  Cardinality(steady' \ listed') <= calls + removals
      BY <1>1 DEF MissesBounded
    <2>2. Cardinality(steady \ listed) <= calls + removals
      BY <2>1 DEF ListInv, MissesBounded
    <2>3. steady' \ listed' \subseteq steady \ listed
      BY <1>1
    <2> QED BY <1>2, <2>2, <2>3, NamesAreFinite, NotMore
  <1> QED BY <1>1, <1>2, <1>3, <1>6, <1>8, <1>9 DEF ListInv

LEMMA ListInvariant == Spec => []ListInv
  <1>1. Init => ListInv
    <2> SUFFICES ASSUME Init PROVE ListInv
      OBVIOUS
    <2>1. DirectoryTypeOK
      BY SlotNumbers, DirectoryAssumption DEF Init, DirectoryTypeOK, dir_entry, Paths
    <2> QED BY <2>1 DEF Init, ListInv, MissesBounded
  <1>2. ASSUME ListInv, OpenDir PROVE ListInv'
    <2>1. /\ reader' = "reading" /\ offset' = 0 /\ listed' = {} /\ again' = {}
          /\ steady' = Listable /\ calls' = 0 /\ adds' = 0 /\ removals' = 0
          /\ dirents' = dirents
      BY <1>2 DEF OpenDir
    <2>2. DirectoryTypeOK'
      BY <1>2, <2>1, SlotNumbers, DirectoryAssumption DEF ListInv, DirectoryTypeOK
    <2>3. steady' = Listable'
      BY <2>1 DEF Listable, Valid
    <2>4. Lost' = {}
      <3>1. ASSUME NEW n \in Lost' PROVE FALSE
        <4>1. n \in Listable /\ \A s \in Slots(n) : num(s) < 0
          BY <2>1, <3>1 DEF Lost, Slots, num, Valid
        <4>2. PICK s \in Valid : dirents[s].path = n
          BY <4>1 DEF Listable
        <4>3. num(s) \in Nat /\ num(s) < 0
          BY <4>1, <4>2, ValidSlots DEF Slots
        <4> QED BY <4>3
      <3> QED BY <3>1
    <2> QED BY <2>1, <2>2, <2>3, <2>4, FS_EmptySet DEF ListInv, MissesBounded
  <1>3. ASSUME ListInv, UNCHANGED vars PROVE ListInv'
    BY <1>3 DEF ListInv, DirectoryTypeOK, MissesBounded, Lost, Slots, Listable, num, Valid, vars
  <1>4. ListInv /\ [Next]_vars => ListInv'
    BY <1>2, <1>3, ReadLosesOne, AddLosesNone, RemoveLosesOne DEF Next, List, Change
  <1> QED BY <1>1, <1>4, PTL DEF Spec

(***************************************************************************)
(* No offset is beyond the number of entries and a listing takes at most   *)
(* one call for each, whatever changes meanwhile (refs.c:894).             *)
(***************************************************************************)
THEOREM DirectoryTypes == Spec => []DirectoryTypeOK
  BY ListInvariant, PTL DEF ListInv

(***************************************************************************)
(* A listing misses one name for each of its calls and one for each        *)
(* removal during it at most, with long names too (refs.c:874-905).        *)
(***************************************************************************)
THEOREM ListingMissesFew == Spec => []MissesBounded
  BY ListInvariant, PTL DEF ListInv
-----------------------------------------------------------------------------
(***************************************************************************)
(* With names that fit, the entry looked up by name is the one that has it *)
(* and a new name is a new one.                                            *)
(***************************************************************************)
LEMMA OnceStep ==
    ASSUME LongNames = {}, ListInv, OnceInv, Next
    PROVE  OnceInv'
  <1> DEFINE Unique == \A s, t \in Valid : dirents[s].path = dirents[t].path => s = t
             Below == reader = "reading" =>
                        \A s \in Valid : dirents[s].path \in steady \cap listed =>
                            num(s) + 1 <= offset + adds
  <1>1. /\ Unique /\ Below /\ NoneTwice /\ DirectoryTypeOK /\ steady \subseteq Listable
        /\ offset \in Nat /\ adds \in Nat /\ again \subseteq listed
    BY DEF OnceInv, ListInv, DirectoryTypeOK
  <1>2. CASE OpenDir
    <2>1. /\ dirents' = dirents /\ Valid' = Valid /\ listed' = {} /\ again' = {}
      BY <1>2 DEF OpenDir, Valid
    <2> QED BY <1>1, <2>1 DEF OnceInv, NoneTwice
  <1>3. ASSUME NEW room \in Rooms, refs_readdir(room) PROVE OnceInv'
    <2> DEFINE got == Given(room)
               names == {dirents[s].path : s \in got}
               last == CHOOSE s \in got : \A t \in got : t <= s
    <2>1. /\ reader = "reading" /\ UNCHANGED <<dirents, steady, adds, removals>>
          /\ listed' = listed \cup names /\ again' = again \cup (listed \cap names)
          /\ reader' = IF got = {} THEN "done" ELSE "reading"
          /\ offset' = IF got = {} THEN offset ELSE num(last) + 1
      BY <1>3 DEF refs_readdir, NextOffset
    <2>2. /\ got \in SUBSET Shown /\ Shown \in SUBSET Valid /\ Valid \in SUBSET DirentIdx
          /\ got # {} => last \in got /\ \A t \in got : t <= last
      BY Answer, ValidSlots
    <2> HIDE DEF got, last
    <2>3. ASSUME NEW s \in got
          PROVE  /\ num(s) \in Nat /\ num(s) > offset /\ num(last) \in Nat
                 /\ num(s) <= num(last)
      BY <2>2, ValidSlots DEF Shown
    <2>4. Unique' /\ Valid' = Valid
      BY <1>1, <2>1 DEF Valid
    <2>5. ASSUME NEW s \in Valid, reader' = "reading",
                 dirents[s].path \in steady \cap listed'
          PROVE  num(s) + 1 <= offset' + adds
      <3>1. got # {}
        BY <2>1, <2>5
      <3>2. PICK r \in got : TRUE
        BY <3>1
      <3>3. offset' = num(last) + 1 /\ num(last) > offset /\ num(last) \in Nat
        BY <1>1, <2>1, <2>3, <3>1, <3>2
      <3>4. num(s) \in Nat
        BY <2>2, ValidSlots
      <3>5. CASE dirents[s].path \in listed
        <4>1. num(s) + 1 <= offset + adds
          BY <1>1, <2>1, <2>5, <3>5
        <4> QED BY <1>1, <3>3, <3>4, <4>1
      <3>6. CASE dirents[s].path \in names
        <4>1. PICK t \in got : dirents[t].path = dirents[s].path
          BY <3>6
        <4>2. t = s
          BY <1>1, <2>2, <4>1
        <4>3. num(s) <= num(last)
          BY <2>3, <4>1, <4>2
        <4> QED BY <1>1, <3>3, <3>4, <4>3
      <3> QED BY <2>1, <2>5, <3>5, <3>6
    <2>6. Below'
      BY <2>1, <2>4, <2>5 DEF num, Valid
    <2>7. NoneTwice'
      <3>1. ASSUME adds < 2, NEW n \in listed \cap names, n \in steady PROVE FALSE
        <4>1. PICK s \in got : dirents[s].path = n
          BY <3>1
        <4>2. num(s) + 1 <= offset + adds
          BY <1>1, <2>1, <2>2, <3>1, <4>1
        <4>3. num(s) \in Nat /\ num(s) > offset
          BY <2>3
        <4> QED BY <1>1, <3>1, <4>2, <4>3
      <3>2. adds < 2 => (again \cup (listed \cap names)) \cap steady = {}
        BY <1>1, <3>1 DEF NoneTwice
      <3> QED BY <2>1, <3>2 DEF NoneTwice
    <2> QED BY <2>4, <2>6, <2>7 DEF OnceInv
  <1>4. ASSUME NEW n \in Names \cup LongNames, update_parent_inode(n) PROVE OnceInv'
    <2>1. /\ UNCHANGED <<reader, offset, listed, again, steady>>
          /\ adds' = IF reader = "reading" THEN adds + 1 ELSE adds
          /\ Named(n) = {}
      BY <1>4 DEF update_parent_inode, reading
    <2>2. PICK x \in DirentIdx \ Valid :
             /\ Valid' = Valid \cup {x}
             /\ dirents'[x].path = n
             /\ \A s \in Valid : dirents'[s].path = dirents[s].path
      BY <1>1, <1>4, AddedEntry
    <2>3. \A s \in Valid : dirents[s].path # n
      BY <2>1 DEF Named, Reads
    <2>4. Unique'
      BY <1>1, <2>2, <2>3
    <2>5. ASSUME NEW s \in Valid', reader = "reading",
                 dirents'[s].path \in steady \cap listed
          PROVE  num(s)' + 1 <= offset + adds + 1
      <3>1. s \in Valid
        BY <1>1, <2>2, <2>3, <2>5 DEF Listable
      <3>2. Valid \in SUBSET DirentIdx /\ Valid' \in SUBSET DirentIdx /\ s \in DirentIdx
        BY <2>2, <3>1, ValidSlots
      <3>3. num(s) = Rank(Valid, s) /\ num(s)' = Rank(Valid', s)
        BY DEF num, Rank
      <3>4. num(s)' <= num(s) + 1
        BY <2>2, <3>2, <3>3, OneSlotMore
      <3>5. Rank(Valid, s) \in 0 .. s /\ Rank(Valid', s) \in 0 .. s /\ s \in Nat
        BY <3>2, Ranks, SlotNumbers
      <3>6. num(s) + 1 <= offset + adds
        BY <1>1, <2>2, <2>5, <3>1
      <3> QED BY <1>1, <3>3, <3>4, <3>5, <3>6
    <2>6. Below'
      BY <1>1, <2>1, <2>5
    <2>7. NoneTwice'
      BY <1>1, <2>1 DEF NoneTwice
    <2> QED BY <2>4, <2>6, <2>7 DEF OnceInv
  <1>5. ASSUME NEW n \in Names \cup LongNames, remove_child(n) PROVE OnceInv'
    <2>1. UNCHANGED <<reader, offset, listed, again, adds>> /\ steady' = steady \ {n}
      BY <1>5 DEF remove_child, reading
    <2>2. PICK x \in Valid :
             /\ dirents[x].path = n
             /\ Valid' = Valid \ {x}
             /\ \A s \in Valid' : dirents'[s].path = dirents[s].path
      BY <1>1, <1>5, RemovedEntry
    <2>3. Unique'
      BY <1>1, <2>2
    <2>4. ASSUME NEW s \in Valid', reader = "reading",
                 dirents'[s].path \in steady' \cap listed
          PROVE  num(s)' + 1 <= offset + adds
      <3>1. s \in Valid /\ num(s) + 1 <= offset + adds
        BY <1>1, <2>1, <2>2, <2>4
      <3>2. Valid \in SUBSET DirentIdx /\ Valid' \in SUBSET DirentIdx /\ s \in DirentIdx
        BY <2>2, <3>1, ValidSlots
      <3>3. num(s) = Rank(Valid, s) /\ num(s)' = Rank(Valid', s)
        BY DEF num, Rank
      <3>4. Valid' \cup {x} = Valid /\ x \in DirentIdx
        BY <2>2, ValidSlots
      <3>5. Rank(Valid', s) <= Rank(Valid, s)
        BY <3>2, <3>4, OneSlotMore
      <3>6. Rank(Valid, s) \in 0 .. s /\ Rank(Valid', s) \in 0 .. s /\ s \in Nat
        BY <3>2, Ranks, SlotNumbers
      <3> QED BY <1>1, <3>1, <3>3, <3>5, <3>6
    <2>5. Below'
      BY <2>1, <2>4
    <2>6. NoneTwice'
      BY <1>1, <2>1 DEF NoneTwice
    <2> QED BY <2>3, <2>5, <2>6 DEF OnceInv
  <1> QED BY <1>2, <1>3, <1>4, <1>5 DEF Next, List, Change

(***************************************************************************)
(* Where every name leaves room for its terminator, an entry that is there *)
(* during the whole listing is listed once, unless two others were added   *)
(* meanwhile (refs.c:711-716, 883-902).  A name of MAX_PATH_LEN characters *)
(* is outside: its own entry may stop answering to it, and the name be     *)
(* entered a second time.                                                  *)
(***************************************************************************)
THEOREM NothingListedTwice ==
    ASSUME LongNames = {}
    PROVE  Spec => []NoneTwice
  <1>1. Init => OnceInv
    BY DEF Init, OnceInv, NoneTwice, Valid, dir_entry, DirentIdx
  <1>2. ListInv /\ OnceInv /\ [Next]_vars => OnceInv'
    <2>1. ASSUME OnceInv, UNCHANGED vars PROVE OnceInv'
      BY <2>1 DEF OnceInv, NoneTwice, num, Valid, vars
    <2> QED BY <2>1, OnceStep
  <1>3. Spec => []OnceInv
    BY <1>1, <1>2, ListInvariant, PTL DEF Spec
  <1>4. OnceInv => NoneTwice
    BY DEF OnceInv
  <1> QED BY <1>3, <1>4, PTL
=============================================================================
