------------------------------ MODULE SfsSpace ------------------------------
(***************************************************************************)
(* What the library promises about the data area: every data block has one *)
(* owner.  An owner is an index entry that holds an extent of blocks: a    *)
(* file (FILE_ENTRY, or DEL_FILE_ENTRY of an unlinked but still open file) *)
(* or a "*free" extent of the deleted-file list.  Names, sizes in bytes,   *)
(* the links of the list and the position of entries are left out; module  *)
(* Sfs has them, and implements this module.                               *)
(*                                                                         *)
(* The ghost variable lost holds the blocks that no entry holds any more:  *)
(* del_file_list_add() fails when it needs a new entry and the index is    *)
(* full, and none of its callers looks at the result.                      *)
(***************************************************************************)
EXTENDS Integers, FiniteSets

CONSTANTS Slots,      \* positions of the index area, START included
          Lo, Hi,     \* first and last block of the data area
          FreeSlot,   \* the entry of the first "*free" extent, by mksfs
          Fixed       \* the entries START and root directory, by mksfs

ASSUME AreaAssumption == Lo \in Nat /\ Hi \in Nat /\ 0 < Lo /\ Lo <= Hi
ASSUME SlotAssumption == FreeSlot \in Slots \ Fixed /\ Fixed \subseteq Slots

VARIABLES ent,        \* the index: type and extent of every entry
          lost        \* ghost: data blocks that nothing holds

vars == <<ent, lost>>

Blocks == Lo .. Hi
Types  == {"unused", "file", "free", "other"}
Entry  == [type : Types, start : {0} \cup Blocks, end : {0} \cup Blocks]

Unused       == [type |-> "unused", start |-> 0, end |-> 0]
Other        == [type |-> "other",  start |-> 0, end |-> 0]
Empty        == [type |-> "file",   start |-> 0, end |-> 0]
File(s, t)   == [type |-> "file",   start |-> s, end |-> t]
Free(s, t)   == [type |-> "free",   start |-> s, end |-> t]

Holds(x)     == x.type = "free" \/ (x.type = "file" /\ x.start # 0)
InExt(b, x)  == Holds(x) /\ x.start <= b /\ b <= x.end
Size(x)      == x.end - x.start + 1

Put(e, i, x) == [j \in Slots |-> IF j = i THEN x ELSE e[j]]
Clear(e, C)  == [i \in Slots |-> IF i \in C THEN Unused ELSE e[i]]
UnusedIn(e)  == {i \in Slots : e[i].type = "unused"}

Init == /\ ent = [i \in Slots |-> CASE i = FreeSlot -> Free(Lo, Hi)
                                    [] i \in Fixed  -> Other
                                    [] OTHER        -> Unused]
        /\ lost = {}

-----------------------------------------------------------------------------
(* del_file_list_add(start, end): the neighbours of the extent in the list, *)
(* and the five outcomes.  e is the index at the time of the call.          *)

PrevOf(e, st) == {p \in Slots : e[p].type = "free" /\ e[p].end + 1 = st}
NextOf(e, en) == {q \in Slots : e[q].type = "free" /\ e[q].start = en + 1}

(* Mutant: the start of the previous extent is forgotten. *)
MergeBothShort(e, st, en) ==
    \E p \in PrevOf(e, st), q \in NextOf(e, en) :
        ent' = Put(Put(e, p, Unused), q, Free(st, e[q].end)) /\ lost' = lost

MergeBoth(e, st, en) ==
    \E p \in PrevOf(e, st), q \in NextOf(e, en) :
        /\ ent' = Put(Put(e, p, Unused), q, Free(e[p].start, e[q].end))
        /\ lost' = lost

(* Mutant: the previous extent is not looked at. *)
MergeNextOnly(e, st, en) ==
    /\ \E q \in NextOf(e, en) : ent' = Put(e, q, Free(st, e[q].end))
    /\ lost' = lost

MergeNext(e, st, en) ==
    /\ PrevOf(e, st) = {}
    /\ \E q \in NextOf(e, en) : ent' = Put(e, q, Free(st, e[q].end))
    /\ lost' = lost

MergePrev(e, st, en) ==
    /\ NextOf(e, en) = {}
    /\ \E p \in PrevOf(e, st) : ent' = Put(e, p, Free(e[p].start, en))
    /\ lost' = lost

AddNew(e, st, en) ==
    /\ PrevOf(e, st) = {} /\ NextOf(e, en) = {}
    /\ \E n \in UnusedIn(e) : ent' = Put(e, n, Free(st, en))
    /\ lost' = lost

Leak(e, st, en) ==
    /\ PrevOf(e, st) = {} /\ NextOf(e, en) = {} /\ UnusedIn(e) = {}
    /\ ent' = e
    /\ lost' = lost \cup st .. en

AddExtent(e, st, en) ==
    \/ MergeBoth(e, st, en) \/ MergeNext(e, st, en) \/ MergePrev(e, st, en)
    \/ AddNew(e, st, en)    \/ Leak(e, st, en)

(* start = end = 0 is the extent of an empty file: nothing to add. *)
Release(e, x) == IF x.start = 0 THEN ent' = e /\ lost' = lost
                                ELSE AddExtent(e, x.start, x.end)

(* Mutant: the entry of an extent that is used up stays in the list. *)
TakeFrontKeep(e, d, n) == Put(e, d, Free(e[d].start + n, e[d].end))

(* del_file_list_alloc() and try_expand() take n blocks from the front of a *)
(* free extent d, whose entry is freed when nothing of the extent is left.  *)
TakeFront(e, d, n) ==
    Put(e, d, IF n = Size(e[d]) THEN Unused ELSE Free(e[d].start + n, e[d].end))

-----------------------------------------------------------------------------
FileSlots == {f \in Slots : ent[f].type = "file"}
FreeSlots == {d \in Slots : ent[d].type = "free"}

(* sfs_creat: a file with no blocks, its name continued in the entries C. *)
Create(f, C) ==
    /\ f \notin C /\ C \cup {f} \subseteq UnusedIn(ent)
    /\ ent' = [i \in Slots |-> IF i = f THEN Empty
                               ELSE IF i \in C THEN Other ELSE ent[i]]
    /\ lost' = lost

(* sfs_mkdir *)
Mkdir(C) ==
    /\ C # {} /\ C \subseteq UnusedIn(ent)
    /\ ent' = [i \in Slots |-> IF i \in C THEN Other ELSE ent[i]]
    /\ lost' = lost

Others == {i \in Slots \ Fixed : ent[i].type = "other"}

(* sfs_rmdir; which entries make up a directory is module Sfs's business. *)
Rmdir(C) ==
    /\ C # {} /\ C \subseteq Others
    /\ ent' = Clear(ent, C)
    /\ lost' = lost

(* Mutant: the extent is not given back. *)
DeleteForgets(f, C) ==
    /\ f \in FileSlots /\ C \subseteq Others
    /\ ent' = Clear(ent, C \cup {f})
    /\ lost' = lost \cup {b \in Blocks : InExt(b, ent[f])}

(* sfs_delete: the entries are unused before the extent is given back. *)
Delete(f, C) ==
    /\ f \in FileSlots /\ C \subseteq Others
    /\ Release(Clear(ent, C \cup {f}), ent[f])

(* Mutant: the file keeps the extent it gives back. *)
Truncate0Keep(f) == f \in FileSlots /\ Release(ent, ent[f])

(* sfs_truncate to size 0 *)
Truncate0(f) ==
    /\ f \in FileSlots
    /\ Release(Put(ent, f, Empty), ent[f])

(* try_expand: n more blocks from the free extent that follows the file. *)
Donors(f, n) == {d \in FreeSlots : /\ ent[d].start = ent[f].end + 1
                                   /\ n <= Size(ent[d])}

Expand(f, n) ==
    /\ f \in FileSlots /\ ent[f].start # 0
    /\ \E d \in Donors(f, n) :
          ent' = TakeFront(Put(ent, f, File(ent[f].start, ent[f].end + n)), d, n)
    /\ lost' = lost

(* Growth to n blocks when the file cannot be extended in place: the front  *)
(* of a largest free extent becomes the file's, and its old one is freed.   *)
OldSize(f) == IF ent[f].start = 0 THEN 0 ELSE Size(ent[f])

Largest(d) == \A c \in FreeSlots : Size(ent[c]) <= Size(ent[d])

Relocated(f, d, n) ==
    TakeFront(Put(ent, f, File(ent[d].start, ent[d].start + n - 1)), d, n)

Relocate(f, n) ==
    /\ f \in FileSlots /\ OldSize(f) < n
    /\ ent[f].start = 0 \/ Donors(f, n - OldSize(f)) = {}
    /\ \E d \in FreeSlots : /\ Largest(d) /\ n <= Size(ent[d])
                            /\ Release(Relocated(f, d, n), ent[f])

(* sfs_rename of a file that has no blocks: its entries move. *)
RenameEmpty(f, C, g, D) ==
    /\ f \in FileSlots /\ ent[f].start = 0 /\ C \subseteq Others
    /\ g \notin D /\ D \cup {g} \subseteq UnusedIn(ent)
    /\ ent' = [i \in Slots |-> IF i = g THEN Empty
                               ELSE IF i \in D THEN Other
                               ELSE IF i \in C \cup {f} THEN Unused ELSE ent[i]]
    /\ lost' = lost

Sizes == 1 .. (Hi - Lo + 1)

Next ==
    \/ \E f \in UnusedIn(ent), C \in SUBSET UnusedIn(ent) : Create(f, C)
    \/ \E C \in SUBSET UnusedIn(ent) : Mkdir(C)
    \/ \E C \in SUBSET Others : Rmdir(C)
    \/ \E f \in FileSlots, C \in SUBSET Others : Delete(f, C)
    \/ \E f \in FileSlots : Truncate0(f)
    \/ \E f \in FileSlots, n \in Sizes : Expand(f, n)
    \/ \E f \in FileSlots, n \in Sizes : Relocate(f, n)
    \/ \E f \in FileSlots, g \in UnusedIn(ent) :
          \E C \in SUBSET Others, D \in SUBSET UnusedIn(ent) : RenameEmpty(f, C, g, D)

Spec == Init /\ [][Next]_vars

-----------------------------------------------------------------------------
(* Parts of the accounting, as predicates of an index e and the blocks l    *)
(* that nothing holds.                                                      *)

Typed(e, l) == e \in [Slots -> Entry] /\ l \in SUBSET Blocks

Shaped(e) == \A i \in Slots :
    IF Holds(e[i]) THEN Lo <= e[i].start /\ e[i].start <= e[i].end /\ e[i].end <= Hi
                   ELSE e[i].start = 0 /\ e[i].end = 0

Apart(x, y) == x.end < y.start \/ y.end < x.start

Separate(e) == \A i, j \in Slots :
    i # j /\ Holds(e[i]) /\ Holds(e[j]) => Apart(e[i], e[j])

Accounted(e, l) == \A b \in Blocks : b \in l <=> \A i \in Slots : ~InExt(b, e[i])

Gapped(e) == \A i, j \in Slots :
    e[i].type = "free" /\ e[j].type = "free" => e[i].end + 1 # e[j].start

(* The index and the ghost have their types. *)
TypeOK == Typed(ent, lost)

(* No block has two owners: extents of different entries, free or not, are  *)
(* well formed and do not overlap, whatever sequence of creations, growths, *)
(* relocations and deletions del_file_list_add/alloc and try_expand served. *)
Disjoint == Shaped(ent) /\ Separate(ent)

(* No block is forgotten: a block nobody holds is one that a failed         *)
(* del_file_list_add leaked, and a leaked block is never handed out again.  *)
Covered == Accounted(ent, lost)

(* del_file_list_add coalesces: the list never has two adjacent extents, so *)
(* del_file_list_alloc fails only when no run of free blocks is long enough.*)
Coalesced == Gapped(ent)

(* Blocks leak only in a step that starts and ends with a full index; a     *)
(* deletion, which frees an entry first, never leaks.                       *)
LeakOnlyWhenIndexFull ==
    [][lost' # lost => UnusedIn(ent) = {} /\ UnusedIn(ent)' = {}]_vars
=============================================================================
