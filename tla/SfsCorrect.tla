----------------------------- MODULE SfsCorrect -----------------------------
(***************************************************************************)
(* The properties of the library (module Sfs), and the two abstract        *)
(* specifications it implements.                                           *)
(***************************************************************************)
EXTENDS Sfs

EntryTypes == {"START_ENTRY", "UNUSED_ENTRY", "DIR_ENTRY", "FILE_ENTRY",
               "DEL_FILE_ENTRY", "CONT", "CLOBBERED", "BOOT_CODE"}

(* Every entry, the list head and every byte have their types. *)
TypeOK ==
    /\ DOMAIN index = Offsets
    /\ \A i \in Offsets :
          /\ index[i].entry_type \in EntryTypes
          /\ index[i].cont_entries \in 0..N
          /\ index[i].start_block \in {0} \cup Lo..Hi
          /\ index[i].end_block \in {0} \cup Lo..Hi
          /\ index[i].time_stamp \in 0..N
          /\ index[i].size \in (0..N) \cup Lengths \cup {s[1] + s[2] : s \in Spans}
          /\ index[i].name \in FilePaths \cup DirPaths \cup {<<>>, FreeName}
    /\ del_begin \in {0} \cup Slots
    /\ data \in [Bytes -> Tokens \cup {Fresh}]

(* The list of del_file_list_add/remove/alloc: the walk from del_begin ends *)
(* before the watchdog does, visits every "*free" entry once and nothing    *)
(* else, and PREV_DEL undoes NEXT_DEL.                                      *)
ListWellFormed ==
    LET w    == Walk(fs)
        on   == {k \in 0..N : w[k] # 0}
    IN  /\ w[N] = 0
        /\ {w[k] : k \in on} = {i \in Slots : IsFree(index[i])}
        /\ \A k, l \in on : k # l => w[k] # w[l]
        /\ \A k \in on : PREV_DEL(index[w[k]]) = IF k = 0 THEN 0 ELSE w[k - 1]

(* A mount finds the list again: the first deleted-file entry without a     *)
(* predecessor, which is what sfs_init() looks for, is the list head even   *)
(* when unlinked files, which have the same entry type, are still open.     *)
HeadRecoverable == search_begin(index) = del_begin

(* Sizes and extents agree: try_expand() and file_shrink() compute a number *)
(* of blocks from the size alone, and an empty file has no extent.          *)
ExtentFitsSize ==
    \A f \in Handles :
        LET e == index[f]
        IN  IF e.size = 0 THEN e.start_block = 0 /\ e.end_block = 0
            ELSE /\ e.start_block # 0
                 /\ e.end_block - e.start_block + 1 = BlockCount(e.size)

Visible == {i \in Slots : index[i].entry_type \in {"FILE_ENTRY", "DIR_ENTRY"}}

(* Every directory on the way to a file or directory exists: what           *)
(* check_dirs() tests on creation is not undone by sfs_rmdir(), whose test  *)
(* for emptiness compares prefixes of names only.                           *)
ParentsExist == \A i \in Visible : check_dirs(index, index[i].name)

(* A lookup finds each file and each directory: its continuation entries    *)
(* are its own, and no other entry of its type has the name.                *)
EveryNameFound ==
    \A i \in Visible :
        i = IF index[i].entry_type = "FILE_ENTRY" THEN search_file(index, index[i].name)
                                                  ELSE search_dir(index, index[i].name)

(* Continuation entries never outlive their head: sfs_delete(), sfs_rmdir() *)
(* and sfs_rename() leak no index entries.                                  *)
NoOrphanEntries ==
    \A c \in Slots : index[c].entry_type = "CONT" =>
        \E i \in Slots : /\ OwnsData(index[i]) \/ index[i].entry_type = "DIR_ENTRY"
                         /\ c \in (i + 1)..(i + Conts(index, i))

UsedSize == MapThenSumSet(LAMBDA f : BlockSize * BlockCount(index[f].size), Handles)

(* Free space and the space of the files make up the data area: what        *)
(* fuse_sfs_init() checks before a mount ("Allocation of free space was     *)
(* broken"), counting an empty file as nothing.                             *)
SpaceConserved == scan_del_file_list(fs) + UsedSize = data_size

-----------------------------------------------------------------------------
AbsType(e) == CASE OwnsData(e) \/ e.entry_type = "CLOBBERED" -> "file"
                [] IsFree(e) -> "free"
                [] e.entry_type = "UNUSED_ENTRY" -> "unused"
                [] OTHER -> "other"

AbsEnt  == [i \in Slots |-> [type  |-> AbsType(index[i]), start |-> index[i].start_block,
                             end   |-> index[i].end_block]]
AbsLost == {b \in Lo..Hi : \A i \in Slots : ~(index[i].start_block <= b /\ b <= index[i].end_block)}

Space == INSTANCE SfsSpace WITH ent <- AbsEnt, lost <- AbsLost,
                                FreeSlot <- 2, Fixed <- {1, 3}

(* The library implements the space accounting of module SfsSpace: every    *)
(* call moves blocks between the files, the list and the leaked blocks the  *)
(* way one of its actions does.                                             *)
ImplementsSpace == Space!Spec

Content(f) == [k \in 1..index[f].size |-> data[index[f].start_block * BlockSize + k - 1]]
PathsOf(type) == {index[i].name : i \in {j \in Slots : index[j].entry_type = type}}

StoreFiles == [p \in PathsOf("FILE_ENTRY") |-> search_file(index, p)]
StoreDirs  == PathsOf("DIR_ENTRY")
StoreBody  == [f \in {i \in Slots : OwnsData(index[i])} |-> Content(f)]

Store == INSTANCE FileStore WITH
            Inodes <- Slots, AtRisk <- (N - PerBlock + 2)..N, full <- alloc_entry(index, 1) = 0,
            files <- StoreFiles, dirs <- StoreDirs, body <- StoreBody

(* The library implements the file store: files that grow, move, are freed  *)
(* and reuse each other's blocks keep the bytes that were written to them,  *)
(* under their names and, once unlinked, through their handles.  The one    *)
(* exception is the file that is moved when del_file_list_add() finds the   *)
(* index full and copy_block() overwrites its entry (see Grow): it is lost, *)
(* and no other file with it.                                               *)
ImplementsStore == Store!Spec
=============================================================================
