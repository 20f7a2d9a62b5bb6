-------------------------------- MODULE Sfs --------------------------------
(***************************************************************************)
(* The SFS library (src/src/lib/sfs): the index area, the doubly linked    *)
(* list of deleted-file ("*free") entries threaded through it, and the     *)
(* bytes of the data area.  One action per library call; FUSE runs the     *)
(* calls one at a time (fuse/main.c passes "-s").                          *)
(*                                                                         *)
(* An entry's byte offset is modelled by its position in the index, 1..N,  *)
(* with START at 1 and the volume identifier, which no call touches, at    *)
(* N + 1; 0 is the offset that means "none".  Reading or writing an entry  *)
(* at 0 reaches the boot code in the first bytes of the image: index[0].   *)
(* A name continued in further entries is kept whole in the first one and  *)
(* tagged in the others.  Fields of an UNUSED_ENTRY in the index area are  *)
(* never read and are kept at zero.                                        *)
(***************************************************************************)
EXTENDS Integers, FiniteSetsExt, SequencesExt

CONSTANTS
    N,            \* entries of the index area before the volume identifier
    PerBlock,     \* index entries in a block
    Lo, Hi,       \* first and last block of the data area
    BlockSize,    \* bytes in a block
    Word,         \* 2^64 in the code: unsigned block numbers wrap at Word
    FirstFile, FirstDir, EntrySize,   \* bytes of a name in an entry
    FilePaths, DirPaths,   \* paths that the calls on files and directories get
    Tokens,       \* bytes that are written
    Fresh,        \* the byte of a fresh image
    Spans,        \* bound: the <<offset, size>> of the writes asked for
    Lengths,      \* bound: the sizes truncations ask for
    MaxUnlinked   \* bound: unlinked files that are open at a time

ASSUME SfsAssumption ==
    /\ N \in Nat /\ N >= 3 /\ PerBlock \in 2..N
    /\ Lo \in Nat \ {0} /\ Hi \in Nat /\ Lo <= Hi /\ Hi < Word
    /\ BlockSize \in Nat \ {0} /\ Word \in Nat
    /\ FirstFile \in Nat \ {0} /\ FirstDir \in Nat \ {0} /\ EntrySize \in Nat \ {0, 1}
    /\ Spans \subseteq Nat \X (Nat \ {0}) /\ Lengths \subseteq Nat
    /\ MaxUnlinked \in Nat
    /\ \A p \in FilePaths \cup DirPaths : p \in Seq(Range(p)) /\ p \notin {<<>>, <<"*free">>}

VARIABLES index,      \* the index area on the device, and the boot code
          del_begin,  \* fs->del_begin
          data        \* the data area on the device, byte by byte

vars == <<index, del_begin, data>>

Slots   == 1..N
Offsets == 0..N
Bytes == (Lo * BlockSize) .. ((Hi + 1) * BlockSize - 1)

FreeName == <<"*free">>     \* no path has a "*": is_correct_char()
NewTime  == 1               \* get_time(): only 0 and not 0 are told apart

NoEntry(type) ==
    [entry_type |-> type, cont_entries |-> 0, time_stamp |-> 0,
     start_block |-> 0, end_block |-> 0, size |-> 0, name |-> <<>>]
UnusedEntry == NoEntry("UNUSED_ENTRY")

(* A list entry keeps its neighbours in the fields time_stamp and size. *)
PREV_DEL(e) == e.time_stamp
NEXT_DEL(e) == e.size
FreeEntry(s, t, prev, next) ==
    [NoEntry("DEL_FILE_ENTRY") EXCEPT
        !.start_block = s, !.end_block = t, !.time_stamp = prev, !.size = next,
        !.name = FreeName]
(* Mutant: sfs_creat and sfs_mkdir leave the time at 0. *)
HeadEntryNoTime(type, p, n) ==
    [NoEntry(type) EXCEPT !.name = p, !.cont_entries = n]

HeadEntry(type, p, n) ==
    [NoEntry(type) EXCEPT !.name = p, !.cont_entries = n, !.time_stamp = NewTime]
ContEntry(p, k) == [NoEntry("CONT") EXCEPT !.name = p, !.cont_entries = k]

(* image_create() *)
Init ==
    /\ index = [i \in Offsets |->
                  CASE i = 0 -> NoEntry("BOOT_CODE")
                    [] i = 1 -> NoEntry("START_ENTRY")
                    [] i = 2 -> FreeEntry(Lo, Hi, 0, 0)
                    [] i = 3 -> NoEntry("DIR_ENTRY")
                    [] OTHER -> UnusedEntry]
    /\ del_begin = 2
    /\ data = [a \in Bytes |-> Fresh]

IsFree(e)     == e.entry_type = "DEL_FILE_ENTRY" /\ e.name = FreeName
IsUnlinked(e) == e.entry_type = "DEL_FILE_ENTRY" /\ e.name # FreeName
OwnsData(e)   == e.entry_type = "FILE_ENTRY" \/ IsUnlinked(e)

-----------------------------------------------------------------------------
(* Searches of the index area *)

FirstOf(S) == IF S = {} THEN 0 ELSE Min(S)

Conts(ix, i) == ix[i].cont_entries

NameMatches(ix, i, p) ==
    /\ ix[i].name = p
    /\ \A k \in 1..Conts(ix, i) : i + k \in Slots /\ ix[i + k] = ContEntry(p, k)

read_file_entry(ix, i, p) == ix[i].entry_type = "FILE_ENTRY" /\ NameMatches(ix, i, p)
read_dir_entry(ix, i, p)  == ix[i].entry_type = "DIR_ENTRY"  /\ NameMatches(ix, i, p)

search_file(ix, p) == FirstOf({i \in Slots : read_file_entry(ix, i, p)})
search_dir(ix, p)  == FirstOf({i \in Slots : read_dir_entry(ix, i, p)})

(* The mask of a directory is its whole path, without a final "/". *)
check_file_mask(ix, i, p) == /\ ix[i].entry_type \in {"FILE_ENTRY", "DIR_ENTRY"}
                             /\ IsPrefix(p, ix[i].name)
search_file_mask(ix, p, from) == FirstOf({i \in from..N : check_file_mask(ix, i, p)})

Ancestors(p) == {SubSeq(p, 1, k - 1) : k \in {j \in 1..Len(p) : p[j] = "/"}}
check_dirs(ix, p) == \A a \in Ancestors(p) : search_dir(ix, a) # 0

alloc_entry(ix, n) ==
    FirstOf({i \in 1..(N - n + 1) :
                \A k \in i..(i + n - 1) : ix[k].entry_type = "UNUSED_ENTRY"})

free_entry(ix, off, n) ==
    [i \in Offsets |->
        IF i \notin off..(off + n - 1) THEN ix[i]
        ELSE IF i = 0 THEN [ix[0] EXCEPT !.entry_type = "UNUSED_ENTRY"] ELSE UnusedEntry]

(* !! binds tighter than %, so a name of more than first bytes always gets *)
(* one entry more than the quotient.                                       *)
count_entry(len, first) ==
    IF len <= first THEN 1
    ELSE 1 + ((len - first) \div EntrySize) + (1 % EntrySize)

(* Mutant: one continuation entry too few is written. *)
WriteNameShort(ix, off, head, n) ==
    [i \in Offsets |-> IF i = off THEN head
                       ELSE IF i \in (off + 1)..(off + n - 1) THEN ContEntry(head.name, i - off)
                       ELSE ix[i]]

(* Writes a head entry at off and its n continuation entries. *)
write_name(ix, off, head, n) ==
    [i \in Offsets |-> IF i = off THEN head
                       ELSE IF i \in (off + 1)..(off + n) THEN ContEntry(head.name, i - off)
                       ELSE ix[i]]

-----------------------------------------------------------------------------
(* The deleted-file list; u is a record of the index and del_begin *)

(* The entries a walk visits.  The watchdog stops it after N + 1 steps. *)
Walk(u) ==
    LET w[k \in 0..(N + 1)] ==
            IF k = 0 THEN u.del_begin
            ELSE IF w[k - 1] = 0 THEN 0 ELSE NEXT_DEL(u.index[w[k - 1]])
    IN  w

(* Steps of the walk w that stand on an entry for which P holds. *)
Steps(u, w, P(_)) == {k \in 0..N : w[k] # 0 /\ P(u.index[w[k]])}

FirstInList(u, P(_)) ==
    LET w == Walk(u)  S == Steps(u, w, P) IN IF S = {} THEN 0 ELSE w[Min(S)]
LastInList(u, P(_)) ==
    LET w == Walk(u)  S == Steps(u, w, P) IN IF S = {} THEN 0 ELSE w[Max(S)]

(* A sum and a maximum over the entries of the list. *)
SumOverList(u, Op(_)) ==
    LET w == Walk(u) IN MapThenSumSet(LAMBDA k : Op(u.index[w[k]]), Steps(u, w, LAMBDA e : TRUE))
MaxOverList(u, Op(_)) ==
    LET w == Walk(u) IN Max({0} \cup {Op(u.index[w[k]]) : k \in Steps(u, w, LAMBDA e : TRUE)})

(* Mutant: the next entry keeps its PREV_DEL. *)
RemoveOneSided(u, off) ==
    LET prev == PREV_DEL(u.index[off])
        next == NEXT_DEL(u.index[off])
        ix   == IF prev = 0 THEN u.index ELSE [u.index EXCEPT ![prev].size = next]
    IN  [index     |-> free_entry(ix, off, 1),
         del_begin |-> IF prev = 0 THEN next ELSE u.del_begin]

del_file_list_remove(u, off) ==
    LET prev == PREV_DEL(u.index[off])
        next == NEXT_DEL(u.index[off])
        ix1  == IF prev = 0 THEN u.index ELSE [u.index EXCEPT ![prev].size = next]
        ix2  == IF next = 0 THEN ix1 ELSE [ix1 EXCEPT ![next].time_stamp = prev]
    IN  [index     |-> free_entry(ix2, off, 1),
         del_begin |-> IF prev = 0 THEN next ELSE u.del_begin]

PushFront(u, new, start, end) ==
    LET ix == [u.index EXCEPT ![new] = FreeEntry(start, end, 0, u.del_begin)]
    IN  [index     |-> IF u.del_begin = 0 THEN ix
                       ELSE [ix EXCEPT ![u.del_begin].time_stamp = new],
         del_begin |-> new]

(* The list entries before and behind an extent. *)
prev_extent(u, start)      == LastInList(u, LAMBDA e : e.end_block + 1 = start)
next_extent(u, start, end) == LastInList(u, LAMBDA e : /\ e.end_block + 1 # start
                                                      /\ e.start_block - 1 = end)

(* Mutant: the previous extent is never recognised, so that nothing is merged *)
(* with it.                                                                   *)
AddIgnoresPrev(u, start, end) ==
    LET next == LastInList(u, LAMBDA e : e.start_block - 1 = end)
        new  == alloc_entry(u.index, 1)
    IN  CASE start = 0 /\ end = 0 -> [ok |-> TRUE, u |-> u]
          [] next # 0 -> [ok |-> TRUE, u |-> [u EXCEPT !.index[next].start_block = start]]
          [] OTHER -> [ok |-> new # 0, u |-> IF new = 0 THEN u ELSE PushFront(u, new, start, end)]

(* The extent is merged with its neighbours or becomes an entry of its own; *)
(* ok is false when it returns -1.                                          *)
del_file_list_add(u, start, end) ==
    LET prev == prev_extent(u, start)
        next == next_extent(u, start, end)
        new  == alloc_entry(u.index, 1)
        Done(v) == [ok |-> TRUE, u |-> v]
    IN  IF start = 0 /\ end = 0 THEN Done(u)
        ELSE CASE next # 0 /\ prev # 0 ->
                    Done([del_file_list_remove(u, prev) EXCEPT
                             !.index[next].start_block = u.index[prev].start_block])
               [] next # 0 /\ prev = 0 -> Done([u EXCEPT !.index[next].start_block = start])
               [] next = 0 /\ prev # 0 -> Done([u EXCEPT !.index[prev].end_block = end])
               [] OTHER -> IF new = 0 THEN [ok |-> FALSE, u |-> u]
                           ELSE Done(PushFront(u, new, start, end))

BlockCount(bytes) == (bytes + BlockSize - 1) \div BlockSize
get_real_size(bytes) == BlockSize * BlockCount(bytes)
get_size(e) == BlockSize * ((e.end_block - e.start_block + 1) % Word)

(* Mutant: an entry that is used up stays in the list. *)
TakeFrontKeep(u, d, bytes) == [u EXCEPT !.index[d].start_block = @ + bytes \div BlockSize]

(* Takes bytes from the front of the list entry d. *)
TakeFront(u, d, bytes) ==
    IF bytes = get_size(u.index[d]) THEN del_file_list_remove(u, d)
    ELSE [u EXCEPT !.index[d].start_block = @ + bytes \div BlockSize]

max_size(u) == MaxOverList(u, get_size)
(* The first of the largest extents. *)
max_extent(u) == LET max == max_size(u) IN FirstInList(u, LAMBDA e : get_size(e) = max)

(* start is 0 when the largest extent is too small. *)
del_file_list_alloc(u, size) ==
    LET d == max_extent(u)
    IN  IF get_real_size(size) > max_size(u) THEN [start |-> 0, u |-> u]
        ELSE [start |-> u.index[d].start_block, u |-> TakeFront(u, d, get_real_size(size))]

delta_block(u, f, new_size) == get_real_size(new_size) - get_real_size(u.index[f].size)
(* The first extent behind the file that is large enough. *)
donor(u, f, new_size) ==
    FirstInList(u, LAMBDA e : /\ e.start_block = u.index[f].end_block + 1
                              /\ get_size(e) >= delta_block(u, f, new_size))

try_expand(u, f, new_size) ==
    LET d == donor(u, f, new_size)
    IN  IF d = 0 THEN [ok |-> FALSE, u |-> u]
        ELSE [ok |-> TRUE, u |-> TakeFront(u, d, delta_block(u, f, new_size))]

(* delta is a number of bytes, and is used as a number of blocks. *)
file_shrink(u, f, new_size) ==
    LET file  == u.index[f]
        delta == get_real_size(file.size) - get_real_size(new_size)
    IN  del_file_list_add(u, (file.end_block - delta + 1) % Word, file.end_block).u

-----------------------------------------------------------------------------
(* What fuse_sfs_init() computes before it mounts *)

search_begin(ix) ==
    FirstOf({i \in Slots : ix[i].entry_type = "DEL_FILE_ENTRY" /\ PREV_DEL(ix[i]) = 0})

scan_del_file_list(u) == SumOverList(u, get_size)

(* Mutant: deleted files are counted, too. *)
ScanCountsDeleted(ix) ==
    MapThenSumSet(LAMBDA i : get_size(ix[i]), {i \in Slots : OwnsData(ix[i])})

scan_used_space(ix) ==
    MapThenSumSet(LAMBDA i : get_size(ix[i]),
                  {i \in Slots : ix[i].entry_type = "FILE_ENTRY"})

data_size == BlockSize * (Hi - Lo + 1)

-----------------------------------------------------------------------------
(* Library calls *)

fs == [index |-> index, del_begin |-> del_begin]

Becomes(u) == index' = u.index /\ del_begin' = u.del_begin

sfs_creat(ix, p) ==
    LET n     == count_entry(Len(p) + 1, FirstFile)
        start == alloc_entry(ix, n)
        ok    == check_dirs(ix, p) /\ search_dir(ix, p) = 0 /\ search_file(ix, p) = 0 /\ start # 0
    IN  [ok |-> ok,
         index |-> IF ok THEN write_name(ix, start, HeadEntry("FILE_ENTRY", p, n - 1), n - 1)
                   ELSE ix]

Creat(p) == /\ sfs_creat(index, p).ok
            /\ index' = sfs_creat(index, p).index
            /\ UNCHANGED <<del_begin, data>>

(* A file of the same name is no obstacle. *)
sfs_mkdir(ix, p) ==
    LET n     == count_entry(Len(p) + 1, FirstDir)
        start == alloc_entry(ix, n)
        ok    == check_dirs(ix, p) /\ search_dir(ix, p) = 0 /\ start # 0
    IN  [ok |-> ok,
         index |-> IF ok THEN write_name(ix, start, HeadEntry("DIR_ENTRY", p, n - 1), n - 1)
                   ELSE ix]

Mkdir(p) == /\ sfs_mkdir(index, p).ok
            /\ index' = sfs_mkdir(index, p).index
            /\ UNCHANGED <<del_begin, data>>

(* Mutant: only the first entry with the prefix is looked at. *)
RmdirFirstOnly(ix, p) ==
    LET start == search_dir(ix, p)
        ok    == start # 0 /\ search_file_mask(ix, p, 1) = start
    IN  [ok |-> ok, index |-> IF ok THEN free_entry(ix, start, 1 + Conts(ix, start)) ELSE ix]

(* The directory is empty when the mask finds it and then nothing else. *)
sfs_rmdir(ix, p) ==
    LET start == search_dir(ix, p)
        ok    == /\ start # 0
                 /\ search_file_mask(ix, p, 1) = start
                 /\ search_file_mask(ix, p, start + 1) = 0
    IN  [ok |-> ok, index |-> IF ok THEN free_entry(ix, start, 1 + Conts(ix, start)) ELSE ix]

Rmdir(p) == /\ sfs_rmdir(index, p).ok
            /\ index' = sfs_rmdir(index, p).index
            /\ UNCHANGED <<del_begin, data>>

(* The entry keeps its name and its extent until sfs_delete(). *)
sfs_unlink(ix, p) == [ix EXCEPT ![search_file(ix, p)].entry_type = "DEL_FILE_ENTRY"]

MayUnlink == Cardinality({i \in Slots : IsUnlinked(index[i])}) < MaxUnlinked

Unlink(p) == /\ search_file(index, p) # 0 /\ MayUnlink
             /\ index' = sfs_unlink(index, p)
             /\ UNCHANGED <<del_begin, data>>

(* Mutant: the continuation entries are not freed. *)
DeleteHeadOnly(u, f) ==
    del_file_list_add([u EXCEPT !.index = free_entry(@, f, 1)],
                      u.index[f].start_block, u.index[f].end_block).u

sfs_delete(u, f) ==
    LET file == u.index[f]
    IN  del_file_list_add([u EXCEPT !.index = free_entry(@, f, 1 + file.cont_entries)],
                          file.start_block, file.end_block).u

(* FUSE deletes what it has unlinked: at once, or when a handle is released. *)
Delete(f) == /\ IsUnlinked(index[f])
             /\ Becomes(sfs_delete(fs, f))
             /\ UNCHANGED data

(* Mutant: one block too few is copied. *)
CopyShort(d, src, dst, n) ==
    [a \in Bytes |-> IF a \in (dst * BlockSize) .. ((dst + n - 1) * BlockSize - 1)
                     THEN d[a - dst * BlockSize + src * BlockSize] ELSE d[a]]

(* copy_block() *)
copy_block(d, src, dst, n) ==
    [a \in Bytes |-> IF a \in (dst * BlockSize) .. ((dst + n) * BlockSize - 1)
                     THEN d[a - dst * BlockSize + src * BlockSize] ELSE d[a]]

write_data(d, addr, size, t) ==
    [a \in Bytes |-> IF a \in addr .. (addr + size - 1) THEN t ELSE d[a]]

(* The common part of sfs_write() and sfs_truncate() when a file needs more *)
(* blocks: in place, or in the front of a largest free extent, with the old *)
(* blocks freed and copied.  intact is false when del_file_list_add() found *)
(* the index full: copy_block() then overwrites the block buffer while      *)
(* buf_num still names the last index block, and if the file's entry is in  *)
(* that block, the entry read next is file data.  The bytes written are     *)
(* taken to be no entry types: the entry is CLOBBERED, found by no search,  *)
(* and what a release of its handle would free is not followed.             *)
Grow(f, new_size) ==
    LET file   == index[f]
        owns   == file.start_block # 0
        exp    == try_expand(fs, f, new_size)
        alloc  == del_file_list_alloc(fs, new_size)
        add    == del_file_list_add(alloc.u, file.start_block, file.end_block)
        LastBlock(s) == s + BlockCount(new_size) - 1
    IN  IF owns /\ exp.ok
        THEN [ok |-> TRUE, u |-> exp.u, start |-> file.start_block,
              end |-> LastBlock(file.start_block), intact |-> TRUE, data |-> data]
        ELSE [ok |-> alloc.start # 0, u |-> add.u, start |-> alloc.start,
              end |-> LastBlock(alloc.start), intact |-> add.ok \/ f < N - PerBlock + 2,
              data |-> IF owns THEN copy_block(data, file.start_block, alloc.start,
                                                file.end_block - file.start_block + 1)
                       ELSE data]

InPlace(f) == [ok |-> TRUE, u |-> fs, start |-> index[f].start_block,
               end |-> index[f].end_block, intact |-> TRUE, data |-> data]

(* Mutant: the end of the extent is not updated. *)
RewrittenNoEnd(e, g, new_size) ==
    [(IF g.intact THEN e ELSE NoEntry("CLOBBERED")) EXCEPT
        !.start_block = g.start, !.size = new_size, !.time_stamp = NewTime]

(* The entry is read, given its new extent, size and time, and written. *)
Rewritten(e, g, new_size) ==
    [(IF g.intact THEN e ELSE NoEntry("CLOBBERED")) EXCEPT
        !.start_block = g.start, !.end_block = g.end,
        !.size = new_size, !.time_stamp = NewTime]

Repointed(f, g, new_size) == [g.u EXCEPT !.index[f] = Rewritten(@, g, new_size)]

Handles == {f \in Slots : OwnsData(index[f]) \/ index[f].entry_type = "CLOBBERED"}

Write(f, off, size, t) ==
    LET old == index[f].size
        new == Max({off + size, old})
        g   == IF BlockCount(new) > BlockCount(old) THEN Grow(f, new) ELSE InPlace(f)
    IN  /\ f \in Handles \cup {0}
        /\ g.ok
        /\ Becomes(Repointed(f, g, new))
        /\ data' = write_data(g.data, g.start * BlockSize + off, size, t)

Truncate(f, new) ==
    LET file == index[f]
        g == CASE new = 0 ->
                    [InPlace(f) EXCEPT !.start = 0, !.end = 0,
                        !.u = del_file_list_add(fs, file.start_block, file.end_block).u]
               [] new # 0 /\ BlockCount(new) < BlockCount(file.size) ->
                    [InPlace(f) EXCEPT !.end = file.start_block + BlockCount(new) - 1,
                        !.u = file_shrink(fs, f, new)]
               [] BlockCount(new) > BlockCount(file.size) -> Grow(f, new)
               [] OTHER -> InPlace(f)
    IN  /\ f \in Handles \cup {0}
        /\ g.ok
        /\ Becomes(Repointed(f, g, new))
        /\ data' = g.data

(* The entry moves: new entries are chosen, the file is deleted, which puts *)
(* its blocks on the free list, and the new entry gets the same blocks.     *)
sfs_rename(u, f, p) ==
    LET n    == count_entry(Len(p) + 1, FirstFile)
        new  == alloc_entry(u.index, n)
        head == [u.index[f] EXCEPT !.name = p, !.cont_entries = n - 1]
        ok   == /\ check_dirs(u.index, p)
                /\ search_dir(u.index, p) = 0 /\ search_file(u.index, p) = 0
                /\ new # 0 /\ u.index[f].entry_type = "FILE_ENTRY"
    IN  [off |-> IF ok THEN new ELSE 0,
         u   |-> IF ok THEN [sfs_delete(u, f) EXCEPT !.index = write_name(@, new, head, n - 1)]
                 ELSE u]

Rename(f, p) == /\ sfs_rename(fs, f, p).off # 0
                /\ Becomes(sfs_rename(fs, f, p).u)
                /\ UNCHANGED data

-----------------------------------------------------------------------------
FileCalls == \E p \in FilePaths : Creat(p) \/ Unlink(p)
DirCalls == \E p \in DirPaths : Mkdir(p) \/ Rmdir(p)
DeleteCalls == \E f \in Slots : Delete(f)
WriteCalls == \E f \in Slots, s \in Spans, t \in Tokens : Write(f, s[1], s[2], t)
TruncateCalls == \E f \in Slots, new \in Lengths : Truncate(f, new)
RenameCalls == \E f \in Slots, p \in FilePaths : Rename(f, p)

(* Everything the library does. *)
Next == FileCalls \/ DirCalls \/ DeleteCalls \/ WriteCalls \/ TruncateCalls \/ RenameCalls
Spec == Init /\ [][Next]_vars

(* A truncation that keeps some blocks and frees others, and the renaming   *)
(* of a file that has blocks, break the space accounting (see the runs      *)
(* ShrinkFreesTooMuch and RenameFreesBlocks).  What holds without them:     *)
Shrinks(f, new) == new # 0 /\ BlockCount(new) < BlockCount(index[f].size)
SafeTruncate(f, new) == ~Shrinks(f, new) /\ Truncate(f, new)
SafeRename(f, p)     == index[f].start_block = 0 /\ Rename(f, p)

SafeNext == \/ FileCalls \/ DirCalls \/ DeleteCalls \/ WriteCalls
            \/ \E f \in Slots, new \in Lengths : SafeTruncate(f, new)
            \/ \E f \in Slots, p \in FilePaths : SafeRename(f, p)
SafeSpec == Init /\ [][SafeNext]_vars
=============================================================================
