------------------------------ MODULE SfsMount ------------------------------
(***************************************************************************)
(* Mounting, unmounting and crashes.  A library call writes its index      *)
(* entries and data blocks to the device one after the other; when the     *)
(* process dies in a call, the image holds the writes up to there.  The    *)
(* operators named during... give the images between the writes of a       *)
(* function; their last one is what the function of that name in module    *)
(* Sfs returns.  The system survives: what was written stays written.      *)
(***************************************************************************)
EXTENDS SfsCorrect

CONSTANT MaxMounts    \* bound: mounts; from this one on nothing is called

ASSUME MountAssumption == MaxMounts \in Nat \ {0}

VARIABLES mounted,
          stamp,     \* the time in the volume identifier: 0, or (1) that of
                     \* the last modification of the image
          mounts,    \* how often the image was mounted
          crashed,   \* ghost: a session has ended in a crash
          torn       \* ghost: the call in which the last session ended

mvars == <<index, del_begin, data, mounted, stamp, mounts, crashed, torn>>

(* span is the bytes that the call asked to change; frees holds for a call  *)
(* that puts blocks on the list which its file's entry still names.         *)
InCall(name, f) == [call |-> name, file |-> f, span |-> {}, frees |-> FALSE]

MountInit == /\ Init
             /\ mounted = FALSE /\ stamp = 1 /\ mounts = 0 /\ crashed = FALSE
             /\ torn = InCall("release", 0)

-----------------------------------------------------------------------------
(* The images between the writes of a call *)

(* Entries of ix are replaced by those of iy in the given order; offset 0   *)
(* stands for no entry, and is the same in both.                            *)
Between(ix, iy, order) ==
    {[i \in Offsets |-> IF \E j \in 1..k : order[j] = i THEN iy[i] ELSE ix[i]] :
        k \in 0..Len(order)}
FromOn(start, n) == [k \in 1..n |-> start + k - 1]

(* Mutant: the entry is freed before the list leads past it. *)
RemoveFreesFirst(u, off) ==
    Between(u.index, del_file_list_remove(u, off).index,
            <<off, PREV_DEL(u.index[off]), NEXT_DEL(u.index[off])>>)

during_remove(u, off) ==
    Between(u.index, del_file_list_remove(u, off).index,
            <<PREV_DEL(u.index[off]), NEXT_DEL(u.index[off]), off>>)

(* Two neighbours: the one before is removed and the one behind extended.   *)
(* None: the new entry is written before the old head points back to it.    *)
during_add(u, start, end) ==
    LET prev == prev_extent(u, start)
        next == next_extent(u, start, end)
        v    == del_file_list_add(u, start, end).u
    IN  IF start = 0 /\ end = 0 THEN {u.index}
        ELSE CASE prev # 0 /\ next # 0 -> during_remove(u, prev) \cup {v.index}
               [] prev = 0 /\ next = 0 -> Between(u.index, v.index, <<v.del_begin, u.del_begin>>)
               [] OTHER -> {u.index, v.index}

during_take(u, d, bytes) ==
    IF bytes = get_size(u.index[d]) THEN during_remove(u, d)
    ELSE {u.index, TakeFront(u, d, bytes).index}

(* Mutant: the blocks are freed before the entry. *)
DeleteFreesFirst(u, f) == during_add(u, u.index[f].start_block, u.index[f].end_block)

(* The entries are freed, and then the blocks. *)
during_delete(u, f) ==
    LET file  == u.index[f]
        n     == 1 + file.cont_entries
        freed == free_entry(u.index, f, n)
    IN  Between(u.index, freed, FromOn(f, n))
        \cup during_add([u EXCEPT !.index = freed], file.start_block, file.end_block)

Images(ixs, d) == {[index |-> ix, data |-> d] : ix \in ixs}

(* Blocks are taken, in place or elsewhere; the old ones are freed; then    *)
(* they are copied one by one.                                              *)
during_grow(f, new_size) ==
    LET file  == index[f]
        owns  == file.start_block # 0
        alloc == del_file_list_alloc(fs, new_size)
        g     == Grow(f, new_size)
    IN  IF owns /\ try_expand(fs, f, new_size).ok
        THEN Images(during_take(fs, donor(fs, f, new_size), delta_block(fs, f, new_size)), data)
        ELSE Images(during_take(fs, max_extent(fs), get_real_size(new_size)), data)
             \cup (IF ~owns THEN {}
                   ELSE Images(during_add(alloc.u, file.start_block, file.end_block), data)
                        \cup {[index |-> g.u.index,
                               data  |-> copy_block(data, file.start_block, g.start, n)] :
                                 n \in 0..(file.end_block - file.start_block + 1)})

(* The images in which the entry is rewritten and the bytes are written     *)
(* block by block; d is the data at that time.                              *)
during_data(f, g, d, new_size, off, size, t) ==
    {[index |-> Repointed(f, g, new_size).index,
      data  |-> write_data(d, g.start * BlockSize + off, n, t)] :
        n \in {size} \cup {k \in 0..size : k = 0 \/ (off + k) % BlockSize = 0}}

(* Mutant: the entry is rewritten before the blocks are copied. *)
RepointFirst(f, grows, g, new_size, off, size, t) ==
    (IF grows THEN during_grow(f, new_size) ELSE Images({index}, data))
    \cup during_data(f, g, data, new_size, off, size, t)
    \cup during_data(f, g, g.data, new_size, off, size, t)

during_write(f, grows, g, new_size, off, size, t) ==
    (IF grows THEN during_grow(f, new_size) ELSE Images({index}, data))
    \cup during_data(f, g, g.data, new_size, off, size, t)

-----------------------------------------------------------------------------
(* The process dies in a call *)

Dies(images, in) ==
    /\ mounted /\ mounts < MaxMounts
    /\ \E x \in images : index' = x.index /\ data' = x.data
    /\ mounted' = FALSE /\ crashed' = TRUE /\ torn' = in
    /\ del_begin' = 0
    /\ UNCHANGED <<stamp, mounts>>

(* Between two calls, or between the entries that hold a name. *)
DieInName(call, ok, iy, f) ==
    ok /\ Dies(Images(Between(index, iy, SetToSortSeq({i \in Slots : index[i] # iy[i]}, <)), data),
               InCall(call, f))
DieInFileCalls ==
    \E p \in FilePaths :
        LET f == search_file(index, p)
        IN  \/ DieInName("creat", sfs_creat(index, p).ok, sfs_creat(index, p).index, 0)
            \/ DieInName("unlink", f # 0 /\ MayUnlink, sfs_unlink(index, p), f)
DieInDirCalls ==
    \E p \in DirPaths :
        \/ DieInName("mkdir", sfs_mkdir(index, p).ok, sfs_mkdir(index, p).index, 0)
        \/ DieInName("rmdir", sfs_rmdir(index, p).ok, sfs_rmdir(index, p).index, 0)
DieInDelete(f) == IsUnlinked(index[f]) /\ Dies(Images(during_delete(fs, f), data), InCall("delete", f))

DieInRename(f, p) ==
    LET r == sfs_rename(fs, f, p)
        n == count_entry(Len(p) + 1, FirstFile)
    IN  /\ r.off # 0 /\ index[f].start_block = 0
        /\ Dies(Images(during_delete(fs, f)
                       \cup Between(sfs_delete(fs, f).index, r.u.index, FromOn(r.off, n)), data),
                InCall("rename", f))

DieInWrite(f, off, size, t) ==
    LET old   == index[f].size
        new   == Max({off + size, old})
        grows == BlockCount(new) > BlockCount(old)
        g     == IF grows THEN Grow(f, new) ELSE InPlace(f)
    IN  /\ f \in Handles /\ g.ok
        /\ Dies(during_write(f, grows, g, new, off, size, t),
                [InCall("write", f) EXCEPT !.span = (off + 1)..(off + size),
                    !.frees = index[f].start_block \notin {0, g.start}])

DieInTruncate(f, new) ==
    LET file  == index[f]
        grows == BlockCount(new) > BlockCount(file.size)
        g     == CASE new = 0 -> [InPlace(f) EXCEPT !.start = 0, !.end = 0,
                                    !.u = del_file_list_add(fs, file.start_block, file.end_block).u]
                   [] grows -> Grow(f, new)
                   [] OTHER -> InPlace(f)
    IN  /\ f \in Handles /\ ~Shrinks(f, new) /\ g.ok
        /\ Dies(during_write(f, grows, g, new, 0, 0, Fresh)
                \cup (IF new # 0 THEN {}
                      ELSE Images(during_add(fs, file.start_block, file.end_block), data)),
                [InCall("truncate", f) EXCEPT
                    !.frees = file.start_block \notin {0, g.start}])

Crash == \/ DieInFileCalls \/ DieInDirCalls
         \/ \E f \in Slots : DieInDelete(f)
         \/ \E f \in Slots, p \in FilePaths : DieInRename(f, p)
         \/ \E f \in Slots, s \in Spans, t \in Tokens : DieInWrite(f, s[1], s[2], t)
         \/ \E f \in Slots, new \in Lengths : DieInTruncate(f, new)

-----------------------------------------------------------------------------
(* strcmp() of utils.c: a string equals its prefixes. *)
strcmp_equal(s, t) == IsPrefix(s, t) \/ IsPrefix(t, s)

(* Mutant: the changed entry is not written back. *)
FixNotWritten(e) == e

fix_del_file(e) ==
    IF /\ e.entry_type = "DEL_FILE_ENTRY"
       /\ ~strcmp_equal(e.name, <<"f", "r", "e", "e">>)
       /\ ~strcmp_equal(e.name, FreeName)
    THEN [e EXCEPT !.entry_type = "FILE_ENTRY"] ELSE e

fix_non_del_file(ix) == [i \in Offsets |-> IF i = 0 THEN ix[0] ELSE fix_del_file(ix[i])]

(* What the mount finds before it changes an entry. *)
Found == [index |-> index, del_begin |-> search_begin(index)]
SpaceAgrees == data_size = scan_del_file_list(Found) + scan_used_space(index)

(* Mutant: the time stamp stays. *)
InitKeepsStamp == ~mounted /\ UNCHANGED <<data, stamp>>

(* sfs_init(): from here on the image counts as not released. *)
sfs_init == ~mounted /\ stamp' = 0 /\ UNCHANGED data

(* fuse_sfs_init(): the user was not warned, or wants to go on. *)
Mount == /\ sfs_init
         /\ index' = fix_non_del_file(index)
         /\ del_begin' = search_begin(index)
         /\ mounted' = TRUE /\ mounts' = Min({mounts + 1, MaxMounts}) /\ torn' = InCall("mount", 0)
         /\ UNCHANGED crashed

(* The process dies in the mount: the entries are fixed one after the other *)
(* in an image that has lost its time stamp.                                *)
DieInMount == /\ sfs_init /\ mounts < MaxMounts
              /\ index' \in Between(index, fix_non_del_file(index), FromOn(1, N))
              /\ UNCHANGED <<del_begin, mounted, mounts>>
              /\ crashed' = TRUE /\ torn' = InCall("mount", 0)

(* The user is warned, by the times or by the space, and does not go on. *)
Decline == /\ sfs_init
           /\ stamp = 0 \/ ~SpaceAgrees
           /\ UNCHANGED <<index, del_begin, mounted, mounts, crashed, torn>>

(* fuse_sfs_destroy(): also when a signal ends the program while unlinked  *)
(* files are open.                                                         *)
sfs_release == /\ mounted
               /\ mounted' = FALSE /\ stamp' = 1 /\ torn' = InCall("release", 0)
               /\ del_begin' = 0
               /\ UNCHANGED <<index, data, mounts, crashed>>

Session == /\ mounted /\ mounts < MaxMounts
           /\ SafeNext /\ UNCHANGED <<mounted, stamp, mounts, crashed, torn>>

MountNext == Session \/ Crash \/ Mount \/ DieInMount \/ Decline \/ sfs_release
MountSpec == MountInit /\ [][MountNext]_mvars

-----------------------------------------------------------------------------
(* An image whose last session did not end with sfs_release() has no time   *)
(* stamp, so that the next mount warns, whatever was tried in between.      *)
CrashWarns == ~mounted /\ torn.call # "release" => stamp = 0

(* A crash in a call leaves every other file as it was, and of the call's   *)
(* own file, if the call only changes its data or unlinks it, every byte    *)
(* that the call was not asked to change.  One in a mount may leave an      *)
(* unlinked file a file again, with its bytes.                              *)
CrashSparesFiles ==
    [][crashed' /\ ~crashed =>
        \A f \in Handles :
            /\ f # torn'.file =>
                  /\ \/ index'[f] = index[f]
                     \/ torn'.call = "mount" /\ index'[f] = fix_del_file(index[f])
                  /\ Content(f)' = Content(f)
            /\ f = torn'.file /\ torn'.call \in {"write", "truncate", "unlink"} =>
                  \A k \in DOMAIN Content(f) \cap DOMAIN Content(f)' :
                      k \notin torn'.span => Content(f)'[k] = Content(f)[k]]_mvars

(* A crash loses blocks at worst: none gets two owners, unless the call     *)
(* frees blocks before it takes them out of its file's entry.               *)
CrashOnlyLeaks ==
    [][crashed' /\ ~crashed /\ ~torn'.frees => Space!Disjoint']_mvars

(* After the first crash the next mount finds a list that ends and holds    *)
(* only free extents.  A second crash may break it: the entry of an extent  *)
(* that was being put on the list has no predecessor either, and the mount  *)
(* takes the first entry without one for the head.                          *)
MountFindsList ==
    [][crashed' /\ ~crashed =>
        LET w == Walk(Found')
        IN  w[N] = 0 /\ \A k \in 0..N : w[k] # 0 => IsFree(index'[w[k]])]_mvars

(* A mount after sessions that ended with a release finds the whole list of *)
(* free extents and makes every unlinked file a file with its bytes again.  *)
MountRepairs ==
    [][~mounted /\ mounted' /\ ~crashed =>
        /\ ListWellFormed'
        /\ \A f \in Handles : /\ index'[f].entry_type = "FILE_ENTRY"
                              /\ Content(f)' = Content(f)]_mvars

(* What the space check of a mount is worth after sessions that ended with  *)
(* a release: the two sums make up the data area, short of the blocks of    *)
(* unlinked files and of leaked ones, and over it by a block for each empty *)
(* file, so that an image with one empty file and nothing lost is reported  *)
(* as broken.                                                               *)
CheckCounts ==
    LET empty   == {f \in Slots : index[f].entry_type = "FILE_ENTRY" /\ index[f].size = 0}
        hidden  == {f \in Handles : index[f].entry_type # "FILE_ENTRY"}
        missing == Cardinality(AbsLost)
                   + MapThenSumSet(LAMBDA f : BlockCount(index[f].size), hidden)
    IN  ~mounted /\ ~crashed =>
            scan_del_file_list(Found) + scan_used_space(index) + BlockSize * missing
                = data_size + BlockSize * Cardinality(empty)
=============================================================================
