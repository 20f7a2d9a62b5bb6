------------------------------ MODULE SfsFuse ------------------------------
(***************************************************************************)
(* The FUSE handlers (fuse/main.c) and the inode map (fuse/inode.c) on top *)
(* of the library.  A virtual inode, vino, is a position in a table that   *)
(* is only ever extended; its physical inode, pino, is the offset of the   *)
(* index entry, 0 once the file is deleted.  A handle is the vino that     *)
(* open or opendir put into fi->fh.  One action per handler that changes   *)
(* state; a handler that fails before it changes anything is not enabled.  *)
(* The kernel has looked the paths up with getattr before it asks: it      *)
(* makes no directory where something is, renames no directory to a file,  *)
(* and opens only what is there.                                           *)
(***************************************************************************)
EXTENDS SfsReaddir, SfsCorrect

CONSTANTS HandleIds,   \* the open files and directories of the processes
          MaxVino      \* bound: entries of the inode table

ASSUME FuseAssumption == MaxVino \in Nat \ {0}

VARIABLES inode_table,  \* vino -> its pino and its dirty and open bits
          handle        \* the open handles; file is a ghost: the entry at
                        \* which the opened file is now, 0 if it is deleted

fvars == <<index, del_begin, data, inode_table, handle>>

NoHandle == [kind |-> "closed", vino |-> 0, path |-> <<>>, file |-> 0]

FuseInit == /\ Init
            /\ inode_table = <<>>
            /\ handle = [h \in HandleIds |-> NoHandle]

-----------------------------------------------------------------------------
(* The inode map *)

get_vino(t, pino) == FirstOf({v \in DOMAIN t : t[v].pino = pino})
pino_add(t, pino) == Append(t, [pino |-> pino, dirty |-> FALSE, openbit |-> FALSE])
set_pino(t, v, pino) == [t EXCEPT ![v].pino = pino]

(* What getattr, open, opendir and readdir do with an entry they found. *)
Known(t, pino) == IF get_vino(t, pino) = 0 THEN pino_add(t, pino) ELSE t

Fits(t) == Len(t) <= MaxVino

get_pino(h)  == inode_table[handle[h].vino].pino
get_dirty(h) == inode_table[handle[h].vino].dirty

Open(kind)  == {h \in HandleIds : handle[h].kind = kind}
Closed(h)   == [handle EXCEPT ![h] = NoHandle]
(* The ghost: the file at the entry from is now at the entry to. *)
Moved(hs, from, to) ==
    [h \in HandleIds |-> IF hs[h].kind = "file" /\ hs[h].file = from
                         THEN [hs[h] EXCEPT !.file = to] ELSE hs[h]]

sfs_open(ix, p) == IF search_file(ix, p) # 0 THEN search_file(ix, p) ELSE search_dir(ix, p)

-----------------------------------------------------------------------------
(* The handlers *)

fuse_sfs_getattr(p) ==
    /\ sfs_open(index, p) # 0
    /\ inode_table' = Known(inode_table, sfs_open(index, p)) /\ Fits(inode_table')
    /\ UNCHANGED <<index, del_begin, data, handle>>

fuse_sfs_mknod(p) == Creat(p) /\ UNCHANGED <<inode_table, handle>>

fuse_sfs_mkdir(p) == sfs_open(index, p) = 0 /\ Mkdir(p) /\ UNCHANGED <<inode_table, handle>>

(* The inode table is not told. *)
fuse_sfs_rmdir(p) == Rmdir(p) /\ UNCHANGED <<inode_table, handle>>

(* Mutants: the open bit is not set; the handle is the next vino. *)
OpenNoBit(h, p) ==
    LET pino == search_file(index, p)
        t    == Known(inode_table, pino)
    IN  /\ handle[h] = NoHandle /\ pino # 0 /\ Fits(t)
        /\ inode_table' = t
        /\ handle' = [handle EXCEPT ![h] = [kind |-> "file", vino |-> get_vino(t, pino),
                                            path |-> <<>>, file |-> pino]]
        /\ UNCHANGED <<index, del_begin, data>>
OpenNextVino(h, p) ==
    LET pino == search_file(index, p)
        t    == Known(inode_table, pino)
        vino == get_vino(t, pino)
    IN  /\ handle[h] = NoHandle /\ pino # 0 /\ Fits(t)
        /\ inode_table' = [t EXCEPT ![vino].openbit = TRUE]
        /\ handle' = [handle EXCEPT ![h] = [kind |-> "file", vino |-> Len(t) + 1,
                                            path |-> <<>>, file |-> pino]]
        /\ UNCHANGED <<index, del_begin, data>>

(* The kernel does not open a directory with this handler. *)
fuse_sfs_open(h, p) ==
    LET pino == search_file(index, p)
        t    == Known(inode_table, pino)
        vino == get_vino(t, pino)
    IN  /\ handle[h] = NoHandle /\ pino # 0 /\ Fits(t)
        /\ inode_table' = [t EXCEPT ![vino].openbit = TRUE]
        /\ handle' = [handle EXCEPT ![h] = [kind |-> "file", vino |-> vino,
                                            path |-> <<>>, file |-> pino]]
        /\ UNCHANGED <<index, del_begin, data>>

(* Mutant: an unlinked file is left for somebody else to delete. *)
ReleaseKeeps(h) ==
    /\ handle[h].kind = "file"
    /\ handle' = Closed(h)
    /\ inode_table' = [inode_table EXCEPT ![handle[h].vino].openbit = FALSE]
    /\ UNCHANGED <<index, del_begin, data>>

(* The file is deleted if it was unlinked; the bit is cleared although other *)
(* handles may have the vino, and dirty stays set.                           *)
fuse_sfs_release(h) ==
    LET vino == handle[h].vino
        pino == get_pino(h)
        t    == [inode_table EXCEPT ![vino].openbit = FALSE]
    IN  /\ handle[h].kind = "file"
        /\ IF get_dirty(h)
           THEN /\ Becomes(sfs_delete(fs, pino))
                /\ inode_table' = set_pino(t, vino, 0)
                /\ handle' = Moved(Closed(h), pino, 0)
           ELSE inode_table' = t /\ handle' = Closed(h) /\ UNCHANGED <<index, del_begin>>
        /\ UNCHANGED data

(* Mutant: the file is deleted even if it is open. *)
UnlinkAtOnce(p) ==
    LET pino == search_file(index, p)
        vino == get_vino(inode_table, pino)
    IN  /\ pino # 0
        /\ Becomes(sfs_delete([fs EXCEPT !.index = sfs_unlink(@, p)], pino))
        /\ inode_table' = IF vino = 0 THEN inode_table ELSE set_pino(inode_table, vino, 0)
        /\ handle' = Moved(handle, pino, 0)
        /\ UNCHANGED data

fuse_sfs_unlink(p) ==
    LET pino == search_file(index, p)
        vino == get_vino(inode_table, pino)
        u    == [fs EXCEPT !.index = sfs_unlink(@, p)]
    IN  /\ pino # 0
        /\ IF vino # 0 /\ inode_table[vino].openbit
           THEN /\ MayUnlink
                /\ Becomes(u)
                /\ inode_table' = [inode_table EXCEPT ![vino].dirty = TRUE]
                /\ UNCHANGED handle
           ELSE /\ Becomes(sfs_delete(u, pino))
                /\ inode_table' = IF vino = 0 THEN inode_table ELSE set_pino(inode_table, vino, 0)
                /\ handle' = Moved(handle, pino, 0)
        /\ UNCHANGED data

(* A directory that a file of its name hides is not opened. *)
fuse_sfs_opendir(h, p) ==
    LET pino == sfs_open(index, p)
        t    == Known(inode_table, pino)
    IN  /\ handle[h] = NoHandle /\ pino # 0 /\ Fits(t)
        /\ index[pino].entry_type = "DIR_ENTRY"
        /\ inode_table' = t
        /\ handle' = [handle EXCEPT ![h] = [kind |-> "dir", vino |-> get_vino(t, pino),
                                            path |-> p, file |-> 0]]
        /\ UNCHANGED <<index, del_begin, data>>

(* A vino that has become a file's, and that is dirty, is taken for the     *)
(* directory's: a directory of that path is removed and the pino forgotten. *)
fuse_sfs_releasedir(h) ==
    LET r == sfs_rmdir(index, handle[h].path)
    IN  /\ handle[h].kind = "dir"
        /\ handle' = Closed(h)
        /\ IF get_dirty(h) /\ r.ok
           THEN index' = r.index /\ inode_table' = set_pino(inode_table, handle[h].vino, 0)
           ELSE UNCHANGED <<index, inode_table>>
        /\ UNCHANGED <<del_begin, data>>

(* For each child the offset behind its entry is put into the inode table. *)
fuse_sfs_readdir(p) ==
    /\ search_dir(index, p) # 0
    /\ inode_table' = FoldLeft(LAMBDA t, i : Known(t, i + 1), inode_table, Listing(index, p))
    /\ Fits(inode_table')
    /\ UNCHANGED <<index, del_begin, data, handle>>

(* The inode table learns that what was at old is now at new. *)
Retabled(t, old, new) == IF get_vino(t, old) = 0 THEN pino_add(t, new)
                         ELSE set_pino(t, get_vino(t, old), new)

(* Mutant: the new directory is made first, and the old one then removed. *)
MkdirFirst(ix, p, q) ==
    LET made    == sfs_mkdir(ix, q)
        removed == sfs_rmdir(made.index, p)
    IN  IF made.ok THEN [ok |-> removed.ok, off |-> sfs_open(made.index, q), index |-> removed.index]
        ELSE [ok |-> sfs_rmdir(ix, p).ok, off |-> 0, index |-> sfs_rmdir(ix, p).index]

(* A directory is removed and made again; off is 0 when that fails. *)
rename_dir(ix, p, q) ==
    LET removed == sfs_rmdir(ix, p)
        made    == sfs_mkdir(removed.index, q)
    IN  [ok |-> removed.ok, off |-> IF made.ok THEN sfs_open(made.index, q) ELSE 0,
         index |-> made.index]

fuse_sfs_rename(p, q) ==
    LET old  == sfs_open(index, p)
        dir  == rename_dir(index, p, q)
        file == sfs_rename(fs, old, q)
    IN  /\ old # 0
        /\ \/ /\ index[old].entry_type = "DIR_ENTRY" /\ search_file(index, q) = 0
              /\ dir.ok
              /\ index' = dir.index
              /\ inode_table' = IF dir.off \in {0, old} THEN inode_table
                                ELSE Retabled(inode_table, old, dir.off)
              /\ UNCHANGED <<del_begin, handle>>
           \/ /\ file.off # 0
              /\ Becomes(file.u)
              /\ inode_table' = Retabled(inode_table, old, file.off)
              /\ handle' = Moved(handle, old, file.off)
        /\ Fits(inode_table')
        /\ UNCHANGED data

fuse_sfs_write(h, off, size, t) ==
    /\ handle[h].kind = "file"
    /\ Write(get_pino(h), off, size, t)
    /\ UNCHANGED <<inode_table, handle>>

fuse_sfs_ftruncate(h, len) ==
    /\ handle[h].kind = "file"
    /\ SafeTruncate(get_pino(h), len)
    /\ UNCHANGED <<inode_table, handle>>

fuse_sfs_truncate(p, len) ==
    /\ search_file(index, p) # 0
    /\ SafeTruncate(search_file(index, p), len)
    /\ UNCHANGED <<inode_table, handle>>

-----------------------------------------------------------------------------
Paths == FilePaths \cup DirPaths

Lookups    == \/ \E p \in Paths : fuse_sfs_getattr(p)
              \/ \E p \in DirPaths \cup {<<>>} : fuse_sfs_readdir(p)
Namespace  == \/ \E p \in FilePaths : fuse_sfs_mknod(p) \/ fuse_sfs_unlink(p)
              \/ \E p \in DirPaths : fuse_sfs_mkdir(p) \/ fuse_sfs_rmdir(p)
Data       == \/ \E h \in HandleIds, s \in Spans, t \in Tokens : fuse_sfs_write(h, s[1], s[2], t)
              \/ \E h \in HandleIds, len \in Lengths : fuse_sfs_ftruncate(h, len)
              \/ \E p \in FilePaths, len \in Lengths : fuse_sfs_truncate(p, len)
Opens      == \E h \in HandleIds : \/ \E p \in FilePaths : fuse_sfs_open(h, p)
                                   \/ \E p \in DirPaths : fuse_sfs_opendir(h, p)
Releases   == \E h \in HandleIds : fuse_sfs_release(h) \/ fuse_sfs_releasedir(h)
(* As in SafeNext, no file that has blocks is renamed. *)
Renames    == \E p, q \in Paths : /\ p # q
                                  /\ index[sfs_open(index, p)].start_block = 0
                                  /\ fuse_sfs_rename(p, q)

(* Everything the kernel may ask for.  What a handle does to an entry that  *)
(* has ceased to be a file's, other than the boot code, is not followed.    *)
FuseNext == Lookups \/ Namespace \/ Data \/ Opens \/ Releases \/ Renames
FuseSpec == FuseInit /\ [][FuseNext]_fvars

(* No two handles have the same vino: no file is open twice, and none that  *)
(* is opened has got the entry, and with it the vino, of a directory that   *)
(* was removed while it was open.                                           *)
OneHandleEach == \A g, h \in HandleIds : /\ g # h
                                         /\ "closed" \notin {handle[g].kind, handle[h].kind}
                                         => handle[g].vino # handle[h].vino

(* No open file moves to an entry that the table has from an earlier use. *)
NoStaleTarget == \A h \in HandleIds : handle'[h].file \notin {0, handle[h].file}
                                       /\ handle[h].kind = "file"
                                       => get_vino(inode_table, handle'[h].file) = 0

PoliteNext == FuseNext /\ OneHandleEach' /\ NoStaleTarget
PoliteSpec == FuseInit /\ [][PoliteNext]_fvars

(* Every process closes its files in the end. *)
FairSpec == /\ PoliteSpec
            /\ \A h \in HandleIds : WF_fvars(fuse_sfs_release(h))

-----------------------------------------------------------------------------
(* A handle is a vino of the table, and a pino an offset: the volume        *)
(* identifier's too, which readdir takes for the entry before it.           *)
FuseTypeOK ==
    /\ \A v \in DOMAIN inode_table : /\ inode_table[v].pino \in 0..(N + 1)
                                     /\ inode_table[v].dirty \in BOOLEAN
                                     /\ inode_table[v].openbit \in BOOLEAN
    /\ \A h \in HandleIds : /\ handle[h].kind \in {"closed", "file", "dir"}
                            /\ handle[h].kind # "closed" => handle[h].vino \in DOMAIN inode_table
                            /\ handle[h].file \in Offsets

(* A handle reaches the file that was opened through it, wherever renames   *)
(* have put its entry and even when it was unlinked: the file is never      *)
(* deleted under it, and the table follows it.                              *)
HandlesFollowFiles ==
    \A h \in Open("file") : /\ handle[h].file # 0
                            /\ get_pino(h) = handle[h].file
                            /\ OwnsData(index[handle[h].file])

(* What fuse_sfs_unlink() finds in the table for the path of an open file   *)
(* is the handle's vino, with its open bit: getattr, readdir and renames of *)
(* other files never put another vino before it.                            *)
PathAndHandleAgree ==
    \A h \in Open("file") :
        LET pino == handle[h].file
            vino == get_vino(inode_table, pino)
        IN  index[pino].entry_type = "FILE_ENTRY" =>
                vino = handle[h].vino /\ inode_table[vino].openbit

(* When the last handle is closed, nothing is left of unlinked files, and   *)
(* free space and files make up the data area: what the next mount checks   *)
(* ("Allocation of free space was broken").                                 *)
QuietSpace ==
    Open("file") = {} => /\ \A i \in Slots : ~IsUnlinked(index[i])
                         /\ SpaceConserved

(* Renaming an empty directory to a free name of as many entries does not   *)
(* lose it, although it is removed before the new one is made and the index *)
(* may be full.                                                             *)
DirRenameKeepsIt ==
    \A p, q \in Paths :
        LET renamed == rename_dir(index, p, q)
        IN  /\ p # q /\ renamed.ok /\ search_dir(index, q) = 0
            /\ count_entry(Len(q) + 1, FirstDir) = count_entry(Len(p) + 1, FirstDir)
            /\ check_dirs(index, q) /\ p \notin Ancestors(q)
            => search_dir(renamed.index, q) # 0 /\ search_dir(renamed.index, p) = 0

(* An unlinked file is deleted in the end, if processes close their files:  *)
(* no sequence of other calls makes the release miss it.                    *)
UnlinkedGoesAway ==
    \A i \in Slots : IsUnlinked(index[i]) ~> ~IsUnlinked(index[i])
=============================================================================
