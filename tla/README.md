# A TLA+ model of fusesfs

fusesfs (`src/`) is a FUSE implementation of SFS, the Simple File System: a
library that keeps files in an image, a FUSE front end, and `mksfs`, which
creates images.  This directory holds a model of all of them, checked with TLC.
For the library's index and its use of space, listings, the handles of the FUSE
layer, mounts, block I/O, the geometry of images and the image lock the safety
properties are also proved with TLAPS, for every size.

## The system

An image has a reserved area with the MBR, a **data area** of blocks and, at its
end, an **index area** of 64-byte entries between a START entry and the volume
identifier.  A file is one FILE_ENTRY that names one contiguous run of blocks
(`start_block .. end_block`, 0 and 0 when it is empty); a long name goes on in
the continuation entries behind it.  A directory is an entry with a path and
nothing else: the tree exists only in the names.  Free blocks are kept in
DEL_FILE_ENTRY entries called `*free`, doubly linked through their `time_stamp`
(previous) and `size` (next) fields; `fs->del_begin` is the list head, kept in
memory and searched for again at each mount.  An unlinked file that is still
open has the type DEL_FILE_ENTRY too and keeps its name.

| component | state | operations | interacts with |
|---|---|---|---|
| index (`alloc.c`, `callback.c`, searches of `fsutils.c`) | entries | `alloc_entry`, `free_entry`, `search_*`, `check_dirs` | everything, through `read_entry` and `write_entry` |
| deleted-file list (`fsutils.c`) | links, extents, `del_begin` | `del_file_list_add/remove/alloc`, `try_expand`, `file_shrink` | index (one entry per extent), data calls |
| namespace calls (`sfs_creat/mkdir/rmdir/unlink/delete/rename.c`) | none | one call each | index; delete and rename also the list |
| data calls (`sfs_write/truncate/read.c`) | none | one call each | list, index, block I/O |
| block I/O (`io.c`, `filedev.c`) | one-block buffer, `buf_num` | `read_data`, `write_data`, `copy_block` | device |
| listing (`sfs_readdir.c`) | an iterator of the caller | `sfs_readdir` | index |
| mount (`sfs_init.c`, `sfs_release.c`, `statfs.c`, `fixfs.c`, `fuse_sfs_init`) | MBR, time stamp | find the list, check the space, turn unlinked files back into files | index, list |
| FUSE (`fuse/main.c`, `inode.c`) | vino/pino table, open and dirty bits | the FUSE handlers | library calls, by offset of the head entry |
| image lock (`fuse/main.c`) | a System V semaphore | `try_to_lock_image` | other fusesfs processes |
| `mksfs` (`mksfs/main.c`, `lib/mksfs.c`) | the image | option checks, `image_create` | gives the initial state; the mount must compute the same areas |

**What is hard.**  The program runs single-threaded (`main` passes `-s`), so
there are no interleavings inside a call; the difficulty is in long sequences of
legal calls.  Every call edits several entries one after the other and the free
list shares the index with the files, so that freeing space may need an entry
and fail.  Handles outlive names, and the table that connects them is only ever
extended.  A crash may happen between any two entry writes, and the next mount
derives the list head and the space totals from what it finds.  Several
processes may be started on one image.  The areas of an image are computed in
three places.  `PROJECT.json` lists the hazards at their lines.

**What makes each component correct.**  Index: a lookup finds every entry, no
continuation entry is orphaned.  List: well formed, recoverable, coalesced.
Space: one owner for each block.  Namespace: parents exist, a listing is the set
of children.  Data: a file reads back what was written.  FUSE: a handle reaches
its file until it is closed, and nothing is left of an unlinked file then.
Mount: a crash is noticed, spares other files, and leaves a list that can be
walked.  Lock: one server.  mksfs: every image it makes can be mounted.

## Modules

* **SfsSpace** - what the library promises about the data area: entries hold
  extents, and each call moves blocks between files, free extents and the ghost
  set `lost` of leaked blocks.  Links, names, sizes and positions are absent.
  One action per call; the five outcomes of `del_file_list_add` are operators of
  their own (`MergeBoth`, `MergeNext`, `MergePrev`, `AddNew`, `Leak`).
* **Sfs** - the library: `index` (entry position -> entry), `del_begin`, and
  `data` byte by byte.  One action per library call; the helper functions keep
  their names and return the changed index and list head as a record `u`.
  A failed call changes nothing and is simply not enabled, with the exception of
  a failed `del_file_list_add`, whose result the callers ignore.
* **SfsCorrect** - the properties of `Sfs`, and the refinement mappings.
* **FileStore** - what users of the file system see: names, directories and
  bytes.  Bytes of a file that no write covered are arbitrary, because neither
  `sfs_write` nor `sfs_truncate` fills a gap.  It may lose a file that has bytes
  (`Lose`) while there is no room in the index (`full`) and if the file's inode is
  one of the last block of the index (`AtRisk`): that is all a relocation can do
  whose `del_file_list_add` finds no entry for the old blocks.
* **SfsIo** - block I/O: the bytes of the device, the one-block buffer `buf` and
  its label `buf_num`; `read_data`, `write_data` and `copy_block` block by block,
  and one action per use the library makes of them.  While the index has an
  unused entry every copy follows a write of an entry, which leaves the buffer
  unlabelled (`Copy`); when `del_file_list_add` failed it follows a scan of the
  index instead (`CopyAfterFailedAdd`).
* **SfsReaddir** - `sfs_readdir` as the iterator it is, and the listing that
  `fuse_sfs_readdir` makes with it.
* **SfsFuse** - the FUSE handlers and the inode map on top of `Sfs` and
  `SfsReaddir`: `inode_table` (vino -> pino, dirty, openbit) and the open handles
  of the processes.  One action per handler that changes the image or the table.
  `handle[h].file` is a ghost: where the opened file is now.
* **SfsMount** - mount, unmount and crashes on top of `Sfs`: `stamp` is the time
  in the volume identifier, the operators `during_...` are the images between the
  writes of a function, in the order of the writes, `Crash` stops in one of them,
  and `DieInMount` between two entries that `fix_non_del_file` rewrites.
* **Mksfs** - `main` of mksfs, `image_create` as a sequence of writes to a device
  that may hold an older image, and the part of `sfs_init` and `fuse_sfs_init`
  that computes the areas from the MBR, in bytes, and looks for a directory with
  an empty name where the root should be.
* **SfsLock**, **SfsLock_proofs** - processes of fusesfs and the semaphore.
* **SfsSpace_proofs**, **SfsCorrect_proofs** (the deleted-file list, the library's
  calls, that they implement `SfsSpace` and `FileStore`, and the sums of space), **SfsFuse_proofs**
  (listings and the FUSE layer), **SfsMount_proofs**, **SfsIo_proofs**,
  **Mksfs_proofs** - the theorems; **Induction_proofs** - facts about natural
  numbers, recursive functions and sums that they share.
* **MCSfsSpace**, **MCSfs**, **MCSfsIo**, **MCSfsFuse**, **MCSfsMount**,
  **MCMksfs**, **MCSfsLock** - small instances for TLC.

`Sfs` has two next-state relations.  `Next` is everything the library does.
`SafeNext` leaves out exactly two cases that break the accounting, each with a
run that shows it: a truncation to a smaller, non-zero number of blocks, and
renaming a file that has blocks.  The passing runs use `SafeSpec` and say what
is right about everything else, renaming empty files and truncation to zero,
within a block and upwards included.

Abstractions: an entry's offset is its position; a continued name is stored
whole in the head entry and as a tag in the others; time stamps are zero or not
zero; the 64-bit wrap of block numbers is `% Word`; written data is one token
per write.  A failure of the device is not modelled.  When a relocation finds
the index full, `copy_block` overwrites the buffer that still counts as the last
index block, and a file whose entry is in that block has its entry replaced by
file data: the entry type CLOBBERED.  The handle still works; what a release of
it would free depends on the data and is not followed.

What the kernel does is external.  It has looked a path up with getattr before it
asks for an operation, so `SfsFuse` makes no directory where something is and
opens only what is there.  Without the option hard_remove libfuse turns the
unlink of an open file into a rename to a hidden name; both ways are in the
model, because renames of open files and unlinks of open files are.  SEM_UNDO is
carried out by the kernel at the end of a process (`Die` of `SfsLock`).

The crash model: the process dies, the system survives.  What was written stays
written, in order; `fs->del_begin` and the inode table are gone.  Nothing is
claimed about calls on an image that was mounted after a crash: fuse_sfs_init
warns the user that it gives no warranty, and so `MaxMounts` stops the calls
after the mount that follows.

`PoliteSpec` of `SfsFuse` leaves out two things, for which the handle properties
fail: a vino that two handles have, because a file is open twice or has got the
entry of a directory that is open still (`OneHandleEach`; run
`OpenbitIsNotACount`), and
the rename of an open file to an entry for which the table has a vino already
(`NoStaleTarget`; see below).

## Runs

| run | bounds | shows |
|---|---|---|
| `space` | 6 entries, 5 blocks | `TypeOK`, `Disjoint`, `Covered`, `Coalesced`, `LeakOnlyWhenIndexFull` for SfsSpace |
| `tight_index` | 5 entries, 5 blocks of 2 bytes, 2 names | `TypeOK`; list well formed (`ListWellFormed`) and recoverable (`HeadRecoverable`), `ExtentFitsSize`; `ImplementsSpace` and `ImplementsStore` |
| `names` | 9 entries, 1 block, files a, ab, a/b, directories a, ab | `ParentsExist`, `EveryNameFound`, `NoOrphanEntries`, `ListsItsChildren` |
| `block_io` | 3 data and 2 index blocks of 2 bytes | `TypeOK`; entry reads are not stale (`EntriesReadRight`), file reads are right from a block boundary or within a block (`FileReadsRight`), writes change exactly their bytes (`WritesLand`) |
| `handles` | 2 handles, 3 vinos, 6 entries, 1 block, names f and d, `PoliteSpec` | `FuseTypeOK`, `HandlesFollowFiles`, `PathAndHandleAgree`, `QuietSpace`, `DirRenameKeepsIt` |
| `release_liveness` | 2 handles, 2 vinos, 2 files, `FairSpec` | `UnlinkedGoesAway` |
| `crash` | 5 entries, 4 blocks of 1 byte, 2 files, 1 directory, 2 mounts | `CrashWarns`, `MountFindsList`, `CheckCounts`, `CrashSparesFiles`, `CrashOnlyLeaks`, `MountRepairs` |
| `mksfs` | 12 file sizes, 11 block options, 8 index options, 5 labels, 2 images | `MksfsTypeOK`, `MadeImagesMount`, `IndexIsFresh`, `FreeIsDataArea` |
| `image_lock` | 4 processes | `OneServer`, `NoStaleLock` |
| `RenameFreesBlocks` | 8 entries, `Spec` | violates `SpaceConserved`: creat, write, rename |
| `ShrinkFreesTooMuch` | 8 entries, `Spec`, 1 name | violates `SpaceConserved`: creat, write, truncate to 1 byte |
| `OpenbitIsNotACount` | 2 handles, `FuseSpec`, 1 name | violates `QuietSpace`: open, open, release, unlink, write |

Why the bounds are enough.  Five entries leave two besides START, the free extent
of mksfs and the root directory: two files, or one and an unlinked one, with the
free extent fill the index, so that freeing needs an entry that is not there;
blocks are then leaked.  The six of `space` leave one more, for two free extents
beside two files.  Five blocks give a file a used or a free neighbour
on each side, or a larger extent elsewhere, so that expansion, relocation and the
outcomes of `del_file_list_add` happen, and they are what it takes for a
relocation to find the index full: two files of one block each, and a free extent
of three of which the one that grows to two leaves a block, so that no entry
becomes free for its old one.  The last two entries share the last index block, so
that one of the two files can be lost then, and TLC reaches the states in which it
is CLOBBERED (31,256 distinct states).  With two-byte blocks the writes `<<0,1>>`
and `<<2,1>>` are the first bytes of the first and of the second block: they stay
in a block and make a file grow, and the second leaves a gap; transfers across a
boundary are the subject of `block_io`.  In `names`, three
bytes fit into a file's head entry and `a/b` with its terminator does not; `ab`
is the prefix trap of `sfs_rmdir` and of the listing.  `MaxUnlinked` bounds the
unlinked open files; nothing in the library depends on their number.

In `block_io`, three data blocks give a transfer a first, a whole and a last
block, two index blocks make lookups change the label, and a one-byte entry is
half a block; the two alternating patterns differ at every byte and from their
shift.  In `handles` a rename takes a file to the name of the directory and back,
so that two files and a directory share the index with an unlinked file; three
vinos are one for each handle and one that a lookup or a listing has left.  Two
handles are the smallest number for which one can be confused with the other.
`MountFindsList` is about the first crash of an image: after it the next mount
finds a list that it can walk to the end, over free entries only.  A second
crash may come in a mount that nobody repaired the list for: an entry that was
being added has no predecessor yet, is taken for the head, and the rest of the
list is lost.
In `crash` four blocks give a file with a free extent on each side, and so lists of
two extents, which is where the order of the writes of `del_file_list_remove`
matters, relocations whose copy can be interrupted, and two files or a file and a
directory that fill the index; the first session makes calls, the mounts after it look
at what it left, and a mount may be what dies, with one unlinked file to revive.  In `mksfs` the sizes go from too small for the reserved area
to a number of blocks of two bytes, with options that do not divide them.
Two names without a common prefix are interchangeable, and so are handles, hence
the symmetry; `release_liveness` uses none.

**Fairness.**  `FairSpec` has weak fairness of `fuse_sfs_release(h)` for every
handle and of nothing else: the kernel calls release when the last reference to
an open file goes, at the latest when the process ends.  Without that an open
file may stay open for ever, and nothing deletes it.  All other properties are
safety properties.  Every library call ends if the list is acyclic, which
`ListWellFormed` gives.  `mksfs` may stop (no further image), so its run does not
check for deadlock.

**What the violations show.**  Each is a state that the mount check calls broken;
the findings in `PROJECT.json` quote the line.  Other behaviour that the model
has and that a reader should know of, with no run of its own:

* *Full index.*  `sfs_truncate` and `sfs_write` ignore a failed
  `del_file_list_add`, and the blocks belong to nothing (`Leak` of `SfsSpace`).
  When a relocation does so, the next entry read from the last index block may be
  file data.  `EntriesReadRight` says that no other block is affected, and
  `ImplementsStore` that no file but the one that moves is lost, and that one only
  from the last index block; in `tight_index` it happens to the one of two files of
  a block each that grows.
* *Empty files.*  `get_size` counts them as one block, so an image with one fails
  the space check of the next mount.  `CheckCounts` says what the check adds up.
* *Buffer label.*  A read of several whole blocks leaves the last one in the
  buffer under the number of the first, against the comment on `buf_num` in
  `blockdev.h`.  `sfs_read` reads the file's entry first, which relabels the
  buffer, and `block_io` checks that this is enough.
* *Reads that cross a block boundary* and do not start at one are misplaced
  (io.c:57); `FileReadsRight` says which of their bytes are right.
* *Stale vinos.*  A listing registers the offset behind each entry.  When an open
  file is renamed to such an entry, `get_vino` finds the listing's vino first, its
  open bit is clear, and an unlink deletes the file under its handle.
* *Revived twins.*  `fix_non_del_file` does not look for the name: unlink of an
  open file, creat of the same name and a stop give two entries with one path.
* *Names like "free".*  `strcmp` of `utils.c` takes a string for equal to its
  prefixes; an unlinked file "f" or "free.txt" is not revived and its blocks are on
  no list.
* *Shared blocks after a crash.*  When the process dies in `sfs_truncate` to 0 of
  an unlinked file, between freeing the blocks and writing the entry, the space
  check passes and the revived file shares its blocks with the list: the check
  does not count unlinked files, and they are revived after it.
* *mksfs.*  An index area that leaves no data block is accepted (the comparison
  is `>`, the message says "more or equal"), and every label with a byte from 0x80
  on is refused, because `char` is signed, although the help says UTF-8.

## Proofs

`SfsSpace_proofs` proves, for every index and every data area
(`AreaAssumption`: 0 < Lo <= Hi; `SlotAssumption`: the first free entry is not
START or the root directory):

* `Accounts`: `Spec => []IInv`, and from it `TypeCorrect` (`TypeOK`), `OneOwner`
  (`Disjoint`), `NothingForgotten` (`Covered`), `AlwaysCoalesced` (`Coalesced`);
* `LeaksAreRare`: `Spec => LeakOnlyWhenIndexFull`.

None of the four invariants is inductive alone: merging with a neighbour keeps
extents apart only if the blocks freed are held by nobody (`Covered`) and the
neighbour is unique (`Disjoint`), and the merged extent has no free neighbour
only because the list was coalesced before.  `IInv` is their conjunction, as the
case P = {} of `Part(e, l, P)`: the index e with the leaked blocks l accounts
for all blocks except P, which a call has taken from a file and not yet given to
the list.  `Vacate` takes an extent from a file (P becomes its blocks),
`MergeNextOK`, `MergePrevOK`, `MergeBothOK` and `AddNewOK` give it to the list
(through `Absorb`), `Shift` moves blocks from the front of a free extent to a
file.  Each action is a composition of these: `Delete` is Vacate and release,
`Relocate` is Vacate, Shift and release.

`SfsLock_proofs` proves, for any set of processes, `LockCounts`:
`Spec => []LockInv`, and from it `AtMostOneServer` (`OneServer`) and
`LocksDieWithTheirOwner` (`NoStaleLock`).  `OneServer` is not inductive: two
processes that have passed `try_to_lock_image` would both go on to `fuse_main`.
`LockInv` adds that the semaphore counts the one process that has passed it and
that the kernel's undo value is that process's and nobody else's, so that the end
of a process which was refused does not open the lock.

`SfsCorrect_proofs` proves for `SafeSpec` and every number of entries, size of
block and data area, set of paths and set of writes, `StaysInOrder`:
`SafeSpec => []IInv(Tidy)`, and from it

* `TypeIsRight` (`TypeOK`), `ListStaysWhole` (`ListWellFormed`),
  `HeadStaysRecoverable` (`HeadRecoverable`), `ExtentsFitSizes`
  (`ExtentFitsSize`);
* `ParentsStay` (`ParentsExist`), `NamesAreFound` (`EveryNameFound`);
* `NothingOrphaned` (`NoOrphanEntries`), as long as no entry is CLOBBERED
  (`Unclobbered`): an entry that file data has overwritten may have been the head
  of its continuations.  In the run `names` no entry ever is.

The assumptions are those of `SfsAssumption`: a non-empty data area with block
numbers below `Word`, at least three entries, positive field lengths, and paths
that are neither empty nor the name `*free` of free extents.

`IInv(tidy)` is `InOrder(tidy, u)` of the index and the list head, with the type
of the data:

* `IsList`: the free extents are linked by `NEXT_DEL` and `PREV_DEL` in both
  directions, only the head has no predecessor, and ranks exist that grow along
  the links.  `ListWellFormed` speaks of a walk, which a changed link changes
  everywhere behind it; with ranks each change is local, and the walk's end and
  range are derived (`WalkEnds`, `WalkFinds`).  Without the ranks a cycle off the
  list would satisfy the links.
* `FreeShaped` and `Entered`: every entry has the fields of its type, a file's
  extent is the one its size asks for, and free extents lie in the data area.
* `NamesOK`: a head entry is followed by the continuations that its name needs
  (`HeadsWhole`), every continuation belongs to a head or to what was one
  (`ContsOwned`), and, in a tidy index, no two files and no two directories have
  one path (`Once`), and the directories on the way to a path exist (`Parented`).
  A lookup compares whole names only of heads, and finds the right one because of
  the first and third; the calls free and fill several entries at a time, and
  leave no continuation behind because of the first and second.

The parameter is there for mounts: `fix_non_del_file` makes an unlinked file a file
again without looking for its name or its directory, so that after a mount only
the untidy part holds.  All the lemmas about calls keep either.

Before the proof TLC checked the parts of it, with `ListWellFormed` for the
ranks, on the instances of `tight_index` and `names`.  The calls change an index in four ways:
the list operations change free extents and links only (`Kept`), an entry is
rewritten under its name (`Renewed`), a name's entries are freed (`Unnamed`), or
filled (`Named`); `KeptOrder`, `RenewedOrder`, `UnnamedOrder` and `NamedOrder` show
that each keeps `InOrder`, and each call has a lemma that composes them.

Its second part proves `AccountsForSpace`: `SafeSpec => ImplementsSpace`, and
with the theorem `Accounts` of `SfsSpace_proofs`, instantiated with the
library's entries, `BlocksHaveOneOwner`: `Disjoint`, `Covered` and `Coalesced` hold of the
library.  The refinement mapping defines the ghost `lost` as the blocks that no
entry holds, so that a step is mapped by showing which blocks its entries held
before and after; `Covered` gives the rest.  `Release`, the composition of all
outcomes of `del_file_list_add`, is matched case by case in `Released`.
`SpaceAddsUp` turns this into the numbers that the mount compares: what
`scan_del_file_list` counts, the files' blocks and the leaked blocks make up the
data area to the byte, so that `SpaceConserved` holds as long as nothing was
leaked.  The sums of the model are folds over sets; `SumIs` evaluates one by
induction over the subsets of its domain, and the count of a union of separate
extents is the sum of their lengths.

Its third part proves `StoresFiles`: `SafeSpec => ImplementsStore`, so that what
the calls do to names, directories and bytes is what `FileStore` says.  The
mapping is `StoreFiles` (the entry that `search_file` finds for each path),
`StoreDirs` and `StoreBody` (the bytes of the extent of an entry that is a
file's); the invariant `StoreInv` joins `IInv(Tidy)`, the accounting, whose
`Disjoint` keeps the bytes of files apart (`ExtentsApart`), and that the names of
files are paths of files (`FilesNamed`).  Each call has a lemma (`CreatStored`,
..., `TruncateStored`).  Those that change names are a change of one pair of
`StoreFiles` and leave the bytes alone.  Write and truncate change the bytes of
one file only, `Saved`: the blocks that a file grows into are nobody else's, and
if it moves not its own old ones either (`Room`); `copy_block` and the write after
it change only bytes of these blocks (`CopyKeeps`, `GoesTo`), and the copy is in
order (`CopyMoves`); so that the bytes which the call was not asked to change are
as they were (`GrowSaves`, `DataSaves`) and the others are the written ones.

When the relocation finds the index full the call is a `Lose` of the store, and a
later one through the handle of the lost file is a stutter (`LostNow`,
`LostAlready`).  `LostWhenFull` shows that it is then full before the call, that the
entry is in the last index block and that the file had bytes.  `KeepsFiles` is the
case without: `SafeSpec /\ []Unclobbered => Store!LosslessSpec`, where no file is
ever lost.  Its hypothesis is not empty: on the instance of `names` TLC finds
`Unclobbered` in every state.

`SfsFuse_proofs` has two parts.  `ListingsAreRight`: a listing has the children of
its directory, all and once each (`ListsItsChildren`), for every tree, provided
that no path begins with a slash: the handlers take it off (`path++`), and
`sfs_readdir` would take such a path for one in the root directory.
`FuseStaysInOrder`: `PoliteSpec /\ []Unclobbered => []FInv`, and from it

* `FuseTypeIsRight` (`FuseTypeOK`), `HandlesReachTheirFiles` (`HandlesFollowFiles`)
  and `PathsAndHandlesAgree` (`PathAndHandleAgree`);
* `NoUnlinkedFileStays`: when the last handle is closed no unlinked file is left,
  and `QuietSpaceAddsUp`: then `QuietSpace` holds, unless blocks were leaked;
* `DirRenamesKeepThem` (`DirRenameKeepsIt`).

Neither handle property is inductive.  `FInv` is `IInv(Tidy)` with `Agree` of table,
handles and index: the first vino of an open file's offset is the handle's, its
open bit is set and its dirty bit tells whether the file was unlinked (`Reaches`);
open bits are set for nothing else, and the dirty bit that a deleted file leaves
behind is in an entry that leads nowhere and that nobody uses (`BitsOK`); no
two handles share a vino (`OneVino`, which `OneHandleEach` of `PoliteSpec` gives);
every unlinked file is some handle's (`UnlinkedOpen`).  Two hypotheses restrict the
theorems.  `PoliteSpec` leaves out what `OpenbitIsNotACount` and *Stale vinos*
describe.  `Unclobbered` leaves out the states after an open file's entry was
overwritten with file data, when a release deletes according to whatever the
data are.  `AbsLost = {}` is needed because a leak is not undone by closing files.

`SfsMount_proofs` proves, for any number of mounts:

* `CrashIsSeen` (`CrashWarns`), by `Stamped`: while the image is mounted, or was left
  other than by `sfs_release`, it has no time stamp;
* `MountsFindOrder`: `MountSpec => []MInv`.  Until the first crash the index is in order
  (untidily), with the list head that a mount would find, which is also the one in
  memory while the image is mounted; and the accounting of `SfsSpace` holds;
* from it `CheckCountsSo` (`CheckCounts`): the two sums of the space check are the
  size of the data area, less unlinked files and leaked blocks, plus one block
  for every empty file; and `MountsRepair` (`MountRepairs`), under two
  hypotheses.  `NoneCalledFree`: no path is "f", "fr", "fre" or begins with "free"
  (*Names like "free"*, above).  `Unclobbered`, as in the FUSE layer;
* `MountsFindLists` (`MountFindsList`) and `CrashesOnlyLeak` (`CrashOnlyLeaks`),
  about every image that the first crash can leave.  A mount that dies
  (`MountTorn`) has changed the types of unlinked files, and so neither links nor
  extents.  `CrashTorn` goes through the
  calls and, in each, through the images between its writes: what is left can be
  walked (`Walkable`), holds the entry of every file but the call's own (`Wreck`),
  and of extents holds no more than before (`Less`, entry by entry, which keeps
  extents apart), or all that the call was to do, or else the call is one that
  frees blocks first (`torn.frees`).  A list can be walked if only free extents
  have no predecessor, since a mount starts at the first of those, and if some
  ranks grow along its links (`Tied`).  The ranks of a torn list are those of the
  list before or after the call; only the front of the list needs a new one.
  `Halfway` says this of the writes to the list, `NamesOnly` of those that change
  names, `Moving` and `Copying` of a relocation;
* `CrashesSpareFiles` (`CrashSparesFiles`): the other files keep their entries by
  `CrashTorn` and their bytes by `Untouched`, as does the call's own file outside
  the bytes that the call was asked to write.  Every image of a write or a
  truncation finds the old bytes at whichever place its entry names, by the
  lemmas about bytes of `SfsCorrect_proofs`; those that a mount revives keep their
  extents and sizes.

`SfsIo_proofs` proves, for every size of device, block and entry
(`IoAssumption`), `LabelsStayTrue`: `Spec => []IInv`, and from it `IoTypesKept`
(`TypeOK`), `NoEntryIsStale` (`EntriesReadRight`), `ReadsAreRight`
(`FileReadsRight`) and `WritesLandRight` (`WritesLand`).  `EntriesReadRight` is not
inductive, because it does not speak of the label.  `IInv` says that a label that
names an index block is true, except that of the last index block once the index
has been full; the labels of data blocks may be false, and are after a read of
several blocks.  TLC checked it on the instance of `block_io`.  `write_data` and
`copy_block` are recursive functions; `Recursion` of `Induction_proofs` gives
their unfolding from a table of the steps, and induction is stated of the set of
the numbers for which a fact holds (`UpTo`).

`Mksfs_proofs` proves, for every image size and all options (blocks of up to
1 GiB, the bound of `Power`), `ImagesAreMade`: `Spec => []IInv`, and from it
`OptionsFit` (`MksfsTypeOK`), `ImagesMount` (`MadeImagesMount`),
`IndexStaysFresh` (`IndexIsFresh`) and `FreeSpaceIsDataArea`
(`FreeIsDataArea`).  `IInv` says of the options that `main` passes on what the
others need: reserved, data and index area are whole blocks and make up the image
(`Accepted`); that the image was made from such options (`MadeFrom`), behind
whatever writes came before; and that a mount found their areas (`FoundOf`).
`OptionsAccepted` follows `main`'s rounding and comparisons, `Layout` which of the
overlapping writes a place ends up with, `MountFinds` the other computations of
the areas.  The powers of two are proved case by case, up to the bound.  TLC
checked the parts of `IInv` on the instance of `mksfs`.

The proofs changed the models in a few places: `MksfsTypeOK` had excluded blocks
of 1 GiB, which mksfs accepts; the checksums are plain sums over all bytes of a
64-bit number, so that they are right for every size; and `SfsAssumption` states
what was assumed of paths.

Of the properties that the passing runs check only `UnlinkedGoesAway` is not
proved: it needs fairness, and liveness is beyond this prover.

The three runs with a violation have nothing to prove.

## What is left

* A condition on the instance, enough entries for all names and extents, under
  which `Unclobbered` always holds; the theorems that assume it (`NothingOrphaned`,
  `KeepsFiles`, those of the FUSE layer and `MountsRepair`) would then hold of such
  instances without it.
* Crashes after the first one, which `MountsFindOrder` and what follows from it
  do not cover: what the mount after a crash finds is a list, but the blocks may
  have more than one owner.

## Not modelled

* Failures of the device (a failed write leaves a changed buffer under the label
  of its block, io.c:108) and failed allocations of memory.
* Blocks of 2 GiB and more, and offsets beyond 2^32, where `int` is too narrow
  (main.c:189, fsutils.c:382): beyond TLC's integers.
* The report of statfs, read, flush, chmod, chown and utime: they change neither
  the image nor the table.
* Option text, prompts, messages, traces and build files; the memory and string
  copying helpers of `utils.c`; `filedev_sync` and `filedev_release`, which pass
  on fsync and close; `alloc_space` and `search_del_space`, which have no caller.
* mksfs takes no lock and can make a new image under a mounted one; nothing in it
  is meant to prevent that.
