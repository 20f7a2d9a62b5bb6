------------------------------- MODULE Mksfs --------------------------------
(***************************************************************************)
(* The command mksfs, the image it makes and the first steps of a mount:   *)
(* the sizes of the areas are computed three times, by main of mksfs, by   *)
(* image_create and by sfs_init, and must agree.  Sizes and offsets are    *)
(* bytes, as in the code.  The device is the sequence of the writes since  *)
(* it exists: making an image again does not clear the old one.            *)
(***************************************************************************)
EXTENDS Integers, Sequences, FiniteSets, FiniteSetsExt

CONSTANTS FileSizes,      \* sizes of the image file
          BlockOptions,   \* what follows -b: <<number, suffix>>, or None
          IndexOptions,   \* what follows -m
          Labels,         \* what follows -l: a sequence of bytes
          None,           \* the option is not given
          MaxImages       \* bound: how often mksfs is run

ASSUME MksfsAssumption ==
    /\ FileSizes \subseteq Nat /\ MaxImages \in Nat
    /\ \A o \in (BlockOptions \cup IndexOptions) \ {None} : o[1] \in Nat

VARIABLES file_size,
          images,   \* how many images were made
          exit,     \* how the last mksfs ended: what it found fault with
          opts,     \* what main passes to image_create
          mbr,      \* the MBR on the device
          free,     \* the extent in the first deleted file's entry
          dev,      \* the writes to the device
          fs        \* what the mount found, None before it

vars == <<file_size, images, exit, opts, mbr, free, dev, fs>>

MBR_SIZE           == 512
INDEX_ENTRY_SIZE   == 64
INDEX_MIN_SIZE     == 2 * INDEX_ENTRY_SIZE
DEFAULT_BLOCK_SIZE == 512
DEFAULT_MIN_BLOCK  == 256
VOLUME_NAME_SIZE   == 52
Magic              == 83 + 70 + 83    \* the sum of the letters SFS

Init == /\ file_size \in FileSizes /\ images = 0 /\ exit = "none"
        /\ opts = None /\ mbr = None /\ free = None /\ dev = <<>> /\ fs = None

-----------------------------------------------------------------------------
(* mksfs: the options *)

EINVAL == -1

convert_size(parameter, file_s) ==
    LET number == parameter[1]
    IN  CASE parameter[2] = "%" /\ file_s # 0 -> (file_s * number) \div 100
          [] parameter[2] \in {"", "B"} -> number
          [] parameter[2] = "K" -> 1024 * number
          [] parameter[2] = "M" -> 1024 * 1024 * number
          [] parameter[2] = "G" -> 1024 * 1024 * 1024 * number
          [] OTHER -> EINVAL

(* Doubling 256 until it is the block size or leaves the 64 bits. *)
Power(size) == \E k \in 0..22 : size = DEFAULT_MIN_BLOCK * 2^k

block_size(b) ==
    LET size == IF b = None THEN DEFAULT_BLOCK_SIZE ELSE convert_size(b, 0)
    IN  IF /\ b # None => size > DEFAULT_MIN_BLOCK \div 2 /\ Power(size)
           /\ size <= file_size
           /\ file_size % size = 0
        THEN size ELSE EINVAL

(* The reserved area: the MBR, or the block that holds it. *)
rsrvd_size(bs) == IF bs <= MBR_SIZE THEN MBR_SIZE ELSE bs

asked_size(m) ==
    IF m = None THEN Min({(5 * file_size) \div 100, 10 * 1024 * 1024})
                ELSE convert_size(m, file_size)

AlignUp(size, bs) == IF size % bs = 0 THEN size ELSE (size + bs) - (size % bs)

(* Mutant: the size is compared with that of the whole image. *)
IndexIgnoresReserved(m, bs) ==
    LET size == AlignUp(asked_size(m), bs)
    IN  IF \/ m # None /\ asked_size(m) \in {0, EINVAL}
           \/ size > file_size
           \/ size < INDEX_MIN_SIZE
        THEN EINVAL ELSE size

index_size(m, bs) ==
    LET size == AlignUp(asked_size(m), bs)
    IN  IF \/ m # None /\ asked_size(m) \in {0, EINVAL}
           \/ size > file_size - rsrvd_size(bs)
           \/ size < INDEX_MIN_SIZE
        THEN EINVAL ELSE size

(* label[i] is a char, signed on the machines the program is built for. *)
char(byte) == IF byte >= 128 THEN byte - 256 ELSE byte

Supported(byte) ==
    LET c == char(byte)
    IN  ~ (c < 32 \/ c \in 128..159 \/ c \in {34, 42, 58, 60, 62, 63, 92, 127, 160})

LabelAccepted(label) ==
    Len(label) < VOLUME_NAME_SIZE /\ \A i \in DOMAIN label : Supported(label[i])

log2(size) == CHOOSE k \in 0..30 : 2^k = size

sfs_options(b, m, label) ==
    LET bs == block_size(b)  is == index_size(m, bs)
    IN  [data_size     |-> file_size \div bs - rsrvd_size(bs) \div bs - is \div bs,
         index_size    |-> is,
         total_block   |-> file_size \div bs,
         reserved_size |-> rsrvd_size(bs) \div bs,
         block_size    |-> log2(bs) - 7,
         label         |-> label]

(* What main finds fault with, in the order of its checks. *)
verdict(b, m, label) ==
    IF file_size < MBR_SIZE + INDEX_MIN_SIZE THEN "image size"
    ELSE IF block_size(b) = EINVAL THEN "block size"
    ELSE IF index_size(m, block_size(b)) = EINVAL THEN "metadata size"
    ELSE IF LabelAccepted(label) THEN "success" ELSE "label"

(* main of mksfs up to the call of image_create. *)
main(b, m, label) ==
    /\ images < MaxImages /\ opts = None
    /\ exit' = verdict(b, m, label)
    /\ IF exit' = "success"
       THEN /\ opts' = sfs_options(b, m, label)
            /\ images' = images + 1
            /\ fs' = None
       ELSE UNCHANGED <<opts, images, fs>>
    /\ UNCHANGED <<file_size, mbr, free, dev>>

-----------------------------------------------------------------------------
(* image_create *)

(* The sum of the bytes of a number of 64 bits, the lowest first. *)
ByteSum(n) ==
    LET high == n \div 16777216
    IN  (n % 256) + ((n \div 256) % 256) + ((n \div 65536) % 256)
        + (high % 256) + ((high \div 256) % 256) + ((high \div 65536) % 256)
        + ((high \div 16777216) % 256) + ((high \div 16777216) \div 256)

(* image_create adds up the bytes of the MBR from magic_number to checksum, *)
(* in a byte; sfs_version is 0.                                             *)
Checksum(r) == (Magic + ByteSum(r.total_size) + ByteSum(r.reserved_size) + r.block_size) % 256

Written(from, to, what) == [from |-> from, to |-> to, what |-> what]
Entry(off, type) == Written(off, off + INDEX_ENTRY_SIZE, type)

(* Mutant: the free extent ends one block too far. *)
FreeTooMuch(o) == [start |-> o.reserved_size, end |-> o.reserved_size + o.data_size]

free_extent(o) == [start |-> o.reserved_size, end |-> o.reserved_size + o.data_size - 1]

(* Mutant: the unused entries start one entry too late. *)
UnusedLate(from, vol) ==
    IF from + 64 < vol THEN <<Written(from + 64, vol, "UNUSED")>> ELSE <<>>

remain_area(from, vol) ==
    IF from < vol THEN <<Written(from, vol, "UNUSED")>> ELSE <<>>

(* The writes, in their order; a later one covers an earlier one.  ROOT is  *)
(* a directory's entry whose name is empty.                                 *)
Writes(o) ==
    LET bs    == 2^(o.block_size + 7)
        start == o.total_block * bs - o.index_size
        vol   == o.total_block * bs - INDEX_ENTRY_SIZE
    IN  << Written(0, MBR_SIZE, "MBR"), Entry(vol, "VOL_IDENT"),
           Entry(start, "START"), Entry(start + 64, "DEL_FILE"),
           Entry(start + 128, "ROOT") >> \o remain_area(start + 192, vol)

image_create ==
    /\ opts # None
    /\ LET r == [data_area_size  |-> opts.data_size,
                 index_area_size |-> opts.index_size,
                 total_size      |-> opts.total_block,
                 reserved_size   |-> opts.reserved_size,
                 block_size      |-> opts.block_size]
       IN  mbr' = [fields |-> r, checksum |-> Checksum(r)]
    /\ free' = free_extent(opts)
    /\ dev' = dev \o Writes(opts)
    /\ opts' = None
    /\ UNCHANGED <<file_size, images, exit, fs>>

-----------------------------------------------------------------------------
(* The mount *)

(* What the entry at an offset holds: the last write that covers it. *)
At(off) ==
    LET over == {i \in DOMAIN dev : dev[i].from <= off /\ off < dev[i].to}
    IN  IF over = {} THEN "old" ELSE dev[Max(over)].what

(* Mutant: the highest bytes of the total size are left out. *)
CalcLowByte(r) ==
    (Magic + (r.total_size % 256) + (r.reserved_size % 256) + r.block_size) % 256

(* The second and third bytes of the reserved size are masked, not shifted, *)
(* before they are cut to a byte: only the lowest one counts.               *)
calc_checksum(r) ==
    (Magic + ByteSum(r.total_size) + (r.reserved_size % 256) + r.block_size) % 256

(* What lies where the root should be is refused by the type of its entry   *)
(* and by the first byte of its name.                                       *)
sfs_init ==
    LET r     == mbr.fields
        bs    == 128 * 2^r.block_size
        entry_start == r.reserved_size * bs + r.data_area_size * bs
        vol_ident   == entry_start + r.index_area_size - INDEX_ENTRY_SIZE
        corrupted   == \/ mbr.checksum # calc_checksum(r)
                       \/ At(entry_start + 2 * INDEX_ENTRY_SIZE) # "ROOT"
    IN  [mounted |-> ~ corrupted, block_size |-> bs, entry_start |-> entry_start,
         vol_ident |-> vol_ident]

(* fuse_sfs_init up to the time stamp; "The image was corrupted." when      *)
(* sfs_init fails.                                                          *)
fuse_sfs_init ==
    /\ opts = None /\ mbr # None /\ fs = None
    /\ fs' = sfs_init
    /\ UNCHANGED <<file_size, images, exit, opts, mbr, free, dev>>

-----------------------------------------------------------------------------
Next == \/ \E b \in BlockOptions, m \in IndexOptions, label \in Labels : main(b, m, label)
        \/ image_create
        \/ fuse_sfs_init

Spec == Init /\ [][Next]_vars

-----------------------------------------------------------------------------
(* Properties *)

(* Every value is of its kind: what mksfs accepted has a positive number of *)
(* index blocks and no negative number of data blocks (size_t cannot show   *)
(* the difference; mksfs main and struct sfs_options).                      *)
MksfsTypeOK ==
    /\ file_size \in FileSizes /\ images \in 0..MaxImages
    /\ opts # None => /\ opts.data_size \in Nat /\ opts.block_size \in 1..23
                      /\ opts.index_size \in Nat \ {0}
                      /\ opts.index_size % INDEX_ENTRY_SIZE = 0

(* An image that mksfs has made can be mounted, also when an older image    *)
(* was on the device before: the two checksum computations agree and        *)
(* sfs_init looks for the root where image_create wrote it.                 *)
MadeImagesMount == fs # None => fs.mounted

(* The index area that sfs_init computes from the MBR is the one that       *)
(* image_create wrote from its own offsets, to the end of the device and    *)
(* with nothing of an older image in it: the marker, the free space, the    *)
(* root, unused entries and the volume identifier.                          *)
IndexIsFresh ==
    fs # None =>
       LET slots == {k \in 0..(file_size \div 64) :
                        /\ fs.entry_start + 64 * k <= fs.vol_ident}
           at(k) == At(fs.entry_start + 64 * k)
           last  == (fs.vol_ident - fs.entry_start) \div 64
       IN  /\ fs.vol_ident + 64 = file_size
           /\ \A k \in slots :
                 CASE k = 0 -> at(k) = "START"
                   [] k = 1 -> at(k) = "DEL_FILE"
                   [] k = 2 -> at(k) = "ROOT"
                   [] k = last -> at(k) = "VOL_IDENT"
                   [] OTHER -> at(k) = "UNUSED"

(* The free extent of a new image is the data area: it begins behind the    *)
(* MBR and ends where sfs_init lets the index begin, so no file can be      *)
(* given a block of either, and the space check of the first mount agrees   *)
(* with the data_area_size of the MBR.                                      *)
FreeIsDataArea ==
    fs # None =>
       /\ free.start * fs.block_size >= MBR_SIZE
       /\ (free.end + 1) * fs.block_size = fs.entry_start
       /\ free.end - free.start + 1 = mbr.fields.data_area_size
=============================================================================
