------------------------------- MODULE SfsIo -------------------------------
(***************************************************************************)
(* Block I/O of the library (io.c) on a block device: reads and writes of  *)
(* bytes go through one buffer, dev->buf, that holds the block buf_num of  *)
(* the device.  Data blocks come first and index blocks last, as in an     *)
(* image; an index entry never crosses a block.  One action per use the    *)
(* library makes of the functions; the device does not fail.               *)
(***************************************************************************)
EXTENDS Integers

CONSTANTS BlockSize,    \* bytes in a block
          EntrySize,    \* bytes in an index entry
          DataBlocks,   \* number of data blocks
          IndexBlocks,  \* number of index blocks
          Tokens,       \* values of a byte
          Patterns      \* bound: the data that is written, from its start

ASSUME IoAssumption ==
    /\ BlockSize \in Nat \ {0} /\ EntrySize \in Nat \ {0} /\ BlockSize % EntrySize = 0
    /\ DataBlocks \in Nat \ {0} /\ IndexBlocks \in Nat \ {0}
    /\ Patterns \subseteq [0..(DataBlocks * BlockSize - 1) -> Tokens]

VARIABLES disk,     \* the bytes of the device
          buf,      \* dev->buf
          buf_num,  \* dev->buf_num
          full      \* ghost: a file was moved while the index was full

vars == <<disk, buf, buf_num, full>>

Blocks  == 0..(DataBlocks + IndexBlocks - 1)
Addrs   == 0..((DataBlocks + IndexBlocks) * BlockSize - 1)
Cells   == 0..(BlockSize - 1)
NoBlock == -1
Untouched == -1      \* a byte of the caller's memory that was not written

Spans == {s \in (0..(DataBlocks * BlockSize - 1)) \X (1..(DataBlocks * BlockSize)) :
              s[1] + s[2] <= DataBlocks * BlockSize}
ReadSpans == Spans \cup ((0..(DataBlocks * BlockSize - 1)) \X {0})   \* at the end of the file
EntryOffs == {EntrySize * i : i \in ((DataBlocks * BlockSize) \div EntrySize) ..
                                    (((DataBlocks + IndexBlocks) * BlockSize) \div EntrySize - 1)}
Prefixes(p, n) == [k \in 0..(n - 1) |-> p[k]]

Init == /\ disk \in {[a \in Addrs |-> t] : t \in Tokens}
        /\ buf \in {[i \in Cells |-> t] : t \in Tokens}    \* malloc()
        /\ buf_num = NoBlock
        /\ full = FALSE

-----------------------------------------------------------------------------
(* d is a record of the device: its bytes, the buffer and buf_num. *)
dev == [disk |-> disk, buf |-> buf, num |-> buf_num]
Becomes(d) == disk' = d.disk /\ buf' = d.buf /\ buf_num' = d.num

BlockOf(bytes, b) == [i \in Cells |-> bytes[b * BlockSize + i]]

(* dev->read and dev->write of one block, through the buffer. *)
filedev_read(d, b) == [d EXCEPT !.buf = BlockOf(d.disk, b)]
filedev_write(d, b) ==
    [d EXCEPT !.disk = [a \in Addrs |-> IF a \div BlockSize = b THEN d.buf[a % BlockSize]
                                        ELSE d.disk[a]]]

(* Mutant: the block number is not advanced after the first block. *)
ReadNoAdvance(d, off, size) ==
    LET b     == off \div BlockSize
        first == IF d.num = b THEN d ELSE [filedev_read(d, b) EXCEPT !.num = b]
    IN  [dev |-> first, bytes |-> [k \in 0..(size - 1) |-> first.buf[(off + k) % BlockSize]]]

(* Mutant: buf_num is set after bnum has been advanced. *)
ReadLabelsNext(d, off, size) ==
    LET b == off \div BlockSize
    IN  [dev |-> [filedev_read(d, b) EXCEPT !.num = b + 1],
         bytes |-> [k \in 0..(size - 1) |-> d.disk[off + k]]]

(* The first block comes from the buffer if buf_num says so; the last one,  *)
(* when it is not needed whole, sets buf_num, whole blocks do not.  After   *)
(* the first block the destination advances by bsize + cur_pos, so byte p   *)
(* of the rest lands at p + 2 * cur_pos; what lands behind the caller's     *)
(* size bytes is left out.                                                  *)
read_data(d, off, size) ==
    LET b       == off \div BlockSize
        cur_pos == off % BlockSize
        first   == IF d.num = b THEN d ELSE [filedev_read(d, b) EXCEPT !.num = b]
        head    == BlockSize - cur_pos
        last    == (off + size - 1) \div BlockSize
        whole   == (off + size) % BlockSize = 0
        ends    == filedev_read(first, last)
    IN  IF size <= head
        THEN [dev |-> first, bytes |-> [k \in 0..(size - 1) |-> first.buf[cur_pos + k]]]
        ELSE [dev |-> IF whole THEN ends ELSE [ends EXCEPT !.num = last],
              bytes |-> [k \in 0..(size - 1) |->
                           IF k < head THEN first.buf[cur_pos + k]
                           ELSE IF k < BlockSize + cur_pos THEN Untouched
                           ELSE d.disk[off + k - 2 * cur_pos]]]

(* Mutant: after the first block the data advances by bsize, not by the     *)
(* bytes that were taken from it.                                           *)
WriteSkips(d, off, v) ==
    LET cur_pos == off % BlockSize
    IN  [d EXCEPT !.num = NoBlock,
            !.disk = [a \in Addrs |->
                        IF a - off \notin DOMAIN v THEN d.disk[a]
                        ELSE IF a \div BlockSize # off \div BlockSize /\ a - off + cur_pos \in DOMAIN v
                             THEN v[a - off + cur_pos] ELSE v[a - off]]]

(* Block by block: the first and a last partial one are read, changed and   *)
(* written, whole ones are only written.                                    *)
write_data(d, off, v) ==
    LET b       == off \div BlockSize
        cur_pos == off % BlockSize
        last    == (cur_pos + (CHOOSE n \in DOMAIN v : n + 1 \notin DOMAIN v)) \div BlockSize
        Pos(j, i)     == j * BlockSize + i - cur_pos
        Whole(j)      == \A i \in Cells : Pos(j, i) \in DOMAIN v
        Patched(x, j) == [i \in Cells |-> IF Pos(j, i) \in DOMAIN v THEN v[Pos(j, i)] ELSE x[i]]
        Loaded(e, j)  == IF j > 0 /\ Whole(j) THEN [e EXCEPT !.num = NoBlock]
                         ELSE [filedev_read(e, b + j) EXCEPT !.num = b + j]
        Block(e, j)   == LET l == Loaded(e, j)
                         IN  filedev_write([l EXCEPT !.buf = Patched(l.buf, j)], b + j)
        after[j \in 0..last] == Block(IF j = 0 THEN d ELSE after[j - 1], j)
    IN  IF last = 0 THEN [after[0] EXCEPT !.num = NoBlock] ELSE after[last]

read_entry(d, a)     == read_data(d, a, EntrySize)
write_entry(d, a, v) == write_data(d, a, v)

(* copy_block() uses the buffer and leaves buf_num alone. *)
copy_block(d, src, dest, size) ==
    LET copied[k \in 0..size] ==
            IF k = 0 THEN d
            ELSE filedev_write(filedev_read(copied[k - 1], src + k - 1), dest + k - 1)
    IN  copied[size]

-----------------------------------------------------------------------------
(* A lookup, or any other read of an entry. *)
Lookup(a) == Becomes(read_entry(dev, a).dev)

WriteEntry(a, v) == Becomes(write_entry(dev, a, v))

(* sfs_read() reads the entry of the file before its bytes; off and size are *)
(* what is left after it has cut the request at the end of the file.         *)
sfs_read(a, off, size) == read_data(read_entry(dev, a).dev, off, size)
ReadFile(a, off, size) == Becomes(sfs_read(a, off, size).dev)

(* The last step of sfs_write() *)
WriteFile(off, v) == Becomes(write_data(dev, off, v))

(* Mutant: del_file_list_add() may have ended with a read. *)
CopyAnytime(src, dest, size) == Becomes(copy_block(dev, src, dest, size))

(* sfs_write() and sfs_truncate() move a file after del_file_list_add() has *)
(* put its old extent into the list, which ends with a write of an entry.   *)
Copy(src, dest, size) ==
    /\ buf_num = NoBlock
    /\ Becomes(copy_block(dev, src, dest, size))

(* The same when del_file_list_add() found no entry for the old extent: it  *)
(* has read the index up to the last entry and written nothing.             *)
CopyAfterFailedAdd(src, dest, size) ==
    LET scanned == read_entry(dev, (DataBlocks + IndexBlocks) * BlockSize - EntrySize).dev
    IN  Becomes(copy_block(scanned, src, dest, size))

Moves == {m \in (0..(DataBlocks - 1)) \X (0..(DataBlocks - 1)) \X (1..DataBlocks) :
             /\ m[1] + m[3] <= DataBlocks /\ m[2] + m[3] <= DataBlocks
             /\ m[1] + m[3] <= m[2] \/ m[2] + m[3] <= m[1]}

Calls == \/ \E a \in EntryOffs : Lookup(a)
         \/ \E a \in EntryOffs, p \in Patterns : WriteEntry(a, Prefixes(p, EntrySize))
         \/ \E a \in EntryOffs, s \in ReadSpans : ReadFile(a, s[1], s[2])
         \/ \E s \in Spans, p \in Patterns : WriteFile(s[1], Prefixes(p, s[2]))
         \/ \E m \in Moves : Copy(m[1], m[2], m[3])
FullMoves == \E m \in Moves : CopyAfterFailedAdd(m[1], m[2], m[3])

Next == \/ Calls /\ UNCHANGED full
        \/ FullMoves /\ full' = TRUE
Spec == Init /\ [][Next]_vars

-----------------------------------------------------------------------------
Slice(off, size) == [k \in 0..(size - 1) |-> disk[off + k]]
InBlocks(s) == s[1] % BlockSize = 0 \/ (s[1] % BlockSize) + s[2] <= BlockSize

(* The device, the buffer and its label have their types. *)
TypeOK == /\ disk \in [Addrs -> Tokens] /\ buf \in [Cells -> Tokens]
          /\ buf_num \in Blocks \cup {NoBlock} /\ full \in BOOLEAN

(* read_entry() never returns a stale entry, whatever was read, written or  *)
(* copied before, although read_data() and copy_block() leave a buffer that *)
(* does not match its label.  Once a file was moved while the index was     *)
(* full this is true only outside the last index block: an entry there may  *)
(* read as file data.                                                       *)
EntriesReadRight ==
    \A a \in EntryOffs :
        ~full \/ a \div BlockSize # DataBlocks + IndexBlocks - 1
            => read_entry(dev, a).bytes = Slice(a, EntrySize)

(* sfs_read() returns the bytes of the device for reads that stay in a      *)
(* block or start with one, and of any other the bytes in its first block:  *)
(* the rest is misplaced.                                                   *)
FileReadsRight ==
    \A a \in EntryOffs, s \in ReadSpans :
        LET read  == sfs_read(a, s[1], s[2]).bytes
            right == IF InBlocks(s) THEN s[2] ELSE BlockSize - (s[1] % BlockSize)
        IN  \A k \in 0..(right - 1) : read[k] = disk[s[1] + k]

(* write_data() changes the bytes it is asked to change, and no others.     *)
WritesLand ==
    \A s \in Spans, p \in Patterns :
        write_data(dev, s[1], Prefixes(p, s[2])).disk =
            [a \in Addrs |-> IF a \in s[1]..(s[1] + s[2] - 1) THEN p[a - s[1]] ELSE disk[a]]
=============================================================================
