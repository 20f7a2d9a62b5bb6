---------------------------- MODULE SfsIo_proofs ----------------------------
(***************************************************************************)
(* Block I/O, for any device, block size and entry size: what read_data,   *)
(* write_data and copy_block do to the bytes of the device, the buffer and *)
(* its label, and that no stale buffer is ever read, although some of them *)
(* leave a buffer that does not match its label.                           *)
(***************************************************************************)
EXTENDS SfsIo, Induction_proofs

Dev     == [disk : [Addrs -> Tokens], buf : [Cells -> Tokens], num : Blocks \cup {NoBlock}]
Total   == (DataBlocks + IndexBlocks) * BlockSize
DataEnd == DataBlocks * BlockSize

(* The buffer of d is block b, if its label says so. *)
LabelTrue(d, b) == d.num = b => d.buf = BlockOf(d.disk, b)

IndexNums == DataBlocks..(DataBlocks + IndexBlocks - 1)
LastIndex == DataBlocks + IndexBlocks - 1

(* The inductive invariant.  A label of a data block may be false: after a  *)
(* read of several whole blocks it is.                                      *)
LabelsOK == \A b \in IndexNums : ~full \/ b # LastIndex => LabelTrue(dev, b)
IInv     == TypeOK /\ LabelsOK

-----------------------------------------------------------------------------
(* Blocks and addresses *)

(* The sizes are numbers. *)
LEMMA Sizes ==
  /\ BlockSize \in Nat \ {0} /\ EntrySize \in Nat \ {0}
  /\ DataBlocks \in Nat \ {0} /\ IndexBlocks \in Nat \ {0}
  /\ DataEnd \in Nat /\ Total \in Nat /\ DataEnd + BlockSize <= Total
<1>1. /\ BlockSize \in Nat \ {0} /\ EntrySize \in Nat \ {0}
      /\ DataBlocks \in Nat \ {0} /\ IndexBlocks \in Nat \ {0}
  BY IoAssumption
<1>2. DataEnd \in Int /\ Total \in Int /\ DataEnd + BlockSize <= Total
  BY <1>1, Multiples DEF DataEnd, Total
<1>3. DataEnd >= 0
  BY <1>1, Multiples DEF DataEnd
<1>4. QED BY <1>1, <1>2, <1>3

(* Every address is in a block, *)
LEMMA BlockOfAddr ==
  ASSUME NEW a \in Addrs
  PROVE  /\ a \in Nat /\ a < Total /\ a \div BlockSize \in Blocks /\ a % BlockSize \in Cells
         /\ a = ((a \div BlockSize) * BlockSize) + (a % BlockSize)
         /\ a < DataEnd => a \div BlockSize < DataBlocks
<1>1. a \in Nat /\ a < Total
  BY Sizes DEF Addrs, Total
<1> DEFINE q == a \div BlockSize
           r == a % BlockSize
<1>2. q \in Nat /\ r \in 0..(BlockSize - 1) /\ a = (q * BlockSize) + r
  BY <1>1, Divide, Sizes
<1> HIDE DEF q, r
<1>3. q * BlockSize < (DataBlocks + IndexBlocks) * BlockSize
  BY <1>1, <1>2, Sizes, Multiples DEF Total
<1>4. q < DataBlocks + IndexBlocks
  BY <1>2, <1>3, Sizes, Multiples
<1>5. a < DataEnd => q < DataBlocks
  <2>1. a < DataEnd => q * BlockSize < DataBlocks * BlockSize
    BY <1>1, <1>2, Sizes, Multiples DEF DataEnd
  <2>2. QED BY <1>2, <2>1, Sizes, Multiples
<1>6. q \in Blocks /\ r \in Cells
  BY <1>2, <1>4, Sizes DEF Blocks, Cells
<1>7. QED BY <1>1, <1>2, <1>5, <1>6 DEF q, r

(* and every cell of a block at an address. *)
LEMMA AddrOfCell ==
  ASSUME NEW b \in Blocks, NEW i \in Cells
  PROVE  LET a == (b * BlockSize) + i
         IN  a \in Addrs /\ a \in Nat /\ a \div BlockSize = b /\ a % BlockSize = i
<1> DEFINE a == (b * BlockSize) + i
<1>1. b \in Nat /\ b < DataBlocks + IndexBlocks /\ i \in 0..(BlockSize - 1)
  BY Sizes DEF Blocks, Cells
<1>2. b * BlockSize \in Int /\ b * BlockSize + BlockSize <= Total
  BY <1>1, Sizes, Multiples DEF Total
<1>3. b * BlockSize >= 0
  BY <1>1, Sizes, Multiples
<1>4. a \in Nat /\ a < Total
  BY <1>1, <1>2, <1>3, Sizes
<1>5. a \in Addrs
  BY <1>4, Sizes DEF Addrs, Total
<1>6. a \div BlockSize = b /\ a % BlockSize = i
  <2>1. a = (b * BlockSize) + i
    OBVIOUS
  <2> HIDE DEF a
  <2>2. QED BY <1>1, <1>4, <2>1, DivideOnce, Sizes
<1>7. QED BY <1>4, <1>5, <1>6

-----------------------------------------------------------------------------
(* One block *)

(* A block read *)
LEMMA ReadsBlock ==
  ASSUME NEW d \in Dev, NEW b \in Blocks
  PROVE  /\ filedev_read(d, b) \in Dev
         /\ filedev_read(d, b).disk = d.disk /\ filedev_read(d, b).num = d.num
         /\ filedev_read(d, b).buf = BlockOf(d.disk, b)
<1>1. BlockOf(d.disk, b) \in [Cells -> Tokens]
  <2>1. ASSUME NEW i \in Cells PROVE d.disk[(b * BlockSize) + i] \in Tokens
    BY AddrOfCell DEF Dev
  <2>2. QED BY <2>1 DEF BlockOf
<1>2. QED BY <1>1 DEF filedev_read, Dev

(* and one written. *)
LEMMA WritesBlock ==
  ASSUME NEW d \in Dev, NEW b \in Blocks
  PROVE  LET e == filedev_write(d, b)
         IN  /\ e \in Dev /\ e.buf = d.buf /\ e.num = d.num
             /\ \A a \in Addrs : e.disk[a] = IF a \div BlockSize = b THEN d.buf[a % BlockSize]
                                             ELSE d.disk[a]
             /\ BlockOf(e.disk, b) = d.buf
<1> DEFINE e == filedev_write(d, b)
           x == [a \in Addrs |-> IF a \div BlockSize = b THEN d.buf[a % BlockSize] ELSE d.disk[a]]
<1>1. e = [d EXCEPT !.disk = x]
  BY DEF filedev_write
<1>2. x \in [Addrs -> Tokens]
  <2>1. ASSUME NEW a \in Addrs PROVE x[a] \in Tokens
    <3>1. a % BlockSize \in Cells
      BY BlockOfAddr
    <3>2. QED BY <3>1 DEF Dev
  <2>2. QED BY <2>1
<1> HIDE DEF x, e
<1>3. e \in Dev /\ e.buf = d.buf /\ e.num = d.num /\ e.disk = x
  BY <1>1, <1>2 DEF Dev
<1>4. \A a \in Addrs : x[a] = IF a \div BlockSize = b THEN d.buf[a % BlockSize] ELSE d.disk[a]
  BY DEF x
<1>5. BlockOf(x, b) = d.buf
  <2>1. ASSUME NEW i \in Cells PROVE x[(b * BlockSize) + i] = d.buf[i]
    BY <1>4, AddrOfCell
  <2>2. d.buf \in [Cells -> Tokens]
    BY DEF Dev
  <2>3. QED BY <2>1, <2>2 DEF BlockOf
<1>6. QED BY <1>3, <1>4, <1>5 DEF e

-----------------------------------------------------------------------------
(* Reads *)

(* The block that a read starts in: read again unless the label names it. *)
First(d, b) == IF d.num = b THEN d ELSE [filedev_read(d, b) EXCEPT !.num = b]

(* The buffer is that block after it, if the label was true. *)
LEMMA ReadsFirst ==
  ASSUME NEW d \in Dev, NEW b \in Blocks
  PROVE  /\ First(d, b) \in Dev /\ First(d, b).disk = d.disk /\ First(d, b).num = b
         /\ LabelTrue(d, b) => First(d, b).buf = BlockOf(d.disk, b)
<1>1. CASE d.num = b
  BY <1>1 DEF First, LabelTrue
<1>2. CASE d.num # b
  <2> DEFINE e == filedev_read(d, b)
  <2>1. e \in Dev /\ e.disk = d.disk /\ e.buf = BlockOf(d.disk, b)
    BY ReadsBlock
  <2> HIDE DEF e
  <2>2. [e EXCEPT !.num = b] \in Dev /\ [e EXCEPT !.num = b].disk = e.disk
        /\ [e EXCEPT !.num = b].buf = e.buf /\ [e EXCEPT !.num = b].num = b
    BY <2>1 DEF Dev
  <2>3. First(d, b) = [e EXCEPT !.num = b]
    BY <1>2 DEF First, e
  <2>4. QED BY <2>1, <2>2, <2>3
<1>3. QED BY <1>1, <1>2

(* A read changes the buffer and the label only.  It leaves the number of   *)
(* its first or last block as the label, and reads its first block right if *)
(* the label was true.                                                      *)
ReadRight(d, off, size) ==
    LET r == read_data(d, off, size)
        b == off \div BlockSize
        c == off % BlockSize
    IN  /\ r.dev \in Dev /\ r.dev.disk = d.disk
        /\ size <= BlockSize - c => r.dev = First(d, b)
        /\ \/ r.dev.num = b
           \/ size # 0 /\ r.dev.num = (off + size - 1) \div BlockSize
        /\ LabelTrue(d, b) =>
              \A k \in 0..(size - 1) :
                 k < BlockSize - c \/ c = 0 => r.bytes[k] = d.disk[off + k]
        /\ r.bytes = [k \in 0..(size - 1) |-> r.bytes[k]]

(* Every read does so. *)
LEMMA ReadsData ==
  ASSUME NEW d \in Dev, NEW off \in Addrs, NEW size \in Nat, off + size <= Total
  PROVE  ReadRight(d, off, size)
<1> DEFINE b == off \div BlockSize
           c == off % BlockSize
           last == (off + size - 1) \div BlockSize
           whole == (off + size) % BlockSize = 0
           f == First(d, b)
           ends == filedev_read(f, last)
           r == read_data(d, off, size)
<1>1. /\ off \in Nat /\ b \in Blocks /\ c \in Cells /\ off = (b * BlockSize) + c
      /\ c \in Nat /\ c < BlockSize
  BY BlockOfAddr, Sizes DEF Cells
<1>2. /\ f \in Dev /\ f.disk = d.disk /\ f.num = b
      /\ LabelTrue(d, b) => f.buf = BlockOf(d.disk, b)
  BY <1>1, ReadsFirst
<1>3. /\ size <= BlockSize - c =>
            r = [dev |-> f, bytes |-> [k \in 0..(size - 1) |-> f.buf[c + k]]]
      /\ ~(size <= BlockSize - c) =>
            r = [dev |-> IF whole THEN ends ELSE [ends EXCEPT !.num = last],
                 bytes |-> [k \in 0..(size - 1) |->
                              IF k < BlockSize - c THEN f.buf[c + k]
                              ELSE IF k < BlockSize + c THEN Untouched
                              ELSE d.disk[off + k - 2 * c]]]
  BY DEF read_data, First
<1>4. ASSUME LabelTrue(d, b), NEW k \in 0..(size - 1), k < BlockSize - c
      PROVE  f.buf[c + k] = d.disk[off + k]
  <2>1. c + k \in Cells
    BY <1>1, <1>4, Sizes DEF Cells
  <2>2. f.buf[c + k] = d.disk[(b * BlockSize) + (c + k)]
    BY <1>2, <1>4, <2>1 DEF BlockOf
  <2>3. (b * BlockSize) + (c + k) = off + k
    <3> HIDE DEF b, c
    <3>1. b * BlockSize \in Int
      BY <1>1, Sizes DEF Blocks
    <3>2. QED BY <1>1, <3>1
  <2>4. QED BY <2>2, <2>3
<1>5. CASE size <= BlockSize - c
  <2>1. /\ r.dev = f /\ \A k \in 0..(size - 1) : r.bytes[k] = f.buf[c + k]
        /\ r.bytes = [k \in 0..(size - 1) |-> r.bytes[k]]
    BY <1>3, <1>5
  <2>2. \A k \in 0..(size - 1) : k < BlockSize - c
    BY <1>1, <1>5, Sizes
  <2> HIDE DEF b, c, f, r
  <2>3. QED BY <1>2, <1>4, <2>1, <2>2 DEF r, b, c, f, ReadRight
<1>6. CASE ~(size <= BlockSize - c)
  <2>1. size # 0 /\ off + size - 1 \in Addrs
    BY <1>1, <1>6, Sizes DEF Addrs, Total
  <2>2. last \in Blocks
    BY <2>1, BlockOfAddr
  <2>3. ends \in Dev /\ ends.disk = d.disk /\ ends.num = b
    BY <1>2, <2>2, ReadsBlock
  <2> DEFINE g == IF whole THEN ends ELSE [ends EXCEPT !.num = last]
  <2>4. g \in Dev /\ g.disk = d.disk /\ g.num \in {b, last}
    <3> HIDE DEF ends, last, whole
    <3>1. QED BY <2>2, <2>3 DEF Dev
  <2>5. /\ r.dev = g
        /\ \A k \in 0..(size - 1) :
              r.bytes[k] = IF k < BlockSize - c THEN f.buf[c + k]
                           ELSE IF k < BlockSize + c THEN Untouched
                           ELSE d.disk[off + k - 2 * c]
        /\ r.bytes = [k \in 0..(size - 1) |-> r.bytes[k]]
    BY <1>3, <1>6
  <2>6. ASSUME LabelTrue(d, b), NEW k \in 0..(size - 1), k < BlockSize - c \/ c = 0
        PROVE  r.bytes[k] = d.disk[off + k]
    <3>1. CASE k < BlockSize - c
      <4>1. r.bytes[k] = f.buf[c + k]
        BY <2>5, <3>1
      <4>2. f.buf[c + k] = d.disk[off + k]
        BY <1>4, <2>6, <3>1
      <4>3. QED BY <4>1, <4>2
    <3>2. CASE ~(k < BlockSize - c)
      <4>1. c = 0 /\ ~(k < BlockSize + c) /\ off + k - 2 * c = off + k
        BY <1>1, <2>6, <3>2, Sizes
      <4>2. QED BY <2>5, <3>2, <4>1
    <3>3. QED BY <3>1, <3>2
  <2> HIDE DEF b, c, f, r, g, ends, whole, last
  <2>7. QED BY <1>6, <2>1, <2>4, <2>5, <2>6 DEF r, b, c, last, ReadRight
<1>7. QED BY <1>5, <1>6

(* Blocks hold whole entries. *)
LEMMA EntriesFill ==
  LET m  == BlockSize \div EntrySize
      lo == DataEnd \div EntrySize
      hi == Total \div EntrySize
  IN  /\ m \in Nat /\ BlockSize = m * EntrySize
      /\ lo \in Nat /\ hi \in Nat /\ lo < hi
      /\ lo * EntrySize = DataEnd /\ hi * EntrySize = Total
<1> DEFINE m == BlockSize \div EntrySize
           lo == DataEnd \div EntrySize
           hi == Total \div EntrySize
<1>1. m \in Nat /\ BlockSize = m * EntrySize
  BY Sizes, Divide, IoAssumption
<1>2. lo \in Nat /\ hi \in Nat
  BY Sizes, Divide
<1>3. lo * EntrySize = DataEnd /\ hi * EntrySize = Total
  <2> HIDE DEF m
  <2>1. DataEnd = (DataBlocks * m) * EntrySize + 0
    BY <1>1, Sizes DEF DataEnd
  <2>2. Total = ((DataBlocks + IndexBlocks) * m) * EntrySize + 0
    BY <1>1, Sizes DEF Total
  <2>3. DataBlocks * m \in Int /\ (DataBlocks + IndexBlocks) * m \in Int /\ 0 \in 0..(EntrySize - 1)
    BY <1>1, Sizes
  <2>4. lo = DataBlocks * m /\ hi = (DataBlocks + IndexBlocks) * m
    BY <2>1, <2>2, <2>3, DivideOnce, Sizes
  <2> HIDE DEF lo, hi
  <2>5. lo * EntrySize \in Int /\ hi * EntrySize \in Int
    BY <1>2, Sizes
  <2>6. QED BY <2>1, <2>2, <2>4, <2>5
<1> HIDE DEF m, lo, hi
<1>4. lo < hi
  <2>1. lo * EntrySize < hi * EntrySize
    BY <1>3, Sizes
  <2>2. QED BY <1>2, <2>1, Sizes, Multiples
<1>5. QED BY <1>1, <1>2, <1>3, <1>4 DEF m, lo, hi

(* An entry is read from one block, *)
LEMMA EntryInBlock ==
  ASSUME NEW a \in EntryOffs
  PROVE  /\ a \in Addrs /\ a + EntrySize <= Total
         /\ EntrySize <= BlockSize - (a % BlockSize)
         /\ a \div BlockSize \in IndexNums
<1> DEFINE m == BlockSize \div EntrySize
           lo == DataEnd \div EntrySize
           hi == Total \div EntrySize
<1>1. m \in Nat /\ BlockSize = m * EntrySize
  BY EntriesFill
<1>2. lo \in Nat /\ hi \in Nat
  BY EntriesFill
<1>3. PICK i \in lo..(hi - 1) : a = EntrySize * i
  BY DEF EntryOffs, DataEnd, Total
<1>4. lo * EntrySize = DataEnd /\ hi * EntrySize = Total
  BY EntriesFill
<1> HIDE DEF lo, hi
<1>5. i \in Nat /\ a = i * EntrySize /\ a \in Nat /\ DataEnd <= a /\ a + EntrySize <= Total
  <2>1. i \in Nat /\ lo <= i /\ i < hi
    BY <1>2, <1>3
  <2>2. i * EntrySize \in Nat /\ EntrySize * i = i * EntrySize
    BY <2>1, Sizes
  <2>3. lo * EntrySize <= i * EntrySize /\ (i * EntrySize) + EntrySize <= hi * EntrySize
    BY <1>2, <2>1, Sizes, Multiples
  <2>4. QED BY <1>3, <1>4, <2>1, <2>2, <2>3
<1>6. a \in Addrs
  BY <1>5, Sizes DEF Addrs, Total
<1> DEFINE q == a \div BlockSize
           c == a % BlockSize
<1>7. q \in Blocks /\ c \in Cells /\ a = (q * BlockSize) + c
  BY <1>6, BlockOfAddr
<1> HIDE DEF q, c, m
<1>8. q \in Nat /\ c \in Nat /\ c < BlockSize /\ q < DataBlocks + IndexBlocks
  BY <1>7, Sizes DEF Blocks, Cells
<1>9. EntrySize <= BlockSize - c
  <2>1. (q * m) \in Int /\ (q * m) * EntrySize = q * BlockSize
    BY <1>1, <1>8, Sizes
  <2>2. i * EntrySize < ((q * m) + m) * EntrySize
    <3>1. ((q * m) + m) * EntrySize = (q * m) * EntrySize + m * EntrySize
      BY <1>1, <2>1, Sizes, Multiples
    <3>2. q * BlockSize \in Int
      BY <1>8, Sizes
    <3>3. QED BY <1>1, <1>5, <1>7, <1>8, <2>1, <3>1, <3>2, Sizes
  <2>3. i < (q * m) + m
    <3>1. (q * m) + m \in Int
      BY <1>1, <2>1
    <3> DEFINE x == (q * m) + m
    <3> HIDE DEF x
    <3>2. QED BY <1>5, <2>2, <3>1, Sizes, Multiples DEF x
  <2>4. (i * EntrySize) + EntrySize <= ((q * m) + m) * EntrySize
    <3>1. (q * m) + m \in Int
      BY <1>1, <2>1
    <3>2. QED BY <1>5, <2>3, <3>1, Sizes, Multiples
  <2>5. ((q * m) + m) * EntrySize = (q * BlockSize) + BlockSize
    BY <1>1, <2>1, Sizes, Multiples
  <2>6. q * BlockSize \in Int
    BY <1>8, Sizes
  <2>7. QED BY <1>5, <1>7, <1>8, <2>4, <2>5, <2>6, Sizes
<1>10. DataBlocks <= q
  <2>1. DataBlocks * BlockSize < (q + 1) * BlockSize
    <3>1. (q + 1) * BlockSize = (q * BlockSize) + BlockSize /\ q * BlockSize \in Int
      BY <1>8, Sizes, Multiples
    <3>2. QED BY <1>5, <1>7, <1>8, <3>1, Sizes DEF DataEnd
  <2>2. DataBlocks < q + 1
    BY <1>8, <2>1, Sizes, Multiples
  <2>3. QED BY <1>8, <2>2, Sizes
<1>11. q \in IndexNums
  BY <1>8, <1>10, Sizes DEF IndexNums
<1>12. QED BY <1>5, <1>6, <1>9, <1>11 DEF q, c

(* and read right if the label was true. *)
LEMMA ReadsEntry ==
  ASSUME NEW d \in Dev, NEW a \in EntryOffs
  PROVE  LET r == read_entry(d, a)
             b == a \div BlockSize
         IN  /\ r.dev = First(d, b) /\ r.dev \in Dev /\ r.dev.disk = d.disk /\ r.dev.num = b
             /\ LabelTrue(d, b) => /\ r.dev.buf = BlockOf(d.disk, b)
                                   /\ r.bytes = [k \in 0..(EntrySize - 1) |-> d.disk[a + k]]
<1>1. /\ a \in Addrs /\ a + EntrySize <= Total /\ EntrySize \in Nat
      /\ EntrySize <= BlockSize - (a % BlockSize) /\ a \div BlockSize \in Blocks
      /\ a % BlockSize \in Nat
  BY EntryInBlock, BlockOfAddr, Sizes DEF Cells
<1>2. /\ First(d, a \div BlockSize) \in Dev /\ First(d, a \div BlockSize).disk = d.disk
      /\ First(d, a \div BlockSize).num = a \div BlockSize
      /\ LabelTrue(d, a \div BlockSize) =>
            First(d, a \div BlockSize).buf = BlockOf(d.disk, a \div BlockSize)
  BY <1>1, ReadsFirst
<1> DEFINE r == read_data(d, a, EntrySize)
           b == a \div BlockSize
<1>3. /\ r.dev = First(d, b)
      /\ r.bytes = [k \in 0..(EntrySize - 1) |-> r.bytes[k]]
      /\ LabelTrue(d, b) =>
            \A k \in 0..(EntrySize - 1) :
               k < BlockSize - (a % BlockSize) \/ a % BlockSize = 0 => r.bytes[k] = d.disk[a + k]
  BY <1>1, ReadsData DEF ReadRight
<1>4. \A k \in 0..(EntrySize - 1) : k < BlockSize - (a % BlockSize)
  <2> DEFINE c == a % BlockSize
  <2>1. c \in Nat /\ EntrySize <= BlockSize - c
    BY <1>1
  <2> HIDE DEF c
  <2>2. \A k \in 0..(EntrySize - 1) : k < BlockSize - c
    BY <2>1, Sizes
  <2>3. QED BY <2>2 DEF c
<1> HIDE DEF r, b
<1>5. LabelTrue(d, b) => r.bytes = [k \in 0..(EntrySize - 1) |-> d.disk[a + k]]
  BY <1>3, <1>4
<1>6. QED BY <1>2, <1>3, <1>5 DEF r, b, read_entry

(* sfs_read() reads the entry first, so that the label names an index block *)
(* and the first block of the data is read again, whatever was in the       *)
(* buffer under its number.                                                 *)
LEMMA ReadsFile ==
  ASSUME dev \in Dev, NEW a \in EntryOffs, NEW s \in ReadSpans
  PROVE  LET r == sfs_read(a, s[1], s[2])
         IN  /\ r.dev \in Dev /\ r.dev.disk = disk /\ r.dev.num \in 0..(DataBlocks - 1)
             /\ \A k \in 0..(s[2] - 1) :
                   k < BlockSize - (s[1] % BlockSize) \/ s[1] % BlockSize = 0 =>
                      r.bytes[k] = disk[s[1] + k]
<1> DEFINE e == read_entry(dev, a).dev
           off == s[1]
           size == s[2]
<1>1. /\ e \in Dev /\ e.disk = disk /\ e.num = a \div BlockSize /\ e.num \in IndexNums
  BY ReadsEntry, EntryInBlock DEF dev
<1>2. /\ off \in Nat /\ size \in Nat /\ off < DataEnd /\ off + size <= DataEnd
  <2>1. s \in (0..(DataEnd - 1)) \X Nat /\ s[1] + s[2] <= DataEnd
    <3>1. CASE s \in Spans
      BY <3>1, Sizes DEF Spans, DataEnd
    <3>2. CASE s \in (0..(DataEnd - 1)) \X {0}
      BY <3>2, Sizes
    <3>3. QED BY <3>1, <3>2 DEF ReadSpans, DataEnd
  <2>2. QED BY <2>1, Sizes
<1> HIDE DEF e, off, size
<1>3. off \in Addrs /\ off + size <= Total
  BY <1>2, Sizes DEF Addrs, Total
<1> DEFINE b == off \div BlockSize
           c == off % BlockSize
           last == (off + size - 1) \div BlockSize
           r == read_data(e, off, size)
<1>4. b \in 0..(DataBlocks - 1)
  <2>1. b \in Blocks /\ b < DataBlocks
    BY <1>2, <1>3, BlockOfAddr
  <2> HIDE DEF b
  <2>2. QED BY <2>1, Sizes DEF Blocks
<1>5. size # 0 => last \in 0..(DataBlocks - 1)
  <2> HAVE size # 0
  <2>1. off + size - 1 \in Addrs /\ off + size - 1 < DataEnd
    BY <1>2, Sizes DEF Addrs, Total
  <2>2. last \in Blocks /\ last < DataBlocks
    BY <2>1, BlockOfAddr
  <2> HIDE DEF last
  <2>3. QED BY <2>2, Sizes DEF Blocks
<1>6. LabelTrue(e, b)
  <2> HIDE DEF b
  <2>1. QED BY <1>1, <1>4, Sizes DEF LabelTrue, IndexNums
<1>7. /\ r.dev \in Dev /\ r.dev.disk = e.disk
      /\ r.dev.num = b \/ (size # 0 /\ r.dev.num = last)
      /\ \A k \in 0..(size - 1) :
            k < BlockSize - c \/ c = 0 => r.bytes[k] = e.disk[off + k]
  <2>1. e \in Dev /\ off \in Addrs /\ size \in Nat /\ off + size <= Total
    BY <1>1, <1>2, <1>3
  <2>2. ReadRight(e, off, size)
    BY <2>1, ReadsData
  <2>3. QED BY <1>6, <2>2 DEF ReadRight
<1> HIDE DEF b, c, last, r
<1>8. r.dev.num \in 0..(DataBlocks - 1)
  BY <1>4, <1>5, <1>7
<1>9. sfs_read(a, s[1], s[2]) = r
  BY DEF sfs_read, r, e, off, size
<1>10. QED BY <1>1, <1>7, <1>8, <1>9 DEF c, off, size

-----------------------------------------------------------------------------
(* Writes: v is written from off on, block by block. *)

Pos(off, j, i)     == j * BlockSize + i - (off % BlockSize)
IsWhole(off, v, j) == \A i \in Cells : Pos(off, j, i) \in DOMAIN v
Patch(off, v, x, j) ==
    [i \in Cells |-> IF Pos(off, j, i) \in DOMAIN v THEN v[Pos(off, j, i)] ELSE x[i]]
Load(off, v, e, j) ==
    IF j > 0 /\ IsWhole(off, v, j) THEN [e EXCEPT !.num = NoBlock]
    ELSE [filedev_read(e, off \div BlockSize + j) EXCEPT !.num = off \div BlockSize + j]
WriteStep(off, v, e, j) ==
    LET l == Load(off, v, e, j)
    IN  filedev_write([l EXCEPT !.buf = Patch(off, v, l.buf, j)], off \div BlockSize + j)
LastStep(off, v) ==
    ((off % BlockSize) + (CHOOSE n \in DOMAIN v : n + 1 \notin DOMAIN v)) \div BlockSize

(* The function that write_data() defines recursively *)
Unfolded(f, d, off, v) ==
    f = [j \in 0..LastStep(off, v) |->
            WriteStep(off, v, IF j = 0 THEN d ELSE f[j - 1], j)]
LastOf(f, m) == IF m = 0 THEN [f[0] EXCEPT !.num = NoBlock] ELSE f[m]

(* exists and is what write_data() computes with. *)
LEMMA WriteUnfolds ==
  ASSUME NEW d, NEW off, NEW v, \E f : Unfolded(f, d, off, v)
  PROVE  \E f : Unfolded(f, d, off, v) /\ write_data(d, off, v) = LastOf(f, LastStep(off, v))
<1> DEFINE g == CHOOSE f : Unfolded(f, d, off, v)
<1>1. Unfolded(g, d, off, v)
  OBVIOUS
<1>2. write_data(d, off, v) = LastOf(g, LastStep(off, v))
  BY DEF write_data, WriteStep, LastStep, Load, Patch, IsWhole, Pos, Unfolded, LastOf
<1>3. QED BY <1>1, <1>2

(* The bytes after the write of block j, counted from the first one. *)
Upto(d, off, v, n, j) ==
    [a \in Addrs |-> IF /\ off <= a /\ a < off + n
                        /\ a < (off \div BlockSize + j + 1) * BlockSize
                     THEN v[a - off] ELSE d.disk[a]]

(* A write that the device has room for *)
Fitting(off, v, n) == /\ off \in Addrs /\ n \in Nat \ {0} /\ off + n <= Total
                      /\ v \in [0..(n - 1) -> Tokens]

(* ends in a block of the device, and with its last byte in it. *)
LEMMA WriteSpan ==
  ASSUME NEW off, NEW v, NEW n, Fitting(off, v, n)
  PROVE  LET b == off \div BlockSize
             m == LastStep(off, v)
         IN  /\ m \in Nat /\ \A j \in 0..m : b + j \in Blocks
             /\ off + n <= (b + m + 1) * BlockSize
             /\ m = ((off % BlockSize) + (n - 1)) \div BlockSize
<1> DEFINE b == off \div BlockSize
           c == off % BlockSize
           m == (c + (n - 1)) \div BlockSize
           r == (c + (n - 1)) % BlockSize
<1>1. off \in Addrs /\ n \in Nat \ {0} /\ off + n <= Total /\ DOMAIN v = 0..(n - 1)
  BY DEF Fitting
<1>2. (CHOOSE k \in DOMAIN v : k + 1 \notin DOMAIN v) = n - 1
  <2>1. \A k \in 0..(n - 1) : k + 1 \notin 0..(n - 1) <=> k = n - 1
    BY <1>1
  <2>2. n - 1 \in 0..(n - 1)
    BY <1>1
  <2>3. \A k : k \in 0..(n - 1) /\ k + 1 \notin 0..(n - 1) <=> k = n - 1
    BY <2>1, <2>2
  <2>4. (CHOOSE k \in 0..(n - 1) : k + 1 \notin 0..(n - 1)) = n - 1
    BY <2>3
  <2>5. QED BY <1>1, <2>4
<1>3. LastStep(off, v) = m
  BY <1>2 DEF LastStep
<1>4. /\ off \in Nat /\ b \in Blocks /\ c \in Nat /\ c < BlockSize /\ b \in Nat
      /\ off = (b * BlockSize) + c
  BY <1>1, BlockOfAddr, Sizes DEF Cells, Blocks
<1> HIDE DEF b, c
<1>5. m \in Nat /\ r \in Nat /\ r < BlockSize /\ c + (n - 1) = (m * BlockSize) + r
  <2> DEFINE x == c + (n - 1)
  <2>1. x \in Nat
    BY <1>1, <1>4
  <2> HIDE DEF x
  <2>2. /\ x \div BlockSize \in Nat /\ x % BlockSize \in 0..(BlockSize - 1)
        /\ x = ((x \div BlockSize) * BlockSize) + (x % BlockSize)
    BY <2>1, Divide, Sizes
  <2>3. m = x \div BlockSize /\ r = x % BlockSize
    BY DEF x
  <2> HIDE DEF m, r
  <2>4. QED BY <2>2, <2>3, Sizes DEF x
<1> HIDE DEF m, r
<1>6. /\ b * BlockSize \in Int /\ m * BlockSize \in Int
      /\ (b + m) * BlockSize = (b * BlockSize) + (m * BlockSize)
      /\ (b + m + 1) * BlockSize = ((b + m) * BlockSize) + BlockSize
  <2>1. b \in Int /\ m \in Int /\ b + m \in Int
    BY <1>4, <1>5
  <2>2. QED BY <2>1, Sizes, Multiples
<1>7. off + n <= (b + m + 1) * BlockSize
  BY <1>1, <1>4, <1>5, <1>6, Sizes
<1>8. (b + m) * BlockSize < (DataBlocks + IndexBlocks) * BlockSize
  BY <1>1, <1>4, <1>5, <1>6, Sizes DEF Total
<1>9. b + m < DataBlocks + IndexBlocks
  <2>1. b + m \in Int /\ DataBlocks + IndexBlocks \in Int
    BY <1>4, <1>5, Sizes
  <2>2. QED BY <1>8, <2>1, Sizes, Multiples
<1>10. \A j \in 0..m : b + j \in Blocks
  BY <1>4, <1>5, <1>9, Sizes DEF Blocks
<1>11. QED BY <1>3, <1>5, <1>7, <1>10 DEF m, b, c

(* One block is written. *)
LEMMA WritesStep ==
  ASSUME NEW d \in Dev, NEW off, NEW v, NEW n, Fitting(off, v, n),
         NEW j \in 0..LastStep(off, v),
         NEW e \in Dev, e.disk = Upto(d, off, v, n, j - 1)
  PROVE  LET s == WriteStep(off, v, e, j)
             k == off \div BlockSize + j
         IN  /\ s \in Dev /\ s.disk = Upto(d, off, v, n, j)
             /\ s.num \in {NoBlock, k} /\ s.buf = BlockOf(s.disk, k)
<1> DEFINE b == off \div BlockSize
           c == off % BlockSize
           k == b + j
           l == Load(off, v, e, j)
           p == Patch(off, v, l.buf, j)
           w == [l EXCEPT !.buf = p]
           s == WriteStep(off, v, e, j)
<1>1. /\ off \in Addrs /\ off \in Nat /\ n \in Nat \ {0} /\ DOMAIN v = 0..(n - 1)
      /\ v \in [0..(n - 1) -> Tokens]
  BY BlockOfAddr DEF Fitting
<1>2. k \in Blocks /\ j \in Nat /\ b \in Nat /\ k \in Nat
  <2>1. LastStep(off, v) \in Nat /\ k \in Blocks
    BY WriteSpan
  <2>2. b \in Blocks
    BY <1>1, BlockOfAddr
  <2> HIDE DEF b, k
  <2>3. QED BY <2>1, <2>2 DEF Blocks
<1>3. c \in Nat /\ c < BlockSize /\ off = (b * BlockSize) + c
  <2>1. c \in Cells /\ off = (b * BlockSize) + c
    BY <1>1, BlockOfAddr
  <2> HIDE DEF b, c
  <2>2. QED BY <2>1, Sizes DEF Cells
<1>4. \A i \in Cells : /\ (k * BlockSize) + i - off = Pos(off, j, i)
                       /\ (k * BlockSize) + i \in Int
  <2> HIDE DEF b, c, k
  <2>1. k * BlockSize = (b * BlockSize) + (j * BlockSize) /\ b * BlockSize \in Int /\ j * BlockSize \in Int
    BY <1>2, Sizes, Multiples DEF k
  <2>2. ASSUME NEW i \in Cells
        PROVE  /\ (k * BlockSize) + i - off = j * BlockSize + i - c
               /\ (k * BlockSize) + i \in Int
    <3>1. i \in Int
      BY Sizes DEF Cells
    <3>2. QED BY <1>1, <1>3, <2>1, <3>1
  <2>3. QED BY <2>2 DEF Pos, c
<1>5. /\ l \in Dev /\ l.disk = e.disk /\ l.num \in {NoBlock, k}
      /\ \A i \in Cells : Pos(off, j, i) \notin DOMAIN v => l.buf[i] = e.disk[(k * BlockSize) + i]
  <2>1. CASE j > 0 /\ IsWhole(off, v, j)
    <3>1. l = [e EXCEPT !.num = NoBlock]
      BY <2>1 DEF Load
    <3> HIDE DEF l, k
    <3>2. QED BY <2>1, <3>1 DEF IsWhole, Dev
  <2>2. CASE ~(j > 0 /\ IsWhole(off, v, j))
    <3> DEFINE x == filedev_read(e, k)
    <3>1. l = [x EXCEPT !.num = k]
      BY <2>2 DEF Load
    <3>2. x \in Dev /\ x.disk = e.disk /\ x.buf = BlockOf(e.disk, k)
      BY <1>2, ReadsBlock
    <3> HIDE DEF l, k, x
    <3>3. l \in Dev /\ l.disk = e.disk /\ l.num = k /\ l.buf = BlockOf(e.disk, k)
      BY <1>2, <3>1, <3>2 DEF Dev
    <3>4. QED BY <3>3 DEF BlockOf
  <2>3. QED BY <2>1, <2>2
<1> HIDE DEF l, k
<1>6. p \in [Cells -> Tokens]
  <2>1. ASSUME NEW i \in Cells, Pos(off, j, i) \in DOMAIN v PROVE v[Pos(off, j, i)] \in Tokens
    BY <1>1, <2>1
  <2>2. ASSUME NEW i \in Cells PROVE l.buf[i] \in Tokens
    BY <1>5 DEF Dev
  <2>3. QED BY <2>1, <2>2 DEF Patch
<1>7. \A i \in Cells : p[i] = IF Pos(off, j, i) \in DOMAIN v THEN v[Pos(off, j, i)]
                              ELSE e.disk[(k * BlockSize) + i]
  BY <1>5 DEF Patch
<1> HIDE DEF p
<1>8. w \in Dev /\ w.disk = e.disk /\ w.buf = p /\ w.num \in {NoBlock, k}
  BY <1>5, <1>6 DEF Dev
<1> HIDE DEF w
<1>9. s = filedev_write(w, k)
  BY DEF WriteStep, w, p, l, k
<1>10. /\ s \in Dev /\ s.buf = p /\ s.num \in {NoBlock, k} /\ s.buf = BlockOf(s.disk, k)
       /\ \A a \in Addrs : s.disk[a] = IF a \div BlockSize = k THEN p[a % BlockSize] ELSE e.disk[a]
  BY <1>2, <1>8, <1>9, WritesBlock
<1> HIDE DEF s
<1> DEFINE U(x, a) == IF off <= a /\ a < off + n /\ a < (b + x + 1) * BlockSize
                      THEN v[a - off] ELSE d.disk[a]
<1>11. \A a \in Addrs : e.disk[a] = U(j - 1, a)
  BY DEF Upto
<1>12. ASSUME NEW a \in Addrs PROVE s.disk[a] = U(j, a)
  <2> DEFINE q == a \div BlockSize
             i == a % BlockSize
  <2>1. a \in Nat /\ q \in Blocks /\ i \in Cells /\ a = (q * BlockSize) + i
    BY BlockOfAddr
  <2>2. s.disk[a] = IF q = k THEN p[i] ELSE e.disk[a]
    BY <1>10
  <2> HIDE DEF q, i, b
  <2>3. /\ q \in Nat /\ i \in Nat /\ i < BlockSize /\ q * BlockSize \in Int
        /\ b + (j - 1) + 1 = k /\ b + j + 1 = k + 1
    BY <1>2, <2>1, Sizes DEF Blocks, Cells, k
  <2>4. /\ k * BlockSize \in Int /\ (k + 1) * BlockSize = (k * BlockSize) + BlockSize
        /\ q < k => (q * BlockSize) + BlockSize <= k * BlockSize
        /\ k < q => (k * BlockSize) + BlockSize <= q * BlockSize
    BY <1>2, <2>3, Sizes, Multiples
  <2>5. CASE q = k
    <3>1. a - off = Pos(off, j, i)
      <4>1. a = (k * BlockSize) + i
        BY <2>1, <2>5
      <4>2. (k * BlockSize) + i - off = Pos(off, j, i)
        BY <1>4, <2>1
      <4>3. k * BlockSize \in Int /\ i \in Int /\ off \in Int
        BY <1>1, <2>3, <2>4
      <4>4. QED BY <4>1, <4>2, <4>3
    <3>2. a - off \in DOMAIN v <=> off <= a /\ a < off + n
      BY <1>1, <2>1
    <3>3. a < (b + j + 1) * BlockSize /\ ~(a < (b + (j - 1) + 1) * BlockSize)
      BY <2>1, <2>3, <2>4, <2>5, Sizes
    <3>4. p[i] = IF a - off \in DOMAIN v THEN v[a - off] ELSE e.disk[a]
      BY <1>7, <2>1, <2>5, <3>1
    <3>5. e.disk[a] = d.disk[a]
      BY <1>11, <3>3
    <3>6. QED BY <2>2, <2>5, <3>2, <3>3, <3>4, <3>5
  <2>6. CASE q # k
    <3>1. a < (b + j + 1) * BlockSize <=> a < (b + (j - 1) + 1) * BlockSize
      BY <1>2, <2>1, <2>3, <2>4, <2>6, Sizes
    <3>2. s.disk[a] = U(j - 1, a)
      BY <1>11, <2>2, <2>6
    <3>3. QED BY <3>1, <3>2
  <2>7. QED BY <2>5, <2>6
<1>13. s.disk = Upto(d, off, v, n, j)
  <2>1. s.disk = [a \in Addrs |-> s.disk[a]]
    BY <1>10 DEF Dev
  <2>2. [a \in Addrs |-> s.disk[a]] = [a \in Addrs |-> U(j, a)]
    BY <1>12
  <2>3. QED BY <2>1, <2>2 DEF Upto
<1>14. QED BY <1>10, <1>13 DEF s, k

(* A write changes exactly the bytes it is asked to change, and leaves a    *)
(* label that is true or none.                                              *)
LEMMA WritesData ==
  ASSUME NEW d \in Dev, NEW off, NEW v, NEW n, Fitting(off, v, n)
  PROVE  LET r == write_data(d, off, v)
         IN  /\ r \in Dev
             /\ r.disk = [a \in Addrs |-> IF off <= a /\ a < off + n THEN v[a - off] ELSE d.disk[a]]
             /\ \A b \in Blocks : LabelTrue(r, b)
<1> DEFINE m == LastStep(off, v)
           b == off \div BlockSize
           r == write_data(d, off, v)
           x0 == WriteStep(off, v, d, 0)
           U(j) == Upto(d, off, v, n, j)
<1>1. /\ m \in Nat /\ \A j \in 0..m : b + j \in Blocks
      /\ off + n <= (b + m + 1) * BlockSize
      /\ off \in Addrs /\ off \in Nat /\ n \in Nat \ {0} /\ b \in Nat /\ NoBlock \notin Blocks
      /\ b * BlockSize <= off
  <2>1. off \in Addrs /\ n \in Nat \ {0}
    BY DEF Fitting
  <2>2. b \in Nat /\ off % BlockSize \in Nat /\ off = (b * BlockSize) + (off % BlockSize) /\ off \in Nat
    BY <2>1, BlockOfAddr, Sizes DEF Blocks, Cells
  <2>3. b * BlockSize <= off
    <3> DEFINE c == off % BlockSize
    <3> HIDE DEF b, c
    <3>1. c \in Nat /\ off = (b * BlockSize) + c /\ b * BlockSize \in Int
      BY <2>2, Sizes DEF c
    <3>2. QED BY <2>2, <3>1
  <2>4. NoBlock \notin Blocks
    BY DEF NoBlock, Blocks
  <2>5. QED BY <2>1, <2>2, <2>3, <2>4, WriteSpan
<1> HIDE DEF m, b
<1>2. d.disk = U(0 - 1)
  <2>1. b + (0 - 1) + 1 = b
    BY <1>1
  <2>2. ASSUME NEW a \in Addrs PROVE ~(off <= a /\ a < b * BlockSize)
    <3>1. a \in Int /\ off \in Int /\ b * BlockSize \in Int
      BY <1>1, Sizes DEF Addrs
    <3>2. QED BY <1>1, <3>1
  <2>3. d.disk = [a \in Addrs |-> d.disk[a]]
    BY DEF Dev
  <2>4. QED BY <2>1, <2>2, <2>3 DEF Upto, b
<1> DEFINE Good(s, j) == /\ s \in Dev /\ s.disk = U(j)
                         /\ s.num \in {NoBlock, b + j} /\ s.buf = BlockOf(s.disk, b + j)
<1>3. 0 \in 0..m /\ Good(x0, 0)
  <2>1. 0 \in 0..m
    BY <1>1
  <2> HIDE DEF U
  <2>2. QED BY <1>2, <2>1, WritesStep DEF m, b, U
<1>4. ASSUME NEW j \in 0..m, NEW e \in Dev, e.disk = U(j - 1)
      PROVE  Good(WriteStep(off, v, e, j), j)
  BY <1>4, WritesStep DEF m, b
<1> DEFINE Follows(f) == /\ f[0] = x0
                         /\ \A j \in 0..m : j < m /\ Good(f[j], j) =>
                               f[j + 1] = WriteStep(off, v, f[j], j + 1)
<1>5. ASSUME NEW f, Follows(f) PROVE \A j \in 0..m : Good(f[j], j)
  <2> DEFINE A == {j \in 0..m : Good(f[j], j)}
  <2> HIDE DEF x0
  <2>1. f[0] = x0
    BY <1>5
  <2> HIDE DEF Good
  <2>2. 0 \in A
    BY <1>3, <2>1
  <2>3. ASSUME NEW j \in 0..m, j < m, j \in A PROVE j + 1 \in A
    <3>1. j + 1 \in 0..m /\ (j + 1) - 1 = j
      BY <1>1, <2>3
    <3>2. f[j + 1] = WriteStep(off, v, f[j], j + 1)
      BY <1>5, <2>3
    <3>3. f[j] \in Dev /\ f[j].disk = U((j + 1) - 1)
      BY <2>3, <3>1 DEF Good
    <3>4. Good(WriteStep(off, v, f[j], j + 1), j + 1)
      BY <1>4, <3>1, <3>3
    <3>5. QED BY <3>1, <3>2, <3>4
  <2> HIDE DEF A
  <2>4. \A j \in 0..m : j \in A
    BY <1>1, <2>2, <2>3, UpTo
  <2>5. QED BY <2>4 DEF A
<1>6. \E f : f = [j \in 0..m |-> WriteStep(off, v, IF j = 0 THEN d ELSE f[j - 1], j)]
  <2> DEFINE g == [x \in (0..m) \X Dev |->
                     IF Good(x[2], x[1] - 1) THEN WriteStep(off, v, x[2], x[1]) ELSE x0]
  <2>1. ASSUME NEW j \in 0..m, NEW e \in Dev
        PROVE  /\ g[<<j, e>>] = IF Good(e, j - 1) THEN WriteStep(off, v, e, j) ELSE x0
               /\ g[<<j, e>>] \in Dev
    <3>1. g[<<j, e>>] = IF Good(e, j - 1) THEN WriteStep(off, v, e, j) ELSE x0
      <4> HIDE DEF Good, x0
      <4>1. QED OBVIOUS
    <3>2. Good(e, j - 1) => WriteStep(off, v, e, j) \in Dev
      BY <1>4
    <3>3. x0 \in Dev
      BY <1>3
    <3> HIDE DEF g, Good, x0
    <3>4. QED BY <3>1, <3>2, <3>3
  <2>2. g \in [(0..m) \X Dev -> Dev]
    <3>1. g = [x \in (0..m) \X Dev |-> g[x]]
      OBVIOUS
    <3> HIDE DEF g
    <3>2. \A x \in (0..m) \X Dev : x = <<x[1], x[2]>> /\ x[1] \in 0..m /\ x[2] \in Dev
      OBVIOUS
    <3>3. \A x \in (0..m) \X Dev : g[x] \in Dev
      BY <2>1, <3>2
    <3>4. QED BY <3>1, <3>3
  <2> HIDE DEF g
  <2>3. x0 \in Dev /\ m \in Nat
    BY <1>1, <1>3
  <2> HIDE DEF x0
  <2>4. PICK f \in [0..m -> Dev] :
           \A j \in 0..m : f[j] = IF j = 0 THEN x0 ELSE g[<<j, f[j - 1]>>]
    <3> HIDE DEF U, Good, Follows
    <3>1. \E f : Recurses(f, m, Dev, x0, g)
      BY <2>2, <2>3, Recursion
    <3>2. QED BY <3>1 DEF Recurses
  <2>5. Follows(f)
    <3> HIDE DEF Good
    <3>1. f[0] = x0
      BY <1>3, <2>4
    <3>2. ASSUME NEW j \in 0..m, j < m, Good(f[j], j)
          PROVE  f[j + 1] = WriteStep(off, v, f[j], j + 1)
      <4>1. j + 1 \in 0..m /\ (j + 1) - 1 = j /\ j + 1 # 0 /\ f[j] \in Dev
        BY <1>1, <3>2
      <4>2. f[j + 1] = g[<<j + 1, f[j]>>]
        BY <2>4, <4>1
      <4>3. QED BY <2>1, <3>2, <4>1, <4>2
    <3>3. QED BY <3>1, <3>2
  <2>6. \A j \in 0..m : Good(f[j], j)
    <3> HIDE DEF Follows, Good
    <3>1. QED BY <1>5, <2>5
  <2>7. ASSUME NEW j \in 0..m
        PROVE  f[j] = WriteStep(off, v, IF j = 0 THEN d ELSE f[j - 1], j)
    <3> HIDE DEF Good
    <3>1. CASE j = 0
      BY <2>4, <3>1 DEF x0
    <3>2. CASE j # 0
      <4>1. j - 1 \in 0..m /\ f[j - 1] \in Dev
        BY <1>1, <3>2
      <4>2. f[j] = g[<<j, f[j - 1]>>] /\ Good(f[j - 1], j - 1)
        BY <2>4, <2>6, <3>2, <4>1
      <4>3. QED BY <2>1, <3>2, <4>1, <4>2
    <3>3. QED BY <3>1, <3>2
  <2>8. f = [j \in 0..m |-> WriteStep(off, v, IF j = 0 THEN d ELSE f[j - 1], j)]
    BY <2>7
  <2>9. QED BY <2>8
<1>7. PICK f : /\ f = [j \in 0..m |-> WriteStep(off, v, IF j = 0 THEN d ELSE f[j - 1], j)]
               /\ r = LastOf(f, m)
  <2> HIDE DEF U, Good, Follows, x0
  <2>1. \E f : Unfolded(f, d, off, v)
    BY <1>6 DEF Unfolded, m
  <2>2. \E f : Unfolded(f, d, off, v) /\ r = LastOf(f, LastStep(off, v))
    BY <2>1, WriteUnfolds
  <2>3. QED BY <2>2 DEF Unfolded, m
<1>8. \A j \in 0..m : f[j] = WriteStep(off, v, IF j = 0 THEN d ELSE f[j - 1], j)
  <2> DEFINE F(h, j) == WriteStep(off, v, IF j = 0 THEN d ELSE h[j - 1], j)
  <2>1. f = [j \in 0..m |-> F(f, j)]
    BY <1>7
  <2> HIDE DEF F
  <2>2. \A j \in 0..m : f[j] = F(f, j)
    BY <2>1
  <2>3. QED BY <2>2 DEF F
<1>9. Follows(f)
  <2>1. f[0] = x0
    BY <1>3, <1>8
  <2>2. ASSUME NEW j \in 0..m, j < m PROVE f[j + 1] = WriteStep(off, v, f[j], j + 1)
    <3>1. j + 1 \in 0..m /\ (j + 1) - 1 = j /\ j + 1 # 0
      BY <1>1, <2>2
    <3>2. QED BY <1>8, <3>1
  <2>3. QED BY <2>1, <2>2
<1>10. Good(f[m], m)
  <2>1. m \in 0..m
    BY <1>1
  <2> HIDE DEF Follows, Good
  <2>2. QED BY <1>5, <1>9, <2>1
<1> HIDE DEF r, x0
<1>11. r.disk = f[m].disk /\ r.buf = f[m].buf /\ r \in Dev /\ r.num \in {NoBlock, b + m}
  <2> DEFINE y == f[m]
  <2>1. y \in Dev /\ y.num \in {NoBlock, b + m}
    BY <1>10
  <2>2. r = y \/ r = [y EXCEPT !.num = NoBlock]
    BY <1>7 DEF LastOf
  <2> HIDE DEF y
  <2>3. r.disk = y.disk /\ r.buf = y.buf /\ r \in Dev /\ r.num \in {NoBlock, b + m}
    BY <2>1, <2>2 DEF Dev
  <2>4. QED BY <2>3 DEF y
<1>12. \A k \in Blocks : LabelTrue(r, k)
  BY <1>1, <1>10, <1>11 DEF LabelTrue
<1>13. U(m) = [a \in Addrs |-> IF off <= a /\ a < off + n THEN v[a - off] ELSE d.disk[a]]
  <2>1. ASSUME NEW a \in Addrs, a < off + n PROVE a < (b + m + 1) * BlockSize
    <3>1. a \in Int /\ off + n \in Int /\ b + m + 1 \in Int
      BY <1>1, Sizes DEF Addrs
    <3>2. (b + m + 1) * BlockSize \in Int
      BY <3>1, Sizes
    <3>3. QED BY <1>1, <2>1, <3>1, <3>2
  <2>2. QED BY <2>1 DEF Upto, b
<1>14. QED BY <1>10, <1>11, <1>12, <1>13 DEF r

-----------------------------------------------------------------------------
(* Copies *)

CopyStep(src, dest, e, k) == filedev_write(filedev_read(e, src + k - 1), dest + k - 1)
CopyUnfolded(f, d, src, dest, size) ==
    f = [k \in 0..size |-> IF k = 0 THEN d ELSE CopyStep(src, dest, f[k - 1], k)]

(* What the recursive definition in copy_block() defines. *)
LEMMA CopyUnfolds ==
  ASSUME NEW d, NEW src, NEW dest, NEW size, \E f : CopyUnfolded(f, d, src, dest, size)
  PROVE  \E f : CopyUnfolded(f, d, src, dest, size) /\ copy_block(d, src, dest, size) = f[size]
<1> DEFINE g == CHOOSE f : CopyUnfolded(f, d, src, dest, size)
<1>1. CopyUnfolded(g, d, src, dest, size)
  OBVIOUS
<1>2. copy_block(d, src, dest, size) = g[size]
  BY DEF copy_block, CopyUnfolded, CopyStep
<1>3. QED BY <1>1, <1>2

(* The device e is d with other data blocks. *)
OnlyData(e, d) ==
    /\ e \in Dev /\ e.num = d.num
    /\ \A a \in Addrs : DataBlocks <= a \div BlockSize => e.disk[a] = d.disk[a]

(* A copy of one block of data *)
LEMMA CopiesStep ==
  ASSUME NEW d \in Dev, NEW e, OnlyData(e, d), NEW m \in Moves, NEW k \in 1..m[3]
  PROVE  OnlyData(CopyStep(m[1], m[2], e, k), d)
<1> DEFINE p == m[1] + k - 1
           q == m[2] + k - 1
           x == filedev_read(e, p)
<1>1. /\ m[1] \in Nat /\ m[2] \in Nat /\ m[3] \in Nat
      /\ m[1] + m[3] <= DataBlocks /\ m[2] + m[3] <= DataBlocks
  <2>1. m \in (0..(DataBlocks - 1)) \X (0..(DataBlocks - 1)) \X (1..DataBlocks)
        /\ m[1] + m[3] <= DataBlocks /\ m[2] + m[3] <= DataBlocks
    BY DEF Moves
  <2>2. QED BY <2>1, Sizes
<1>2. p \in Blocks /\ q \in Blocks /\ q < DataBlocks
  BY <1>1, Sizes DEF Blocks
<1> HIDE DEF p, q
<1>3. x \in Dev /\ x.disk = e.disk /\ x.num = e.num
  BY <1>2, ReadsBlock DEF OnlyData
<1> HIDE DEF x
<1> DEFINE y == filedev_write(x, q)
<1>4. /\ y \in Dev /\ y.num = x.num
      /\ \A a \in Addrs : y.disk[a] = IF a \div BlockSize = q THEN x.buf[a % BlockSize] ELSE x.disk[a]
  BY <1>2, <1>3, WritesBlock
<1> HIDE DEF y
<1>5. \A a \in Addrs : DataBlocks <= a \div BlockSize => a \div BlockSize # q
  BY <1>2, BlockOfAddr, Sizes DEF Blocks
<1>6. OnlyData(y, d)
  BY <1>3, <1>4, <1>5 DEF OnlyData
<1>7. QED BY <1>6 DEF CopyStep, y, x, p, q

(* and of many change data only, and the buffer under an old label. *)
LEMMA Copies ==
  ASSUME NEW d \in Dev, NEW m \in Moves
  PROVE  OnlyData(copy_block(d, m[1], m[2], m[3]), d)
<1> DEFINE n == m[3]
           Step(e, k) == CopyStep(m[1], m[2], e, k)
<1>1. n \in Nat
  BY DEF Moves
<1>2. OnlyData(d, d)
  BY DEF OnlyData
<1>3. ASSUME NEW e, OnlyData(e, d), NEW k \in 1..n PROVE OnlyData(Step(e, k), d)
  BY <1>3, CopiesStep
<1> HIDE DEF n, Step
<1>4. ASSUME NEW f, CopyUnfolded(f, d, m[1], m[2], n)
      PROVE  \A k \in 0..n : OnlyData(f[k], d)
  <2> DEFINE A == {k \in 0..n : OnlyData(f[k], d)}
  <2>1. \A k \in 0..n : f[k] = IF k = 0 THEN d ELSE Step(f[k - 1], k)
    <3> DEFINE F(h, k) == IF k = 0 THEN d ELSE CopyStep(m[1], m[2], h[k - 1], k)
    <3>1. f = [k \in 0..n |-> F(f, k)]
      BY <1>4 DEF CopyUnfolded
    <3> HIDE DEF F
    <3>2. \A k \in 0..n : f[k] = F(f, k)
      BY <3>1
    <3>3. QED BY <3>2 DEF F, Step
  <2>2. 0 \in A
    BY <1>1, <1>2, <2>1
  <2>3. ASSUME NEW k \in 0..n, k < n, k \in A PROVE k + 1 \in A
    <3>1. k + 1 \in 0..n /\ k + 1 \in 1..n /\ k + 1 # 0 /\ (k + 1) - 1 = k
      BY <1>1, <2>3
    <3>2. f[k + 1] = Step(f[k], k + 1)
      BY <2>1, <3>1
    <3>3. OnlyData(f[k + 1], d)
      BY <1>3, <2>3, <3>1, <3>2
    <3>4. QED BY <3>1, <3>3
  <2> HIDE DEF A
  <2>4. \A k \in 0..n : k \in A
    BY <1>1, <2>2, <2>3, UpTo
  <2>5. QED BY <2>4 DEF A
<1>5. \E f : CopyUnfolded(f, d, m[1], m[2], n)
  <2> DEFINE X == {e \in Dev : OnlyData(e, d)}
             g == [x \in (0..n) \X X |-> IF x[1] = 0 THEN d ELSE Step(x[2], x[1])]
  <2>1. d \in X
    BY <1>2
  <2>2. ASSUME NEW k \in 0..n, NEW e \in X
        PROVE  /\ g[<<k, e>>] = IF k = 0 THEN d ELSE Step(e, k)
               /\ g[<<k, e>>] \in X
    <3>1. g[<<k, e>>] = IF k = 0 THEN d ELSE Step(e, k)
      <4> HIDE DEF X
      <4>1. QED OBVIOUS
    <3>2. k # 0 => Step(e, k) \in X
      <4>1. OnlyData(e, d)
        OBVIOUS
      <4>2. k # 0 => OnlyData(Step(e, k), d)
        BY <1>1, <1>3, <4>1
      <4>3. QED BY <4>2 DEF OnlyData
    <3> HIDE DEF g, X
    <3>3. QED BY <2>1, <3>1, <3>2
  <2>3. g \in [(0..n) \X X -> X]
    <3>1. g = [x \in (0..n) \X X |-> g[x]]
      OBVIOUS
    <3> HIDE DEF g, X
    <3>2. \A x \in (0..n) \X X : x = <<x[1], x[2]>> /\ x[1] \in 0..n /\ x[2] \in X
      OBVIOUS
    <3>3. \A x \in (0..n) \X X : g[x] \in X
      BY <2>2, <3>2
    <3>4. QED BY <3>1, <3>3
  <2> HIDE DEF g, X
  <2>4. PICK f : Recurses(f, n, X, d, g)
    BY <1>1, <2>1, <2>3, Recursion
  <2>5. ASSUME NEW k \in 0..n
        PROVE  f[k] = IF k = 0 THEN d ELSE Step(f[k - 1], k)
    <3>1. f[k] = IF k = 0 THEN d ELSE g[<<k, f[k - 1]>>]
      BY <2>4 DEF Recurses
    <3>2. k # 0 => k - 1 \in 0..n /\ f[k - 1] \in X
      BY <1>1, <2>4 DEF Recurses
    <3>3. QED BY <2>2, <3>1, <3>2
  <2>6. f = [k \in 0..n |-> f[k]]
    BY <2>4 DEF Recurses
  <2>7. f = [k \in 0..n |-> IF k = 0 THEN d ELSE Step(f[k - 1], k)]
    BY <2>5, <2>6
  <2>8. QED BY <2>7 DEF CopyUnfolded, Step
<1>6. PICK f : CopyUnfolded(f, d, m[1], m[2], n) /\ copy_block(d, m[1], m[2], n) = f[n]
  BY <1>5, CopyUnfolds
<1>7. n \in 0..n
  BY <1>1
<1>8. QED BY <1>4, <1>6, <1>7 DEF n

-----------------------------------------------------------------------------
(* The invariant *)

(* The device after a call is what the call returns. *)
LEMMA NextDev ==
  ASSUME NEW d \in Dev, Becomes(d)
  PROVE  dev' = d
<1>1. disk' = d.disk /\ buf' = d.buf /\ buf_num' = d.num
  BY DEF Becomes
<1>2. d = [disk |-> d.disk, buf |-> d.buf, num |-> d.num]
  BY DEF Dev
<1>3. QED BY <1>1, <1>2 DEF dev

(* The part about labels, of the device as a record. *)
Labels(d, f) == \A b \in IndexNums : ~f \/ b # LastIndex => LabelTrue(d, b)

(* IInv speaks of the device as a record. *)
LEMMA InvIs == IInv <=> dev \in Dev /\ full \in BOOLEAN /\ Labels(dev, full)
  BY DEF IInv, TypeOK, LabelsOK, Labels, dev, Dev

(* The same after a step. *)
LEMMA InvIsNext == IInv' <=> dev' \in Dev /\ full' \in BOOLEAN /\ Labels(dev', full')
  BY DEF IInv, TypeOK, LabelsOK, Labels, LabelTrue, BlockOf, dev, Dev

(* A label of a data block, or none, is no lie about an index block. *)
LEMMA DataLabels ==
  ASSUME NEW d, NEW f, d.num \in 0..(DataBlocks - 1) \cup {NoBlock}
  PROVE  Labels(d, f)
<1>1. \A b \in IndexNums : d.num # b
  BY Sizes DEF IndexNums, NoBlock
<1>2. QED BY <1>1 DEF Labels, LabelTrue

(* The data of a write. *)
LEMMA WriteFits ==
  ASSUME NEW p \in Patterns, NEW off \in Addrs, NEW n \in Nat \ {0}, n <= DataEnd, off + n <= Total
  PROVE  Fitting(off, Prefixes(p, n), n)
<1>1. p \in [0..(DataEnd - 1) -> Tokens]
  BY IoAssumption DEF DataEnd
<1>2. 0..(n - 1) \subseteq 0..(DataEnd - 1)
  BY Sizes
<1>3. Prefixes(p, n) \in [0..(n - 1) -> Tokens]
  BY <1>1, <1>2 DEF Prefixes
<1>4. QED BY <1>3 DEF Fitting

(* The data of a file. *)
LEMMA SpanFits ==
  ASSUME NEW s \in Spans
  PROVE  s[1] \in Addrs /\ s[2] \in Nat \ {0} /\ s[2] <= DataEnd /\ s[1] + s[2] <= Total
<1>1. s[1] \in Nat /\ s[2] \in Nat \ {0} /\ s[1] + s[2] <= DataEnd
  BY Sizes DEF Spans, DataEnd
<1>2. QED BY <1>1, Sizes DEF Addrs, Total

(* The last entry of the index is in its last block. *)
LEMMA LastEntry ==
  LET a == (DataBlocks + IndexBlocks) * BlockSize - EntrySize
  IN  a \in EntryOffs /\ a \div BlockSize = LastIndex
<1> DEFINE m  == BlockSize \div EntrySize
           lo == DataEnd \div EntrySize
           hi == Total \div EntrySize
           a  == Total - EntrySize
<1>1. /\ lo \in Nat /\ hi \in Nat /\ lo < hi /\ hi * EntrySize = Total
      /\ m \in Nat /\ BlockSize = m * EntrySize
  BY EntriesFill
<1> HIDE DEF lo, hi, m
<1>2. a = EntrySize * (hi - 1) /\ hi - 1 \in lo..(hi - 1)
  <2>1. (hi - 1) * EntrySize \in Int /\ ((hi - 1) + 1) * EntrySize = ((hi - 1) * EntrySize) + EntrySize
    BY <1>1, Sizes, Multiples
  <2>2. (hi - 1) + 1 = hi /\ EntrySize * (hi - 1) = (hi - 1) * EntrySize
    BY <1>1, Sizes
  <2>3. QED BY <1>1, <2>1, <2>2, Sizes
<1>3. a \in EntryOffs
  BY <1>2 DEF EntryOffs, lo, hi, DataEnd, Total
<1>4. EntrySize <= BlockSize
  <2>1. m # 0
    BY <1>1, Sizes
  <2>2. 1 * EntrySize <= m * EntrySize
    BY <1>1, <2>1, Sizes, Multiples
  <2>3. QED BY <1>1, <2>2, Sizes
<1>5. a \div BlockSize = LastIndex
  <2>1. LastIndex \in Nat /\ LastIndex + 1 = DataBlocks + IndexBlocks
    BY Sizes DEF LastIndex
  <2>2. LastIndex * BlockSize \in Int /\ Total = (LastIndex * BlockSize) + BlockSize
    BY <2>1, Sizes, Multiples DEF Total
  <2>3. a = (LastIndex * BlockSize) + (BlockSize - EntrySize) /\ a \in Nat
    BY <1>3, <2>2, EntryInBlock, BlockOfAddr, Sizes
  <2>4. BlockSize - EntrySize \in 0..(BlockSize - 1)
    BY <1>4, Sizes
  <2> HIDE DEF a
  <2>5. QED BY <2>1, <2>3, <2>4, DivideOnce, Sizes
<1>6. QED BY <1>3, <1>5 DEF Total

(* Each use of the device keeps the invariant. *)
LEMMA CallsKeep ==
  ASSUME dev \in Dev, Labels(dev, full), Calls
  PROVE  dev' \in Dev /\ Labels(dev', full)
<1>1. ASSUME NEW a \in EntryOffs, Lookup(a) PROVE dev' \in Dev /\ Labels(dev', full)
  <2> DEFINE r == read_entry(dev, a).dev
             b == a \div BlockSize
  <2>1. /\ r \in Dev /\ r.disk = dev.disk /\ r.num = b
        /\ LabelTrue(dev, b) => r.buf = BlockOf(dev.disk, b)
    BY ReadsEntry
  <2>2. dev' = r
    BY <1>1, <2>1, NextDev DEF Lookup
  <2> HIDE DEF r, b
  <2>3. Labels(r, full)
    BY <2>1 DEF Labels, LabelTrue
  <2>4. QED BY <2>1, <2>2, <2>3
<1>2. ASSUME NEW off, NEW v, NEW n, Fitting(off, v, n), Becomes(write_data(dev, off, v))
      PROVE  dev' \in Dev /\ Labels(dev', full)
  <2> DEFINE r == write_data(dev, off, v)
  <2>1. r \in Dev /\ \A b \in Blocks : LabelTrue(r, b)
    BY <1>2, WritesData
  <2>2. dev' = r
    BY <1>2, <2>1, NextDev
  <2> HIDE DEF r
  <2>3. IndexNums \subseteq Blocks
    BY Sizes DEF IndexNums, Blocks
  <2>4. QED BY <2>1, <2>2, <2>3 DEF Labels
<1>3. ASSUME NEW a \in EntryOffs, NEW p \in Patterns, WriteEntry(a, Prefixes(p, EntrySize))
      PROVE  dev' \in Dev /\ Labels(dev', full)
  <2>1. a \in Addrs /\ a + EntrySize <= Total /\ EntrySize <= DataEnd
    <3>1. EntrySize <= BlockSize - (a % BlockSize) /\ a % BlockSize \in Nat
      BY EntryInBlock, BlockOfAddr, Sizes DEF Cells
    <3>2. BlockSize <= DataEnd
      <4>1. 1 * BlockSize <= DataBlocks * BlockSize
        BY Sizes, Multiples
      <4>2. QED BY <4>1, Sizes DEF DataEnd
    <3> DEFINE c == a % BlockSize
    <3> HIDE DEF c
    <3>3. EntrySize <= DataEnd
      <4>1. EntrySize <= BlockSize - c /\ c \in Nat
        BY <3>1 DEF c
      <4>2. QED BY <3>2, <4>1, Sizes
    <3>4. QED BY <3>3, EntryInBlock
  <2>2. Fitting(a, Prefixes(p, EntrySize), EntrySize)
    BY <2>1, WriteFits, Sizes
  <2>3. Becomes(write_data(dev, a, Prefixes(p, EntrySize)))
    BY <1>3 DEF WriteEntry, write_entry
  <2>4. QED BY <1>2, <2>2, <2>3
<1>4. ASSUME NEW a \in EntryOffs, NEW s \in ReadSpans, ReadFile(a, s[1], s[2])
      PROVE  dev' \in Dev /\ Labels(dev', full)
  <2> DEFINE r == sfs_read(a, s[1], s[2]).dev
  <2>1. r \in Dev /\ r.num \in 0..(DataBlocks - 1)
    BY ReadsFile
  <2>2. dev' = r
    BY <1>4, <2>1, NextDev DEF ReadFile
  <2> HIDE DEF r
  <2>3. QED BY <2>1, <2>2, DataLabels
<1>5. ASSUME NEW s \in Spans, NEW p \in Patterns, WriteFile(s[1], Prefixes(p, s[2]))
      PROVE  dev' \in Dev /\ Labels(dev', full)
  <2>1. Fitting(s[1], Prefixes(p, s[2]), s[2])
    BY SpanFits, WriteFits
  <2>2. QED BY <1>2, <1>5, <2>1 DEF WriteFile
<1>6. ASSUME NEW m \in Moves, Copy(m[1], m[2], m[3])
      PROVE  dev' \in Dev /\ Labels(dev', full)
  <2> DEFINE r == copy_block(dev, m[1], m[2], m[3])
  <2>1. r \in Dev /\ r.num = dev.num
    BY Copies DEF OnlyData
  <2>2. dev' = r /\ dev.num = NoBlock
    BY <1>6, <2>1, NextDev DEF Copy, dev
  <2> HIDE DEF r
  <2>3. QED BY <2>1, <2>2, DataLabels
<1>7. QED BY <1>1, <1>3, <1>4, <1>5, <1>6 DEF Calls

(* After a move while the index is full only the label of the last index    *)
(* block may be false: the scan of the index has just set it.               *)
LEMMA FullMovesKeep ==
  ASSUME dev \in Dev, FullMoves
  PROVE  dev' \in Dev /\ Labels(dev', TRUE)
<1> DEFINE a == (DataBlocks + IndexBlocks) * BlockSize - EntrySize
           e == read_entry(dev, a).dev
<1>1. PICK m \in Moves : Becomes(copy_block(e, m[1], m[2], m[3]))
  BY DEF FullMoves, CopyAfterFailedAdd
<1>2. a \in EntryOffs /\ a \div BlockSize = LastIndex
  BY LastEntry
<1> HIDE DEF a
<1>3. e \in Dev /\ e.num = LastIndex
  BY <1>2, ReadsEntry
<1> HIDE DEF e
<1> DEFINE r == copy_block(e, m[1], m[2], m[3])
<1>4. r \in Dev /\ r.num = LastIndex
  BY <1>3, Copies DEF OnlyData
<1>5. dev' = r
  BY <1>1, <1>4, NextDev
<1> HIDE DEF r
<1>6. QED BY <1>4, <1>5 DEF Labels, LabelTrue

(* A device that was just opened has no label. *)
LEMMA IoInit == ASSUME Init PROVE IInv
<1>1. PICK t \in Tokens : disk = [a \in Addrs |-> t]
  BY DEF Init
<1>2. PICK s \in Tokens : buf = [i \in Cells |-> s]
  BY DEF Init
<1>3. buf_num = NoBlock /\ full = FALSE
  BY DEF Init
<1>4. dev \in Dev /\ dev.num = NoBlock
  BY <1>1, <1>2, <1>3 DEF dev, Dev
<1>5. Labels(dev, full)
  BY <1>4, DataLabels
<1>6. QED BY <1>3, <1>4, <1>5, InvIs

(* The invariant is inductive. *)
LEMMA IoNext == ASSUME IInv, [Next]_vars PROVE IInv'
<1>1. dev \in Dev /\ full \in BOOLEAN /\ Labels(dev, full)
  BY InvIs
<1>2. CASE Calls /\ UNCHANGED full
  <2>1. dev' \in Dev /\ Labels(dev', full)
    BY <1>1, <1>2, CallsKeep
  <2>2. QED BY <1>1, <1>2, <2>1, InvIsNext
<1>3. CASE FullMoves /\ full' = TRUE
  <2>1. dev' \in Dev /\ Labels(dev', TRUE)
    BY <1>1, <1>3, FullMovesKeep
  <2>2. QED BY <1>3, <2>1, InvIsNext
<1>4. CASE UNCHANGED vars
  <2>1. dev' = dev /\ full' = full
    BY <1>4 DEF vars, dev
  <2>2. QED BY <1>1, <2>1, InvIsNext
<1>5. QED BY <1>2, <1>3, <1>4 DEF Next

(* Every label that is followed is true, and the bytes, the buffer and the  *)
(* label keep their types.                                                  *)
THEOREM LabelsStayTrue == Spec => []IInv
  BY IoInit, IoNext, PTL DEF Spec

(* The device, the buffer and its label keep their types, TypeOK. *)
THEOREM IoTypesKept == Spec => []TypeOK
<1>1. IInv => TypeOK
  BY DEF IInv
<1>2. QED BY <1>1, LabelsStayTrue, PTL

(* read_entry() never returns a stale entry, EntriesReadRight: not after a  *)
(* read, write or copy, except of the last index block after a relocation   *)
(* with a full index.                                                       *)
THEOREM NoEntryIsStale == Spec => []EntriesReadRight
<1>1. IInv => EntriesReadRight
  <2> SUFFICES ASSUME IInv, NEW a \in EntryOffs,
                      ~full \/ a \div BlockSize # DataBlocks + IndexBlocks - 1
               PROVE  read_entry(dev, a).bytes = Slice(a, EntrySize)
    BY DEF EntriesReadRight
  <2>1. dev \in Dev /\ Labels(dev, full) /\ dev.disk = disk
    BY InvIs DEF dev
  <2>2. a \div BlockSize \in IndexNums
    BY EntryInBlock
  <2>3. LabelTrue(dev, a \div BlockSize)
    BY <2>1, <2>2 DEF Labels, LastIndex
  <2>4. read_entry(dev, a).bytes = [k \in 0..(EntrySize - 1) |-> dev.disk[a + k]]
    BY <2>1, <2>3, ReadsEntry
  <2>5. QED BY <2>1, <2>4 DEF Slice
<1>2. QED BY <1>1, LabelsStayTrue, PTL

(* sfs_read() returns the bytes of the device, FileReadsRight, for reads    *)
(* within a block or from the start of one, and of any other those of the   *)
(* first block.                                                             *)
THEOREM ReadsAreRight == Spec => []FileReadsRight
<1>1. IInv => FileReadsRight
  <2> SUFFICES ASSUME IInv, NEW a \in EntryOffs, NEW s \in ReadSpans,
                      NEW k \in 0..((IF InBlocks(s) THEN s[2] ELSE BlockSize - (s[1] % BlockSize)) - 1)
               PROVE  sfs_read(a, s[1], s[2]).bytes[k] = disk[s[1] + k]
    BY DEF FileReadsRight
  <2> DEFINE c == s[1] % BlockSize
  <2>1. dev \in Dev
    BY InvIs
  <2>2. \A l \in 0..(s[2] - 1) :
           l < BlockSize - c \/ c = 0 => sfs_read(a, s[1], s[2]).bytes[l] = disk[s[1] + l]
    BY <2>1, ReadsFile
  <2>3. c \in Nat /\ c < BlockSize /\ s[2] \in Nat
    <3>1. s[1] \in Nat /\ s[2] \in Nat
      BY Sizes DEF ReadSpans, Spans, DataEnd
    <3> DEFINE x == s[1]
    <3>2. x \in Nat
      BY <3>1
    <3> HIDE DEF x
    <3>3. x % BlockSize \in 0..(BlockSize - 1)
      BY <3>2, Divide, Sizes
    <3>4. QED BY <3>1, <3>3, Sizes DEF x
  <2> HIDE DEF c
  <2>4. CASE c = 0 \/ c + s[2] <= BlockSize
    <3>1. InBlocks(s)
      BY <2>4 DEF InBlocks, c
    <3>2. k \in 0..(s[2] - 1)
      BY <3>1
    <3>3. k < BlockSize - c \/ c = 0
      BY <2>3, <2>4, <3>2, Sizes
    <3>4. QED BY <2>2, <3>2, <3>3
  <2>5. CASE ~(c = 0 \/ c + s[2] <= BlockSize)
    <3>1. ~InBlocks(s)
      BY <2>5 DEF InBlocks, c
    <3>2. k \in 0..((BlockSize - c) - 1)
      BY <3>1 DEF c
    <3>3. k \in 0..(s[2] - 1) /\ k < BlockSize - c
      BY <2>3, <2>5, <3>2, Sizes
    <3>4. QED BY <2>2, <3>3
  <2>6. QED BY <2>4, <2>5
<1>2. QED BY <1>1, LabelsStayTrue, PTL

(* write_data() changes exactly the bytes it is asked to, WritesLand,       *)
(* whatever the buffer holds and wherever the write begins and ends.        *)
THEOREM WritesLandRight == Spec => []WritesLand
<1>1. IInv => WritesLand
  <2> SUFFICES ASSUME IInv, NEW s \in Spans, NEW p \in Patterns
               PROVE  write_data(dev, s[1], Prefixes(p, s[2])).disk =
                         [a \in Addrs |-> IF a \in s[1]..(s[1] + s[2] - 1) THEN p[a - s[1]] ELSE disk[a]]
    BY DEF WritesLand
  <2> DEFINE off == s[1]
             n == s[2]
             v == Prefixes(p, n)
  <2>1. dev \in Dev /\ dev.disk = disk
    BY InvIs DEF dev
  <2>2. Fitting(off, v, n)
    BY SpanFits, WriteFits
  <2>3. off \in Nat /\ n \in Nat \ {0}
    BY SpanFits, BlockOfAddr
  <2> HIDE DEF off, n
  <2>4. write_data(dev, off, v).disk =
           [a \in Addrs |-> IF off <= a /\ a < off + n THEN v[a - off] ELSE disk[a]]
    BY <2>1, <2>2, WritesData
  <2>5. ASSUME NEW a \in Addrs
        PROVE  /\ off <= a /\ a < off + n <=> a \in off..(off + n - 1)
               /\ a \in off..(off + n - 1) => v[a - off] = p[a - off]
    <3>1. a \in Nat
      BY BlockOfAddr
    <3>2. off <= a /\ a < off + n <=> a \in off..(off + n - 1)
      BY <2>3, <3>1
    <3>3. a \in off..(off + n - 1) => a - off \in 0..(n - 1)
      BY <2>3, <3>1
    <3>4. QED BY <3>2, <3>3 DEF Prefixes
  <2> HIDE DEF v
  <2>6. [a \in Addrs |-> IF off <= a /\ a < off + n THEN v[a - off] ELSE disk[a]]
        = [a \in Addrs |-> IF a \in off..(off + n - 1) THEN p[a - off] ELSE disk[a]]
    BY <2>5
  <2>7. QED BY <2>4, <2>6 DEF off, n, v
<1>2. QED BY <1>1, LabelsStayTrue, PTL
=============================================================================
