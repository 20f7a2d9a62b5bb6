----------------------------- MODULE Mksfs_proofs -----------------------------
(***************************************************************************)
(* Images of any size that mksfs makes, with any options (and blocks of up *)
(* to 1 GiB, the bound of Power): the areas that main of mksfs,            *)
(* image_create and sfs_init compute are the same, and the image can be    *)
(* mounted.                                                                *)
(***************************************************************************)
EXTENDS Mksfs, Induction_proofs

-----------------------------------------------------------------------------
(* Powers of two *)

(* One doubling at a time, *)
LEMMA Doubles ==
  ASSUME NEW k \in 0..29
  PROVE  2^(k + 1) = 2 * 2^k
<1>1. CASE k = 0 BY <1>1
<1>2. CASE k = 1 BY <1>2
<1>3. CASE k = 2 BY <1>3
<1>4. CASE k = 3 BY <1>4
<1>5. CASE k = 4 BY <1>5
<1>6. CASE k = 5 BY <1>6
<1>7. CASE k = 6 BY <1>7
<1>8. CASE k = 7 BY <1>8
<1>9. CASE k = 8 BY <1>9
<1>10. CASE k = 9 BY <1>10
<1>11. CASE k = 10 BY <1>11
<1>12. CASE k = 11 BY <1>12
<1>13. CASE k = 12 BY <1>13
<1>14. CASE k = 13 BY <1>14
<1>15. CASE k = 14 BY <1>15
<1>16. CASE k = 15 BY <1>16
<1>17. CASE k = 16 BY <1>17
<1>18. CASE k = 17 BY <1>18
<1>19. CASE k = 18 BY <1>19
<1>20. CASE k = 19 BY <1>20
<1>21. CASE k = 20 BY <1>21
<1>22. CASE k = 21 BY <1>22
<1>23. CASE k = 22 BY <1>23
<1>24. CASE k = 23 BY <1>24
<1>25. CASE k = 24 BY <1>25
<1>26. CASE k = 25 BY <1>26
<1>27. CASE k = 26 BY <1>27
<1>28. CASE k = 27 BY <1>28
<1>29. CASE k = 28 BY <1>29
<1>30. CASE k = 29 BY <1>30
<1>31. QED BY <1>1, <1>2, <1>3, <1>4, <1>5, <1>6, <1>7, <1>8, <1>9, <1>10, <1>11, <1>12,
              <1>13, <1>14, <1>15, <1>16, <1>17, <1>18, <1>19, <1>20, <1>21, <1>22,
              <1>23, <1>24, <1>25, <1>26, <1>27, <1>28, <1>29, <1>30

(* starting from one. *)
LEMMA PowerSize ==
  /\ 2^0 = 1
  /\ \A k \in 0..30 : 2^k \in Nat \ {0}
<1> DEFINE A == {k \in 0..30 : 2^k \in Nat \ {0}}
<1>1. 2^0 = 1
  OBVIOUS
<1>2. 0 \in A
  BY <1>1
<1>3. ASSUME NEW k \in 0..30, k < 30, k \in A PROVE k + 1 \in A
  <2>1. k \in 0..29 /\ 2^k \in Nat \ {0}
    BY <1>3
  <2>2. 2^(k + 1) = 2 * 2^k
    BY <2>1, Doubles
  <2>3. 2^(k + 1) \in Nat \ {0}
    <3> DEFINE p == 2^k
               q == 2^(k + 1)
    <3>1. p \in Nat \ {0} /\ q = 2 * p
      BY <2>1, <2>2
    <3> HIDE DEF p, q
    <3>2. q \in Nat \ {0}
      BY <3>1
    <3>3. QED BY <3>2 DEF q
  <2>4. QED BY <2>1, <2>3
<1> HIDE DEF A
<1>4. \A k \in 0..30 : k \in A
  BY <1>2, <1>3, UpTo
<1>5. QED BY <1>1, <1>4 DEF A

(* Greater exponents have greater powers. *)
LEMMA PowerGrows ==
  ASSUME NEW j \in 0..30, NEW k \in 0..30, j < k
  PROVE  2^j < 2^k
<1> DEFINE A == {n \in 0..30 : \A i \in 0..30 : i < n => 2^i < 2^n}
<1>1. 0 \in A
  OBVIOUS
<1>2. ASSUME NEW n \in 0..30, n < 30, n \in A PROVE n + 1 \in A
  <2>1. n \in 0..29 /\ n + 1 \in 0..30
    BY <1>2
  <2>2. ASSUME NEW i \in 0..30, i < n + 1 PROVE 2^i < 2^(n + 1)
    <3> DEFINE p == 2^n
               q == 2^(n + 1)
               r == 2^i
    <3>1. p \in Nat \ {0} /\ q = 2 * p /\ r \in Nat
      BY <2>1, Doubles, PowerSize
    <3>2. i < n \/ i = n
      BY <2>2
    <3>3. r < p \/ r = p
      BY <1>2, <3>2
    <3> HIDE DEF p, q, r
    <3>4. r < q
      BY <3>1, <3>3
    <3>5. QED BY <3>4 DEF q, r
  <2>3. QED BY <2>1, <2>2
<1> HIDE DEF A
<1>3. k \in A
  BY <1>1, <1>2, UpTo
<1>4. QED BY <1>3 DEF A

(* log2 undoes a power. *)
LEMMA LogOfPower ==
  ASSUME NEW k \in 0..30
  PROVE  log2(2^k) = k
<1>1. ASSUME NEW j \in 0..30, 2^j = 2^k PROVE j = k
  <2> DEFINE p == 2^j
             q == 2^k
  <2>1. p \in Nat /\ q \in Nat /\ p = q
    BY <1>1, PowerSize
  <2>2. (j < k => p < q) /\ (k < j => q < p)
    BY PowerGrows
  <2> HIDE DEF p, q
  <2>3. QED BY <2>1, <2>2
<1>2. QED BY <1>1 DEF log2

(* The block size as the MBR gives it. *)
Block(e) == 128 * 2^e

(* A block size that mksfs accepts, and its exponent. *)
LEMMA BlockPower ==
  ASSUME NEW k \in 0..22
  PROVE  /\ DEFAULT_MIN_BLOCK * 2^k = Block(k + 1)
         /\ log2(DEFAULT_MIN_BLOCK * 2^k) - 7 = k + 1
<1> DEFINE p(j) == 2^(k + j)
<1>1. \A j \in 0..7 : p(j + 1) = 2 * p(j)
  <2> SUFFICES ASSUME NEW j \in 0..7 PROVE p(j + 1) = 2 * p(j)
    OBVIOUS
  <2>1. k + j \in 0..29 /\ (k + j) + 1 = k + (j + 1)
    OBVIOUS
  <2>2. QED BY <2>1, Doubles
<1>2. p(0) = 2^k /\ p(0) \in Nat
  <2>1. k + 0 = k /\ k \in 0..30
    OBVIOUS
  <2>2. 2^k \in Nat
    BY <2>1, PowerSize
  <2>3. QED BY <2>1, <2>2
<1>3. /\ p(1) = 2 * p(0) /\ p(2) = 2 * p(1) /\ p(3) = 2 * p(2) /\ p(4) = 2 * p(3)
      /\ p(5) = 2 * p(4) /\ p(6) = 2 * p(5) /\ p(7) = 2 * p(6) /\ p(8) = 2 * p(7)
  <2> HIDE DEF p
  <2>1. QED BY <1>1
<1> HIDE DEF p
<1>4. p(8) = 256 * p(0) /\ 128 * p(1) = 256 * p(0)
  BY <1>2, <1>3
<1>5. p(8) = 2^(k + 8) /\ p(1) = 2^(k + 1)
  BY DEF p
<1>6. log2(2^(k + 8)) = k + 8
  <2>1. k + 8 \in 0..30
    OBVIOUS
  <2>2. QED BY <2>1, LogOfPower
<1>7. QED BY <1>2, <1>4, <1>5, <1>6 DEF Block, DEFAULT_MIN_BLOCK

(* What image_create takes for the block size is that, too, and entries     *)
(* fill blocks.                                                             *)
LEMMA BlockBytes ==
  ASSUME NEW e \in 1..23
  PROVE  /\ 2^(e + 7) = Block(e)
         /\ \E m \in Nat : m >= 2 /\ Block(e) = 128 * m
<1> DEFINE p(j) == 2^(e + j)
<1>1. \A j \in 0..6 : p(j + 1) = 2 * p(j)
  <2> SUFFICES ASSUME NEW j \in 0..6 PROVE p(j + 1) = 2 * p(j)
    OBVIOUS
  <2>1. e + j \in 0..29 /\ (e + j) + 1 = e + (j + 1)
    OBVIOUS
  <2>2. QED BY <2>1, Doubles
<1>2. p(0) = 2^e /\ p(0) \in Nat
  <2>1. e + 0 = e /\ e \in 0..30
    OBVIOUS
  <2>2. 2^e \in Nat
    BY <2>1, PowerSize
  <2>3. QED BY <2>1, <2>2
<1>3. /\ p(1) = 2 * p(0) /\ p(2) = 2 * p(1) /\ p(3) = 2 * p(2) /\ p(4) = 2 * p(3)
      /\ p(5) = 2 * p(4) /\ p(6) = 2 * p(5) /\ p(7) = 2 * p(6)
  <2> HIDE DEF p
  <2>1. QED BY <1>1
<1>4. 2^e >= 2
  <2>1. 0 \in 0..30 /\ e \in 0..30 /\ 0 < e
    OBVIOUS
  <2>2. 2^0 < 2^e
    BY <2>1, PowerGrows, Zenon
  <2>3. QED BY <2>2, <1>2, PowerSize
<1> HIDE DEF p
<1>5. p(7) = 128 * p(0)
  BY <1>2, <1>3
<1>6. p(7) = 2^(e + 7)
  BY DEF p
<1>7. 2^e \in Nat
  BY <1>2
<1>8. QED BY <1>2, <1>4, <1>5, <1>6, <1>7 DEF Block

-----------------------------------------------------------------------------
(* The options *)

(* What the rest needs to know of the options that main passes on: the      *)
(* reserved area, the data area and the index area make up the image, in    *)
(* whole blocks.                                                            *)
Accepted(o, size) ==
    /\ o.block_size \in 1..23 /\ o.total_block \in Nat /\ o.data_size \in Nat
    /\ o.reserved_size \in 1..2 /\ o.reserved_size * Block(o.block_size) >= MBR_SIZE
    /\ size = o.total_block * Block(o.block_size)
    /\ \E x \in Nat \ {0} : /\ o.index_size = x * Block(o.block_size)
                             /\ o.total_block = o.reserved_size + o.data_size + x

(* A size in an option is a natural number or not valid. *)
LEMMA Converted ==
  ASSUME NEW o \in (BlockOptions \cup IndexOptions) \ {None}, NEW size \in Nat
  PROVE  convert_size(o, size) \in Nat \cup {EINVAL}
<1>1. o[1] \in Nat
  BY MksfsAssumption
<1> DEFINE n == o[1]
<1>2. size * n \in Nat
  BY <1>1
<1>3. (size * n) \div 100 \in Nat
  <2> DEFINE m == size * n
  <2>1. m \in Nat
    BY <1>2
  <2> HIDE DEF m
  <2>2. m \div 100 \in Nat
    BY <2>1
  <2>3. QED BY <2>2 DEF m
<1>4. n \in Nat /\ 1024 * n \in Nat /\ 1024 * 1024 * n \in Nat
      /\ 1024 * 1024 * 1024 * n \in Nat /\ EINVAL = -1
  BY <1>1 DEF EINVAL
<1>5. convert_size(o, size) \in {(size * n) \div 100, n, 1024 * n, 1024 * 1024 * n,
                                1024 * 1024 * 1024 * n, EINVAL}
  <2> DEFINE a == (size * n) \div 100  b == 1024 * n  c == 1024 * 1024 * n
             d == 1024 * 1024 * 1024 * n
  <2>1. convert_size(o, size) =
          CASE o[2] = "%" /\ size # 0 -> a
            [] o[2] \in {"", "B"} -> n
            [] o[2] = "K" -> b
            [] o[2] = "M" -> c
            [] o[2] = "G" -> d
            [] OTHER -> EINVAL
    BY DEF convert_size
  <2> DEFINE u == o[2]
             result == convert_size(o, size)
  <2> HIDE DEF a, b, c, d, n, u, result
  <2>2. result \in {a, n, b, c, d, EINVAL}
    <3>1. CASE u = "%" /\ size # 0
      BY <2>1, <3>1 DEF u, result
    <3>2. CASE u \in {"", "B"}
      BY <2>1, <3>2 DEF u, result
    <3>3. CASE u = "K"
      BY <2>1, <3>3 DEF u, result
    <3>4. CASE u = "M"
      BY <2>1, <3>4 DEF u, result
    <3>5. CASE u = "G"
      BY <2>1, <3>5 DEF u, result
    <3>6. CASE ~(u = "%" /\ size # 0) /\ u \notin {"", "B", "K", "M", "G"}
      BY <2>1, <3>6 DEF u, result
    <3>7. QED BY <3>1, <3>2, <3>3, <3>4, <3>5, <3>6
  <2>3. QED BY <2>2 DEF a, b, c, d, result
<1>6. QED BY <1>3, <1>4, <1>5

(* A block size that mksfs accepts is a power of two and divides the image. *)
LEMMA BlockAccepted ==
  ASSUME NEW b \in BlockOptions, file_size \in Nat, block_size(b) # EINVAL
  PROVE  /\ \E k \in 0..22 : block_size(b) = DEFAULT_MIN_BLOCK * 2^k
         /\ file_size % block_size(b) = 0
<1> DEFINE size == IF b = None THEN DEFAULT_BLOCK_SIZE ELSE convert_size(b, 0)
<1>1. /\ block_size(b) = size /\ file_size % size = 0
      /\ b # None => Power(size)
  BY DEF block_size
<1>2. CASE b # None
  BY <1>1, <1>2 DEF Power
<1>3. CASE b = None
  <2>1. 1 \in 0..22 /\ DEFAULT_MIN_BLOCK * 2^1 = 512 /\ size = 512
    BY <1>3 DEF DEFAULT_MIN_BLOCK, DEFAULT_BLOCK_SIZE
  <2>2. QED BY <1>1, <2>1
<1>4. QED BY <1>2, <1>3

(* Aligning gives the next multiple. *)
LEMMA Aligned ==
  ASSUME NEW size \in Nat, NEW bs \in Nat \ {0}
  PROVE  \E x \in Nat : AlignUp(size, bs) = x * bs /\ AlignUp(size, bs) >= size
<1> DEFINE q == size \div bs
           r == size % bs
<1>1. q \in Nat /\ r \in 0..(bs - 1) /\ size = (q * bs) + r
  BY Divide
<1>2. AlignUp(size, bs) = IF r = 0 THEN size ELSE (size + bs) - r
  BY DEF AlignUp
<1> HIDE DEF q, r
<1>3. q * bs \in Int /\ (q + 1) * bs = (q * bs) + bs
  BY <1>1, Multiples
<1>4. CASE r = 0
  BY <1>1, <1>2, <1>3, <1>4
<1>5. CASE r # 0
  <2>1. AlignUp(size, bs) = (q + 1) * bs /\ AlignUp(size, bs) >= size
    BY <1>1, <1>2, <1>3, <1>5
  <2>2. q + 1 \in Nat
    BY <1>1
  <2>3. QED BY <2>1, <2>2
<1>6. QED BY <1>4, <1>5

(* An index size that mksfs accepts is a number of blocks, and leaves room  *)
(* for the reserved area.                                                   *)
LEMMA IndexAccepted ==
  ASSUME NEW m \in IndexOptions, file_size \in Nat, NEW bs \in Nat \ {0},
         index_size(m, bs) # EINVAL
  PROVE  \E x \in Nat \ {0} : /\ index_size(m, bs) = x * bs
                               /\ x * bs <= file_size - rsrvd_size(bs)
<1> DEFINE asked == asked_size(m)
           size == AlignUp(asked, bs)
<1>1. asked \in Nat \cup {EINVAL} /\ (m = None => asked \in Nat)
  <2>1. CASE m = None
    <3> DEFINE a == (5 * file_size) \div 100
               b == 10 * 1024 * 1024
    <3>1. a \in Nat /\ b \in Nat
      OBVIOUS
    <3>2. asked = Min({a, b})
      BY <2>1 DEF asked_size
    <3> HIDE DEF a, b
    <3>3. Min({a, b}) \in {a, b}
      <4>1. CASE a <= b
        <5>1. a \in {a, b} /\ \A y \in {a, b} : a <= y
          BY <3>1, <4>1
        <5>2. QED BY <5>1 DEF Min
      <4>2. CASE b <= a
        <5>1. b \in {a, b} /\ \A y \in {a, b} : b <= y
          BY <3>1, <4>2
        <5>2. QED BY <5>1 DEF Min
      <4>3. QED BY <3>1, <4>1, <4>2
    <3>4. QED BY <3>1, <3>2, <3>3
  <2>2. CASE m # None
    <3>1. asked = convert_size(m, file_size)
      BY <2>2 DEF asked_size
    <3>2. QED BY <2>2, <3>1, Converted
  <2>3. QED BY <2>1, <2>2
<1>2. /\ index_size(m, bs) = size
      /\ ~(m # None /\ asked \in {0, EINVAL})
      /\ ~(size > file_size - rsrvd_size(bs)) /\ ~(size < INDEX_MIN_SIZE)
  BY DEF index_size
<1>3. asked \in Nat
  BY <1>1, <1>2
<1>4. rsrvd_size(bs) \in Nat /\ INDEX_MIN_SIZE = 128
  BY DEF rsrvd_size, MBR_SIZE, INDEX_MIN_SIZE, INDEX_ENTRY_SIZE
<1> HIDE DEF asked
<1>5. PICK x \in Nat : size = x * bs
  BY <1>3, Aligned
<1>6. x * bs \in Int
  BY <1>5, Multiples
<1> HIDE DEF size
<1>7. size >= 128 /\ size <= file_size - rsrvd_size(bs)
  <2>1. size \in Int /\ file_size - rsrvd_size(bs) \in Int
    BY <1>4, <1>5, <1>6
  <2>2. QED BY <1>2, <1>4, <2>1
<1>8. x # 0
  <2>1. 0 * bs = 0
    OBVIOUS
  <2>2. QED BY <1>5, <1>7, <2>1
<1>9. QED BY <1>2, <1>5, <1>7, <1>8

(* The options that main passes on are accepted. *)
LEMMA OptionsAccepted ==
  ASSUME NEW b \in BlockOptions, NEW m \in IndexOptions, NEW label,
         file_size \in Nat, verdict(b, m, label) = "success"
  PROVE  Accepted(sfs_options(b, m, label), file_size)
<1> DEFINE bs == block_size(b)
           is == index_size(m, bs)
           o  == sfs_options(b, m, label)
<1>1. bs # EINVAL /\ is # EINVAL
  BY DEF verdict
<1>2. PICK k \in 0..22 : bs = DEFAULT_MIN_BLOCK * 2^k
  BY <1>1, BlockAccepted
<1>3. /\ bs = Block(k + 1) /\ log2(bs) - 7 = k + 1 /\ k + 1 \in 1..23
  <2> HIDE DEF bs
  <2>1. DEFAULT_MIN_BLOCK * 2^k = Block(k + 1) /\ log2(DEFAULT_MIN_BLOCK * 2^k) - 7 = k + 1
    BY BlockPower
  <2>2. QED BY <1>2, <2>1
<1>4. PICK g \in Nat : g >= 2 /\ bs = 128 * g
  BY <1>3, BlockBytes
<1>5. file_size % bs = 0
  BY <1>1, BlockAccepted
<1> HIDE DEF bs
<1>6. bs \in Nat \ {0} /\ bs >= 256
  BY <1>4
<1>7. PICK x \in Nat \ {0} : is = x * bs /\ x * bs <= file_size - rsrvd_size(bs)
  BY <1>1, <1>6, IndexAccepted
<1> DEFINE t == file_size \div bs
           r == rsrvd_size(bs) \div bs
<1>8. t \in Nat /\ file_size = t * bs
  <2>1. file_size = ((file_size \div bs) * bs) + (file_size % bs) /\ file_size \div bs \in Nat
    BY <1>6, Divide
  <2>2. (file_size \div bs) * bs \in Int
    BY <1>6, <2>1, Multiples
  <2>3. QED BY <1>5, <2>1, <2>2
<1>9. r \in 1..2 /\ rsrvd_size(bs) = r * bs /\ r * bs >= MBR_SIZE
  <2>1. CASE bs = 256
    <3>1. rsrvd_size(bs) = 512 /\ r = 2
      BY <2>1 DEF rsrvd_size, MBR_SIZE
    <3>2. QED BY <2>1, <3>1 DEF MBR_SIZE
  <2>2. CASE bs # 256
    <3>1. k # 0
      <4> SUFFICES ASSUME k = 0 PROVE FALSE
        OBVIOUS
      <4>1. 2^k = 1
        BY PowerSize
      <4>2. QED BY <1>2, <2>2, <4>1 DEF DEFAULT_MIN_BLOCK
    <3>2. bs >= 512
      <4>1. 2^k >= 2
        <5> DEFINE p == 2^k
        <5>1. 0 \in 0..30 /\ k \in 0..30 /\ 0 < k
          BY <3>1
        <5>2. 2^0 < p
          BY <5>1, PowerGrows, Zenon
        <5>3. p \in Nat /\ 2^0 = 1
          BY <5>1, PowerSize
        <5> HIDE DEF p
        <5>4. p >= 2
          BY <5>2, <5>3
        <5>5. QED BY <5>4 DEF p
      <4>2. 2^k \in Nat
        <5>1. k \in 0..30
          OBVIOUS
        <5>2. QED BY <5>1, PowerSize
      <4>3. QED BY <1>2, <4>1, <4>2 DEF DEFAULT_MIN_BLOCK
    <3>3. rsrvd_size(bs) = bs
      BY <1>6, <3>2 DEF rsrvd_size, MBR_SIZE
    <3>4. bs = (1 * bs) + 0 /\ bs \div bs = 1
      BY <1>6, DivideOnce
    <3>5. QED BY <1>6, <3>2, <3>3, <3>4 DEF MBR_SIZE
  <2>3. QED BY <2>1, <2>2
<1>10. is \div bs = x
  <2>1. is \in Nat /\ is = (x * bs) + 0 /\ 0 \in 0..(bs - 1)
    BY <1>6, <1>7
  <2>2. QED BY <1>6, <1>7, <2>1, DivideOnce
<1> HIDE DEF t, r, is
<1>11. r + x <= t
  <2>1. (r + x) * bs <= t * bs /\ (r + x) * bs \in Int /\ t * bs \in Int
    <3>1. (r + x) * bs = (r * bs) + (x * bs) /\ r * bs \in Int /\ x * bs \in Int /\ t * bs \in Int
      BY <1>6, <1>7, <1>8, <1>9, Multiples
    <3>2. QED BY <1>7, <1>8, <1>9, <3>1
  <2>2. ~(t < r + x)
    <3>1. t < r + x => (t * bs) + bs <= (r + x) * bs
      BY <1>6, <1>7, <1>8, <1>9, Multiples
    <3>2. QED BY <1>6, <2>1, <3>1
  <2>3. QED BY <1>7, <1>8, <1>9, <2>2
<1>12. /\ o.data_size = t - r - x /\ o.index_size = is /\ o.total_block = t
       /\ o.reserved_size = r /\ o.block_size = k + 1
  BY <1>3, <1>10 DEF sfs_options, bs, is, t, r
<1> HIDE DEF o
<1>13. t - r - x \in Nat /\ t = r + (t - r - x) + x
  BY <1>7, <1>8, <1>9, <1>11
<1>14. QED
  <2>1. /\ o.index_size = x * Block(o.block_size)
        /\ o.total_block = o.reserved_size + o.data_size + x
    BY <1>3, <1>7, <1>12, <1>13
  <2>2. QED BY <1>3, <1>7, <1>8, <1>9, <1>12, <1>13, <2>1 DEF Accepted, o

-----------------------------------------------------------------------------
(* The device *)

(* What was written, and where. *)
Kinds == {"MBR", "VOL_IDENT", "START", "DEL_FILE", "ROOT", "UNUSED"}
Wr    == [from : Nat, to : Nat, what : Kinds]

Covers(i, off) == dev[i].from <= off /\ off < dev[i].to

(* What a place holds is the last write that covers it. *)
LEMMA LastWrite ==
  ASSUME dev \in Seq(Wr), NEW i \in 1..Len(dev), NEW off, Covers(i, off),
         \A j \in 1..Len(dev) : j > i => ~Covers(j, off)
  PROVE  At(off) = dev[i].what
<1> DEFINE over == {j \in DOMAIN dev : dev[j].from <= off /\ off < dev[j].to}
<1>1. DOMAIN dev = 1..Len(dev) /\ Len(dev) \in Nat
  OBVIOUS
<1>2. i \in over /\ \A j \in over : j \in Int /\ j <= i
  BY <1>1 DEF Covers
<1>3. At(off) = IF over = {} THEN "old" ELSE dev[Max(over)].what
  BY DEF At
<1> HIDE DEF over
<1>4. Max(over) = i
  <2>1. \A x \in over : (\A y \in over : x >= y) => x = i
    BY <1>2
  <2>2. i \in over /\ \A y \in over : i >= y
    BY <1>2
  <2>3. QED BY <2>1, <2>2 DEF Max
<1>5. QED BY <1>2, <1>3, <1>4

(* Where the index begins and where the volume identifier is. *)
IndexStart(o) == (o.reserved_size + o.data_size) * Block(o.block_size)
VolIdent(size) == size - INDEX_ENTRY_SIZE

(* The index is a number of entries, four at least. *)
LEMMA Areas ==
  ASSUME NEW o, NEW size, Accepted(o, size)
  PROVE  /\ size \in Nat /\ IndexStart(o) \in Nat /\ IndexStart(o) >= MBR_SIZE
         /\ size - IndexStart(o) = o.index_size
         /\ \E l \in Nat : l >= 3 /\ VolIdent(size) = IndexStart(o) + (64 * l)
                                  /\ o.index_size = 64 * (l + 1)
<1> DEFINE bs == Block(o.block_size)
           r == o.reserved_size
           n == o.data_size
           t == o.total_block
<1>1. /\ o.block_size \in 1..23 /\ t \in Nat /\ n \in Nat /\ r \in 1..2
      /\ r * bs >= MBR_SIZE /\ size = t * bs
  BY DEF Accepted
<1>2. PICK x \in Nat \ {0} : o.index_size = x * bs /\ t = r + n + x
  BY DEF Accepted
<1>3. PICK g \in Nat : g >= 2 /\ bs = 128 * g
  BY <1>1, BlockBytes
<1>4. IndexStart(o) = (r + n) * bs
  BY DEF IndexStart
<1> HIDE DEF bs, r, n, t
<1>5. bs \in Nat \ {0} /\ r \in Nat
  BY <1>1, <1>3
<1>6. /\ t * bs = ((r + n) * bs) + (x * bs) /\ (r + n) * bs = (r * bs) + (n * bs)
      /\ (r + n) * bs \in Int /\ x * bs \in Int /\ r * bs \in Int /\ n * bs \in Int
      /\ 0 * bs = 0 /\ 0 * bs <= n * bs /\ 0 * bs <= x * bs
  <2>1. t = (r + n) + x
    BY <1>1, <1>2
  <2>2. r + n \in Int /\ 0 <= n /\ 0 <= x
    BY <1>1, <1>5
  <2>3. 0 * bs = 0
    BY <1>5
  <2>4. ((r + n) + x) * bs = ((r + n) * bs) + (x * bs)
    BY <1>5, <2>2, Multiples
  <2>5. (r + n) * bs = (r * bs) + (n * bs)
    BY <1>1, <1>5, Multiples
  <2>6. 0 * bs <= n * bs /\ 0 * bs <= x * bs
    BY <1>1, <1>5, <2>2, Multiples
  <2>7. (r + n) * bs \in Int /\ x * bs \in Int /\ r * bs \in Int /\ n * bs \in Int
    BY <1>1, <1>5, <2>2, Multiples
  <2>8. QED BY <2>1, <2>3, <2>4, <2>5, <2>6, <2>7
<1>7. x * bs = 64 * ((2 * g) * x) /\ (2 * g) * x >= 4 /\ (2 * g) * x \in Nat
  <2>1. 2 * g \in Nat \ {0} /\ 2 * g >= 4
    BY <1>3
  <2>2. 1 * (2 * g) <= x * (2 * g) /\ x * (2 * g) \in Int
    BY <2>1, Multiples
  <2>3. x * (128 * g) = 64 * (x * (2 * g)) /\ x * (2 * g) = (2 * g) * x
    BY <1>3
  <2>4. QED BY <1>3, <2>1, <2>2, <2>3
<1> DEFINE l == ((2 * g) * x) - 1
<1>8. l \in Nat /\ l >= 3 /\ x * bs = 64 * (l + 1)
  <2> DEFINE y == (2 * g) * x
  <2>1. y \in Nat /\ y >= 4 /\ x * bs = 64 * y
    BY <1>7
  <2> HIDE DEF y
  <2>2. y - 1 \in Nat /\ y - 1 >= 3 /\ (y - 1) + 1 = y
    BY <2>1
  <2>3. QED BY <2>1, <2>2 DEF y
<1> HIDE DEF l
<1>9. /\ IndexStart(o) \in Nat /\ IndexStart(o) >= MBR_SIZE
      /\ size = IndexStart(o) + (64 * (l + 1)) /\ o.index_size = 64 * (l + 1)
  BY <1>1, <1>2, <1>4, <1>6, <1>8 DEF MBR_SIZE
<1> HIDE DEF IndexStart
<1>10. QED BY <1>8, <1>9 DEF VolIdent, INDEX_ENTRY_SIZE

(* Two sequences, one behind the other. *)
LEMMA Concats ==
  ASSUME NEW S, NEW b \in Seq(S), NEW r \in Seq(S)
  PROVE  /\ b \o r \in Seq(S) /\ Len(b \o r) = Len(b) + Len(r)
         /\ \A i \in 1..Len(b) : (b \o r)[i] = b[i]
         /\ \A i \in 1..Len(r) : (b \o r)[Len(b) + i] = r[i]
  OBVIOUS

(* A write is a write. *)
LEMMA WrittenIsWr ==
  ASSUME NEW a \in Nat, NEW c \in Nat, NEW k \in Kinds
  PROVE  Written(a, c, k) \in Wr /\ Entry(a, k) \in Wr
<1>1. a + INDEX_ENTRY_SIZE \in Nat
  BY DEF INDEX_ENTRY_SIZE
<1>2. QED BY <1>1 DEF Wr, Written, Entry

(* The kinds of writes. *)
LEMMA KindsAre ==
  /\ "MBR" \in Kinds /\ "VOL_IDENT" \in Kinds /\ "START" \in Kinds
  /\ "DEL_FILE" \in Kinds /\ "ROOT" \in Kinds /\ "UNUSED" \in Kinds
  BY DEF Kinds

(* The writes of image_create, one by one. *)
LEMMA WritesAre ==
  ASSUME NEW o, NEW size, Accepted(o, size)
  PROVE  LET w == Writes(o)
             s == IndexStart(o)
             v == VolIdent(size)
         IN  /\ w \in Seq(Wr) /\ Len(w) \in 5..6 /\ (s + 192 < v => Len(w) = 6)
             /\ w[2] = Entry(v, "VOL_IDENT") /\ w[3] = Entry(s, "START")
             /\ w[4] = Entry(s + 64, "DEL_FILE") /\ w[5] = Entry(s + 128, "ROOT")
             /\ Len(w) = 6 => w[6] = Written(s + 192, v, "UNUSED")
<1> DEFINE s == IndexStart(o)
           v == VolIdent(size)
           b == << Written(0, MBR_SIZE, "MBR"), Entry(v, "VOL_IDENT"), Entry(s, "START"),
                   Entry(s + 64, "DEL_FILE"), Entry(s + 128, "ROOT") >>
           r == remain_area(s + 192, v)
<1>1. /\ s \in Nat /\ v \in Nat /\ s + 192 <= v /\ size \in Nat /\ size - s = o.index_size
      /\ size - 64 = v
  BY Areas DEF VolIdent, INDEX_ENTRY_SIZE
<1>2. /\ 2^(o.block_size + 7) = Block(o.block_size)
      /\ size = o.total_block * Block(o.block_size)
  BY BlockBytes DEF Accepted
<1>3. Writes(o) = b \o r
  <2> DEFINE bs == 2^(o.block_size + 7)
             start == o.total_block * bs - o.index_size
             vol   == o.total_block * bs - INDEX_ENTRY_SIZE
  <2>1. start = size - o.index_size /\ vol = v
    BY <1>2 DEF VolIdent
  <2>2. size - o.index_size = s
    <3>1. o.index_size \in Int
      BY Areas
    <3> HIDE DEF s
    <3>2. QED BY <1>1, <3>1
  <2>3. Writes(o) =
          << Written(0, MBR_SIZE, "MBR"), Entry(vol, "VOL_IDENT"),
             Entry(start, "START"), Entry(start + 64, "DEL_FILE"),
             Entry(start + 128, "ROOT") >> \o remain_area(start + 192, vol)
    BY DEF Writes
  <2>4. QED BY <2>1, <2>2, <2>3
<1> HIDE DEF s, v
<1>4. b \in Seq(Wr) /\ Len(b) = 5
  <2>1. s + 64 \in Nat /\ s + 128 \in Nat /\ MBR_SIZE \in Nat /\ 0 \in Nat
    BY <1>1 DEF MBR_SIZE
  <2>2. Written(0, MBR_SIZE, "MBR") \in Wr
    BY <2>1, KindsAre, WrittenIsWr
  <2>3. Entry(v, "VOL_IDENT") \in Wr
    BY <1>1, KindsAre, WrittenIsWr
  <2>4. Entry(s, "START") \in Wr
    BY <1>1, KindsAre, WrittenIsWr
  <2>5. Entry(s + 64, "DEL_FILE") \in Wr
    BY <2>1, KindsAre, WrittenIsWr
  <2>6. Entry(s + 128, "ROOT") \in Wr
    BY <2>1, KindsAre, WrittenIsWr
  <2>7. QED BY <2>2, <2>3, <2>4, <2>5, <2>6
<1>5. /\ b[2] = Entry(v, "VOL_IDENT") /\ b[3] = Entry(s, "START")
      /\ b[4] = Entry(s + 64, "DEL_FILE") /\ b[5] = Entry(s + 128, "ROOT")
  OBVIOUS
<1> DEFINE u == Written(s + 192, v, "UNUSED")
<1>6. /\ r \in Seq(Wr) /\ Len(r) \in 0..1 /\ (s + 192 < v => Len(r) = 1)
      /\ Len(r) = 1 => r[1] = u
  <2>1. CASE s + 192 < v
    <3>1. s + 192 \in Nat
      BY <1>1
    <3>2. u \in Wr
      BY <1>1, <3>1, KindsAre, WrittenIsWr
    <3>3. r = <<u>>
      BY <2>1 DEF remain_area
    <3> HIDE DEF u, r
    <3>4. QED BY <3>2, <3>3
  <2>2. CASE ~(s + 192 < v)
    <3>1. r = <<>>
      BY <2>2 DEF remain_area
    <3> HIDE DEF r
    <3>2. QED BY <2>2, <3>1
  <2>3. QED BY <2>1, <2>2
<1> HIDE DEF b, r, u
<1> DEFINE w == b \o r
<1>7. /\ w \in Seq(Wr) /\ Len(w) = 5 + Len(r)
      /\ \A i \in 1..5 : w[i] = b[i]
      /\ \A i \in 1..Len(r) : w[5 + i] = r[i]
  <2>1. /\ w \in Seq(Wr) /\ Len(w) = Len(b) + Len(r)
        /\ \A i \in 1..Len(b) : w[i] = b[i]
        /\ \A i \in 1..Len(r) : w[Len(b) + i] = r[i]
    <3>1. b \in Seq(Wr) /\ r \in Seq(Wr)
      BY <1>4, <1>6
    <3>2. QED BY <3>1, Concats
  <2> HIDE DEF w
  <2>2. QED BY <1>4, <2>1
<1> HIDE DEF w
<1>8. /\ Len(w) \in 5..6 /\ (s + 192 < v => Len(w) = 6)
      /\ w[2] = b[2] /\ w[3] = b[3] /\ w[4] = b[4] /\ w[5] = b[5]
      /\ Len(w) = 6 => w[6] = u
  BY <1>6, <1>7
<1>9. QED BY <1>3, <1>5, <1>7, <1>8 DEF w, u, s, v

(* An index between two places: the marker, the free space, the root,       *)
(* unused entries, the volume identifier.                                   *)
LaidOut(s, v) == /\ At(s) = "START" /\ At(s + 64) = "DEL_FILE" /\ At(s + 128) = "ROOT"
                 /\ At(v) = "VOL_IDENT"
                 /\ \A p \in Nat : s + 192 <= p /\ p < v => At(p) = "UNUSED"

(* The device behind the writes of image_create, whatever was there before. *)
LEMMA Layout ==
  ASSUME NEW o, NEW size, Accepted(o, size), NEW d \in Seq(Wr), dev = d \o Writes(o)
  PROVE  LaidOut(IndexStart(o), VolIdent(size))
<1> DEFINE s == IndexStart(o)
           v == VolIdent(size)
           w == Writes(o)
           n == Len(d)
<1>1. s \in Nat /\ v \in Nat /\ s + 192 <= v
  <2>1. PICK l \in Nat : l >= 3 /\ v = s + (64 * l)
    BY Areas
  <2>2. s \in Nat
    BY Areas
  <2> HIDE DEF s, v
  <2>3. QED BY <2>1, <2>2
<1>2. /\ w \in Seq(Wr) /\ Len(w) \in 5..6 /\ (s + 192 < v => Len(w) = 6)
      /\ w[2] = Entry(v, "VOL_IDENT") /\ w[3] = Entry(s, "START")
      /\ w[4] = Entry(s + 64, "DEL_FILE") /\ w[5] = Entry(s + 128, "ROOT")
      /\ Len(w) = 6 => w[6] = Written(s + 192, v, "UNUSED")
  BY WritesAre
<1> HIDE DEF s, v, w
<1>3. /\ dev \in Seq(Wr) /\ Len(dev) = n + Len(w) /\ n \in Nat
      /\ \A i \in 1..Len(w) : dev[n + i] = w[i]
  <2>1. /\ d \o w \in Seq(Wr) /\ Len(d \o w) = Len(d) + Len(w)
        /\ \A i \in 1..Len(w) : (d \o w)[Len(d) + i] = w[i]
    <3>1. d \in Seq(Wr) /\ w \in Seq(Wr)
      BY <1>2
    <3>2. QED BY <3>1, Concats
  <2>2. dev = d \o w
    BY DEF w
  <2>3. QED BY <2>1, <2>2
<1> HIDE DEF n
<1>4. /\ dev[n + 2] = w[2] /\ dev[n + 3] = w[3] /\ dev[n + 4] = w[4] /\ dev[n + 5] = w[5]
      /\ Len(w) = 6 => dev[n + 6] = w[6]
  <2>1. /\ 2 \in 1..Len(w) /\ 3 \in 1..Len(w) /\ 4 \in 1..Len(w) /\ 5 \in 1..Len(w)
        /\ Len(w) = 6 => 6 \in 1..Len(w)
    <3> DEFINE m == Len(w)
    <3>1. m \in 5..6
      BY <1>2
    <3> HIDE DEF m
    <3>2. /\ 2 \in 1..m /\ 3 \in 1..m /\ 4 \in 1..m /\ 5 \in 1..m /\ (m = 6 => 6 \in 1..m)
      BY <3>1
    <3>3. QED BY <3>2 DEF m
  <2>2. \A i \in 1..Len(w) : dev[n + i] = w[i]
    BY <1>3
  <2>3. dev[n + 2] = w[2] /\ dev[n + 3] = w[3] /\ dev[n + 4] = w[4] /\ dev[n + 5] = w[5]
    BY <2>1, <2>2
  <2>4. QED BY <2>1, <2>2, <2>3
<1> DEFINE C(i, p) == Covers(n + i, p)
           x(i)    == dev[n + i].what
           k       == Len(w)
<1>5. \A p, a : Entry(p, a).from = p /\ Entry(p, a).to = p + 64 /\ Entry(p, a).what = a
  BY DEF Entry, Written, INDEX_ENTRY_SIZE
<1>6. \A p, q, a : /\ Written(p, q, a).from = p /\ Written(p, q, a).to = q
                    /\ Written(p, q, a).what = a
  BY DEF Written
<1>7. dev[n + 2].from = v /\ dev[n + 2].to = v + 64 /\ dev[n + 2].what = "VOL_IDENT"
  BY <1>2, <1>4, <1>5
<1>8. dev[n + 3].from = s /\ dev[n + 3].to = s + 64 /\ dev[n + 3].what = "START"
  BY <1>2, <1>4, <1>5
<1>9. /\ dev[n + 4].from = s + 64 /\ dev[n + 4].to = s + 64 + 64
      /\ dev[n + 4].what = "DEL_FILE"
  BY <1>2, <1>4, <1>5
<1>10. /\ dev[n + 5].from = s + 128 /\ dev[n + 5].to = s + 128 + 64
       /\ dev[n + 5].what = "ROOT"
  BY <1>2, <1>4, <1>5
<1>11. ASSUME k = 6
       PROVE  dev[n + 6].from = s + 192 /\ dev[n + 6].to = v /\ dev[n + 6].what = "UNUSED"
  <2>1. dev[n + 6] = w[6] /\ w[6] = Written(s + 192, v, "UNUSED")
    BY <1>2, <1>4, <1>11
  <2>2. QED BY <1>6, <2>1
<1>12. \A p : /\ C(2, p) <=> (v <= p /\ p < v + 64)
              /\ C(3, p) <=> (s <= p /\ p < s + 64)
              /\ C(4, p) <=> (s + 64 <= p /\ p < s + 64 + 64)
              /\ C(5, p) <=> (s + 128 <= p /\ p < s + 128 + 64)
              /\ k = 6 => (C(6, p) <=> (s + 192 <= p /\ p < v))
  <2> TAKE p
  <2> HIDE DEF k
  <2>1. C(2, p) <=> (v <= p /\ p < v + 64)
    BY <1>7 DEF Covers
  <2>2. C(3, p) <=> (s <= p /\ p < s + 64)
    BY <1>8 DEF Covers
  <2>3. C(4, p) <=> (s + 64 <= p /\ p < s + 64 + 64)
    BY <1>9 DEF Covers
  <2>4. C(5, p) <=> (s + 128 <= p /\ p < s + 128 + 64)
    BY <1>10 DEF Covers
  <2>5. k = 6 => (C(6, p) <=> (s + 192 <= p /\ p < v))
    BY <1>11 DEF Covers
  <2>6. QED BY <2>1, <2>2, <2>3, <2>4, <2>5
<1>13. /\ x(2) = "VOL_IDENT" /\ x(3) = "START" /\ x(4) = "DEL_FILE" /\ x(5) = "ROOT"
       /\ k = 6 => x(6) = "UNUSED"
  <2> HIDE DEF k
  <2>1. QED BY <1>7, <1>8, <1>9, <1>10, <1>11
<1>14. ASSUME NEW i \in 2..6, i <= k, NEW p \in Nat, C(i, p),
             \A j \in 3..6 : i < j /\ j <= k => ~C(j, p)
      PROVE  At(p) = x(i)
  <2>1. n + i \in 1..Len(dev)
    BY <1>3, <1>14
  <2>2. ASSUME NEW j \in 1..Len(dev), j > n + i PROVE ~Covers(j, p)
    <3>1. /\ j - n \in Int /\ i < j - n /\ j - n <= k /\ n + (j - n) = j
          /\ k \in 5..6
      BY <1>2, <1>3, <2>2
    <3> DEFINE m == j - n
    <3> HIDE DEF C, k, m
    <3>2. m \in 3..6 /\ i < m /\ m <= k
      BY <3>1 DEF m
    <3>3. ~C(m, p)
      BY <1>14, <3>2
    <3>4. QED BY <3>1, <3>3 DEF C, m
  <2>3. QED BY <1>3, <1>14, <2>1, <2>2, LastWrite
<1>15. k \in 5..6 /\ (s + 192 < v => k = 6)
  BY <1>2
<1> HIDE DEF C, x, k
<1>16. At(s) = "START"
  <2>1. C(3, s) /\ ~C(4, s) /\ ~C(5, s) /\ (k = 6 => ~C(6, s))
    BY <1>1, <1>12
  <2>2. \A j \in 3..6 : 3 < j /\ j <= k => ~C(j, s)
    BY <1>15, <2>1
  <2>3. 3 \in 2..6 /\ 3 <= k
    BY <1>15
  <2>4. QED BY <1>1, <1>13, <1>14, <2>1, <2>2, <2>3
<1>17. At(s + 64) = "DEL_FILE"
  <2> DEFINE q == s + 64
  <2>1. C(4, q) /\ ~C(5, q) /\ (k = 6 => ~C(6, q)) /\ q \in Nat
    BY <1>1, <1>12
  <2> HIDE DEF q
  <2>2. \A j \in 3..6 : 4 < j /\ j <= k => ~C(j, q)
    BY <1>15, <2>1
  <2>3. 4 \in 2..6 /\ 4 <= k
    BY <1>15
  <2>4. At(q) = x(4)
    BY <1>14, <2>1, <2>2, <2>3
  <2>5. QED BY <1>13, <2>4 DEF q
<1>18. At(s + 128) = "ROOT"
  <2> DEFINE q == s + 128
  <2>1. C(5, q) /\ (k = 6 => ~C(6, q)) /\ q \in Nat
    BY <1>1, <1>12
  <2> HIDE DEF q
  <2>2. \A j \in 3..6 : 5 < j /\ j <= k => ~C(j, q)
    BY <1>15, <2>1
  <2>3. 5 \in 2..6 /\ 5 <= k
    BY <1>15
  <2>4. At(q) = x(5)
    BY <1>14, <2>1, <2>2, <2>3
  <2>5. QED BY <1>13, <2>4 DEF q
<1>19. At(v) = "VOL_IDENT"
  <2> DEFINE q == v
  <2>1. C(2, q) /\ ~C(3, q) /\ ~C(4, q) /\ ~C(5, q) /\ (k = 6 => ~C(6, q)) /\ q \in Nat
    BY <1>1, <1>12
  <2> HIDE DEF q
  <2>2. \A j \in 3..6 : 2 < j /\ j <= k => ~C(j, q)
    BY <1>15, <2>1
  <2>3. 2 \in 2..6 /\ 2 <= k
    BY <1>15
  <2>4. At(q) = x(2)
    BY <1>14, <2>1, <2>2, <2>3
  <2>5. QED BY <1>13, <2>4 DEF q
<1>20. ASSUME NEW p \in Nat, s + 192 <= p, p < v PROVE At(p) = "UNUSED"
  <2>1. k = 6
    BY <1>1, <1>15, <1>20
  <2>2. C(6, p)
    BY <1>12, <1>20, <2>1
  <2>3. \A j \in 3..6 : ~(6 < j)
    OBVIOUS
  <2>4. 6 \in 2..6 /\ 6 <= k
    BY <2>1
  <2>5. At(p) = x(6)
    BY <1>14, <2>2, <2>3, <2>4
  <2>6. QED BY <1>13, <2>1, <2>5
<1>21. QED BY <1>16, <1>17, <1>18, <1>19, <1>20 DEF LaidOut, s, v

-----------------------------------------------------------------------------
(* The inductive invariant *)

(* The MBR that image_create makes of the options, *)
FieldsOf(o) == [data_area_size  |-> o.data_size,
                index_area_size |-> o.index_size,
                total_size      |-> o.total_block,
                reserved_size   |-> o.reserved_size,
                block_size      |-> o.block_size]

(* the image, *)
MadeFrom(o) == /\ mbr = [fields |-> FieldsOf(o), checksum |-> Checksum(FieldsOf(o))]
               /\ free = free_extent(o)
               /\ \E d \in Seq(Wr) : dev = d \o Writes(o)

(* and what a mount finds. *)
FoundOf(o) == [mounted |-> TRUE, block_size |-> Block(o.block_size),
               entry_start |-> IndexStart(o), vol_ident |-> VolIdent(file_size)]

(* The image on the device was made from accepted options, and so will be   *)
(* the next; between main and image_create nothing is mounted.              *)
IInv == /\ file_size \in FileSizes /\ images \in 0..MaxImages /\ dev \in Seq(Wr)
        /\ opts # None => Accepted(opts, file_size) /\ fs = None
        /\ fs # None => mbr # None
        /\ mbr # None => \E o : /\ Accepted(o, file_size) /\ MadeFrom(o)
                                /\ fs # None => fs = FoundOf(o)

(* The mount finds the areas where image_create put them. *)
LEMMA MountFinds ==
  ASSUME NEW o, Accepted(o, file_size), MadeFrom(o)
  PROVE  sfs_init = FoundOf(o)
<1> DEFINE s == IndexStart(o)
           bs == Block(o.block_size)
           f == FieldsOf(o)
<1>1. PICK d \in Seq(Wr) : dev = d \o Writes(o)
  BY DEF MadeFrom
<1>2. At(s + 128) = "ROOT"
  <2>1. LaidOut(s, VolIdent(file_size))
    BY <1>1, Layout
  <2>2. QED BY <2>1 DEF LaidOut
<1>3. Checksum(f) = calc_checksum(f)
  <2>1. o.reserved_size = 1 \/ o.reserved_size = 2
    BY DEF Accepted
  <2>2. ByteSum(o.reserved_size) = o.reserved_size % 256
    BY <2>1 DEF ByteSum
  <2>3. f.reserved_size = o.reserved_size
    BY DEF FieldsOf
  <2>4. QED BY <2>2, <2>3 DEF Checksum, calc_checksum
<1>4. /\ (o.reserved_size * bs) + (o.data_size * bs) = s
      /\ s + o.index_size - INDEX_ENTRY_SIZE = VolIdent(file_size)
  <2>1. /\ o.block_size \in 1..23 /\ o.reserved_size \in Int /\ o.data_size \in Int
        /\ o.index_size \in Int
    BY Areas DEF Accepted
  <2>2. bs \in Nat \ {0}
    <3>1. PICK g \in Nat : g >= 2 /\ bs = 128 * g
      BY <2>1, BlockBytes
    <3> HIDE DEF bs
    <3>2. QED BY <3>1
  <2>3. (o.reserved_size * bs) + (o.data_size * bs) = s
    <3> HIDE DEF bs
    <3>1. (o.reserved_size + o.data_size) * bs = (o.reserved_size * bs) + (o.data_size * bs)
      BY <2>1, <2>2, Multiples
    <3>2. QED BY <3>1 DEF IndexStart, bs
  <2>4. s \in Nat /\ file_size \in Nat /\ file_size - s = o.index_size
    BY Areas
  <2> HIDE DEF s
  <2>5. QED BY <2>1, <2>3, <2>4 DEF VolIdent, INDEX_ENTRY_SIZE
<1>5. /\ mbr.fields = f /\ mbr.checksum = Checksum(f)
      /\ f.block_size = o.block_size /\ f.reserved_size = o.reserved_size
      /\ f.data_area_size = o.data_size /\ f.index_area_size = o.index_size
  BY DEF MadeFrom, FieldsOf
<1> HIDE DEF f, s
<1>6. 128 * 2^f.block_size = bs
  BY <1>5 DEF Block
<1> HIDE DEF bs
<1>7. 2 * INDEX_ENTRY_SIZE = 128
  BY DEF INDEX_ENTRY_SIZE
<1>8. sfs_init =
        [mounted |-> ~(mbr.checksum # calc_checksum(f) \/ At(s + 128) # "ROOT"),
         block_size |-> bs, entry_start |-> s,
         vol_ident |-> s + o.index_size - INDEX_ENTRY_SIZE]
  <2> DEFINE es == (o.reserved_size * bs) + (o.data_size * bs)
  <2>1. sfs_init =
          [mounted |-> ~(mbr.checksum # calc_checksum(f)
                         \/ At(es + 2 * INDEX_ENTRY_SIZE) # "ROOT"),
           block_size |-> bs, entry_start |-> es,
           vol_ident |-> es + o.index_size - INDEX_ENTRY_SIZE]
    BY <1>5, <1>6 DEF sfs_init
  <2>2. es = s
    BY <1>4
  <2> HIDE DEF es
  <2>3. QED BY <1>7, <2>1, <2>2
<1>9. QED BY <1>2, <1>3, <1>4, <1>5, <1>8 DEF FoundOf, s, bs

-----------------------------------------------------------------------------
(* The steps *)

(* mksfs starts with no image written. *)
LEMMA Initially == Init => IInv
<1> SUFFICES ASSUME Init PROVE IInv
  OBVIOUS
<1>1. file_size \in FileSizes /\ images = 0 /\ dev = <<>>
      /\ opts = None /\ mbr = None /\ fs = None
  BY DEF Init
<1>2. 0 \in 0..MaxImages
  BY MksfsAssumption
<1>3. <<>> \in Seq(Wr)
  OBVIOUS
<1>4. QED BY <1>1, <1>2, <1>3 DEF IInv

(* A call of mksfs with any options: what it refuses changes nothing, and   *)
(* what it passes on is accepted.                                           *)
LEMMA MainKeeps ==
  ASSUME IInv, NEW b \in BlockOptions, NEW m \in IndexOptions, NEW label,
         main(b, m, label)
  PROVE  IInv'
<1>1. /\ images < MaxImages /\ opts = None /\ exit' = verdict(b, m, label)
      /\ file_size' = file_size /\ mbr' = mbr /\ free' = free /\ dev' = dev
  BY DEF main
<1>2. \/ /\ verdict(b, m, label) = "success" /\ opts' = sfs_options(b, m, label)
         /\ images' = images + 1 /\ fs' = None
      \/ opts' = opts /\ images' = images /\ fs' = fs
  BY DEF main
<1>3. images' \in 0..MaxImages
  BY <1>1, <1>2, MksfsAssumption DEF IInv
<1>4. opts' # None => Accepted(opts', file_size') /\ fs' = None
  <2>1. file_size \in Nat
    BY MksfsAssumption DEF IInv
  <2>2. CASE verdict(b, m, label) = "success" /\ opts' = sfs_options(b, m, label)
             /\ fs' = None
    BY <1>1, <2>1, <2>2, OptionsAccepted
  <2>3. CASE opts' = opts
    BY <1>1, <2>3
  <2>4. QED BY <1>2, <2>2, <2>3
<1>5. fs' = None \/ fs' = fs
  BY <1>2
<1>6. fs' # None => mbr' # None
  BY <1>1, <1>5 DEF IInv
<1>7. ASSUME mbr' # None
      PROVE  \E o : /\ Accepted(o, file_size') /\ MadeFrom(o)'
                    /\ fs' # None => fs' = FoundOf(o)'
  <2>1. PICK o : Accepted(o, file_size) /\ MadeFrom(o) /\ (fs # None => fs = FoundOf(o))
    BY <1>1, <1>7 DEF IInv
  <2>2. MadeFrom(o)' /\ FoundOf(o)' = FoundOf(o)
    BY <1>1, <2>1 DEF MadeFrom, FoundOf
  <2>3. QED BY <1>1, <1>5, <2>1, <2>2
<1>8. file_size' \in FileSizes /\ dev' \in Seq(Wr)
  BY <1>1 DEF IInv
<1>9. QED BY <1>3, <1>4, <1>6, <1>7, <1>8 DEF IInv

(* image_create makes the image of the options it is given. *)
LEMMA CreateKeeps ==
  ASSUME IInv, image_create
  PROVE  IInv'
<1>1. /\ Accepted(opts, file_size) /\ fs = None /\ fs' = None /\ opts' = None
      /\ file_size' = file_size /\ images' = images /\ dev' = dev \o Writes(opts)
      /\ dev \in Seq(Wr) /\ file_size \in FileSizes /\ images \in 0..MaxImages
  BY DEF IInv, image_create
<1>2. Writes(opts) \in Seq(Wr)
  BY <1>1, WritesAre
<1>3. dev' \in Seq(Wr)
  BY <1>1, <1>2, Concats
<1>4. \E o : o = opts
  OBVIOUS
<1>5. PICK o : o = opts
  BY <1>4
<1>6. MadeFrom(o)'
  <2>1. mbr' = [fields |-> FieldsOf(o), checksum |-> Checksum(FieldsOf(o))]
    BY <1>5 DEF image_create, FieldsOf
  <2>2. free' = free_extent(o) /\ dev' = dev \o Writes(o)
    BY <1>5 DEF image_create
  <2>3. \E d \in Seq(Wr) : dev' = d \o Writes(o)
    BY <1>1, <2>2
  <2>4. QED BY <2>1, <2>2, <2>3 DEF MadeFrom
<1>7. Accepted(o, file_size')
  BY <1>1, <1>5
<1>8. QED BY <1>1, <1>3, <1>6, <1>7 DEF IInv

(* A mount finds what image_create made. *)
LEMMA MountKeeps ==
  ASSUME IInv, fuse_sfs_init
  PROVE  IInv'
<1>1. /\ opts = None /\ mbr # None /\ fs' = sfs_init /\ file_size' = file_size
      /\ images' = images /\ opts' = opts /\ mbr' = mbr /\ free' = free /\ dev' = dev
  BY DEF fuse_sfs_init
<1>2. PICK o : Accepted(o, file_size) /\ MadeFrom(o)
  BY <1>1 DEF IInv
<1>3. sfs_init = FoundOf(o)
  BY <1>2, MountFinds
<1>4. MadeFrom(o)' /\ FoundOf(o)' = FoundOf(o)
  BY <1>1, <1>2 DEF MadeFrom, FoundOf
<1>5. QED BY <1>1, <1>2, <1>3, <1>4 DEF IInv

(* What is on the device was made from options that main accepted, and a    *)
(* mount finds the areas of these options (mksfs main, image_create,        *)
(* sfs_init).                                                               *)
THEOREM ImagesAreMade == Spec => []IInv
<1>1. Init => IInv
  BY Initially
<1>2. ASSUME IInv, [Next]_vars PROVE IInv'
  <2>1. CASE \E b \in BlockOptions, m \in IndexOptions, label \in Labels : main(b, m, label)
    BY <1>2, <2>1, MainKeeps
  <2>2. CASE image_create
    BY <1>2, <2>2, CreateKeeps
  <2>3. CASE fuse_sfs_init
    BY <1>2, <2>3, MountKeeps
  <2>4. CASE UNCHANGED vars
    <3>1. \A o : MadeFrom(o)' = MadeFrom(o) /\ FoundOf(o)' = FoundOf(o)
      BY <2>4 DEF vars, MadeFrom, FoundOf
    <3>2. QED BY <1>2, <2>4, <3>1 DEF vars, IInv
  <2>5. QED BY <1>2, <2>1, <2>2, <2>3, <2>4 DEF Next
<1>3. QED BY <1>1, <1>2, PTL DEF Spec

-----------------------------------------------------------------------------
(* The properties *)

(* What mksfs accepts has a positive number of index blocks, in whole       *)
(* entries, and no negative number of data blocks.                          *)
LEMMA TypesFollow == IInv => MksfsTypeOK
<1> SUFFICES ASSUME IInv PROVE MksfsTypeOK
  OBVIOUS
<1>1. file_size \in FileSizes /\ images \in 0..MaxImages
  BY DEF IInv
<1>2. ASSUME opts # None
      PROVE  /\ opts.data_size \in Nat /\ opts.block_size \in 1..23
             /\ opts.index_size \in Nat \ {0} /\ opts.index_size % INDEX_ENTRY_SIZE = 0
  <2>1. Accepted(opts, file_size)
    BY <1>2 DEF IInv
  <2>2. PICK l \in Nat : l >= 3 /\ opts.index_size = 64 * (l + 1)
    BY <2>1, Areas
  <2> DEFINE i == opts.index_size
  <2>3. i = (l + 1) * 64 + 0 /\ l + 1 \in Int /\ i \in Nat \ {0} /\ 0 \in 0..(64 - 1)
    BY <2>2
  <2> HIDE DEF i
  <2>4. i % 64 = 0
    BY <2>3, DivideOnce
  <2>5. QED BY <2>1, <2>3, <2>4 DEF Accepted, i, INDEX_ENTRY_SIZE
<1>3. QED BY <1>1, <1>2 DEF MksfsTypeOK

(* The index that the mount computes is the one that was written. *)
LEMMA IndexFollows == IInv => IndexIsFresh
<1> SUFFICES ASSUME IInv, fs # None PROVE IndexIsFresh
  BY DEF IndexIsFresh
<1>1. PICK o : Accepted(o, file_size) /\ MadeFrom(o) /\ fs = FoundOf(o)
  BY DEF IInv
<1>2. PICK d \in Seq(Wr) : dev = d \o Writes(o)
  BY <1>1 DEF MadeFrom
<1> DEFINE s == IndexStart(o)
           v == VolIdent(file_size)
<1>3. LaidOut(s, v)
  BY <1>1, <1>2, Layout
<1>4. PICK l \in Nat : l >= 3 /\ v = s + (64 * l)
  BY <1>1, Areas
<1>5. s \in Nat /\ file_size \in Nat /\ v + 64 = file_size
  BY <1>1, Areas DEF VolIdent, INDEX_ENTRY_SIZE
<1>6. fs.entry_start = s /\ fs.vol_ident = v
  BY <1>1 DEF FoundOf
<1> HIDE DEF s, v
<1>7. (v - s) \div 64 = l
  <2> DEFINE y == v - s
  <2>1. y = (l * 64) + 0 /\ y \in Nat /\ 0 \in 0..(64 - 1)
    BY <1>4, <1>5
  <2> HIDE DEF y
  <2>2. y \div 64 = l
    BY <2>1, DivideOnce
  <2>3. QED BY <2>2 DEF y
<1>8. ASSUME NEW k \in 0..(file_size \div 64), s + 64 * k <= v
      PROVE  CASE k = 0 -> At(s + 64 * k) = "START"
               [] k = 1 -> At(s + 64 * k) = "DEL_FILE"
               [] k = 2 -> At(s + 64 * k) = "ROOT"
               [] k = l -> At(s + 64 * k) = "VOL_IDENT"
               [] OTHER -> At(s + 64 * k) = "UNUSED"
  <2>1. k \in Nat
    OBVIOUS
  <2> DEFINE q == s + 64 * k
  <2>2. q \in Nat /\ (k = 0 => q = s) /\ (k = 1 => q = s + 64) /\ (k = 2 => q = s + 128)
        /\ (k = l => q = v)
    BY <1>4, <1>5, <2>1
  <2>3. k \notin {0, 1, 2, l} => s + 192 <= q /\ q < v
    <3>1. q <= v
      BY <1>8
    <3>2. QED BY <1>4, <1>5, <2>1, <3>1
  <2> DEFINE a == At(q)
  <2>4. /\ k = 0 => a = "START"
        /\ k = 1 => a = "DEL_FILE"
        /\ k = 2 => a = "ROOT"
        /\ k = l => a = "VOL_IDENT"
        /\ k \notin {0, 1, 2, l} => a = "UNUSED"
    <3> HIDE DEF q
    <3>1. QED BY <1>3, <2>2, <2>3 DEF LaidOut
  <2> HIDE DEF a, q
  <2>5. (CASE k = 0 -> a = "START"
           [] k = 1 -> a = "DEL_FILE"
           [] k = 2 -> a = "ROOT"
           [] k = l -> a = "VOL_IDENT"
           [] OTHER -> a = "UNUSED")
    BY <1>4, <2>4
  <2>6. QED BY <2>5 DEF a, q
<1>9. QED BY <1>5, <1>6, <1>7, <1>8 DEF IndexIsFresh

(* So is the data area, and it is the free extent. *)
LEMMA FreeFollows == IInv => FreeIsDataArea
<1> SUFFICES ASSUME IInv, fs # None PROVE FreeIsDataArea
  BY DEF FreeIsDataArea
<1>1. PICK o : Accepted(o, file_size) /\ MadeFrom(o) /\ fs = FoundOf(o)
  BY DEF IInv
<1>2. /\ o.reserved_size \in Nat /\ o.data_size \in Nat
      /\ o.reserved_size * Block(o.block_size) >= MBR_SIZE
  BY <1>1 DEF Accepted
<1>3. /\ free.start = o.reserved_size /\ free.end = o.reserved_size + o.data_size - 1
      /\ mbr.fields.data_area_size = o.data_size
  BY <1>1 DEF MadeFrom, free_extent, FieldsOf
<1>4. fs.block_size = Block(o.block_size) /\ fs.entry_start = IndexStart(o)
  BY <1>1 DEF FoundOf
<1>5. /\ free.end + 1 = o.reserved_size + o.data_size
      /\ free.end - free.start + 1 = o.data_size
  BY <1>2, <1>3
<1>6. QED BY <1>2, <1>3, <1>4, <1>5 DEF FreeIsDataArea, IndexStart

(* For every image size and every option: the options that main of mksfs    *)
(* passes to image_create are of their kinds, and the areas fit the image.  *)
THEOREM OptionsFit == Spec => []MksfsTypeOK
<1>1. QED BY ImagesAreMade, TypesFollow, PTL

(* An image that mksfs has made is not found corrupted by sfs_init, also    *)
(* when an older image was on the device.                                   *)
THEOREM ImagesMount == Spec => []MadeImagesMount
<1>1. IInv => MadeImagesMount
  BY DEF IInv, FoundOf, MadeImagesMount
<1>2. QED BY <1>1, ImagesAreMade, PTL

(* The index that sfs_init finds is the one that image_create wrote, entry  *)
(* by entry, whatever the device held before.                               *)
THEOREM IndexStaysFresh == Spec => []IndexIsFresh
<1>1. QED BY ImagesAreMade, IndexFollows, PTL

(* The free extent of a new image is the area between the MBR and the       *)
(* index, as the mount computes them.                                       *)
THEOREM FreeSpaceIsDataArea == Spec => []FreeIsDataArea
<1>1. QED BY ImagesAreMade, FreeFollows, PTL
=============================================================================
