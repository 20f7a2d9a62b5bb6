--------------------------- MODULE SfsFuse_proofs ---------------------------
(***************************************************************************)
(* The handles of FUSE reach the files that were opened through them, for  *)
(* every size of index, data area and inode table, all paths and any       *)
(* number of handles.                                                      *)
(***************************************************************************)
EXTENDS SfsFuse, SfsCorrect_proofs

-----------------------------------------------------------------------------
(* The listing of a directory *)

(* An entry that the loop of sfs_readdir() stops at. *)
MaskOf(p) == IF p = <<>> THEN p ELSE Append(p, "/")
IsChild(ix, p, i) ==
    /\ check_file_mask(ix, i, MaskOf(p))
    /\ Len(ix[i].name) # Len(p)
    /\ is_leaf(SubSeq(ix[i].name, Len(MaskOf(p)) + 1, Len(ix[i].name)))

(* It finds the first one. *)
LEMMA FirstChild ==
  ASSUME NEW ix, NEW p, NEW from \in 1..(N + 1), NEW r, r = sfs_readdir(ix, p, from)
  PROVE  /\ r \in Offsets
         /\ r = 0 => \A i \in from..N : ~IsChild(ix, p, i)
         /\ r # 0 => /\ r \in from..N /\ r \in Slots /\ IsChild(ix, p, r)
                     /\ \A i \in from..N : IsChild(ix, p, i) => r <= i
<1> DEFINE S == {i \in from..N : IsChild(ix, p, i)}
<1>1. r = FirstOf(S)
  BY DEF sfs_readdir, IsChild, MaskOf, read_file_name
<1>2. N \in Nat /\ from..N \subseteq Slots /\ Slots \subseteq Offsets /\ 0 \in Offsets
  BY SfsAssumption DEF Slots, Offsets
<1>3. S \in SUBSET Slots
  BY <1>2
<1>4. \A i : i \in S <=> i \in from..N /\ IsChild(ix, p, i)
  OBVIOUS
<1> HIDE DEF S
<1>5. IF S = {} THEN FirstOf(S) = 0
      ELSE FirstOf(S) \in S /\ FirstOf(S) # 0 /\ \A y \in S : FirstOf(S) <= y
  BY <1>3, FirstOfSet
<1>6. CASE S = {}
  BY <1>1, <1>2, <1>4, <1>5, <1>6
<1>7. CASE S # {}
  BY <1>1, <1>2, <1>3, <1>4, <1>5, <1>7
<1>8. QED BY <1>6, <1>7

(* The steps of the loop of fuse_sfs_readdir(). *)
Finds(at, ix, p) ==
    /\ at \in [0..N -> Offsets] /\ at[0] = sfs_readdir(ix, p, 1)
    /\ \A k \in 0..N : k # 0 => at[k] = IF at[k - 1] = 0 THEN 0
                                        ELSE sfs_readdir(ix, p, at[k - 1] + 1)

FindStep(at, ix, p, k) ==
    IF k = 0 THEN sfs_readdir(ix, p, 1)
    ELSE IF at[k - 1] = 0 THEN 0 ELSE sfs_readdir(ix, p, at[k - 1] + 1)

(* The steps that find something. *)
Hits(at) == {j \in 0..N : at[j] # 0}

(* The loop of fuse_sfs_readdir: sfs_readdir from each hit to the next, until 0. *)
LEMMA Loop ==
  ASSUME NEW ix, NEW p
  PROVE  \E at : /\ Finds(at, ix, p)
                 /\ Listing(ix, p) = [k \in 1..Cardinality(Hits(at)) |-> at[k - 1]]
<1> DEFINE g == [jx \in (0..N) \X Offsets |-> IF jx[2] = 0 THEN 0 ELSE sfs_readdir(ix, p, jx[2] + 1)]
           x0 == sfs_readdir(ix, p, 1)
<1>1. N \in Nat /\ 0 \in Offsets
  BY SfsAssumption DEF Offsets
<1>2. x0 \in Offsets
  <2>1. 1 \in 1..(N + 1)
    BY <1>1
  <2>2. QED BY <2>1, FirstChild
<1>3. ASSUME NEW x \in Offsets, x # 0 PROVE sfs_readdir(ix, p, x + 1) \in Offsets
  <2>1. x + 1 \in 1..(N + 1)
    BY <1>1, <1>3 DEF Offsets
  <2>2. QED BY <2>1, FirstChild
<1>4. g \in [(0..N) \X Offsets -> Offsets]
  BY <1>1, <1>3
<1> HIDE DEF x0
<1>5. PICK f : Recurses(f, N, Offsets, x0, g)
  <2> HIDE DEF g
  <2>1. QED BY <1>1, <1>2, <1>4, Recursion
<1>6. f \in [0..N -> Offsets]
  BY <1>5 DEF Recurses
<1>7. ASSUME NEW j \in 0..N
      PROVE  f[j] = FindStep(f, ix, p, j)
  <2>1. CASE j = 0
    BY <1>5, <2>1 DEF Recurses, x0, FindStep
  <2>2. CASE j # 0
    <3>1. j - 1 \in 0..N
      BY <1>1, <2>2
    <3>2. <<j, f[j - 1]>> \in (0..N) \X Offsets
      BY <1>6, <3>1
    <3>3. g[<<j, f[j - 1]>>] = IF f[j - 1] = 0 THEN 0 ELSE sfs_readdir(ix, p, f[j - 1] + 1)
      BY <3>2
    <3>4. f[j] = g[<<j, f[j - 1]>>]
      <4> HIDE DEF g
      <4>1. QED BY <1>5, <2>2 DEF Recurses
    <3>5. QED BY <2>2, <3>3, <3>4 DEF FindStep
  <2>3. QED BY <2>1, <2>2
<1>8. f = [k \in 0..N |-> FindStep(f, ix, p, k)]
  BY <1>6, <1>7
<1> DEFINE at == CHOOSE w : w = [k \in 0..N |-> FindStep(w, ix, p, k)]
<1>9. at = [k \in 0..N |-> FindStep(at, ix, p, k)]
  BY <1>8
<1>10. Listing(ix, p) = [k \in 1..Cardinality(Hits(at)) |-> at[k - 1]]
  BY DEF Listing, FindStep, Hits
<1> HIDE DEF at
<1>11. ASSUME NEW k \in 0..N PROVE at[k] = FindStep(at, ix, p, k)
  BY <1>9
<1>12. at \in [0..N -> Offsets]
  <2> DEFINE A == {k \in 0..N : at[k] \in Offsets}
  <2>1. 0 \in A
    <3>1. 0 \in 0..N
      BY <1>1
    <3>2. at[0] = x0
      BY <1>11, <3>1 DEF FindStep, x0
    <3>3. QED BY <1>2, <3>1, <3>2
  <2>2. ASSUME NEW k \in 0..N, k < N, k \in A PROVE k + 1 \in A
    <3>1. k + 1 \in 0..N /\ k + 1 # 0 /\ (k + 1) - 1 = k
      BY <1>1, <2>2
    <3>2. at[k + 1] = IF at[k] = 0 THEN 0 ELSE sfs_readdir(ix, p, at[k] + 1)
      BY <1>11, <3>1 DEF FindStep
    <3>3. at[k] \in Offsets
      BY <2>2
    <3>4. at[k + 1] \in Offsets
      BY <1>1, <1>3, <3>2, <3>3
    <3>5. QED BY <3>1, <3>4
  <2> HIDE DEF A
  <2>3. \A k \in 0..N : k \in A
    BY <1>1, <2>1, <2>2, UpTo
  <2>4. \A k \in 0..N : at[k] \in Offsets
    BY <2>3 DEF A
  <2>5. at = [k \in 0..N |-> at[k]]
    BY <1>9
  <2>6. QED BY <2>4, <2>5
<1>13. Finds(at, ix, p)
  <2>1. 0 \in 0..N
    BY <1>1
  <2>2. QED BY <1>11, <1>12, <2>1 DEF Finds, FindStep
<1>14. QED BY <1>10, <1>13

(* The loop moves on through the index, *)
LEMMA LoopClimbs ==
  ASSUME NEW ix, NEW p, NEW at, Finds(at, ix, p)
  PROVE  /\ at[N] = 0
         /\ \A k \in 0..N : at[k] # 0 => at[k] \in Slots /\ IsChild(ix, p, at[k])
         /\ \A j, k \in 0..N : j < k => at[k] = 0 \/ (at[j] # 0 /\ at[j] < at[k])
<1>1. N \in Nat /\ 0 \in 0..N /\ at \in [0..N -> Offsets] /\ at[0] = sfs_readdir(ix, p, 1)
  BY SfsAssumption DEF Finds
<1>2. ASSUME NEW k \in 0..N, k < N
      PROVE  /\ k + 1 \in 0..N
             /\ at[k + 1] = IF at[k] = 0 THEN 0 ELSE sfs_readdir(ix, p, at[k] + 1)
  <2>1. k + 1 \in 0..N /\ k + 1 # 0 /\ (k + 1) - 1 = k
    BY <1>1, <1>2
  <2>2. QED BY <2>1 DEF Finds
<1>3. ASSUME NEW k \in 0..N, k < N, at[k] # 0
      PROVE  at[k + 1] # 0 => /\ at[k] < at[k + 1] /\ at[k + 1] \in Slots
                              /\ IsChild(ix, p, at[k + 1])
  <2> DEFINE x == at[k]  y == at[k + 1]
  <2>1. x \in Offsets /\ x # 0 /\ y = sfs_readdir(ix, p, x + 1)
    BY <1>1, <1>2, <1>3
  <2> HIDE DEF x, y
  <2>2. x \in Nat /\ x + 1 \in 1..(N + 1)
    BY <1>1, <2>1 DEF Offsets
  <2>3. y # 0 => y \in (x + 1)..N /\ y \in Slots /\ IsChild(ix, p, y)
    BY <2>1, <2>2, FirstChild
  <2>4. y # 0 => x < y
    BY <1>1, <2>2, <2>3
  <2>5. QED BY <2>3, <2>4 DEF x, y
<1>4. at[0] # 0 => at[0] \in Slots /\ IsChild(ix, p, at[0])
  <2>1. 1 \in 1..(N + 1)
    BY <1>1
  <2>2. QED BY <1>1, <2>1, FirstChild
<1>5. \A k \in 0..N : at[k] # 0 => at[k] \in Slots /\ IsChild(ix, p, at[k])
  <2> DEFINE A == {k \in 0..N : at[k] # 0 => at[k] \in Slots /\ IsChild(ix, p, at[k])}
  <2>1. 0 \in A
    BY <1>1, <1>4
  <2>2. ASSUME NEW k \in 0..N, k < N, k \in A PROVE k + 1 \in A
    BY <1>2, <1>3, <2>2
  <2> HIDE DEF A
  <2>3. \A k \in 0..N : k \in A
    BY <1>1, <2>1, <2>2, UpTo
  <2>4. QED BY <2>3 DEF A
<1>6. ASSUME NEW j \in 0..N
      PROVE  \A k \in 0..N : j < k => at[k] = 0 \/ (at[j] # 0 /\ at[j] < at[k])
  <2> DEFINE A == {k \in 0..N : j < k => at[k] = 0 \/ (at[j] # 0 /\ at[j] < at[k])}
  <2>1. 0 \in A
    BY <1>1
  <2>2. ASSUME NEW k \in 0..N, k < N, k \in A PROVE k + 1 \in A
    <3>1. SUFFICES ASSUME j < k + 1, at[k + 1] # 0 PROVE at[j] # 0 /\ at[j] < at[k + 1]
      BY <1>2, <2>2
    <3>2. at[k] # 0
      BY <1>2, <2>2, <3>1
    <3>3. at[k] < at[k + 1]
      BY <1>3, <2>2, <3>1, <3>2
    <3>4. /\ at[j] \in Offsets /\ at[k] \in Offsets /\ at[k + 1] \in Offsets
          /\ \A x \in Offsets : x \in Int
      <4>1. k + 1 \in 0..N
        BY <1>2, <2>2
      <4>2. \A x \in Offsets : x \in Int
        BY DEF Offsets
      <4>3. QED BY <1>1, <4>1, <4>2
    <3>5. CASE j = k
      BY <3>2, <3>3, <3>5
    <3>6. CASE j # k
      <4>1. j < k
        BY <2>2, <3>1, <3>6
      <4>2. at[j] # 0 /\ at[j] < at[k]
        BY <2>2, <3>2, <4>1
      <4>3. QED BY <3>3, <3>4, <4>2
    <3>7. QED BY <3>5, <3>6
  <2> HIDE DEF A
  <2>3. \A k \in 0..N : k \in A
    BY <1>1, <2>1, <2>2, UpTo
  <2>4. QED BY <2>3 DEF A
<1>7. at[N] = 0
  <2> DEFINE A == {k \in 0..N : at[k] = 0 \/ k < at[k]}
  <2>1. 0 \in A
    <3>1. at[0] \in Offsets
      BY <1>1
    <3>2. QED BY <1>1, <3>1 DEF Offsets
  <2>2. ASSUME NEW k \in 0..N, k < N, k \in A PROVE k + 1 \in A
    <3> DEFINE x == at[k]  y == at[k + 1]
    <3>1. k + 1 \in 0..N /\ (x = 0 => y = 0)
      BY <1>2, <2>2
    <3>2. x \in Int /\ y \in Int /\ k \in Int
      BY <1>1, <3>1 DEF Offsets
    <3>3. CASE y = 0
      BY <3>1, <3>3
    <3>4. CASE y # 0
      <4>1. x # 0 /\ k < x
        BY <2>2, <3>1, <3>4
      <4>2. x < y
        BY <1>3, <2>2, <3>4, <4>1
      <4> HIDE DEF x, y
      <4>3. k + 1 < y
        BY <3>2, <4>1, <4>2
      <4>4. QED BY <3>1, <4>3 DEF y
    <3>5. QED BY <3>3, <3>4
  <2> HIDE DEF A
  <2>3. \A k \in 0..N : k \in A
    BY <1>1, <2>1, <2>2, UpTo
  <2>4. N \in A /\ at[N] \in Offsets
    BY <1>1, <2>3
  <2>5. at[N] = 0 \/ N < at[N]
    BY <2>4 DEF A
  <2>6. at[N] <= N
    BY <1>1, <2>4 DEF Offsets
  <2>7. at[N] \in Int
    BY <1>1, <2>4 DEF Offsets
  <2>8. QED BY <1>1, <2>5, <2>6, <2>7
<1>8. QED BY <1>5, <1>6, <1>7

(* and misses nothing. *)
LEMMA LoopComplete ==
  ASSUME NEW ix, NEW p, NEW at, Finds(at, ix, p), NEW c \in Slots, IsChild(ix, p, c)
  PROVE  \E k \in 0..N : at[k] = c
<1>1. N \in Nat /\ 0 \in 0..N /\ at \in [0..N -> Offsets] /\ at[0] = sfs_readdir(ix, p, 1)
  BY SfsAssumption DEF Finds
<1>2. c \in 1..N /\ c \in Nat /\ c # 0
  BY <1>1 DEF Slots
<1> DEFINE A == {k \in 0..N : (\E j \in 0..N : at[j] = c) \/ (at[k] # 0 /\ at[k] < c)}
<1>3. ASSUME NEW k \in 0..N, NEW from \in 1..(N + 1), from <= c, at[k] = sfs_readdir(ix, p, from)
      PROVE  k \in A
  <2> DEFINE x == at[k]
  <2>1. x = sfs_readdir(ix, p, from) /\ x \in Offsets
    BY <1>1, <1>3
  <2> HIDE DEF x
  <2>2. c \in from..N
    BY <1>1, <1>2, <1>3
  <2>3. x # 0 /\ x <= c
    BY <2>1, <2>2, FirstChild
  <2>4. x \in Int
    BY <1>1, <2>1 DEF Offsets
  <2>5. x = c \/ x < c
    BY <1>2, <2>3, <2>4
  <2>6. QED BY <2>3, <2>5 DEF x
<1>4. 0 \in A
  <2>1. 1 \in 1..(N + 1) /\ 1 <= c
    BY <1>1, <1>2
  <2>2. QED BY <1>1, <1>3, <2>1
<1>5. ASSUME NEW k \in 0..N, k < N, k \in A PROVE k + 1 \in A
  <2>1. k + 1 \in 0..N /\ k + 1 # 0 /\ (k + 1) - 1 = k
    BY <1>1, <1>5
  <2>2. at[k + 1] = IF at[k] = 0 THEN 0 ELSE sfs_readdir(ix, p, at[k] + 1)
    BY <2>1 DEF Finds
  <2>3. CASE \E j \in 0..N : at[j] = c
    BY <2>1, <2>3
  <2>4. CASE at[k] # 0 /\ at[k] < c
    <3> DEFINE x == at[k]
    <3>1. x \in Offsets
      BY <1>1
    <3>2. x + 1 \in 1..(N + 1) /\ x + 1 <= c
      <4>1. x < c /\ x \in 0..N
        BY <2>4, <3>1 DEF Offsets
      <4> HIDE DEF x
      <4>2. QED BY <1>1, <1>2, <4>1
    <3>3. at[k + 1] = sfs_readdir(ix, p, x + 1)
      BY <2>2, <2>4
    <3> HIDE DEF x, A
    <3>4. QED BY <1>3, <2>1, <3>2, <3>3
  <2>5. QED BY <1>5, <2>3, <2>4
<1> HIDE DEF A
<1>6. \A k \in 0..N : k \in A
  BY <1>1, <1>4, <1>5, UpTo
<1>7. N \in A /\ at[N] = 0
  BY <1>1, <1>6, LoopClimbs
<1>8. QED BY <1>7 DEF A

(* A listing has each child of the directory once. *)
LEMMA ListingIs ==
  ASSUME NEW ix, NEW p
  PROVE  LET l == Listing(ix, p)
         IN  /\ \E m \in Nat : DOMAIN l = 1..m
             /\ \A k \in DOMAIN l : l[k] \in Slots
             /\ IsInjective(l) /\ Range(l) = {i \in Slots : IsChild(ix, p, i)}
<1>1. PICK at : /\ Finds(at, ix, p)
                /\ Listing(ix, p) = [k \in 1..Cardinality(Hits(at)) |-> at[k - 1]]
  BY Loop
<1> DEFINE l == [k \in 1..Cardinality(Hits(at)) |-> at[k - 1]]
<1>2. /\ at[N] = 0 /\ N \in Nat
      /\ \A k \in 0..N : at[k] # 0 => at[k] \in Slots /\ IsChild(ix, p, at[k])
      /\ \A j, k \in 0..N : j < k => at[k] = 0 \/ (at[j] # 0 /\ at[j] < at[k])
  BY <1>1, LoopClimbs, SfsAssumption
<1>3. PICK m \in 0..N : at[m] = 0 /\ \A j \in 0..N : at[j] = 0 => m <= j
  <2> DEFINE T == {j \in 0..N : at[j] = 0}
  <2>1. T \in SUBSET Nat /\ T # {}
    BY <1>2
  <2>2. \A j : j \in T <=> j \in 0..N /\ at[j] = 0
    OBVIOUS
  <2> HIDE DEF T
  <2>3. \E x \in T : \A y \in T : x <= y
    BY <2>1, LeastNat
  <2>4. QED BY <2>2, <2>3
<1>4. \A j \in 0..N : at[j] # 0 <=> j < m
  <2>1. ASSUME NEW j \in 0..N, at[j] # 0 PROVE j < m
    <3>1. ~(m < j) /\ j # m
      BY <1>2, <1>3, <2>1
    <3>2. QED BY <1>2, <3>1
  <2>2. ASSUME NEW j \in 0..N, j < m PROVE at[j] # 0
    BY <1>2, <1>3, <2>2
  <2>3. QED BY <2>1, <2>2
<1>5. Cardinality(Hits(at)) = m
  <2>1. Hits(at) = 0..(m - 1)
    BY <1>2, <1>4 DEF Hits
  <2>2. m - 1 \in Int /\ 0 \in Int
    BY <1>2
  <2>3. Cardinality(0..(m - 1)) = IF 0 > m - 1 THEN 0 ELSE (m - 1) - 0 + 1
    BY <2>2, FS_Interval
  <2>4. (IF 0 > m - 1 THEN 0 ELSE (m - 1) - 0 + 1) = m
    BY <1>2
  <2>5. QED BY <2>1, <2>3, <2>4
<1>6. DOMAIN l = 1..m /\ \A k \in 1..m : l[k] = at[k - 1]
  BY <1>5
<1>7. \A k \in 1..m : k - 1 \in 0..N /\ k - 1 < m
  BY <1>2
<1> HIDE DEF l
<1>8. ASSUME NEW k \in DOMAIN l PROVE l[k] \in Slots /\ IsChild(ix, p, l[k])
  BY <1>2, <1>4, <1>6, <1>7
<1>9. ASSUME NEW a \in DOMAIN l, NEW b \in DOMAIN l, l[a] = l[b] PROVE a = b
  <2>1. a - 1 \in 0..N /\ b - 1 \in 0..N /\ at[a - 1] = at[b - 1] /\ at[a - 1] # 0
    BY <1>4, <1>6, <1>7, <1>9
  <2>2. at[a - 1] \in Int
    BY <1>2, <2>1 DEF Slots
  <2>3. ~(a - 1 < b - 1) /\ ~(b - 1 < a - 1)
    BY <1>2, <2>1, <2>2
  <2>4. a \in Int /\ b \in Int
    BY <1>2, <1>6
  <2>5. QED BY <2>3, <2>4
<1>10. ASSUME NEW c \in Slots, IsChild(ix, p, c) PROVE c \in Range(l)
  <2>1. PICK k \in 0..N : at[k] = c
    BY <1>1, <1>10, LoopComplete
  <2>2. c # 0
    BY <1>2 DEF Slots
  <2>3. k < m
    BY <1>4, <2>1, <2>2
  <2>4. k + 1 \in 1..m /\ (k + 1) - 1 = k
    BY <1>2, <2>3
  <2>5. k + 1 \in DOMAIN l /\ l[k + 1] = c
    BY <1>6, <2>1, <2>4
  <2>6. QED BY <2>5 DEF Range
<1>11. Range(l) = {i \in Slots : IsChild(ix, p, i)}
  <2>1. \A r \in Range(l) : r \in Slots /\ IsChild(ix, p, r)
    BY <1>8 DEF Range
  <2>2. QED BY <1>10, <2>1
<1>12. m \in Nat
  BY <1>2
<1>13. IsInjective(l)
  BY <1>9 DEF IsInjective
<1>14. Listing(ix, p) = l
  BY <1>1 DEF l
<1>15. QED BY <1>6, <1>8, <1>11, <1>12, <1>13, <1>14

-----------------------------------------------------------------------------
(* Paths *)

(* A prefix, and what is left behind it, element by element. *)
LEMMA PrefixIs ==
  ASSUME NEW T, NEW s \in Seq(T), NEW t \in Seq(T)
  PROVE  IsPrefix(s, t) <=> Len(s) <= Len(t) /\ \A k \in 1..Len(s) : s[k] = t[k]
<1>1. Len(s) \in Nat /\ Len(t) \in Nat
  BY LenProperties
<1>2. SubSeq(s, 1, Len(s)) = s
  BY SubSeqFull
<1>3. CASE Len(s) <= Len(t)
  <2> DEFINE u == SubSeq(t, 1, Len(s))
  <2>1. \A k \in 1..Len(s) : t[k] \in T
    BY <1>1, <1>3
  <2>2. /\ u \in Seq(T) /\ Len(u) = IF 1 <= Len(s) THEN Len(s) - 1 + 1 ELSE 0
        /\ \A k \in 1..(Len(s) - 1 + 1) : u[k] = t[1 + k - 1]
    BY <1>1, <2>1, SubSeqProperties
  <2> HIDE DEF u
  <2>3. Len(u) = Len(s) /\ \A k \in 1..Len(s) : u[k] = t[k]
    BY <1>1, <2>2
  <2>4. s = u <=> \A k \in 1..Len(s) : s[k] = u[k]
    <3>1. ASSUME \A k \in 1..Len(s) : s[k] = u[k] PROVE s = u
      BY <2>2, <2>3, <3>1, SeqEqual
    <3>2. QED BY <3>1
  <2>5. QED BY <1>2, <1>3, <2>3, <2>4 DEF IsPrefix, u
<1>4. CASE ~(Len(s) <= Len(t))
  BY <1>4 DEF IsPrefix
<1>5. QED BY <1>3, <1>4

(* is_leaf finds no '/' in the rest of the name. *)
LEMMA LeafIs ==
  ASSUME NEW T, NEW t \in Seq(T), NEW m \in 0..Len(t)
  PROVE  is_leaf(SubSeq(t, m + 1, Len(t))) <=> \A k \in (m + 1)..Len(t) : t[k] # "/"
<1> DEFINE u == SubSeq(t, m + 1, Len(t))
           n == Len(t)
<1>1. n \in Nat /\ m \in Nat /\ m <= n /\ m + 1 \in Nat
  BY LenProperties
<1>2. \A k \in (m + 1)..n : t[k] \in T
  BY <1>1
<1>3. /\ u \in Seq(T) /\ Len(u) = IF m + 1 <= n THEN n - (m + 1) + 1 ELSE 0
      /\ \A k \in 1..(n - (m + 1) + 1) : u[k] = t[(m + 1) + k - 1]
  BY <1>1, <1>2, SubSeqProperties
<1>4. DOMAIN u = 1..Len(u)
  BY <1>3, LenProperties
<1> HIDE DEF u, n
<1>5. DOMAIN u = 1..(n - m) /\ \A k \in 1..(n - m) : u[k] = t[m + k]
  BY <1>1, <1>3, <1>4
<1>6. ASSUME NEW k \in (m + 1)..n PROVE k - m \in 1..(n - m) /\ t[k] = u[k - m]
  <2>1. k - m \in 1..(n - m) /\ m + (k - m) = k
    BY <1>1, <1>6
  <2>2. QED BY <1>5, <2>1
<1>7. ASSUME NEW k \in 1..(n - m) PROVE m + k \in (m + 1)..n /\ t[m + k] = u[k]
  BY <1>1, <1>5, <1>7
<1>8. (\A k \in DOMAIN u : u[k] # "/") <=> \A k \in (m + 1)..n : t[k] # "/"
  BY <1>5, <1>6, <1>7
<1>9. QED BY <1>8 DEF is_leaf, u, n

(* The last "/" of a name ends the path of the directory that it is in. *)
LEMMA LastSlash ==
  ASSUME NEW T, NEW n \in Seq(T), n # <<>> => n[1] # "/", NEW p \in Seq(T)
  PROVE  n # <<>> /\ Parent(n) = p <=>
            IF p = <<>> THEN n # <<>> /\ \A k \in 1..Len(n) : n[k] # "/"
            ELSE /\ Len(p) + 1 <= Len(n) /\ n[Len(p) + 1] = "/"
                 /\ \A k \in 1..Len(p) : p[k] = n[k]
                 /\ \A k \in (Len(p) + 2)..Len(n) : n[k] # "/"
<1> DEFINE S == {k \in DOMAIN n : n[k] = "/"}
           m == Len(n)
           l == Len(p)
<1>1. m \in Nat /\ l \in Nat /\ DOMAIN n = 1..m
  BY LenProperties
<1>2. (n = <<>> <=> m = 0) /\ (p = <<>> <=> l = 0)
  BY EmptySeq
<1>3. \A k \in 1..m : n[k] = "/" => k \in S
  BY <1>1
<1>4. S \in SUBSET (0..m)
  BY <1>1
<1>5. \A k \in S : k \in 1..m /\ n[k] = "/"
  BY <1>1
<1>6. Parent(n) = IF S = {} THEN <<>> ELSE SubSeq(n, 1, Max(S) - 1)
  BY DEF Parent
<1> HIDE DEF S, m, l
<1>7. CASE S = {}
  <2>1. \A k \in 1..m : n[k] # "/"
    BY <1>3, <1>7
  <2>2. l + 1 <= m => l + 1 \in 1..m
    BY <1>1
  <2>3. QED BY <1>2, <1>6, <1>7, <2>1, <2>2 DEF m, l
<1>8. CASE S # {}
  <2> DEFINE x == Max(S)
             u == SubSeq(n, 1, x - 1)
  <2>1. x \in S /\ \A y \in S : y <= x
    BY <1>1, <1>4, <1>8, MinMax
  <2>2. x \in 1..m /\ n[x] = "/"
    BY <1>5, <2>1
  <2>3. n # <<>> /\ x # 1
    BY <1>1, <1>2, <2>2
  <2> HIDE DEF x
  <2>4. x \in Nat /\ 1 < x /\ x <= m
    BY <1>1, <2>2, <2>3
  <2>5. \A k \in 1..(x - 1) : n[k] \in T
    BY <1>1, <2>4 DEF m
  <2>6. /\ u \in Seq(T) /\ Len(u) = IF 1 <= x - 1 THEN (x - 1) - 1 + 1 ELSE 0
        /\ \A k \in 1..((x - 1) - 1 + 1) : u[k] = n[1 + k - 1]
    BY <2>4, <2>5, SubSeqProperties
  <2>7. Parent(n) = u
    BY <1>6, <1>8 DEF x
  <2> HIDE DEF u
  <2>8. Len(u) = x - 1 /\ \A k \in 1..(x - 1) : u[k] = n[k]
    BY <2>4, <2>6
  <2>9. CASE p = <<>>
    <3>1. u # p
      BY <1>2, <2>4, <2>8, <2>9 DEF l
    <3>2. ~ \A k \in 1..m : n[k] # "/"
      BY <2>2
    <3>3. QED BY <2>7, <2>9, <3>1, <3>2 DEF m
  <2>10. CASE p # <<>>
    <3>1. ASSUME u = p
          PROVE  /\ l + 1 <= m /\ n[l + 1] = "/" /\ \A k \in 1..l : p[k] = n[k]
                 /\ \A k \in (l + 2)..m : n[k] # "/"
      <4>1. l = x - 1 /\ l + 1 = x
        BY <2>4, <2>8, <3>1 DEF l
      <4>2. ASSUME NEW k \in (l + 2)..m, n[k] = "/" PROVE FALSE
        <5>1. k \in 1..m /\ k > x
          BY <1>1, <2>4, <4>1
        <5>2. k <= x
          BY <1>3, <2>1, <4>2, <5>1
        <5>3. QED BY <2>4, <5>1, <5>2
      <4>3. \A k \in 1..l : p[k] = n[k]
        BY <2>8, <3>1, <4>1
      <4>4. QED BY <2>2, <2>4, <4>1, <4>2, <4>3
    <3>2. ASSUME l + 1 <= m, n[l + 1] = "/", \A k \in 1..l : p[k] = n[k],
                 \A k \in (l + 2)..m : n[k] # "/"
          PROVE  u = p
      <4>1. l + 1 \in 1..m
        BY <1>1, <3>2
      <4>2. l + 1 <= x
        BY <1>3, <2>1, <3>2, <4>1
      <4>3. ~(l + 2 <= x)
        <5>1. l + 2 <= x => x \in (l + 2)..m
          BY <1>1, <2>4
        <5>2. QED BY <2>2, <3>2, <5>1
      <4>4. x - 1 = l
        BY <1>1, <2>4, <4>2, <4>3
      <4>5. Len(u) = Len(p) /\ \A k \in 1..Len(u) : u[k] = p[k]
        BY <2>8, <3>2, <4>4 DEF l
      <4>6. QED BY <2>6, <4>5, SeqEqual
    <3>3. QED BY <2>3, <2>7, <2>10, <3>1, <3>2 DEF l, m
  <2>11. QED BY <2>9, <2>10
<1>9. QED BY <1>7, <1>8

(* The mask of a directory finds what is in it. *)
LEMMA MaskFinds ==
  ASSUME NEW T, NEW n \in Seq(T), n # <<>> => n[1] # "/", NEW p \in Seq(T), "/" \in T
  PROVE  /\ IsPrefix(MaskOf(p), n) /\ Len(n) # Len(p)
         /\ is_leaf(SubSeq(n, Len(MaskOf(p)) + 1, Len(n)))
         <=> n # <<>> /\ Parent(n) = p
<1> DEFINE m == Len(n)
           l == Len(p)
           q == MaskOf(p)
<1>1. m \in Nat /\ l \in Nat
  BY LenProperties
<1>2. (n = <<>> <=> m = 0) /\ (p = <<>> <=> l = 0)
  BY EmptySeq
<1>3. CASE p = <<>>
  <2>1. q = <<>> /\ l = 0 /\ 0 \in 0..m
    BY <1>1, <1>2, <1>3 DEF MaskOf
  <2>2. is_leaf(SubSeq(n, 0 + 1, m)) <=> \A k \in (0 + 1)..m : n[k] # "/"
    BY <2>1, LeafIs
  <2>3. IsPrefix(q, n)
    <3> HIDE DEF q
    <3>1. q \in Seq(T) /\ Len(q) = 0
      BY <1>3, <2>1
    <3>2. Len(q) <= Len(n) /\ \A k \in 1..Len(q) : q[k] = n[k]
      BY <1>1, <3>1
    <3>3. QED BY <3>1, <3>2, PrefixIs
  <2>4. Len(q) + 1 = 1 /\ 0 + 1 = 1
    BY <1>3, <2>1
  <2>5. n # <<>> /\ Parent(n) = p <=> n # <<>> /\ \A k \in 1..m : n[k] # "/"
    BY <1>3, LastSlash
  <2>6. QED BY <1>2, <2>1, <2>2, <2>3, <2>4, <2>5
<1>4. CASE p # <<>>
  <2>1. q = Append(p, "/")
    BY <1>4 DEF MaskOf
  <2>2. /\ q \in Seq(T) /\ Len(q) = l + 1 /\ \A k \in 1..l : q[k] = p[k]
        /\ q[l + 1] = "/"
    BY <2>1, AppendProperties
  <2> HIDE DEF q, m, l
  <2>3. IsPrefix(q, n) <=> l + 1 <= m /\ \A k \in 1..(l + 1) : q[k] = n[k]
    BY <2>2, PrefixIs DEF m
  <2>4. l + 1 <= m => l + 1 \in 0..m /\ m # l
    BY <1>1
  <2>5. l + 1 <= m => (is_leaf(SubSeq(n, (l + 1) + 1, m)) <=> \A k \in ((l + 1) + 1)..m : n[k] # "/")
    BY <2>4, LeafIs DEF m
  <2>6. (l + 1) + 1 = l + 2 /\ \A k : k \in 1..(l + 1) <=> k \in 1..l \/ k = l + 1
    BY <1>1
  <2>7. n # <<>> /\ Parent(n) = p <=>
            /\ l + 1 <= m /\ n[l + 1] = "/" /\ \A k \in 1..l : p[k] = n[k]
            /\ \A k \in (l + 2)..m : n[k] # "/"
    BY <1>4, LastSlash DEF l, m
  <2>8. (\A k \in 1..(l + 1) : q[k] = n[k]) <=>
            n[l + 1] = "/" /\ \A k \in 1..l : p[k] = n[k]
    BY <2>2, <2>6
  <2>9. /\ IsPrefix(q, n) /\ m # l /\ is_leaf(SubSeq(n, Len(q) + 1, m))
        <=> n # <<>> /\ Parent(n) = p
    BY <2>2, <2>3, <2>4, <2>5, <2>6, <2>7, <2>8
  <2>10. QED BY <2>9 DEF m, l, q
<1>5. QED BY <1>3, <1>4

(* For paths that do not begin with "/" (FUSE takes it off), the listing of *)
(* a directory has each file and directory in it, and nothing else, once:   *)
(* ListsItsChildren.                                                        *)
THEOREM ListingsAreRight ==
  ASSUME \A p \in FilePaths \cup DirPaths : p[1] # "/"
  PROVE  SafeSpec => []ListsItsChildren
<1>1. IInv(Tidy) => ListsItsChildren
  <2> SUFFICES ASSUME IInv(Tidy), NEW d \in Slots, index[d].entry_type = "DIR_ENTRY"
               PROVE  LET l == Listing(index, index[d].name)
                      IN  /\ IsInjective(l)
                          /\ Range(l) = {i \in Slots : /\ index[i].entry_type \in {"FILE_ENTRY", "DIR_ENTRY"}
                                                       /\ index[i].name # <<>>
                                                       /\ Parent(index[i].name) = index[d].name}
    BY DEF ListsItsChildren
  <2>1. fs.index = index /\ Entered(index)
    BY DEF IInv, InOrder, fs
  <2> DEFINE dn == index[d].name
  <2>2. ASSUME NEW i \in Slots, IsSeen(index[i])
        PROVE  index[i].name \in FilePaths \cup DirPaths \cup {<<>>}
    <3>1. EntryOK(index[i])
      BY <2>1 DEF Entered
    <3>2. CASE index[i].entry_type = "FILE_ENTRY"
      <4>1. OwnsData(index[i])
        BY <3>2, Kinds
      <4>2. QED BY <3>1, <4>1 DEF EntryOK
    <3>3. CASE index[i].entry_type = "DIR_ENTRY"
      BY <3>1, <3>3 DEF EntryOK
    <3>4. QED BY <2>2, <3>2, <3>3 DEF IsSeen
  <2>3. dn \in FilePaths \cup DirPaths \cup {<<>>}
    BY <2>2 DEF IsSeen
  <2>4. ASSUME NEW i \in Slots
        PROVE  IsChild(index, dn, i) <=>
                  /\ index[i].entry_type \in {"FILE_ENTRY", "DIR_ENTRY"}
                  /\ index[i].name # <<>> /\ Parent(index[i].name) = dn
    <3> DEFINE n == index[i].name
    <3>1. CASE IsSeen(index[i])
      <4>1. n \in FilePaths \cup DirPaths \cup {<<>>}
        BY <2>2, <3>1
      <4>2. \A x \in FilePaths \cup DirPaths \cup {<<>>} : x \in Seq(Range(x))
        <5>1. <<>> \in Seq(Range(<<>>))
          BY EmptySeq
        <5>2. QED BY <5>1, PathLength
      <4>3. PICK T : n \in Seq(T) /\ dn \in Seq(T) /\ "/" \in T
        <5>1. n \in Seq(Range(n) \cup Range(dn) \cup {"/"}) /\ dn \in Seq(Range(n) \cup Range(dn) \cup {"/"})
          BY <2>3, <4>1, <4>2
        <5>2. QED BY <5>1
      <4>4. n # <<>> => n[1] # "/"
        BY <4>1
      <4> HIDE DEF n, dn
      <4>5. /\ IsPrefix(MaskOf(dn), n) /\ Len(n) # Len(dn)
            /\ is_leaf(SubSeq(n, Len(MaskOf(dn)) + 1, Len(n)))
            <=> n # <<>> /\ Parent(n) = dn
        BY <4>3, <4>4, MaskFinds
      <4>6. QED BY <3>1, <4>5 DEF IsChild, check_file_mask, IsSeen, n
    <3>2. CASE ~IsSeen(index[i])
      BY <3>2 DEF IsChild, check_file_mask, IsSeen
    <3>3. QED BY <3>1, <3>2
  <2>5. /\ IsInjective(Listing(index, dn))
        /\ Range(Listing(index, dn)) = {i \in Slots : IsChild(index, dn, i)}
    BY ListingIs
  <2>6. QED BY <2>4, <2>5
<1>2. QED BY <1>1, StaysInOrder, PTL

-----------------------------------------------------------------------------
(* The inductive invariant *)

TableEntries == [pino : 0..(N + 1), dirty : BOOLEAN, openbit : BOOLEAN]
HandleKinds  == {"closed", "file", "dir"}
HandleStates == [kind : HandleKinds, vino : Nat, path : FilePaths \cup DirPaths \cup {<<>>},
                 file : Offsets]

(* The parts of the invariant; t is the inode table, hs are the handles and *)
(* ix is the index.                                                         *)
WellTyped(t, hs) ==
    /\ t \in Seq(TableEntries) /\ hs \in [HandleIds -> HandleStates]
    /\ \A h \in HandleIds : /\ hs[h].kind # "closed" => hs[h].vino \in DOMAIN t
                            /\ hs[h].kind # "file" => hs[h].file = 0

(* The opened file is where the table says, and it is open and its dirty    *)
(* bit tells that it was unlinked.                                          *)
Reaches(t, e, ix) ==
    /\ e.file \in Slots /\ get_vino(t, e.file) = e.vino /\ OwnsData(ix[e.file])
    /\ t[e.vino].openbit = TRUE
    /\ t[e.vino].dirty = TRUE <=> IsUnlinked(ix[e.file])

OpenFile(hs, v) == \E h \in HandleIds : hs[h].kind = "file" /\ hs[h].vino = v
InUse(hs, v)    == \E h \in HandleIds : hs[h].kind # "closed" /\ hs[h].vino = v

(* The bits of a table entry that no file is open at are clear, except that *)
(* a deleted file's entry stays dirty; it is not used again.                *)
BitsOK(t, hs) ==
    \A v \in DOMAIN t : /\ t[v].openbit = TRUE => OpenFile(hs, v)
                        /\ t[v].dirty = TRUE => \/ OpenFile(hs, v)
                                                \/ t[v].pino = 0 /\ ~InUse(hs, v)

OneVino(hs) == \A g, h \in HandleIds :
    g # h /\ hs[g].kind # "closed" /\ hs[h].kind # "closed" => hs[g].vino # hs[h].vino

UnlinkedOpen(hs, ix) == \A i \in Slots : IsUnlinked(ix[i]) =>
    \E h \in HandleIds : hs[h].kind = "file" /\ hs[h].file = i

Agree(t, hs, ix) ==
    /\ WellTyped(t, hs) /\ BitsOK(t, hs) /\ OneVino(hs) /\ UnlinkedOpen(hs, ix)
    /\ \A h \in HandleIds : hs[h].kind = "file" => Reaches(t, hs[h], ix)

(* The inductive invariant. *)
FInv == IInv(Tidy) /\ Agree(inode_table, handle, index)

-----------------------------------------------------------------------------
(* The inode table *)

(* get_vino() finds the first entry of a pino. *)
LEMMA GetVino ==
  ASSUME NEW t \in Seq(TableEntries), NEW p
  PROVE  /\ get_vino(t, p) = 0 => \A v \in DOMAIN t : t[v].pino # p
         /\ get_vino(t, p) # 0 => /\ get_vino(t, p) \in DOMAIN t /\ t[get_vino(t, p)].pino = p
                                  /\ \A v \in DOMAIN t : t[v].pino = p => get_vino(t, p) <= v
<1> DEFINE S == {v \in DOMAIN t : t[v].pino = p}
<1>1. Len(t) \in Nat /\ DOMAIN t = 1..Len(t)
  BY LenProperties
<1>2. S \in SUBSET (0..Len(t)) /\ 0 \notin S
  BY <1>1
<1>3. get_vino(t, p) = IF S = {} THEN 0 ELSE Min(S)
  BY DEF get_vino, FirstOf
<1>4. \A v \in S : v \in DOMAIN t /\ t[v].pino = p
  OBVIOUS
<1>5. \A v \in DOMAIN t : t[v].pino = p => v \in S
  OBVIOUS
<1> HIDE DEF S
<1>6. CASE S = {}
  BY <1>3, <1>5, <1>6
<1>7. CASE S # {}
  <2>1. Min(S) \in S /\ \A y \in S : Min(S) <= y
    BY <1>1, <1>2, <1>7, MinMax
  <2>2. QED BY <1>2, <1>3, <1>4, <1>5, <1>7, <2>1
<1>8. QED BY <1>6, <1>7

(* It finds an entry that is the first of its pino. *)
LEMMA VinoIs ==
  ASSUME NEW t \in Seq(TableEntries), NEW p, NEW v \in DOMAIN t, t[v].pino = p,
         \A w \in DOMAIN t : t[w].pino = p => v <= w
  PROVE  get_vino(t, p) = v
<1>1. DOMAIN t \subseteq Nat
  <2>1. Len(t) \in Nat /\ DOMAIN t = 1..Len(t)
    BY LenProperties
  <2>2. QED BY <2>1
<1>2. get_vino(t, p) # 0
  BY GetVino
<1>3. get_vino(t, p) \in DOMAIN t /\ t[get_vino(t, p)].pino = p /\ get_vino(t, p) <= v
  BY <1>2, GetVino
<1>4. v <= get_vino(t, p)
  BY <1>3
<1>5. v \in Nat /\ get_vino(t, p) \in Nat
  BY <1>1, <1>3
<1>6. QED BY <1>3, <1>4, <1>5

(* The entries of s up to the end of t are at the pino p where those of t   *)
(* are.                                                                     *)
SamePlaces(s, t, p) ==
    /\ DOMAIN t \subseteq DOMAIN s
    /\ \A v \in DOMAIN t : s[v].pino = p <=> t[v].pino = p

(* New entries at the end of the table hide no entry. *)
LEMMA SameVino ==
  ASSUME NEW t \in Seq(TableEntries), NEW s \in Seq(TableEntries), NEW p,
         SamePlaces(s, t, p), get_vino(t, p) # 0
  PROVE  get_vino(s, p) = get_vino(t, p)
<1> DEFINE v == get_vino(t, p)
<1>1. v \in DOMAIN t /\ t[v].pino = p /\ \A w \in DOMAIN t : t[w].pino = p => v <= w
  BY GetVino
<1> HIDE DEF v
<1>2. /\ Len(t) \in Nat /\ DOMAIN t = 1..Len(t)
      /\ Len(s) \in Nat /\ DOMAIN s = 1..Len(s)
  BY LenProperties
<1>3. v \in DOMAIN s /\ s[v].pino = p
  BY <1>1 DEF SamePlaces
<1>4. ASSUME NEW w \in DOMAIN s, s[w].pino = p PROVE v <= w
  <2>1. CASE w \in DOMAIN t
    BY <1>1, <1>4, <2>1 DEF SamePlaces
  <2>2. CASE w \notin DOMAIN t
    BY <1>1, <1>2, <2>2
  <2>3. QED BY <2>1, <2>2
<1>5. QED BY <1>3, <1>4, VinoIs DEF v

(* The table grows by entries whose bits are clear. *)
Extends(s, t) ==
    /\ s \in Seq(TableEntries) /\ DOMAIN t \subseteq DOMAIN s
    /\ \A v \in DOMAIN t : s[v] = t[v]
    /\ \A v \in DOMAIN s : v \notin DOMAIN t => s[v].dirty = FALSE /\ s[v].openbit = FALSE

(* pino_add() *)
LEMMA PinoAdd ==
  ASSUME NEW t \in Seq(TableEntries), NEW p \in 0..(N + 1), NEW s, s = pino_add(t, p)
  PROVE  Extends(s, t) /\ \E v \in DOMAIN s : s[v].pino = p
<1> DEFINE x == [pino |-> p, dirty |-> FALSE, openbit |-> FALSE]
<1>1. x \in TableEntries /\ x.pino = p /\ x.dirty = FALSE /\ x.openbit = FALSE
  BY DEF TableEntries
<1>2. s = Append(t, x)
  BY DEF pino_add
<1> HIDE DEF x
<1>3. /\ s \in Seq(TableEntries) /\ Len(s) = Len(t) + 1
      /\ \A i \in 1..Len(t) : s[i] = t[i]
      /\ s[Len(t) + 1] = x
  BY <1>1, <1>2, AppendProperties
<1>4. /\ Len(t) \in Nat /\ DOMAIN t = 1..Len(t) /\ DOMAIN s = 1..Len(s)
  BY <1>3, LenProperties
<1>5. \A v \in DOMAIN s : v \notin DOMAIN t => v = Len(t) + 1
  BY <1>3, <1>4
<1>6. Len(t) + 1 \in DOMAIN s /\ Len(t) + 1 \notin DOMAIN t
  BY <1>3, <1>4
<1>7. DOMAIN t \subseteq DOMAIN s
  BY <1>3, <1>4
<1>8. QED BY <1>1, <1>3, <1>4, <1>5, <1>6, <1>7 DEF Extends

(* One entry of the table changes. *)
OneChanged(s, t, v) ==
    /\ s \in Seq(TableEntries) /\ DOMAIN s = DOMAIN t
    /\ \A w \in DOMAIN t : w # v => s[w] = t[w]

(* An entry is replaced, *)
LEMMA TableSet ==
  ASSUME NEW t \in Seq(TableEntries), NEW v \in DOMAIN t, NEW x \in TableEntries,
         NEW s, s = [t EXCEPT ![v] = x]
  PROVE  OneChanged(s, t, v) /\ s[v] = x
<1>1. Len(t) \in Nat /\ DOMAIN t = 1..Len(t)
  BY LenProperties
<1>2. /\ s \in Seq(TableEntries) /\ Len(s) = Len(t)
      /\ \A w \in 1..Len(t) : s[w] = IF w = v THEN x ELSE t[w]
  BY <1>1, ExceptSeq
<1>3. DOMAIN s = 1..Len(s)
  BY <1>2, LenProperties
<1>4. QED BY <1>1, <1>2, <1>3 DEF OneChanged

(* or one field of it. *)
SetOpen(t, v, b)  == [t EXCEPT ![v].openbit = b]
SetDirty(t, v, b) == [t EXCEPT ![v].dirty = b]

(* The setters of fuse/inode.c change one field of one entry of the table. *)
LEMMA FieldsSet ==
  ASSUME NEW t \in Seq(TableEntries), NEW v \in DOMAIN t
  PROVE  /\ t[v] \in TableEntries
         /\ \A b \in BOOLEAN : LET s == SetOpen(t, v, b)
                               IN  /\ OneChanged(s, t, v) /\ s[v].openbit = b
                                   /\ s[v].pino = t[v].pino /\ s[v].dirty = t[v].dirty
         /\ \A b \in BOOLEAN : LET s == SetDirty(t, v, b)
                               IN  /\ OneChanged(s, t, v) /\ s[v].dirty = b
                                   /\ s[v].pino = t[v].pino /\ s[v].openbit = t[v].openbit
         /\ \A p \in 0..(N + 1) : LET s == set_pino(t, v, p)
                                  IN  /\ OneChanged(s, t, v) /\ s[v].pino = p
                                      /\ s[v].dirty = t[v].dirty /\ s[v].openbit = t[v].openbit
<1>1. Len(t) \in Nat /\ DOMAIN t = 1..Len(t)
  BY LenProperties
<1>2. t[v] \in TableEntries
  BY <1>1, ElementOfSeq
<1>3. ASSUME NEW b \in BOOLEAN
      PROVE  LET s == SetOpen(t, v, b)
             IN  /\ OneChanged(s, t, v) /\ s[v].openbit = b
                 /\ s[v].pino = t[v].pino /\ s[v].dirty = t[v].dirty
  <2> DEFINE x == [t[v] EXCEPT !.openbit = b]
             s == [t EXCEPT ![v] = x]
  <2>1. x \in TableEntries /\ x.openbit = b /\ x.pino = t[v].pino /\ x.dirty = t[v].dirty
    BY <1>2 DEF TableEntries
  <2>2. SetOpen(t, v, b) = s
    BY DEF SetOpen
  <2> HIDE DEF x
  <2>3. OneChanged(s, t, v) /\ s[v] = x
    BY <2>1, TableSet
  <2>4. QED BY <2>1, <2>2, <2>3
<1>4. ASSUME NEW b \in BOOLEAN
      PROVE  LET s == SetDirty(t, v, b)
             IN  /\ OneChanged(s, t, v) /\ s[v].dirty = b
                 /\ s[v].pino = t[v].pino /\ s[v].openbit = t[v].openbit
  <2> DEFINE x == [t[v] EXCEPT !.dirty = b]
             s == [t EXCEPT ![v] = x]
  <2>1. x \in TableEntries /\ x.dirty = b /\ x.pino = t[v].pino /\ x.openbit = t[v].openbit
    BY <1>2 DEF TableEntries
  <2>2. SetDirty(t, v, b) = s
    BY DEF SetDirty
  <2> HIDE DEF x
  <2>3. OneChanged(s, t, v) /\ s[v] = x
    BY <2>1, TableSet
  <2>4. QED BY <2>1, <2>2, <2>3
<1>5. ASSUME NEW p \in 0..(N + 1)
      PROVE  LET s == set_pino(t, v, p)
             IN  /\ OneChanged(s, t, v) /\ s[v].pino = p
                 /\ s[v].dirty = t[v].dirty /\ s[v].openbit = t[v].openbit
  <2> DEFINE x == [t[v] EXCEPT !.pino = p]
             s == [t EXCEPT ![v] = x]
  <2>1. x \in TableEntries /\ x.pino = p /\ x.dirty = t[v].dirty /\ x.openbit = t[v].openbit
    BY <1>2 DEF TableEntries
  <2>2. set_pino(t, v, p) = s
    BY DEF set_pino
  <2> HIDE DEF x
  <2>3. OneChanged(s, t, v) /\ s[v] = x
    BY <2>1, TableSet
  <2>4. QED BY <2>1, <2>2, <2>3
<1>6. QED BY <1>2, <1>3, <1>4, <1>5

-----------------------------------------------------------------------------
(* What keeps handles, table and index in agreement *)

(* A vino has one pino, so two open files are at two entries. *)
LEMMA FilesApart ==
  ASSUME NEW t, NEW hs, NEW ix, Agree(t, hs, ix), NEW g \in HandleIds, NEW h \in HandleIds,
         g # h, hs[g].kind = "file", hs[h].kind = "file"
  PROVE  hs[g].file # hs[h].file /\ hs[g].vino # hs[h].vino
<1>1. hs[g].vino # hs[h].vino
  BY DEF Agree, OneVino
<1>2. get_vino(t, hs[g].file) = hs[g].vino /\ get_vino(t, hs[h].file) = hs[h].vino
  BY DEF Agree, Reaches
<1>3. QED BY <1>1, <1>2

(* What an open file's handle knows. *)
LEMMA FileReached ==
  ASSUME NEW t, NEW hs, NEW ix, Agree(t, hs, ix), NEW h \in HandleIds, hs[h].kind = "file"
  PROVE  /\ t \in Seq(TableEntries) /\ hs[h].vino \in DOMAIN t /\ hs[h].file \in Slots
         /\ t[hs[h].vino] \in TableEntries /\ t[hs[h].vino].pino = hs[h].file
         /\ get_vino(t, hs[h].file) = hs[h].vino /\ hs[h].vino # 0
         /\ Reaches(t, hs[h], ix)
<1>1. /\ t \in Seq(TableEntries) /\ hs[h].vino \in DOMAIN t /\ Reaches(t, hs[h], ix)
  BY DEF Agree, WellTyped
<1>2. hs[h].vino # 0
  <2>1. DOMAIN t = 1..Len(t) /\ Len(t) \in Nat
    BY <1>1, LenProperties
  <2>2. QED BY <1>1, <2>1
<1>3. get_vino(t, hs[h].file) = hs[h].vino /\ hs[h].file \in Slots
  BY <1>1 DEF Reaches
<1>4. t[hs[h].vino].pino = hs[h].file
  BY <1>1, <1>2, <1>3, GetVino
<1>5. QED BY <1>1, <1>2, <1>3, <1>4, FieldsSet

(* The index changes, but not what the handles know of it. *)
Holds(hs, jx, ix) ==
    /\ \A i \in Slots : IsUnlinked(jx[i]) => IsUnlinked(ix[i])
    /\ \A h \in HandleIds : hs[h].kind = "file" =>
          /\ OwnsData(ix[hs[h].file]) => OwnsData(jx[hs[h].file])
          /\ IsUnlinked(jx[hs[h].file]) <=> IsUnlinked(ix[hs[h].file])

(* Table and handles still agree when the index keeps the entries they reach. *)
LEMMA IndexChanged ==
  ASSUME NEW t, NEW hs, NEW ix, NEW jx, Agree(t, hs, ix), Holds(hs, jx, ix)
  PROVE  Agree(t, hs, jx)
<1>1. UnlinkedOpen(hs, jx)
  BY DEF Agree, Holds, UnlinkedOpen
<1>2. ASSUME NEW h \in HandleIds, hs[h].kind = "file" PROVE Reaches(t, hs[h], jx)
  BY <1>2 DEF Agree, Holds, Reaches
<1>3. QED BY <1>1, <1>2 DEF Agree

(* No file is touched, or only one that no handle has. *)
LEMMA SparedHolds ==
  ASSUME NEW t, NEW hs, NEW ix, NEW jx, NEW X, Agree(t, hs, ix), Spared(jx, ix, X),
         \A h \in HandleIds : hs[h].kind = "file" => hs[h].file \notin X,
         \A i \in X \cap Slots : ~IsUnlinked(jx[i])
  PROVE  Holds(hs, jx, ix)
<1>1. \A e : IsUnlinked(e) => OwnsData(e)
  BY DEF OwnsData
<1>2. ASSUME NEW i \in Slots, IsUnlinked(jx[i]) PROVE IsUnlinked(ix[i])
  BY <1>1, <1>2 DEF Spared
<1>3. ASSUME NEW h \in HandleIds, hs[h].kind = "file"
      PROVE  jx[hs[h].file] = ix[hs[h].file]
  <2>1. hs[h].file \in Slots \ X /\ OwnsData(ix[hs[h].file])
    BY <1>3 DEF Agree, Reaches
  <2>2. QED BY <2>1 DEF Spared
<1>4. QED BY <1>2, <1>3 DEF Holds

(* A file's entry is written again. *)
LEMMA RewriteHolds ==
  ASSUME NEW hs, NEW ix, NEW jx, NEW f \in Slots, RewritesOnly(jx, ix, f),
         jx[f].entry_type # "CLOBBERED",
         \A h \in HandleIds : hs[h].kind = "file" => hs[h].file \in Slots
  PROVE  Holds(hs, jx, ix)
<1>1. SameName(jx[f], ix[f]) /\ Spared(jx, ix, {f})
  BY DEF RewritesOnly, Rewrote
<1>2. (OwnsData(jx[f]) <=> OwnsData(ix[f])) /\ (IsUnlinked(jx[f]) <=> IsUnlinked(ix[f]))
  BY <1>1 DEF SameName, OwnsData, IsUnlinked
<1>3. ASSUME NEW i \in Slots
      PROVE  (OwnsData(jx[i]) <=> OwnsData(ix[i])) /\ (IsUnlinked(jx[i]) <=> IsUnlinked(ix[i]))
  <2>1. CASE i = f
    BY <1>2, <2>1
  <2>2. CASE i # f
    <3>1. OwnsData(ix[i]) \/ OwnsData(jx[i]) => jx[i] = ix[i]
      BY <1>1, <2>2 DEF Spared
    <3>2. QED BY <3>1 DEF OwnsData
  <2>3. QED BY <2>1, <2>2
<1>4. QED BY <1>3 DEF Holds

(* Table and handles still agree when get_vino_alloc adds entries to the table. *)
LEMMA TableExtended ==
  ASSUME NEW t, NEW s, NEW hs, NEW ix, Agree(t, hs, ix), Extends(s, t)
  PROVE  Agree(s, hs, ix)
<1>1. t \in Seq(TableEntries) /\ s \in Seq(TableEntries) /\ DOMAIN t \subseteq DOMAIN s
  BY DEF Agree, WellTyped, Extends
<1>2. WellTyped(s, hs)
  BY <1>1 DEF Agree, WellTyped
<1>3. BitsOK(s, hs)
  <2>1. ASSUME NEW v \in DOMAIN s
        PROVE  /\ s[v].openbit = TRUE => OpenFile(hs, v)
               /\ s[v].dirty = TRUE => OpenFile(hs, v) \/ (s[v].pino = 0 /\ ~InUse(hs, v))
    <3>1. CASE v \in DOMAIN t
      BY <3>1 DEF Agree, BitsOK, Extends
    <3>2. CASE v \notin DOMAIN t
      BY <3>2 DEF Extends
    <3>3. QED BY <3>1, <3>2
  <2>2. QED BY <2>1 DEF BitsOK
<1>4. ASSUME NEW h \in HandleIds, hs[h].kind = "file" PROVE Reaches(s, hs[h], ix)
  <2>1. /\ hs[h].vino \in DOMAIN t /\ get_vino(t, hs[h].file) = hs[h].vino /\ hs[h].vino # 0
        /\ Reaches(t, hs[h], ix)
    BY <1>4, FileReached
  <2>2. SamePlaces(s, t, hs[h].file)
    BY <1>1 DEF SamePlaces, Extends
  <2>3. get_vino(s, hs[h].file) = hs[h].vino
    BY <1>1, <2>1, <2>2, SameVino
  <2>4. s[hs[h].vino] = t[hs[h].vino]
    BY <2>1 DEF Extends
  <2>5. QED BY <2>1, <2>3, <2>4 DEF Reaches
<1>5. QED BY <1>2, <1>3, <1>4 DEF Agree

(* Adding entries twice adds entries. *)
LEMMA ExtendsOn ==
  ASSUME NEW r, NEW s, NEW t, Extends(s, t), Extends(r, s)
  PROVE  Extends(r, t)
<1>1. ASSUME NEW v \in DOMAIN t PROVE v \in DOMAIN r /\ r[v] = t[v]
  BY DEF Extends
<1>2. ASSUME NEW v \in DOMAIN r, v \notin DOMAIN t PROVE r[v].dirty = FALSE /\ r[v].openbit = FALSE
  <2>1. CASE v \in DOMAIN s
    BY <1>2, <2>1 DEF Extends
  <2>2. CASE v \notin DOMAIN s
    BY <2>2 DEF Extends
  <2>3. QED BY <2>1, <2>2
<1>3. QED BY <1>1, <1>2 DEF Extends

(* What getattr, open, opendir and readdir do with an offset. *)
LEMMA KnownExtends ==
  ASSUME NEW t \in Seq(TableEntries), NEW p \in 0..(N + 1), NEW s, s = Known(t, p)
  PROVE  /\ Extends(s, t)
         /\ get_vino(s, p) \in DOMAIN s /\ s[get_vino(s, p)].pino = p
<1>1. CASE get_vino(t, p) = 0
  <2>1. s = pino_add(t, p)
    BY <1>1 DEF Known
  <2>2. Extends(s, t) /\ \E v \in DOMAIN s : s[v].pino = p
    BY <2>1, PinoAdd
  <2>3. get_vino(s, p) # 0 /\ s \in Seq(TableEntries)
    BY <2>2, GetVino DEF Extends
  <2>4. QED BY <2>2, <2>3, GetVino
<1>2. CASE get_vino(t, p) # 0
  <2>1. s = t
    BY <1>2 DEF Known
  <2>2. QED BY <1>2, <2>1, GetVino DEF Extends
<1>3. QED BY <1>1, <1>2

(* The pino of an entry changes that no file is open at. *)
LEMMA PinoMoved ==
  ASSUME NEW t, NEW hs, NEW ix, Agree(t, hs, ix), NEW v \in DOMAIN t, NEW p \in 0..(N + 1),
         t[v].pino # 0,
         \A h \in HandleIds : hs[h].kind = "file" => hs[h].file \notin {t[v].pino, p},
         NEW s, s = set_pino(t, v, p)
  PROVE  Agree(s, hs, ix)
<1>1. t \in Seq(TableEntries)
  BY DEF Agree, WellTyped
<1>2. /\ OneChanged(s, t, v) /\ s[v].pino = p
      /\ s[v].dirty = t[v].dirty /\ s[v].openbit = t[v].openbit
  BY <1>1, FieldsSet
<1>3. s \in Seq(TableEntries) /\ DOMAIN s = DOMAIN t /\ \A w \in DOMAIN t : w # v => s[w] = t[w]
  BY <1>2 DEF OneChanged
<1>4. WellTyped(s, hs)
  BY <1>3 DEF Agree, WellTyped
<1>5. ASSUME NEW w \in DOMAIN s
      PROVE  /\ s[w].openbit = TRUE => OpenFile(hs, w)
             /\ s[w].dirty = TRUE => OpenFile(hs, w) \/ (s[w].pino = 0 /\ ~InUse(hs, w))
  <2>1. /\ t[w].openbit = TRUE => OpenFile(hs, w)
        /\ t[w].dirty = TRUE => OpenFile(hs, w) \/ (t[w].pino = 0 /\ ~InUse(hs, w))
    BY <1>3 DEF Agree, BitsOK
  <2>2. CASE w = v
    BY <1>2, <2>1, <2>2
  <2>3. CASE w # v
    BY <1>3, <2>1, <2>3
  <2>4. QED BY <2>2, <2>3
<1>6. ASSUME NEW h \in HandleIds, hs[h].kind = "file" PROVE Reaches(s, hs[h], ix)
  <2>1. /\ hs[h].vino \in DOMAIN t /\ get_vino(t, hs[h].file) = hs[h].vino /\ hs[h].vino # 0
        /\ Reaches(t, hs[h], ix) /\ t[hs[h].vino].pino = hs[h].file
    BY <1>6, FileReached
  <2>2. hs[h].file # t[v].pino /\ hs[h].file # p
    BY <1>6
  <2>3. SamePlaces(s, t, hs[h].file)
    BY <1>2, <1>3, <2>2 DEF SamePlaces
  <2>4. get_vino(s, hs[h].file) = hs[h].vino
    BY <1>1, <1>3, <2>1, <2>3, SameVino
  <2>5. s[hs[h].vino] = t[hs[h].vino]
    BY <1>3, <2>1, <2>2
  <2>6. QED BY <2>1, <2>4, <2>5 DEF Reaches
<1>7. BitsOK(s, hs)
  BY <1>5 DEF BitsOK
<1>8. QED BY <1>4, <1>6, <1>7 DEF Agree

(* One handle changes. *)
HandleSet(js, hs, h, x) ==
    js \in [HandleIds -> HandleStates] /\ js[h] = x /\ \A g \in HandleIds : g # h => js[g] = hs[g]

(* What EXCEPT does to the handles. *)
LEMMA SetHandle ==
  ASSUME NEW hs \in [HandleIds -> HandleStates], NEW h \in HandleIds, NEW x \in HandleStates
  PROVE  HandleSet([hs EXCEPT ![h] = x], hs, h, x)
  BY DEF HandleSet

(* One entry of the table changes, and the handle that has it: the others   *)
(* do not notice.                                                           *)
SameAt(s, t, v, p) == s[v].pino = p <=> t[v].pino = p

(* A handle of another entry of the table still reaches its file. *)
LEMMA OthersReach ==
  ASSUME NEW t, NEW hs, NEW ix, NEW s, NEW v \in DOMAIN t, Agree(t, hs, ix), OneChanged(s, t, v),
         NEW g \in HandleIds, hs[g].kind = "file", hs[g].vino # v, SameAt(s, t, v, hs[g].file)
  PROVE  Reaches(s, hs[g], ix)
<1>1. /\ t \in Seq(TableEntries) /\ hs[g].vino \in DOMAIN t /\ get_vino(t, hs[g].file) = hs[g].vino
      /\ hs[g].vino # 0 /\ Reaches(t, hs[g], ix)
  BY FileReached
<1>2. s \in Seq(TableEntries) /\ DOMAIN s = DOMAIN t /\ \A w \in DOMAIN t : w # v => s[w] = t[w]
  BY DEF OneChanged
<1>3. SamePlaces(s, t, hs[g].file)
  BY <1>2 DEF SamePlaces, SameAt
<1>4. get_vino(s, hs[g].file) = hs[g].vino
  BY <1>1, <1>2, <1>3, SameVino
<1>5. s[hs[g].vino] = t[hs[g].vino]
  BY <1>1, <1>2
<1>6. QED BY <1>1, <1>4, <1>5 DEF Reaches

(* A file is opened at an entry of the table that no handle has. *)
LEMMA OpenFits ==
  ASSUME NEW t, NEW hs, NEW ix, Agree(t, hs, ix), NEW h \in HandleIds, hs[h].kind = "closed",
         NEW p \in Slots, ix[p].entry_type = "FILE_ENTRY",
         NEW v \in DOMAIN t, v = get_vino(t, p), t[v].pino = p,
         NEW s, s = SetOpen(t, v, TRUE),
         NEW x \in HandleStates, x.kind = "file", x.vino = v, x.file = p,
         NEW js, HandleSet(js, hs, h, x), OneVino(js)
  PROVE  Agree(s, js, ix)
<1>1. t \in Seq(TableEntries) /\ hs \in [HandleIds -> HandleStates]
  BY DEF Agree, WellTyped
<1>2. /\ OneChanged(s, t, v) /\ s[v].openbit = TRUE
      /\ s[v].pino = t[v].pino /\ s[v].dirty = t[v].dirty
  <2>1. TRUE \in BOOLEAN
    OBVIOUS
  <2>2. QED BY <1>1, <2>1, FieldsSet
<1>3. s \in Seq(TableEntries) /\ DOMAIN s = DOMAIN t /\ \A w \in DOMAIN t : w # v => s[w] = t[w]
  BY <1>2 DEF OneChanged
<1>4. v \in Nat /\ p \in Offsets /\ p # 0
  <2>1. DOMAIN t = 1..Len(t) /\ Len(t) \in Nat
    BY <1>1, LenProperties
  <2>2. QED BY <2>1, SfsAssumption DEF Slots, Offsets
<1>5. js \in [HandleIds -> HandleStates] /\ js[h] = x /\ \A g \in HandleIds : g # h => js[g] = hs[g]
  BY DEF HandleSet
<1>6. \A g \in HandleIds : g # h /\ js[g].kind # "closed" => js[g].vino # v
  BY <1>5 DEF OneVino
<1>7. WellTyped(s, js)
  <2>1. ASSUME NEW g \in HandleIds
        PROVE  /\ js[g].kind # "closed" => js[g].vino \in DOMAIN s
               /\ js[g].kind # "file" => js[g].file = 0
    <3>1. CASE g = h
      BY <1>3, <1>5, <3>1
    <3>2. CASE g # h
      BY <1>3, <1>5, <3>2 DEF Agree, WellTyped
    <3>3. QED BY <3>1, <3>2
  <2>2. QED BY <1>3, <1>5, <2>1 DEF WellTyped
<1>8. ~(t[v].dirty = TRUE)
  <2>1. ~OpenFile(hs, v)
    BY <1>5, <1>6 DEF OpenFile
  <2>2. QED BY <1>4, <2>1 DEF Agree, BitsOK
<1>9. BitsOK(s, js)
  <2>1. ASSUME NEW w \in DOMAIN s
        PROVE  /\ s[w].openbit = TRUE => OpenFile(js, w)
               /\ s[w].dirty = TRUE => OpenFile(js, w) \/ (s[w].pino = 0 /\ ~InUse(js, w))
    <3>1. CASE w = v
      BY <1>5, <3>1 DEF OpenFile
    <3>2. CASE w # v
      <4>1. OpenFile(hs, w) => OpenFile(js, w)
        BY <1>5 DEF OpenFile
      <4>2. InUse(js, w) => InUse(hs, w)
        BY <1>5, <3>2 DEF InUse
      <4>3. s[w] = t[w] /\ w \in DOMAIN t
        BY <1>3, <3>2
      <4>4. QED BY <4>1, <4>2, <4>3 DEF Agree, BitsOK
    <3>3. QED BY <3>1, <3>2
  <2>2. QED BY <2>1 DEF BitsOK
<1>10. UnlinkedOpen(js, ix)
  <2>1. ASSUME NEW i \in Slots, IsUnlinked(ix[i])
        PROVE  \E g \in HandleIds : js[g].kind = "file" /\ js[g].file = i
    <3>1. PICK g \in HandleIds : hs[g].kind = "file" /\ hs[g].file = i
      BY <2>1 DEF Agree, UnlinkedOpen
    <3>2. js[g] = hs[g]
      BY <1>5, <3>1
    <3>3. QED BY <3>1, <3>2
  <2>2. QED BY <2>1 DEF UnlinkedOpen
<1>11. ASSUME NEW g \in HandleIds, js[g].kind = "file" PROVE Reaches(s, js[g], ix)
  <2>1. CASE g = h
    <3>1. SamePlaces(s, t, p)
      BY <1>2, <1>3 DEF SamePlaces
    <3>2. v # 0
      <4>1. DOMAIN t = 1..Len(t) /\ Len(t) \in Nat
        BY <1>1, LenProperties
      <4>2. QED BY <4>1
    <3>3. get_vino(s, p) = v
      BY <1>1, <1>3, <3>1, <3>2, SameVino
    <3>4. OwnsData(ix[p]) /\ ~IsUnlinked(ix[p])
      BY DEF OwnsData, IsUnlinked
    <3>5. QED BY <1>2, <1>5, <1>8, <2>1, <3>3, <3>4 DEF Reaches
  <2>2. CASE g # h
    <3>1. js[g].vino # v
      BY <1>6, <1>11, <2>2
    <3>2. SameAt(s, t, v, js[g].file)
      BY <1>2 DEF SameAt
    <3>3. js[g] = hs[g]
      BY <2>2 DEF HandleSet
    <3>4. Reaches(s, hs[g], ix)
      BY <1>2, <1>11, <3>1, <3>2, <3>3, OthersReach
    <3>5. QED BY <3>3, <3>4
  <2>3. QED BY <2>1, <2>2
<1>12. QED BY <1>7, <1>9, <1>10, <1>11 DEF Agree

(* A directory's handle comes or goes, and the table stays as it is. *)
LEMMA DirHandleFits ==
  ASSUME NEW t, NEW hs, NEW ix, Agree(t, hs, ix), NEW h \in HandleIds, hs[h].kind # "file",
         NEW x \in HandleStates, x.kind # "file", x.file = 0,
         x.kind # "closed" => x.vino \in DOMAIN t /\ t[x.vino].pino # 0,
         NEW js, HandleSet(js, hs, h, x), OneVino(js)
  PROVE  Agree(t, js, ix)
<1>1. js \in [HandleIds -> HandleStates] /\ js[h] = x /\ \A g \in HandleIds : g # h => js[g] = hs[g]
  BY DEF HandleSet
<1>2. \A g \in HandleIds : js[g].kind = "file" => js[g] = hs[g]
  BY <1>1
<1>3. \A g \in HandleIds : hs[g].kind = "file" => js[g] = hs[g]
  BY <1>1
<1>4. WellTyped(t, js)
  <2>1. ASSUME NEW g \in HandleIds
        PROVE  /\ js[g].kind # "closed" => js[g].vino \in DOMAIN t
               /\ js[g].kind # "file" => js[g].file = 0
    <3>1. CASE g = h
      BY <1>1, <3>1
    <3>2. CASE g # h
      BY <1>1, <3>2 DEF Agree, WellTyped
    <3>3. QED BY <3>1, <3>2
  <2>2. QED BY <1>1, <2>1 DEF Agree, WellTyped
<1>5. ASSUME NEW w \in DOMAIN t
      PROVE  /\ t[w].openbit = TRUE => OpenFile(js, w)
             /\ t[w].dirty = TRUE => OpenFile(js, w) \/ (t[w].pino = 0 /\ ~InUse(js, w))
  <2>1. OpenFile(hs, w) => OpenFile(js, w)
    BY <1>3 DEF OpenFile
  <2>2. t[w].pino = 0 /\ InUse(js, w) => InUse(hs, w)
    BY <1>1 DEF InUse
  <2>3. QED BY <2>1, <2>2 DEF Agree, BitsOK
<1>6. UnlinkedOpen(js, ix)
  BY <1>3 DEF Agree, UnlinkedOpen
<1>7. ASSUME NEW g \in HandleIds, js[g].kind = "file" PROVE Reaches(t, js[g], ix)
  BY <1>2, <1>7 DEF Agree
<1>8. BitsOK(t, js)
  BY <1>5 DEF BitsOK
<1>9. QED BY <1>4, <1>6, <1>7, <1>8 DEF Agree

(* A directory's handle has an entry of the table that is not dirty. *)
LEMMA DirNotDirty ==
  ASSUME NEW t, NEW hs, NEW ix, Agree(t, hs, ix), NEW h \in HandleIds, hs[h].kind = "dir"
  PROVE  ~(t[hs[h].vino].dirty = TRUE)
<1>1. hs[h].vino \in DOMAIN t
  BY DEF Agree, WellTyped
<1>2. ~OpenFile(hs, hs[h].vino)
  <2>1. ASSUME NEW g \in HandleIds, hs[g].kind = "file" PROVE hs[g].vino # hs[h].vino
    <3>1. g # h
      BY <2>1
    <3>2. QED BY <2>1, <3>1 DEF Agree, OneVino
  <2>2. QED BY <2>1 DEF OpenFile
<1>3. InUse(hs, hs[h].vino)
  BY DEF InUse
<1>4. QED BY <1>1, <1>2, <1>3 DEF Agree, BitsOK

(* A closed handle. *)
LEMMA NoHandleState == NoHandle \in HandleStates /\ NoHandle.kind = "closed" /\ NoHandle.file = 0
  BY SfsAssumption DEF NoHandle, HandleStates, HandleKinds, Offsets

(* A file's handle is closed. *)
LEMMA ClosedOneVino ==
  ASSUME NEW t, NEW hs, NEW ix, Agree(t, hs, ix), NEW h \in HandleIds,
         NEW js, HandleSet(js, hs, h, NoHandle)
  PROVE  OneVino(js)
<1>1. js[h] = NoHandle /\ \A g \in HandleIds : g # h => js[g] = hs[g]
  BY DEF HandleSet
<1>2. QED BY <1>1, NoHandleState DEF Agree, OneVino

(* The file is not unlinked: it stays. *)
LEMMA CloseFits ==
  ASSUME NEW t, NEW hs, NEW ix, Agree(t, hs, ix), NEW h \in HandleIds, hs[h].kind = "file",
         NEW v, v = hs[h].vino, ~(t[v].dirty = TRUE),
         NEW s, s = SetOpen(t, v, FALSE),
         NEW js, HandleSet(js, hs, h, NoHandle)
  PROVE  Agree(s, js, ix)
<1>1. t \in Seq(TableEntries) /\ v \in DOMAIN t /\ t[v].pino = hs[h].file /\ Reaches(t, hs[h], ix)
  BY FileReached
<1>2. /\ OneChanged(s, t, v) /\ s[v].openbit = FALSE
      /\ s[v].pino = t[v].pino /\ s[v].dirty = t[v].dirty
  <2>1. FALSE \in BOOLEAN
    OBVIOUS
  <2>2. QED BY <1>1, <2>1, FieldsSet
<1>3. s \in Seq(TableEntries) /\ DOMAIN s = DOMAIN t /\ \A w \in DOMAIN t : w # v => s[w] = t[w]
  BY <1>2 DEF OneChanged
<1>4. /\ js \in [HandleIds -> HandleStates] /\ js[h] = NoHandle
      /\ \A g \in HandleIds : g # h => js[g] = hs[g]
  BY DEF HandleSet
<1>5. \A g \in HandleIds : js[g].kind # "closed" => g # h /\ js[g] = hs[g]
  BY <1>4, NoHandleState
<1>6. WellTyped(s, js)
  <2>1. ASSUME NEW g \in HandleIds
        PROVE  /\ js[g].kind # "closed" => js[g].vino \in DOMAIN s
               /\ js[g].kind # "file" => js[g].file = 0
    <3>1. CASE g = h
      BY <1>4, <3>1, NoHandleState
    <3>2. CASE g # h
      BY <1>3, <1>4, <3>2 DEF Agree, WellTyped
    <3>3. QED BY <3>1, <3>2
  <2>2. QED BY <1>3, <1>4, <2>1 DEF WellTyped
<1>7. BitsOK(s, js)
  <2>1. ASSUME NEW w \in DOMAIN s
        PROVE  /\ s[w].openbit = TRUE => OpenFile(js, w)
               /\ s[w].dirty = TRUE => OpenFile(js, w) \/ (s[w].pino = 0 /\ ~InUse(js, w))
    <3>1. CASE w = v
      BY <1>2, <3>1
    <3>2. CASE w # v
      <4>1. OpenFile(hs, w) => OpenFile(js, w)
        BY <1>4, <3>2 DEF OpenFile
      <4>2. InUse(js, w) => InUse(hs, w)
        BY <1>5 DEF InUse
      <4>3. s[w] = t[w] /\ w \in DOMAIN t
        BY <1>3, <3>2
      <4>4. QED BY <4>1, <4>2, <4>3 DEF Agree, BitsOK
    <3>3. QED BY <3>1, <3>2
  <2>2. QED BY <2>1 DEF BitsOK
<1>8. UnlinkedOpen(js, ix)
  <2>1. ~IsUnlinked(ix[hs[h].file])
    BY <1>1 DEF Reaches
  <2>2. ASSUME NEW i \in Slots, IsUnlinked(ix[i])
        PROVE  \E g \in HandleIds : js[g].kind = "file" /\ js[g].file = i
    <3>1. PICK g \in HandleIds : hs[g].kind = "file" /\ hs[g].file = i
      BY <2>2 DEF Agree, UnlinkedOpen
    <3>2. g # h
      BY <2>1, <2>2, <3>1
    <3>3. QED BY <1>4, <3>1, <3>2
  <2>3. QED BY <2>2 DEF UnlinkedOpen
<1>9. ASSUME NEW g \in HandleIds, js[g].kind = "file" PROVE Reaches(s, js[g], ix)
  <2>1. g # h /\ js[g] = hs[g]
    BY <1>5, <1>9
  <2>2. js[g].vino # v
    BY <1>9, <2>1, FilesApart
  <2>3. SameAt(s, t, v, js[g].file)
    BY <1>2 DEF SameAt
  <2>4. Reaches(s, hs[g], ix)
    BY <1>1, <1>2, <1>9, <2>1, <2>2, <2>3, OthersReach
  <2>5. QED BY <2>1, <2>4
<1>10. OneVino(js)
  BY ClosedOneVino
<1>11. QED BY <1>6, <1>7, <1>8, <1>9, <1>10 DEF Agree

(* The file was unlinked: it is deleted, and the table forgets it. *)
LEMMA DeleteFits ==
  ASSUME NEW t, NEW hs, NEW ix, Agree(t, hs, ix), NEW h \in HandleIds, hs[h].kind = "file",
         NEW v, v = hs[h].vino, t[v].dirty = TRUE,
         NEW s, s = set_pino(SetOpen(t, v, FALSE), v, 0),
         NEW js, HandleSet(js, hs, h, NoHandle),
         NEW f, f = hs[h].file, NEW jx, Spared(jx, ix, {f}), ~OwnsData(jx[f])
  PROVE  Agree(s, js, jx)
<1>1. t \in Seq(TableEntries) /\ v \in DOMAIN t /\ t[v].pino = f /\ f \in Slots
  BY FileReached
<1>2. OneChanged(s, t, v) /\ s[v].openbit = FALSE /\ s[v].pino = 0
  <2> DEFINE r == SetOpen(t, v, FALSE)
  <2>1. FALSE \in BOOLEAN /\ 0 \in 0..(N + 1)
    BY SfsAssumption
  <2>2. OneChanged(r, t, v) /\ r[v].openbit = FALSE
    BY <1>1, <2>1, FieldsSet
  <2> HIDE DEF r
  <2>3. r \in Seq(TableEntries) /\ v \in DOMAIN r
    BY <1>1, <2>2 DEF OneChanged
  <2>4. OneChanged(s, r, v) /\ s[v].openbit = r[v].openbit /\ s[v].pino = 0
    <3> DEFINE q == set_pino(r, v, 0)
    <3>1. OneChanged(q, r, v) /\ q[v].openbit = r[v].openbit /\ q[v].pino = 0
      BY <2>1, <2>3, FieldsSet
    <3>2. s = q
      BY DEF r
    <3>3. QED BY <3>1, <3>2
  <2>5. QED BY <2>2, <2>4 DEF OneChanged
<1>3. s \in Seq(TableEntries) /\ DOMAIN s = DOMAIN t /\ \A w \in DOMAIN t : w # v => s[w] = t[w]
  BY <1>2 DEF OneChanged
<1>4. /\ js \in [HandleIds -> HandleStates] /\ js[h] = NoHandle
      /\ \A g \in HandleIds : g # h => js[g] = hs[g]
  BY DEF HandleSet
<1>5. \A g \in HandleIds : js[g].kind # "closed" => g # h /\ js[g] = hs[g]
  BY <1>4, NoHandleState
<1>6. WellTyped(s, js)
  <2>1. ASSUME NEW g \in HandleIds
        PROVE  /\ js[g].kind # "closed" => js[g].vino \in DOMAIN s
               /\ js[g].kind # "file" => js[g].file = 0
    <3>1. CASE g = h
      BY <1>4, <3>1, NoHandleState
    <3>2. CASE g # h
      BY <1>3, <1>4, <3>2 DEF Agree, WellTyped
    <3>3. QED BY <3>1, <3>2
  <2>2. QED BY <1>3, <1>4, <2>1 DEF WellTyped
<1>7. \A g \in HandleIds : js[g].kind # "closed" => js[g].vino # v
  BY <1>5 DEF Agree, OneVino
<1>8. BitsOK(s, js)
  <2>1. ASSUME NEW w \in DOMAIN s
        PROVE  /\ s[w].openbit = TRUE => OpenFile(js, w)
               /\ s[w].dirty = TRUE => OpenFile(js, w) \/ (s[w].pino = 0 /\ ~InUse(js, w))
    <3>1. CASE w = v
      BY <1>2, <1>7, <3>1 DEF InUse
    <3>2. CASE w # v
      <4>1. OpenFile(hs, w) => OpenFile(js, w)
        BY <1>4, <3>2 DEF OpenFile
      <4>2. InUse(js, w) => InUse(hs, w)
        BY <1>5 DEF InUse
      <4>3. s[w] = t[w] /\ w \in DOMAIN t
        BY <1>3, <3>2
      <4>4. QED BY <4>1, <4>2, <4>3 DEF Agree, BitsOK
    <3>3. QED BY <3>1, <3>2
  <2>2. QED BY <2>1 DEF BitsOK
<1>9. UnlinkedOpen(js, jx)
  <2>1. ASSUME NEW i \in Slots, IsUnlinked(jx[i])
        PROVE  \E g \in HandleIds : js[g].kind = "file" /\ js[g].file = i
    <3>1. OwnsData(jx[i]) /\ i # f
      BY <2>1 DEF OwnsData
    <3>2. jx[i] = ix[i]
      BY <3>1 DEF Spared
    <3>3. PICK g \in HandleIds : hs[g].kind = "file" /\ hs[g].file = i
      BY <2>1, <3>2 DEF Agree, UnlinkedOpen
    <3>4. g # h
      BY <3>1, <3>3
    <3>5. QED BY <1>4, <3>3, <3>4
  <2>2. QED BY <2>1 DEF UnlinkedOpen
<1>10. ASSUME NEW g \in HandleIds, js[g].kind = "file" PROVE Reaches(s, js[g], jx)
  <2>1. g # h /\ js[g] = hs[g]
    BY <1>5, <1>10
  <2>2. js[g].vino # v /\ js[g].file # f
    BY <1>10, <2>1, FilesApart
  <2>3. js[g].file \in Slots
    BY <1>10, <2>1, FileReached
  <2>4. SameAt(s, t, v, js[g].file)
    <3>1. 0 \notin Slots
      BY SfsAssumption DEF Slots
    <3>2. s[v].pino # js[g].file
      BY <1>2, <2>3, <3>1
    <3>3. t[v].pino # js[g].file
      BY <1>1, <2>2
    <3>4. QED BY <3>2, <3>3 DEF SameAt
  <2>5. Reaches(s, js[g], ix)
    <3>1. OneChanged(s, t, v) /\ v \in DOMAIN t
      BY <1>1, <1>2
    <3>2. hs[g].kind = "file" /\ hs[g].vino # v /\ SameAt(s, t, v, hs[g].file)
      BY <1>10, <2>1, <2>2, <2>4
    <3>3. Reaches(s, hs[g], ix)
      BY <3>1, <3>2, OthersReach
    <3>4. QED BY <2>1, <3>3
  <2>6. jx[js[g].file] = ix[js[g].file]
    BY <2>2, <2>3, <2>5 DEF Reaches, Spared
  <2>7. QED BY <2>5, <2>6 DEF Reaches
<1>11. OneVino(js)
  BY ClosedOneVino
<1>12. QED BY <1>6, <1>8, <1>9, <1>10, <1>11 DEF Agree

(* The entries but for that of f are as they were. *)
AllBut(jx, ix, f) == \A i \in Slots : i # f => jx[i] = ix[i]

(* An open file is unlinked: its entry keeps its place. *)
LEMMA UnlinkFits ==
  ASSUME NEW t, NEW hs, NEW ix, Agree(t, hs, ix), NEW h \in HandleIds, hs[h].kind = "file",
         NEW s, s = SetDirty(t, hs[h].vino, TRUE),
         NEW jx, IsUnlinked(jx[hs[h].file]), AllBut(jx, ix, hs[h].file)
  PROVE  Agree(s, hs, jx)
<1> DEFINE v == hs[h].vino
           f == hs[h].file
<1>1. t \in Seq(TableEntries) /\ v \in DOMAIN t /\ t[v].pino = f /\ f \in Slots /\ Reaches(t, hs[h], ix)
  BY FileReached
<1>2. \A i \in Slots : i # f => jx[i] = ix[i]
  BY DEF AllBut
<1>3. /\ OneChanged(s, t, v) /\ s[v].dirty = TRUE
      /\ s[v].pino = t[v].pino /\ s[v].openbit = t[v].openbit
  <2>1. TRUE \in BOOLEAN
    OBVIOUS
  <2>2. QED BY <1>1, <2>1, FieldsSet
<1>4. s \in Seq(TableEntries) /\ DOMAIN s = DOMAIN t /\ \A w \in DOMAIN t : w # v => s[w] = t[w]
  BY <1>3 DEF OneChanged
<1>5. WellTyped(s, hs)
  BY <1>4 DEF Agree, WellTyped
<1>6. BitsOK(s, hs)
  <2>1. ASSUME NEW w \in DOMAIN s
        PROVE  /\ s[w].openbit = TRUE => OpenFile(hs, w)
               /\ s[w].dirty = TRUE => OpenFile(hs, w) \/ (s[w].pino = 0 /\ ~InUse(hs, w))
    <3>1. CASE w = v
      BY <3>1 DEF OpenFile
    <3>2. CASE w # v
      <4>1. s[w] = t[w] /\ w \in DOMAIN t
        BY <1>4, <3>2
      <4>2. QED BY <4>1 DEF Agree, BitsOK
    <3>3. QED BY <3>1, <3>2
  <2>2. QED BY <2>1 DEF BitsOK
<1>7. UnlinkedOpen(hs, jx)
  <2>1. ASSUME NEW i \in Slots, IsUnlinked(jx[i])
        PROVE  \E g \in HandleIds : hs[g].kind = "file" /\ hs[g].file = i
    <3>1. CASE i = f
      BY <3>1
    <3>2. CASE i # f
      BY <1>2, <2>1, <3>2 DEF Agree, UnlinkedOpen
    <3>3. QED BY <3>1, <3>2
  <2>2. QED BY <2>1 DEF UnlinkedOpen
<1>8. ASSUME NEW g \in HandleIds, hs[g].kind = "file" PROVE Reaches(s, hs[g], jx)
  <2>1. /\ hs[g].vino \in DOMAIN t /\ get_vino(t, hs[g].file) = hs[g].vino /\ hs[g].vino # 0
        /\ Reaches(t, hs[g], ix) /\ hs[g].file \in Slots
    BY <1>8, FileReached
  <2>2. SamePlaces(s, t, hs[g].file)
    BY <1>3, <1>4 DEF SamePlaces
  <2>3. get_vino(s, hs[g].file) = hs[g].vino
    BY <1>1, <1>4, <2>1, <2>2, SameVino
  <2>4. CASE g = h
    <3>1. OwnsData(jx[f])
      BY DEF OwnsData
    <3>2. QED BY <1>3, <2>1, <2>3, <2>4, <3>1 DEF Reaches
  <2>5. CASE g # h
    <3>1. hs[g].vino # v /\ hs[g].file # f
      BY <1>8, <2>5, FilesApart
    <3>2. s[hs[g].vino] = t[hs[g].vino] /\ jx[hs[g].file] = ix[hs[g].file]
      BY <1>2, <1>4, <2>1, <3>1
    <3>3. QED BY <2>1, <2>3, <3>2 DEF Reaches
  <2>6. QED BY <2>4, <2>5
<1>9. QED BY <1>5, <1>6, <1>7, <1>8 DEF Agree

(* An open file moves to an entry that the table does not have. *)
LEMMA MoveFits ==
  ASSUME NEW t, NEW hs, NEW ix, Agree(t, hs, ix), NEW h \in HandleIds, hs[h].kind = "file",
         NEW v, v = hs[h].vino, NEW old, old = hs[h].file, ~IsUnlinked(ix[old]),
         NEW new \in Slots, get_vino(t, new) = 0, ~OwnsData(ix[new]),
         NEW s, s = set_pino(t, v, new),
         NEW x \in HandleStates, x.kind = "file", x.vino = v, x.file = new,
         NEW js, HandleSet(js, hs, h, x),
         NEW jx, Spared(jx, ix, {old, new}), jx[new].entry_type = "FILE_ENTRY", ~OwnsData(jx[old])
  PROVE  Agree(s, js, jx)
<1>1. /\ t \in Seq(TableEntries) /\ v \in DOMAIN t /\ t[v].pino = old /\ old \in Slots
      /\ Reaches(t, hs[h], ix) /\ v # 0
  BY FileReached
<1>2. /\ OneChanged(s, t, v) /\ s[v].pino = new
      /\ s[v].dirty = t[v].dirty /\ s[v].openbit = t[v].openbit
  <2>1. new \in 0..(N + 1)
    BY SfsAssumption DEF Slots
  <2>2. QED BY <1>1, <2>1, FieldsSet
<1>3. s \in Seq(TableEntries) /\ DOMAIN s = DOMAIN t /\ \A w \in DOMAIN t : w # v => s[w] = t[w]
  BY <1>2 DEF OneChanged
<1>4. /\ js \in [HandleIds -> HandleStates] /\ js[h] = x
      /\ \A g \in HandleIds : g # h => js[g] = hs[g]
  BY DEF HandleSet
<1>5. \A g \in HandleIds : js[g].kind = hs[g].kind /\ js[g].vino = hs[g].vino
  BY <1>4
<1>6. WellTyped(s, js)
  <2>1. ASSUME NEW g \in HandleIds
        PROVE  /\ js[g].kind # "closed" => js[g].vino \in DOMAIN s
               /\ js[g].kind # "file" => js[g].file = 0
    <3>1. CASE g = h
      BY <1>1, <1>3, <1>4, <3>1
    <3>2. CASE g # h
      BY <1>3, <1>4, <3>2 DEF Agree, WellTyped
    <3>3. QED BY <3>1, <3>2
  <2>2. QED BY <1>3, <1>4, <2>1 DEF WellTyped
<1>7. \A w : (OpenFile(hs, w) => OpenFile(js, w)) /\ (InUse(js, w) => InUse(hs, w))
  BY <1>5 DEF OpenFile, InUse
<1>8. ~(t[v].dirty = TRUE)
  BY <1>1 DEF Reaches
<1>9. BitsOK(s, js)
  <2>1. ASSUME NEW w \in DOMAIN s
        PROVE  /\ s[w].openbit = TRUE => OpenFile(js, w)
               /\ s[w].dirty = TRUE => OpenFile(js, w) \/ (s[w].pino = 0 /\ ~InUse(js, w))
    <3>1. OpenFile(js, v)
      BY <1>5 DEF OpenFile
    <3>2. CASE w = v
      BY <3>1, <3>2
    <3>3. CASE w # v
      <4>1. s[w] = t[w] /\ w \in DOMAIN t
        BY <1>3, <3>3
      <4>2. QED BY <1>7, <4>1 DEF Agree, BitsOK
    <3>4. QED BY <3>2, <3>3
  <2>2. QED BY <2>1 DEF BitsOK
<1>10. UnlinkedOpen(js, jx)
  <2>1. ~IsUnlinked(jx[new])
    BY DEF IsUnlinked
  <2>2. ASSUME NEW i \in Slots, IsUnlinked(jx[i])
        PROVE  \E g \in HandleIds : js[g].kind = "file" /\ js[g].file = i
    <3>1. OwnsData(jx[i]) /\ i # old /\ i # new
      BY <2>1, <2>2 DEF OwnsData
    <3>2. jx[i] = ix[i]
      BY <3>1 DEF Spared
    <3>3. PICK g \in HandleIds : hs[g].kind = "file" /\ hs[g].file = i
      BY <2>2, <3>2 DEF Agree, UnlinkedOpen
    <3>4. g # h
      BY <3>1, <3>3
    <3>5. QED BY <1>4, <3>3, <3>4
  <2>3. QED BY <2>2 DEF UnlinkedOpen
<1>11. ASSUME NEW g \in HandleIds, js[g].kind = "file" PROVE Reaches(s, js[g], jx)
  <2>1. CASE g = h
    <3>1. \A w \in DOMAIN s : s[w].pino = new => w = v
      <4>1. \A w \in DOMAIN t : t[w].pino # new
        BY <1>1, GetVino
      <4>2. QED BY <1>3, <4>1
    <3>2. get_vino(s, new) = v
      <4>1. v \in Nat
        <5>1. DOMAIN t = 1..Len(t) /\ Len(t) \in Nat
          BY <1>1, LenProperties
        <5>2. QED BY <1>1, <5>1
      <4>2. \A w \in DOMAIN s : s[w].pino = new => v <= w
        BY <3>1, <4>1
      <4>3. v \in DOMAIN s
        BY <1>1, <1>3
      <4>4. QED BY <1>2, <1>3, <4>2, <4>3, VinoIs
    <3>3. OwnsData(jx[new]) /\ ~IsUnlinked(jx[new])
      BY DEF OwnsData, IsUnlinked
    <3>4. s[v].openbit = TRUE /\ ~(s[v].dirty = TRUE)
      BY <1>1, <1>2, <1>8 DEF Reaches
    <3>5. QED BY <1>4, <2>1, <3>2, <3>3, <3>4 DEF Reaches
  <2>2. CASE g # h
    <3>1. js[g] = hs[g] /\ hs[g].kind = "file"
      BY <1>4, <1>11, <2>2
    <3>2. js[g].vino # v /\ js[g].file # old
      BY <2>2, <3>1, FilesApart
    <3>3. js[g].file \in Slots /\ OwnsData(ix[js[g].file])
      <4>1. Reaches(t, hs[g], ix) /\ hs[g].file \in Slots
        BY <3>1, FileReached
      <4>2. QED BY <3>1, <4>1 DEF Reaches
    <3>4. js[g].file # new
      BY <3>3
    <3>5. SameAt(s, t, v, js[g].file)
      BY <1>1, <1>2, <3>2, <3>4 DEF SameAt
    <3>6. Reaches(s, js[g], ix)
      <4>1. Reaches(s, hs[g], ix)
        BY <1>1, <1>2, <3>1, <3>2, <3>5, OthersReach
      <4>2. QED BY <3>1, <4>1
    <3>7. jx[js[g].file] = ix[js[g].file]
      BY <3>2, <3>3, <3>4 DEF Spared
    <3>8. QED BY <3>6, <3>7 DEF Reaches
  <2>3. QED BY <2>1, <2>2
<1>12. OneVino(js)
  BY <1>5 DEF Agree, OneVino
<1>13. QED BY <1>6, <1>9, <1>10, <1>11, <1>12 DEF Agree

-----------------------------------------------------------------------------
(* The handlers *)

(* Positions in a listing, and the offsets one past those that it has. *)
LEMMA Positions ==
  ASSUME NEW m \in Nat
  PROVE  /\ IsFiniteSet(1..m) /\ \A T \in SUBSET (1..m) : T # {} => Max(T) \in T
         /\ \A i \in Slots : i + 1 \in 0..(N + 1)
<1>1. 1..m \subseteq 0..m
  OBVIOUS
<1>2. ASSUME NEW T \in SUBSET (1..m), T # {} PROVE Max(T) \in T
  <2>1. T \in SUBSET (0..m)
    BY <1>1
  <2>2. QED BY <1>2, <2>1, MinMax
<1>3. \A i \in Slots : i + 1 \in 0..(N + 1)
  BY SfsAssumption DEF Slots
<1>4. IsFiniteSet(1..m)
  BY FS_Interval
<1>5. QED BY <1>2, <1>3, <1>4

(* readdir puts an offset into the table for each child: the fold over the  *)
(* listing is a recursion over the positions in it.                         *)
LEMMA ReaddirExtends ==
  ASSUME NEW t \in Seq(TableEntries), NEW ix, NEW p,
         NEW s, s = FoldLeft(LAMBDA r, i : Known(r, i + 1), t, Listing(ix, p))
  PROVE  Extends(s, t)
<1> DEFINE l  == Listing(ix, p)
           S  == DOMAIN l
           X  == {r \in Seq(TableEntries) : Extends(r, t)}
           c  == [T \in SUBSET S |-> Max(T)]
           It(f, T) == IF T = {} THEN t ELSE Known(f[T \ {Max(T)}], l[Max(T)] + 1)
           it == CHOOSE f : f = [T \in SUBSET S |-> It(f, T)]
<1>1. s = it[S]
  BY DEF FoldLeft, MapThenFoldSet
<1>2. (\E m \in Nat : S = 1..m) /\ \A k \in S : l[k] \in Slots
  BY ListingIs
<1> HIDE DEF l, S
<1>3. PICK m \in Nat : S = 1..m
  BY <1>2
<1>4. ASSUME NEW k \in S PROVE l[k] + 1 \in 0..(N + 1)
  <2>1. l[k] \in Slots
    BY <1>2
  <2>2. QED BY <1>3, <2>1, Positions
<1>5. IsFiniteSet(S)
  BY <1>3, Positions
<1>6. ASSUME NEW T \in SUBSET S, T # {} PROVE Max(T) \in T
  BY <1>3, <1>6, Positions
<1>7. \A T \in SUBSET S : T # {} => c[T] = Max(T) /\ c[T] \in T
  BY <1>6
<1> HIDE DEF c
<1>8. t \in X
  BY DEF Extends
<1>9. ASSUME NEW r \in X, NEW k \in S PROVE Known(r, l[k] + 1) \in X
  <2>1. r \in Seq(TableEntries) /\ Extends(r, t)
    OBVIOUS
  <2>2. Extends(Known(r, l[k] + 1), r)
    BY <1>4, <2>1, KnownExtends
  <2>3. Extends(Known(r, l[k] + 1), t)
    BY <2>1, <2>2, ExtendsOn
  <2>4. QED BY <2>3 DEF Extends
<1> HIDE DEF X
<1>10. \E f : f = [T \in SUBSET S |-> It(f, T)]
  <2> DEFINE g == [Tr \in (SUBSET S) \X X |-> IF Tr[1] = {} THEN t
                                              ELSE Known(Tr[2], l[c[Tr[1]]] + 1)]
  <2>1. g \in [(SUBSET S) \X X -> X]
    <3>1. ASSUME NEW Tr \in (SUBSET S) \X X
          PROVE  (IF Tr[1] = {} THEN t ELSE Known(Tr[2], l[c[Tr[1]]] + 1)) \in X
      <4>1. Tr[1] \in SUBSET S /\ Tr[2] \in X
        OBVIOUS
      <4>2. CASE Tr[1] = {}
        BY <1>8, <4>2
      <4>3. CASE Tr[1] # {}
        <5>1. c[Tr[1]] \in S
          BY <1>7, <4>1, <4>3
        <5>2. QED BY <1>9, <4>1, <4>3, <5>1
      <4>4. QED BY <4>2, <4>3
    <3>2. QED BY <3>1
  <2>2. \A T \in SUBSET S, r \in X : T # {} => g[<<T, r>>] = Known(r, l[c[T]] + 1)
    OBVIOUS
  <2> HIDE DEF g
  <2>3. \A T \in SUBSET S : T # {} => c[T] \in T
    BY <1>7
  <2>4. PICK f : SetRecurses(f, S, X, t, c, g)
    BY <1>5, <1>8, <2>1, <2>3, SetRecursion
  <2>5. ASSUME NEW T \in SUBSET S PROVE f[T] = It(f, T)
    <3>1. f \in [SUBSET S -> X] /\ f[T] = IF T = {} THEN t ELSE g[<<T, f[T \ {c[T]}]>>]
      BY <2>4 DEF SetRecurses
    <3>2. CASE T = {}
      BY <3>1, <3>2
    <3>3. CASE T # {}
      <4>1. f[T \ {c[T]}] \in X
        BY <3>1
      <4>2. QED BY <1>7, <2>2, <3>1, <3>3, <4>1
    <3>4. QED BY <3>2, <3>3
  <2>6. f \in [SUBSET S -> X]
    BY <2>4 DEF SetRecurses
  <2> HIDE DEF It
  <2>7. f = [T \in SUBSET S |-> It(f, T)]
    BY <2>5, <2>6
  <2>8. QED BY <2>7
<1>11. it = [T \in SUBSET S |-> It(it, T)]
  <2> HIDE DEF It
  <2>1. QED BY <1>10
<1> HIDE DEF it
<1> DEFINE A == {T \in SUBSET S : it[T] \in X}
<1>12. {} \in A
  BY <1>8, <1>11
<1>13. ASSUME NEW T \in SUBSET S, T # {}, T \ {c[T]} \in A PROVE T \in A
  <2>1. it[T \ {c[T]}] \in X /\ c[T] = Max(T) /\ Max(T) \in S
    BY <1>7, <1>13
  <2>2. it[T] = Known(it[T \ {Max(T)}], l[Max(T)] + 1)
    BY <1>11, <1>13
  <2>3. QED BY <1>9, <2>1, <2>2
<1> HIDE DEF A
<1>14. \A T \in SUBSET S : T # {} => c[T] \in T
  BY <1>7
<1>15. S \in A
  BY <1>5, <1>12, <1>13, <1>14, SetInduction
<1>16. s \in X
  BY <1>1, <1>15 DEF A
<1>17. QED BY <1>16 DEF X

(* The parts of the invariant that the handlers' proofs use. *)
LEMMA Parts ==
  ASSUME FInv
  PROVE  /\ IInv(Tidy) /\ InOrder(Tidy, fs) /\ fs.index = index /\ fs.del_begin = del_begin
         /\ data \in Contents /\ HeadsWhole(index) /\ Once(index)
         /\ Agree(inode_table, handle, index)
         /\ inode_table \in Seq(TableEntries) /\ handle \in [HandleIds -> HandleStates]
  BY DEF FInv, IInv, InOrder, NamesOK, Tidy, Contents, fs, Agree, WellTyped

(* The library is not called, or only to look something up. *)
LEMMA LooksOnly ==
  ASSUME FInv, UNCHANGED <<index, del_begin, data>>, Agree(inode_table', handle', index)
  PROVE  FInv'
<1>1. fs' = fs /\ data' = data /\ index' = index
  BY DEF fs
<1>2. IInv(Tidy)'
  BY <1>1, Parts DEF IInv
<1>3. QED BY <1>1, <1>2 DEF FInv

(* A library call, and neither the table nor the handles change. *)
LEMMA CallsOnly ==
  ASSUME FInv, InOrder(Tidy, fs)', data' \in Contents, Holds(handle, index', index),
         UNCHANGED <<inode_table, handle>>
  PROVE  FInv'
<1>1. Agree(inode_table, handle, index')
  BY Parts, IndexChanged
<1>2. IInv(Tidy)'
  BY DEF IInv, Contents
<1>3. QED BY <1>1, <1>2 DEF FInv

(* What sfs_open() finds: a file, or else a directory, of that path. *)
LEMMA OpenFinds ==
  ASSUME FInv, NEW p, sfs_open(index, p) # 0
  PROVE  LET e == sfs_open(index, p)
         IN  /\ e \in Slots /\ e \in 0..(N + 1) /\ index[e].name = p
             /\ index[e].entry_type = "FILE_ENTRY" => e = search_file(index, p)
             /\ index[e].entry_type # "FILE_ENTRY" => /\ index[e].entry_type = "DIR_ENTRY"
                                                      /\ e = search_dir(index, p)
                                                      /\ search_file(index, p) = 0
<1> DEFINE f == search_file(index, p)
           d == search_dir(index, p)
<1>1. f # 0 => f \in Slots /\ index[f].name = p /\ index[f].entry_type = "FILE_ENTRY"
  BY Parts, SearchFile
<1>2. d # 0 => d \in Slots /\ index[d].name = p /\ index[d].entry_type = "DIR_ENTRY"
  BY Parts, SearchDir
<1>3. sfs_open(index, p) = IF f # 0 THEN f ELSE d
  BY DEF sfs_open
<1> HIDE DEF f, d
<1>4. sfs_open(index, p) \in Slots
  BY <1>1, <1>2, <1>3
<1>5. sfs_open(index, p) \in 0..(N + 1)
  BY <1>4, SfsAssumption DEF Slots
<1>6. CASE f # 0
  BY <1>1, <1>3, <1>4, <1>5, <1>6 DEF f
<1>7. CASE f = 0
  BY <1>2, <1>3, <1>4, <1>5, <1>7 DEF f, d
<1>8. QED BY <1>6, <1>7

(* fuse_sfs_getattr may add an entry to the table. *)
LEMMA GetattrKeeps ==
  ASSUME FInv, NEW p, fuse_sfs_getattr(p)
  PROVE  FInv'
<1>1. /\ sfs_open(index, p) # 0 /\ inode_table' = Known(inode_table, sfs_open(index, p))
      /\ UNCHANGED <<index, del_begin, data>> /\ handle' = handle
  BY DEF fuse_sfs_getattr
<1>2. sfs_open(index, p) \in 0..(N + 1)
  BY <1>1, OpenFinds
<1>3. Extends(inode_table', inode_table)
  BY <1>1, <1>2, Parts, KnownExtends
<1>4. Agree(inode_table', handle, index)
  BY <1>3, Parts, TableExtended
<1>5. QED BY <1>1, <1>4, LooksOnly

(* fuse_sfs_readdir may add one entry to the table for each file it lists. *)
LEMMA ReaddirKeeps ==
  ASSUME FInv, NEW p, fuse_sfs_readdir(p)
  PROVE  FInv'
<1>1. /\ inode_table' = FoldLeft(LAMBDA t, i : Known(t, i + 1), inode_table, Listing(index, p))
      /\ UNCHANGED <<index, del_begin, data>> /\ handle' = handle
  BY DEF fuse_sfs_readdir
<1>2. Extends(inode_table', inode_table)
  BY <1>1, Parts, ReaddirExtends
<1>3. Agree(inode_table', handle, index)
  BY <1>2, Parts, TableExtended
<1>4. QED BY <1>1, <1>3, LooksOnly

(* fuse_sfs_mknod only enters a file's name. *)
LEMMA MknodKeeps ==
  ASSUME FInv, NEW p \in FilePaths, fuse_sfs_mknod(p)
  PROVE  FInv'
<1>1. Creat(p) /\ UNCHANGED <<inode_table, handle>> /\ data' = data
  BY DEF fuse_sfs_mknod, Creat
<1>2. /\ InOrder(Tidy, fs)'
      /\ \E new \in Slots : \E x : Named(index', index, new, x) /\ x.entry_type = "FILE_ENTRY"
  BY <1>1, Parts, CreatOrder
<1>3. PICK new \in Slots :
         \E x : Named(index', index, new, x) /\ x.entry_type = "FILE_ENTRY"
  BY <1>2
<1>4. PICK x : Named(index', index, new, x) /\ x.entry_type = "FILE_ENTRY"
  BY <1>3
<1>5. Spared(index', index, {new}) /\ ~OwnsData(index[new])
  BY <1>4, NamedSpares
<1>6. \A h \in HandleIds : handle[h].kind = "file" => handle[h].file \notin {new}
  BY <1>5, Parts DEF Agree, Reaches
<1>7. index'[new] = x /\ ~IsUnlinked(x)
  BY <1>4 DEF Named, IsUnlinked
<1>8. Holds(handle, index', index)
  BY <1>5, <1>6, <1>7, Parts, SparedHolds
<1>9. QED BY <1>1, <1>2, <1>8, Parts, CallsOnly

(* Directories come and go beside the files. *)
LEMMA NoFileTouched ==
  ASSUME FInv, NEW jx, Spared(jx, index, {})
  PROVE  Holds(handle, jx, index)
  BY Parts, SparedHolds

(* fuse_sfs_mkdir only enters a directory's name. *)
LEMMA MkdirKeeps ==
  ASSUME FInv, NEW p \in DirPaths, fuse_sfs_mkdir(p)
  PROVE  FInv'
<1>1. Mkdir(p) /\ UNCHANGED <<inode_table, handle>> /\ data' = data
  BY DEF fuse_sfs_mkdir, Mkdir
<1>2. /\ InOrder(Tidy, fs)'
      /\ \E new \in Slots : \E x : Named(index', index, new, x) /\ x.entry_type = "DIR_ENTRY"
  BY <1>1, Parts, MkdirOrder
<1>3. Spared(index', index, {})
  BY <1>2, NamedSpares
<1>4. QED BY <1>1, <1>2, <1>3, Parts, NoFileTouched, CallsOnly

(* fuse_sfs_rmdir frees a directory's entries, which no file's handle has. *)
LEMMA RmdirKeeps ==
  ASSUME FInv, NEW p \in DirPaths, fuse_sfs_rmdir(p)
  PROVE  FInv'
<1>1. Rmdir(p) /\ UNCHANGED <<inode_table, handle>> /\ data' = data
  BY DEF fuse_sfs_rmdir, Rmdir
<1>2. /\ InOrder(Tidy, fs)'
      /\ \E f \in Slots : index[f].entry_type = "DIR_ENTRY" /\ Unnamed(index', index, f)
  BY <1>1, Parts, RmdirOrder
<1>3. Spared(index', index, {})
  BY <1>2, Parts, UnnamedSpares
<1>4. QED BY <1>1, <1>2, <1>3, Parts, NoFileTouched, CallsOnly

(* A file is written or its length changes, through a handle or by path. *)
LEMMA RewriteKeeps ==
  ASSUME FInv, Unclobbered', InOrder(Tidy, fs)', data' \in Contents, NEW f \in Slots,
         RewritesOnly(index', index, f), UNCHANGED <<inode_table, handle>>
  PROVE  FInv'
<1>1. index'[f].entry_type # "CLOBBERED"
  BY DEF Unclobbered
<1>2. \A h \in HandleIds : handle[h].kind = "file" => handle[h].file \in Slots
  BY Parts DEF Agree, Reaches
<1>3. Holds(handle, index', index)
  BY <1>1, <1>2, RewriteHolds
<1>4. QED BY <1>3, CallsOnly

(* fuse_sfs_write rewrites the handle's file in place. *)
LEMMA WriteKeeps ==
  ASSUME FInv, Unclobbered', NEW h \in HandleIds, NEW s \in Spans, NEW t \in Tokens,
         fuse_sfs_write(h, s[1], s[2], t)
  PROVE  FInv'
<1> DEFINE f == handle[h].file
<1>1. /\ handle[h].kind = "file" /\ Write(get_pino(h), s[1], s[2], t)
      /\ UNCHANGED <<inode_table, handle>>
  BY DEF fuse_sfs_write
<1>2. f \in Slots /\ get_pino(h) = f
  BY <1>1, Parts, FileReached DEF get_pino
<1>3. Write(f, s[1], s[2], t)
  BY <1>1, <1>2
<1>4. InOrder(Tidy, fs)' /\ data' \in Contents /\ RewritesOnly(index', index, f)
  BY <1>2, <1>3, Parts, WriteOrder
<1> HIDE DEF f
<1>5. QED BY <1>1, <1>2, <1>4, RewriteKeeps

(* fuse_sfs_ftruncate rewrites the handle's file in place. *)
LEMMA FtruncateKeeps ==
  ASSUME FInv, Unclobbered', NEW h \in HandleIds, NEW len \in Lengths,
         fuse_sfs_ftruncate(h, len)
  PROVE  FInv'
<1> DEFINE f == handle[h].file
<1>1. /\ handle[h].kind = "file" /\ SafeTruncate(get_pino(h), len)
      /\ UNCHANGED <<inode_table, handle>>
  BY DEF fuse_sfs_ftruncate
<1>2. f \in Slots /\ get_pino(h) = f
  BY <1>1, Parts, FileReached DEF get_pino
<1>3. SafeTruncate(f, len)
  BY <1>1, <1>2
<1>4. InOrder(Tidy, fs)' /\ data' \in Contents /\ RewritesOnly(index', index, f)
  BY <1>2, <1>3, Parts, TruncateOrder
<1> HIDE DEF f
<1>5. QED BY <1>1, <1>2, <1>4, RewriteKeeps

(* fuse_sfs_truncate rewrites the path's file in place. *)
LEMMA TruncateKeeps ==
  ASSUME FInv, Unclobbered', NEW p \in FilePaths, NEW len \in Lengths,
         fuse_sfs_truncate(p, len)
  PROVE  FInv'
<1> DEFINE f == search_file(index, p)
<1>1. f # 0 /\ SafeTruncate(f, len) /\ UNCHANGED <<inode_table, handle>>
  BY DEF fuse_sfs_truncate
<1>2. f \in Slots
  BY <1>1, Parts, SearchFile
<1> HIDE DEF f
<1>3. InOrder(Tidy, fs)' /\ data' \in Contents /\ RewritesOnly(index', index, f)
  BY <1>1, <1>2, Parts, TruncateOrder
<1>4. QED BY <1>1, <1>2, <1>3, RewriteKeeps

(* A file is opened. *)
LEMMA OpenKeeps ==
  ASSUME FInv, OneHandleEach', NEW h \in HandleIds, NEW p \in FilePaths, fuse_sfs_open(h, p)
  PROVE  FInv'
<1> DEFINE pino == search_file(index, p)
           t    == Known(inode_table, pino)
           v    == get_vino(t, pino)
           x    == [kind |-> "file", vino |-> v, path |-> <<>>, file |-> pino]
<1>1. /\ handle[h] = NoHandle /\ pino # 0
      /\ inode_table' = SetOpen(t, v, TRUE) /\ handle' = [handle EXCEPT ![h] = x]
      /\ UNCHANGED <<index, del_begin, data>>
  BY DEF fuse_sfs_open, SetOpen
<1>2. pino \in Slots /\ index[pino].entry_type = "FILE_ENTRY"
  BY <1>1, Parts, SearchFile
<1> HIDE DEF pino
<1>3. pino \in 0..(N + 1) /\ pino \in Offsets
  BY <1>2, SfsAssumption DEF Slots, Offsets
<1>4. Extends(t, inode_table) /\ v \in DOMAIN t /\ t[v].pino = pino
  BY <1>3, Parts, KnownExtends
<1>5. Agree(t, handle, index) /\ t \in Seq(TableEntries)
  BY <1>4, Parts, TableExtended DEF Agree, WellTyped
<1> HIDE DEF t
<1>6. v \in Nat
  <2>1. DOMAIN t = 1..Len(t) /\ Len(t) \in Nat
    BY <1>5, LenProperties
  <2> HIDE DEF v
  <2>2. QED BY <1>4, <2>1
<1>7. v = get_vino(t, pino)
  OBVIOUS
<1> HIDE DEF v
<1>8. x \in HandleStates /\ x.kind = "file" /\ x.vino = v /\ x.file = pino
  BY <1>3, <1>6 DEF HandleStates, HandleKinds
<1> HIDE DEF x
<1>9. HandleSet(handle', handle, h, x)
  <2>1. HandleSet([handle EXCEPT ![h] = x], handle, h, x)
    BY <1>8, Parts, SetHandle
  <2>2. QED BY <1>1, <2>1
<1>10. handle[h].kind = "closed"
  BY <1>1, NoHandleState
<1>11. OneVino(handle')
  BY DEF OneHandleEach, OneVino
<1>12. Agree(inode_table', handle', index)
  BY <1>1, <1>2, <1>4, <1>5, <1>7, <1>8, <1>9, <1>10, <1>11, OpenFits
<1>13. QED BY <1>1, <1>12, LooksOnly

(* A directory is opened. *)
LEMMA OpendirKeeps ==
  ASSUME FInv, OneHandleEach', NEW h \in HandleIds, NEW p \in DirPaths, fuse_sfs_opendir(h, p)
  PROVE  FInv'
<1> DEFINE pino == sfs_open(index, p)
           t    == Known(inode_table, pino)
           v    == get_vino(t, pino)
           x    == [kind |-> "dir", vino |-> v, path |-> p, file |-> 0]
<1>1. /\ handle[h] = NoHandle /\ pino # 0
      /\ inode_table' = t /\ handle' = [handle EXCEPT ![h] = x]
      /\ UNCHANGED <<index, del_begin, data>>
  BY DEF fuse_sfs_opendir
<1>2. pino \in 0..(N + 1)
  BY <1>1, OpenFinds
<1> HIDE DEF pino
<1>3. Extends(t, inode_table) /\ v \in DOMAIN t /\ t[v].pino = pino
  BY <1>2, Parts, KnownExtends
<1>4. Agree(t, handle, index) /\ t \in Seq(TableEntries)
  BY <1>3, Parts, TableExtended DEF Agree, WellTyped
<1> HIDE DEF t
<1>5. v \in Nat
  <2>1. DOMAIN t = 1..Len(t) /\ Len(t) \in Nat
    BY <1>4, LenProperties
  <2> HIDE DEF v
  <2>2. QED BY <1>3, <2>1
<1> HIDE DEF v
<1>6. x \in HandleStates /\ x.kind = "dir" /\ x.vino = v /\ x.file = 0
  BY <1>5, SfsAssumption DEF HandleStates, HandleKinds, Offsets
<1> HIDE DEF x
<1>7. HandleSet(handle', handle, h, x)
  <2>1. HandleSet([handle EXCEPT ![h] = x], handle, h, x)
    BY <1>6, Parts, SetHandle
  <2>2. QED BY <1>1, <2>1
<1>8. handle[h].kind # "file" /\ x.kind # "file"
  BY <1>1, <1>6, NoHandleState
<1>9. OneVino(handle')
  BY DEF OneHandleEach, OneVino
<1>10. x.kind # "closed" => x.vino \in DOMAIN t /\ t[x.vino].pino # 0
  BY <1>1, <1>3, <1>6
<1>11. Agree(t, handle', index)
  BY <1>4, <1>6, <1>7, <1>8, <1>9, <1>10, DirHandleFits
<1>12. QED BY <1>1, <1>11, LooksOnly

(* A directory is closed: its vino is not dirty, so nothing is removed. *)
LEMMA ReleasedirKeeps ==
  ASSUME FInv, NEW h \in HandleIds, fuse_sfs_releasedir(h)
  PROVE  FInv'
<1>1. handle[h].kind = "dir" /\ ~(get_dirty(h) = TRUE)
  <2>1. handle[h].kind = "dir"
    BY DEF fuse_sfs_releasedir
  <2>2. QED BY <2>1, Parts, DirNotDirty DEF get_dirty
<1>2. get_dirty(h) \in BOOLEAN
  <2>1. handle[h].vino \in DOMAIN inode_table
    BY <1>1, Parts DEF Agree, WellTyped
  <2>2. inode_table[handle[h].vino] \in TableEntries
    BY <2>1, Parts, FieldsSet
  <2>3. QED BY <2>2 DEF TableEntries, get_dirty
<1>3. /\ handle' = [handle EXCEPT ![h] = NoHandle]
      /\ UNCHANGED <<index, inode_table, del_begin, data>>
  BY <1>1, <1>2 DEF fuse_sfs_releasedir, Closed
<1>4. HandleSet(handle', handle, h, NoHandle)
  <2>1. HandleSet([handle EXCEPT ![h] = NoHandle], handle, h, NoHandle)
    BY NoHandleState, Parts, SetHandle
  <2>2. QED BY <1>3, <2>1
<1>5. OneVino(handle')
  BY <1>4, Parts, ClosedOneVino
<1>6. Agree(inode_table, handle', index)
  <2>1. handle[h].kind # "file" /\ NoHandle.kind # "file"
    BY <1>1, NoHandleState
  <2>2. QED BY <1>4, <1>5, <2>1, NoHandleState, Parts, DirHandleFits
<1>7. QED BY <1>3, <1>6, LooksOnly

(* A library call after which the parts agree. *)
LEMMA AgreeAgain ==
  ASSUME InOrder(Tidy, fs)', data' \in Contents, Agree(inode_table', handle', index')
  PROVE  FInv'
  BY DEF FInv, IInv, Contents

(* No open file is at the entry from: the ghost stays as it is. *)
LEMMA NothingMoves ==
  ASSUME NEW hs \in [HandleIds -> HandleStates], NEW from, NEW to,
         \A h \in HandleIds : ~(hs[h].kind = "file" /\ hs[h].file = from)
  PROVE  Moved(hs, from, to) = hs
<1>1. Moved(hs, from, to) = [h \in HandleIds |-> hs[h]]
  BY DEF Moved
<1>2. QED BY <1>1

(* A file is closed; if it was unlinked, it is deleted. *)
LEMMA ReleaseFileKeeps ==
  ASSUME FInv, NEW h \in HandleIds, fuse_sfs_release(h)
  PROVE  FInv'
<1> DEFINE v == handle[h].vino
           f == handle[h].file
           c == Closed(h)
<1>1. handle[h].kind = "file" /\ data' = data
  BY DEF fuse_sfs_release
<1>2. /\ v \in DOMAIN inode_table /\ inode_table[v] \in TableEntries /\ f \in Slots
      /\ inode_table[v].pino = f /\ Reaches(inode_table, handle[h], index)
  BY <1>1, Parts, FileReached
<1>3. get_pino(h) = f /\ get_dirty(h) = inode_table[v].dirty /\ inode_table[v].dirty \in BOOLEAN
  BY <1>2 DEF get_pino, get_dirty, TableEntries
<1>4. /\ c \in [HandleIds -> HandleStates]
      /\ HandleSet(c, handle, h, NoHandle)
  <2>1. HandleSet([handle EXCEPT ![h] = NoHandle], handle, h, NoHandle)
    BY NoHandleState, Parts, SetHandle
  <2>2. QED BY <2>1 DEF Closed, HandleSet
<1> HIDE DEF c
<1>5. CASE inode_table[v].dirty = TRUE
  <2>1. /\ Becomes(sfs_delete(fs, f))
        /\ inode_table' = set_pino(SetOpen(inode_table, v, FALSE), v, 0)
        /\ handle' = Moved(c, f, 0)
    BY <1>3, <1>5 DEF fuse_sfs_release, SetOpen, c
  <2>2. Delete(f)
    BY <1>1, <1>2, <1>5, <2>1 DEF Reaches, Delete
  <2>3. InOrder(Tidy, fs)' /\ Spared(index', index, {f}) /\ ~OwnsData(index'[f])
    BY <1>2, <2>2, Parts, DeleteOrder
  <2>4. \A g \in HandleIds : ~(c[g].kind = "file" /\ c[g].file = f)
    <3>1. ASSUME NEW g \in HandleIds, c[g].kind = "file" PROVE c[g].file # f
      <4>1. g # h /\ c[g] = handle[g]
        BY <1>4, <3>1, NoHandleState DEF HandleSet
      <4>2. QED BY <1>1, <3>1, <4>1, Parts, FilesApart
    <3>2. QED BY <3>1
  <2>5. handle' = c
    BY <1>4, <2>1, <2>4, NothingMoves
  <2>6. HandleSet(handle', handle, h, NoHandle)
    BY <1>4, <2>5
  <2>7. Agree(inode_table', handle', index')
    BY <1>1, <1>5, <2>1, <2>3, <2>6, Parts, DeleteFits
  <2>8. QED BY <1>1, <2>3, <2>7, Parts, AgreeAgain
<1>6. CASE inode_table[v].dirty # TRUE
  <2>1. /\ inode_table' = SetOpen(inode_table, v, FALSE) /\ handle' = c
        /\ UNCHANGED <<index, del_begin, data>>
    BY <1>1, <1>3, <1>6 DEF fuse_sfs_release, SetOpen, c
  <2>2. HandleSet(handle', handle, h, NoHandle)
    BY <1>4, <2>1
  <2>3. Agree(inode_table', handle', index)
    BY <1>1, <1>6, <2>1, <2>2, Parts, CloseFits
  <2>4. QED BY <2>1, <2>3, LooksOnly
<1>7. QED BY <1>5, <1>6

(* An open file is unlinked: the table's entry becomes dirty. *)
LEMMA UnlinkOpenKeeps ==
  ASSUME FInv, NEW p \in FilePaths, search_file(index, p) # 0, MayUnlink,
         NEW v, v = get_vino(inode_table, search_file(index, p)), v # 0,
         inode_table[v].openbit = TRUE,
         Becomes(Reindexed(fs, sfs_unlink(fs.index, p))),
         inode_table' = SetDirty(inode_table, v, TRUE), handle' = handle, data' = data
  PROVE  FInv'
<1> DEFINE f == search_file(index, p)
           w == Reindexed(fs, sfs_unlink(fs.index, p))
<1>1. /\ f \in Slots /\ InOrder(Tidy, w) /\ IsUnlinked(w.index[f])
      /\ \A i \in Slots : i # f => w.index[i] = index[i]
  <2>1. InOrder(Tidy, fs) /\ fs.index = index
    BY Parts
  <2>2. f = search_file(fs.index, p) /\ f # 0
    BY <2>1
  <2> HIDE DEF f
  <2>3. /\ f \in Slots /\ InOrder(Tidy, w) /\ IsUnlinked(w.index[f])
        /\ \A i \in Slots : i # f => w.index[i] = fs.index[i]
    BY <2>1, <2>2, UnlinkedFile
  <2>4. QED BY <2>1, <2>3
<1> HIDE DEF w
<1>2. index' = w.index /\ InOrder(Tidy, fs)'
  BY <1>1, OrderShaped, NextState DEF w
<1>3. v \in DOMAIN inode_table /\ inode_table[v].pino = f
  BY Parts, GetVino
<1> HIDE DEF f
<1>4. PICK h \in HandleIds : handle[h].kind = "file" /\ handle[h].vino = v
  BY <1>3, Parts DEF Agree, BitsOK, OpenFile
<1>5. f = handle[h].file
  BY <1>3, <1>4, Parts, FileReached
<1>6. Agree(inode_table', handle, index')
  <2>1. Agree(inode_table, handle, index) /\ inode_table' = SetDirty(inode_table, handle[h].vino, TRUE)
    BY <1>4, Parts
  <2>2. IsUnlinked(index'[handle[h].file]) /\ AllBut(index', index, handle[h].file)
    BY <1>1, <1>2, <1>5 DEF AllBut
  <2>3. QED BY <1>4, <2>1, <2>2, UnlinkFits
<1>7. QED BY <1>2, <1>6, Parts, AgreeAgain

(* A file that is not open is unlinked, which deletes it. *)
LEMMA UnlinkClosedKeeps ==
  ASSUME FInv, NEW p \in FilePaths, search_file(index, p) # 0,
         NEW v, v = get_vino(inode_table, search_file(index, p)),
         v # 0 => inode_table[v].openbit # TRUE,
         Becomes(sfs_delete(Reindexed(fs, sfs_unlink(fs.index, p)), search_file(index, p))),
         inode_table' = IF v = 0 THEN inode_table ELSE set_pino(inode_table, v, 0),
         handle' = Moved(handle, search_file(index, p), 0), data' = data
  PROVE  FInv'
<1> DEFINE f == search_file(index, p)
           u == Reindexed(fs, sfs_unlink(fs.index, p))
           w == sfs_delete(u, f)
<1>1. /\ f \in Slots /\ InOrder(Tidy, u) /\ IsUnlinked(u.index[f])
      /\ \A i \in Slots : i # f => u.index[i] = index[i]
  <2>1. InOrder(Tidy, fs) /\ fs.index = index
    BY Parts
  <2>2. f = search_file(fs.index, p) /\ f # 0
    BY <2>1
  <2> HIDE DEF f
  <2>3. /\ f \in Slots /\ InOrder(Tidy, u) /\ IsUnlinked(u.index[f])
        /\ \A i \in Slots : i # f => u.index[i] = fs.index[i]
    BY <2>1, <2>2, UnlinkedFile
  <2>4. QED BY <2>1, <2>3
<1> HIDE DEF u
<1>2. OwnsData(u.index[f])
  BY <1>1, Kinds
<1>3. InOrder(Tidy, w) /\ Spared(w.index, u.index, {f}) /\ ~OwnsData(w.index[f])
  BY <1>1, <1>2, DeletedFile
<1>4. Becomes(w)
  BY DEF u
<1> HIDE DEF w
<1>5. index' = w.index /\ InOrder(Tidy, fs)'
  BY <1>3, <1>4, OrderShaped, NextState
<1>6. Spared(index', index, {f}) /\ ~IsUnlinked(index'[f])
  BY <1>1, <1>3, <1>5, Kinds DEF Spared
<1>7. ASSUME NEW h \in HandleIds, handle[h].kind = "file" PROVE handle[h].file # f
  <2>1. /\ get_vino(inode_table, handle[h].file) = handle[h].vino /\ handle[h].vino # 0
        /\ inode_table[handle[h].vino].openbit = TRUE
    <3>1. Agree(inode_table, handle, index)
      BY Parts
    <3>2. /\ get_vino(inode_table, handle[h].file) = handle[h].vino /\ handle[h].vino # 0
          /\ Reaches(inode_table, handle[h], index)
      BY <1>7, <3>1, FileReached
    <3>3. QED BY <3>2 DEF Reaches
  <2>2. QED BY <2>1
<1>8. Holds(handle, index', index)
  BY <1>6, <1>7, Parts, SparedHolds
<1>9. Agree(inode_table, handle, index')
  BY <1>8, Parts, IndexChanged
<1>10. handle' = handle
  BY <1>7, Parts, NothingMoves
<1>11. Agree(inode_table', handle, index')
  <2>1. CASE v = 0
    BY <1>9, <2>1
  <2>2. CASE v # 0
    <3>1. v \in DOMAIN inode_table /\ inode_table[v].pino = f
      BY <2>2, Parts, GetVino
    <3>2. 0 \in 0..(N + 1) /\ f # 0 /\ \A i \in Slots : i # 0
      BY <1>1, SfsAssumption DEF Slots
    <3>3. \A h \in HandleIds : handle[h].kind = "file" => handle[h].file \notin {inode_table[v].pino, 0}
      BY <1>7, <3>1, <3>2, Parts DEF Agree, Reaches
    <3>4. inode_table' = set_pino(inode_table, v, 0)
      BY <2>2
    <3> HIDE DEF f
    <3>5. QED BY <1>9, <3>1, <3>2, <3>3, <3>4, PinoMoved
  <2>3. QED BY <2>1, <2>2
<1>12. QED BY <1>5, <1>10, <1>11, Parts, AgreeAgain

(* fuse_sfs_unlink: an open file is hidden and marked dirty, a closed one deleted. *)
LEMMA UnlinkKeeps ==
  ASSUME FInv, NEW p \in FilePaths, fuse_sfs_unlink(p)
  PROVE  FInv'
<1> DEFINE f == search_file(index, p)
           v == get_vino(inode_table, f)
<1>1. f # 0 /\ data' = data /\ fs.index = index
  BY DEF fuse_sfs_unlink, fs
<1>2. v # 0 => inode_table[v].openbit \in BOOLEAN
  <2>1. ASSUME v # 0 PROVE inode_table[v] \in TableEntries
    BY <2>1, Parts, GetVino, FieldsSet
  <2>2. QED BY <2>1 DEF TableEntries
<1>3. CASE v # 0 /\ inode_table[v].openbit = TRUE
  <2>1. /\ MayUnlink /\ Becomes(Reindexed(fs, sfs_unlink(fs.index, p)))
        /\ inode_table' = SetDirty(inode_table, v, TRUE) /\ handle' = handle
    BY <1>3 DEF fuse_sfs_unlink, Reindexed, SetDirty
  <2>2. QED BY <1>1, <1>3, <2>1, UnlinkOpenKeeps
<1>4. CASE ~(v # 0 /\ inode_table[v].openbit = TRUE)
  <2>1. /\ Becomes(sfs_delete(Reindexed(fs, sfs_unlink(fs.index, p)), f))
        /\ inode_table' = IF v = 0 THEN inode_table ELSE set_pino(inode_table, v, 0)
        /\ handle' = Moved(handle, f, 0)
    BY <1>2, <1>4 DEF fuse_sfs_unlink, Reindexed
  <2>2. v # 0 => inode_table[v].openbit # TRUE
    BY <1>4
  <2>3. QED BY <1>1, <2>1, <2>2, UnlinkClosedKeeps
<1>5. QED BY <1>3, <1>4

(* The table learns of a new place, and no file is open at it or the old.   *)
LEMMA RetabledFits ==
  ASSUME NEW t, NEW hs, NEW ix, Agree(t, hs, ix), NEW old \in Slots, NEW new \in Slots,
         \A h \in HandleIds : hs[h].kind = "file" => hs[h].file \notin {old, new},
         NEW s, s = Retabled(t, old, new)
  PROVE  Agree(s, hs, ix)
<1>1. t \in Seq(TableEntries) /\ new \in 0..(N + 1) /\ old # 0
  BY SfsAssumption DEF Agree, WellTyped, Slots
<1>2. CASE get_vino(t, old) = 0
  <2>1. s = pino_add(t, new)
    BY <1>2 DEF Retabled
  <2>2. Extends(s, t)
    BY <1>1, <2>1, PinoAdd
  <2>3. QED BY <2>2, TableExtended
<1>3. CASE get_vino(t, old) # 0
  <2> DEFINE v == get_vino(t, old)
  <2>1. v \in DOMAIN t /\ t[v].pino = old
    BY <1>1, <1>3, GetVino
  <2>2. s = set_pino(t, v, new)
    BY <1>3 DEF Retabled
  <2> HIDE DEF v
  <2>3. \A h \in HandleIds : hs[h].kind = "file" => hs[h].file \notin {t[v].pino, new}
    BY <2>1
  <2>4. QED BY <1>1, <2>1, <2>2, <2>3, PinoMoved
<1>4. QED BY <1>2, <1>3

(* A directory is removed and made again: no file is touched, and where it  *)
(* was made again there is none.                                            *)
LEMMA DirRenamed ==
  ASSUME NEW u, InOrder(Tidy, u), NEW p \in FilePaths \cup DirPaths, NEW q \in FilePaths \cup DirPaths,
         search_file(u.index, q) = 0,
         NEW dir, dir = rename_dir(u.index, p, q), dir.ok,
         NEW v, v = Reindexed(u, dir.index)
  PROVE  /\ InOrder(Tidy, v) /\ v.index = dir.index /\ v.del_begin = u.del_begin
         /\ Spared(v.index, u.index, {})
         /\ dir.off # 0 => /\ dir.off \in Slots /\ v.index[dir.off].entry_type = "DIR_ENTRY"
                           /\ dir.off = search_dir(v.index, q)
<1> DEFINE removed == sfs_rmdir(u.index, p)
           made    == sfs_mkdir(removed.index, q)
           w       == Reindexed(u, removed.index)
           z       == Reindexed(w, made.index)
<1>1. /\ removed.ok /\ dir.index = made.index
      /\ dir.off = IF made.ok THEN sfs_open(made.index, q) ELSE 0
  BY DEF rename_dir
<1>2. u \in State
  BY OrderShaped
<1>3. /\ InOrder(Tidy, w) /\ w.index = removed.index /\ w.del_begin = u.del_begin
      /\ \E f \in Slots : u.index[f].entry_type = "DIR_ENTRY" /\ Unnamed(w.index, u.index, f)
  <2> HIDE DEF removed
  <2>1. removed = sfs_rmdir(u.index, p)
    BY DEF removed
  <2>2. QED BY <1>1, <2>1, RemovedDir
<1>4. Spared(w.index, u.index, {})
  <2>1. PICK f \in Slots : u.index[f].entry_type = "DIR_ENTRY" /\ Unnamed(w.index, u.index, f)
    BY <1>3
  <2> DEFINE jx == w.index
  <2> HIDE DEF w
  <2>2. Unnamed(jx, u.index, f)
    BY <2>1
  <2> HIDE DEF jx
  <2>3. Spared(jx, u.index, {})
    BY <2>1, <2>2, UnnamedSpares
  <2>4. QED BY <2>3 DEF jx
<1>5. v = z
  BY <1>1, <1>2 DEF Reindexed, State
<1>6. made = sfs_mkdir(w.index, q)
  BY <1>3
<1> HIDE DEF removed, made, w, z
<1>7. CASE made.ok
  <2>1. /\ InOrder(Tidy, z) /\ z.index = made.index /\ z.del_begin = w.del_begin
        /\ \E new \in Slots : \E x : /\ Named(z.index, w.index, new, x)
                                     /\ x.entry_type = "DIR_ENTRY" /\ x.name = q
    <3>1. z = Reindexed(w, made.index)
      BY DEF z
    <3>2. QED BY <1>3, <1>6, <1>7, <3>1, MadeDir
  <2>2. PICK new \in Slots : \E x : /\ Named(z.index, w.index, new, x)
                                    /\ x.entry_type = "DIR_ENTRY" /\ x.name = q
    BY <2>1
  <2>3. Spared(z.index, w.index, {})
    BY <2>2, NamedSpares
  <2>4. Spared(z.index, u.index, {})
    BY <1>4, <2>3, BothSpare
  <2>5. search_file(z.index, q) = 0
    <3>1. HeadsWhole(u.index) /\ HeadsWhole(z.index)
      BY <2>1 DEF InOrder, NamesOK
    <3>2. \A i \in Slots : ~(u.index[i].entry_type = "FILE_ENTRY" /\ u.index[i].name = q)
      BY <3>1, SearchFile
    <3>3. ASSUME NEW i \in Slots, z.index[i].entry_type = "FILE_ENTRY" PROVE z.index[i] = u.index[i]
      BY <2>4, <3>3, Kinds DEF Spared
    <3>4. \A i \in Slots : ~(z.index[i].entry_type = "FILE_ENTRY" /\ z.index[i].name = q)
      BY <3>2, <3>3
    <3>5. QED BY <3>1, <3>4, SearchFile
  <2>6. DirNamed(z.index, q)
    BY <2>2 DEF Named, DirNamed
  <2>7. LET d == search_dir(z.index, q)
        IN  d # 0 /\ d \in Slots /\ z.index[d].entry_type = "DIR_ENTRY"
    BY <2>1, <2>6, SearchDir DEF InOrder, NamesOK
  <2>8. dir.off = search_dir(z.index, q)
    BY <1>1, <1>7, <2>1, <2>5 DEF sfs_open
  <2>9. QED BY <1>1, <1>3, <1>5, <2>1, <2>4, <2>7, <2>8
<1>8. CASE ~made.ok
  <2>1. made.index = w.index
    BY <1>6, <1>8 DEF sfs_mkdir
  <2>2. w \in State
    BY <1>3, OrderShaped
  <2>3. z = w
    BY <2>1, <2>2 DEF Reindexed, State, z
  <2>4. dir.off = 0
    BY <1>1, <1>8
  <2>5. QED BY <1>1, <1>3, <1>4, <1>5, <2>1, <2>3, <2>4
<1>9. QED BY <1>7, <1>8

(* A directory is renamed. *)
LEMMA RenameDirKeeps ==
  ASSUME FInv, NEW p \in FilePaths \cup DirPaths, NEW q \in FilePaths \cup DirPaths,
         NEW old, old = sfs_open(index, p), old # 0, index[old].entry_type = "DIR_ENTRY",
         search_file(index, q) = 0,
         NEW dir, dir = rename_dir(index, p, q), dir.ok, index' = dir.index,
         inode_table' = IF dir.off \in {0, old} THEN inode_table
                        ELSE Retabled(inode_table, old, dir.off),
         del_begin' = del_begin, handle' = handle, data' = data
  PROVE  FInv'
<1> DEFINE v == Reindexed(fs, dir.index)
<1>1. /\ InOrder(Tidy, v) /\ v.index = dir.index /\ v.del_begin = del_begin
      /\ Spared(v.index, index, {})
      /\ dir.off # 0 => dir.off \in Slots /\ v.index[dir.off].entry_type = "DIR_ENTRY"
  BY Parts, DirRenamed
<1> HIDE DEF v
<1>2. index' = v.index /\ InOrder(Tidy, fs)'
  <2>1. Becomes(v)
    BY <1>1 DEF Becomes
  <2>2. QED BY <1>1, <2>1, OrderShaped, NextState
<1>3. Agree(inode_table, handle, index')
  BY <1>1, <1>2, Parts, NoFileTouched, IndexChanged
<1>4. Agree(inode_table', handle, index')
  <2>1. CASE dir.off \in {0, old}
    BY <1>3, <2>1
  <2>2. CASE dir.off \notin {0, old}
    <3>1. ~OwnsData(index[old]) /\ ~OwnsData(index'[dir.off]) /\ old \in Slots /\ dir.off \in Slots
      BY <1>1, <1>2, <2>2, OpenFinds, Kinds
    <3>2. \A h \in HandleIds : handle[h].kind = "file" => handle[h].file \notin {old, dir.off}
      BY <1>3, <3>1, Parts DEF Agree, Reaches
    <3>3. inode_table' = Retabled(inode_table, old, dir.off)
      BY <2>2
    <3>4. QED BY <1>3, <3>1, <3>2, <3>3, RetabledFits
  <2>3. QED BY <2>1, <2>2
<1>5. QED BY <1>2, <1>4, Parts, AgreeAgain

(* The index after the renaming of a file, and what it does to the files. *)
LEMMA FileRenamed ==
  ASSUME InOrder(Tidy, fs), NEW old \in Slots, NEW q \in FilePaths \cup DirPaths, SafeRename(old, q),
         NEW new, new = sfs_rename(fs, old, q).off
  PROVE  /\ InOrder(Tidy, fs)' /\ new \in Slots /\ new # old
         /\ index[old].entry_type = "FILE_ENTRY" /\ ~OwnsData(index[new])
         /\ Spared(index', index, {old, new})
         /\ index'[new].entry_type = "FILE_ENTRY" /\ ~OwnsData(index'[old])
<1>1. /\ InOrder(Tidy, fs)' /\ fs.index = index /\ index[old].entry_type = "FILE_ENTRY"
      /\ \E jx, x : \E n \in Slots :
            /\ n = sfs_rename(fs, old, q).off
            /\ Unnamed(jx, index, old) /\ Named(index', jx, n, x)
            /\ x.entry_type = "FILE_ENTRY"
            /\ \A i \in n..(n + x.cont_entries) : index[i].entry_type = "UNUSED_ENTRY"
  BY RenameOrder DEF fs
<1>2. PICK jx, x : \E n \in Slots :
            /\ n = sfs_rename(fs, old, q).off
            /\ Unnamed(jx, index, old) /\ Named(index', jx, n, x)
            /\ x.entry_type = "FILE_ENTRY"
            /\ \A i \in n..(n + x.cont_entries) : index[i].entry_type = "UNUSED_ENTRY"
  BY <1>1
<1>3. /\ new \in Slots /\ Unnamed(jx, index, old) /\ Named(index', jx, new, x)
      /\ x.entry_type = "FILE_ENTRY"
      /\ \A i \in new..(new + x.cont_entries) : index[i].entry_type = "UNUSED_ENTRY"
  BY <1>2
<1>4. new \in new..(new + x.cont_entries) /\ x.cont_entries \in Nat /\ new \in Nat
  BY <1>3 DEF Named, Slots
<1>5. index[new].entry_type = "UNUSED_ENTRY" /\ new # old
  BY <1>1, <1>3, <1>4
<1>6. ~OwnsData(index[new])
  BY <1>5 DEF OwnsData, IsUnlinked
<1>7. Spared(jx, index, {old}) /\ jx[old] = UnusedEntry
  BY <1>1, <1>3, UnnamedSpares
<1>8. Spared(index', jx, {new})
  BY <1>3, NamedSpares
<1>9. Spared(index', index, {old, new})
  <2>1. Spared(index', index, {old} \cup {new})
    BY <1>7, <1>8, BothSpare
  <2>2. {old} \cup {new} = {old, new}
    OBVIOUS
  <2>3. QED BY <2>1, <2>2
<1>10. index'[new] = x
  BY <1>3 DEF Named
<1>11. ~OwnsData(index'[old])
  <2>1. old \notin new..(new + x.cont_entries)
    BY <1>1, <1>3
  <2>2. old \notin (new + 1)..(new + x.cont_entries)
    BY <1>4, <2>1 DEF Slots
  <2>3. index'[old] = jx[old]
    BY <1>3, <1>5, <2>2 DEF Named
  <2>4. QED BY <1>7, <2>3, UnusedFields, Kinds
<1>12. QED BY <1>1, <1>3, <1>5, <1>6, <1>9, <1>10, <1>11

(* A file is renamed; the ghost of its handle, if it is open, moves with it *)
(* to an entry that the table does not have.                                *)
LEMMA RenameFileKeeps ==
  ASSUME FInv, NoStaleTarget, NEW old \in Slots, NEW q \in FilePaths \cup DirPaths,
         SafeRename(old, q), NEW new, new = sfs_rename(fs, old, q).off,
         inode_table' = Retabled(inode_table, old, new), handle' = Moved(handle, old, new),
         data' = data
  PROVE  FInv'
<1>1. /\ InOrder(Tidy, fs)' /\ new \in Slots /\ new # old
      /\ index[old].entry_type = "FILE_ENTRY" /\ ~OwnsData(index[new])
      /\ Spared(index', index, {old, new})
      /\ index'[new].entry_type = "FILE_ENTRY" /\ ~OwnsData(index'[old])
  <2>1. InOrder(Tidy, fs)
    BY Parts
  <2>2. QED BY <2>1, FileRenamed
<1>2. ~IsUnlinked(index[old]) /\ ~IsUnlinked(index'[old]) /\ ~IsUnlinked(index'[new])
  BY <1>1, Kinds DEF IsUnlinked
<1>3. new \in Offsets /\ new # 0
  BY <1>1, SfsAssumption DEF Slots, Offsets
<1>4. CASE \E h \in HandleIds : handle[h].kind = "file" /\ handle[h].file = old
  <2>1. PICK h \in HandleIds : handle[h].kind = "file" /\ handle[h].file = old
    BY <1>4
  <2> DEFINE v == handle[h].vino
             x == [handle[h] EXCEPT !.file = new]
  <2>2. /\ v \in DOMAIN inode_table /\ get_vino(inode_table, old) = v /\ v # 0
        /\ handle[h] \in HandleStates
    BY <2>1, Parts, FileReached
  <2>3. x \in HandleStates /\ x.kind = "file" /\ x.vino = v /\ x.file = new
    BY <1>3, <2>1, <2>2 DEF HandleStates
  <2>4. handle'[h] = x
    BY <2>1 DEF Moved
  <2> HIDE DEF x, v
  <2>5. HandleSet(handle', handle, h, x)
    <3>1. ASSUME NEW g \in HandleIds, g # h PROVE handle'[g] = handle[g]
      <4>1. ~(handle[g].kind = "file" /\ handle[g].file = old)
        BY <2>1, <3>1, Parts, FilesApart
      <4>2. QED BY <4>1 DEF Moved
    <3>2. \A g \in HandleIds : handle'[g] \in HandleStates
      <4>1. ASSUME NEW g \in HandleIds PROVE handle'[g] \in HandleStates
        <5>1. CASE g = h
          BY <2>3, <2>4, <5>1
        <5>2. CASE g # h
          BY <3>1, <5>2, Parts
        <5>3. QED BY <5>1, <5>2
      <4>2. QED BY <4>1
    <3>3. handle' = [g \in HandleIds |-> handle'[g]]
      BY DEF Moved
    <3>4. handle' \in [HandleIds -> HandleStates]
      BY <3>2, <3>3
    <3>5. QED BY <2>4, <3>1, <3>4 DEF HandleSet
  <2>6. get_vino(inode_table, new) = 0
    <3>1. handle'[h].file \notin {0, handle[h].file}
      BY <1>1, <1>3, <2>1, <2>3, <2>4
    <3>2. get_vino(inode_table, handle'[h].file) = 0
      BY <2>1, <3>1 DEF NoStaleTarget
    <3>3. QED BY <2>3, <2>4, <3>2
  <2>7. inode_table' = set_pino(inode_table, v, new)
    BY <2>2 DEF Retabled
  <2>8. v = handle[h].vino /\ old = handle[h].file
    BY <2>1 DEF v
  <2>9. Agree(inode_table', handle', index')
    BY <1>1, <1>2, <2>1, <2>3, <2>5, <2>6, <2>7, <2>8, Parts, MoveFits
  <2>10. QED BY <1>1, <2>9, Parts, AgreeAgain
<1>5. CASE \A h \in HandleIds : ~(handle[h].kind = "file" /\ handle[h].file = old)
  <2>1. handle' = handle
    BY <1>5, Parts, NothingMoves
  <2>2. \A h \in HandleIds : handle[h].kind = "file" => handle[h].file \notin {old, new}
    BY <1>1, <1>5, Parts DEF Agree, Reaches
  <2>3. Holds(handle, index', index)
    BY <1>1, <1>2, <2>2, Parts, SparedHolds
  <2>4. Agree(inode_table, handle, index')
    BY <2>3, Parts, IndexChanged
  <2>5. Agree(inode_table', handle, index')
    BY <1>1, <2>2, <2>4, RetabledFits
  <2>6. QED BY <1>1, <2>1, <2>5, Parts, AgreeAgain
<1>6. QED BY <1>4, <1>5

(* fuse_sfs_rename moves the file's entry, and its table entry follows. *)
LEMMA RenameKeeps ==
  ASSUME FInv, NoStaleTarget, NEW p \in FilePaths \cup DirPaths, NEW q \in FilePaths \cup DirPaths,
         index[sfs_open(index, p)].start_block = 0, fuse_sfs_rename(p, q)
  PROVE  FInv'
<1> DEFINE old == sfs_open(index, p)
           dir == rename_dir(index, p, q)
           new == sfs_rename(fs, old, q).off
<1>1. old # 0 /\ data' = data
  BY DEF fuse_sfs_rename
<1>2. old \in Slots
  BY <1>1, OpenFinds
<1>3. CASE /\ index[old].entry_type = "DIR_ENTRY" /\ search_file(index, q) = 0
           /\ dir.ok /\ index' = dir.index
           /\ inode_table' = IF dir.off \in {0, old} THEN inode_table
                             ELSE Retabled(inode_table, old, dir.off)
           /\ UNCHANGED <<del_begin, handle>>
  <2> HIDE DEF dir
  <2>1. dir = rename_dir(index, p, q) /\ old = sfs_open(index, p)
    BY DEF dir
  <2> HIDE DEF old
  <2>2. QED BY <1>1, <1>3, <2>1, RenameDirKeeps
<1>4. CASE /\ new # 0 /\ Becomes(sfs_rename(fs, old, q).u)
           /\ inode_table' = Retabled(inode_table, old, new)
           /\ handle' = Moved(handle, old, new)
  <2>1. SafeRename(old, q)
    BY <1>1, <1>4 DEF SafeRename, Rename
  <2> HIDE DEF old
  <2>2. QED BY <1>1, <1>2, <1>4, <2>1, RenameFileKeeps
<1>5. QED BY <1>3, <1>4 DEF fuse_sfs_rename

(* Every handler keeps the invariant. *)
LEMMA FuseStep ==
  ASSUME FInv, [PoliteNext]_fvars, Unclobbered'
  PROVE  FInv'
<1>1. ASSUME Lookups PROVE FInv'
  BY <1>1, GetattrKeeps, ReaddirKeeps DEF Lookups
<1>2. ASSUME Namespace PROVE FInv'
  BY <1>2, MknodKeeps, UnlinkKeeps, MkdirKeeps, RmdirKeeps DEF Namespace
<1>3. ASSUME Data PROVE FInv'
  BY <1>3, WriteKeeps, FtruncateKeeps, TruncateKeeps DEF Data
<1>4. ASSUME Opens, OneHandleEach' PROVE FInv'
  BY <1>4, OpenKeeps, OpendirKeeps DEF Opens
<1>5. ASSUME Releases PROVE FInv'
  BY <1>5, ReleaseFileKeeps, ReleasedirKeeps DEF Releases
<1>6. ASSUME Renames, NoStaleTarget PROVE FInv'
  BY <1>6, RenameKeeps DEF Renames, Paths
<1>7. CASE UNCHANGED fvars
  <2>1. UNCHANGED <<index, del_begin, data, inode_table, handle>>
    BY <1>7 DEF fvars
  <2>2. Agree(inode_table', handle', index)
    BY <2>1, Parts
  <2>3. QED BY <2>1, <2>2, LooksOnly
<1>8. QED BY <1>1, <1>2, <1>3, <1>4, <1>5, <1>6, <1>7 DEF PoliteNext, FuseNext

(* No file is open at first. *)
LEMMA FuseStart == ASSUME FuseInit PROVE FInv
<1>1. IInv(Tidy) /\ InOrder(Tidy, fs) /\ fs.index = index
  BY InitOrder DEF FuseInit, IInv, fs
<1>2. inode_table \in Seq(TableEntries) /\ DOMAIN inode_table = {}
  BY DEF FuseInit
<1>3. handle \in [HandleIds -> HandleStates] /\ \A h \in HandleIds : handle[h] = NoHandle
  BY NoHandleState DEF FuseInit
<1>4. \A h \in HandleIds : handle[h].kind = "closed" /\ handle[h].file = 0
  BY <1>3, NoHandleState
<1>5. \A i \in Slots : ~IsUnlinked(index[i])
  <2>1. \A i \in Offsets : index[i] = CASE i = 0 -> NoEntry("BOOT_CODE")
                                        [] i = 1 -> NoEntry("START_ENTRY")
                                        [] i = 2 -> FreeEntry(Lo, Hi, 0, 0)
                                        [] i = 3 -> NoEntry("DIR_ENTRY")
                                        [] OTHER -> UnusedEntry
    BY DEF FuseInit, Init
  <2>2. \A i \in Slots : i \in Offsets /\ i # 0
    BY SfsAssumption DEF Slots, Offsets
  <2>3. FreeEntry(Lo, Hi, 0, 0).name = FreeName
    BY DEF FreeEntry, NoEntry
  <2>4. \A i \in Slots : index[i].entry_type = "DEL_FILE_ENTRY" => index[i].name = FreeName
    <3>1. /\ NoEntry("START_ENTRY").entry_type = "START_ENTRY"
          /\ NoEntry("DIR_ENTRY").entry_type = "DIR_ENTRY"
          /\ UnusedEntry.entry_type = "UNUSED_ENTRY"
      BY DEF NoEntry, UnusedEntry
    <3>2. ASSUME NEW i \in Slots, index[i].entry_type = "DEL_FILE_ENTRY" PROVE i = 2
      <4> HIDE DEF NoEntry, UnusedEntry, FreeEntry
      <4>1. QED BY <2>1, <2>2, <3>1, <3>2
    <3>3. index[2] = FreeEntry(Lo, Hi, 0, 0)
      <4> HIDE DEF NoEntry, UnusedEntry, FreeEntry
      <4>1. 2 \in Offsets
        BY SfsAssumption DEF Offsets
      <4>2. QED BY <2>1, <4>1
    <3>4. QED BY <2>3, <3>2, <3>3
  <2>5. QED BY <2>4 DEF IsUnlinked
<1>6. WellTyped(inode_table, handle) /\ BitsOK(inode_table, handle) /\ OneVino(handle)
  BY <1>2, <1>3, <1>4 DEF WellTyped, BitsOK, OneVino
<1>7. UnlinkedOpen(handle, index)
  BY <1>5 DEF UnlinkedOpen
<1>8. \A h \in HandleIds : handle[h].kind = "file" => Reaches(inode_table, handle[h], index)
  BY <1>4
<1>9. QED BY <1>1, <1>6, <1>7, <1>8 DEF FInv, Agree

-----------------------------------------------------------------------------
(* What the handlers do to the blocks: the accounting of SfsSpace is kept.  *)

(* Only entries that hold no blocks are different in e2. *)
HoldersSame(e, e2) ==
    \A i \in Slots : \/ e2[i] = e[i]
                     \/ /\ ~SP!Holds(e[i])
                        /\ e2[i] \in {Space!Unused, Space!Other, Space!Empty}

(* Then the accounting is kept, *)
LEMMA StillAccounted ==
  ASSUME SP!IInv, HoldersSame(AbsEnt, AbsEnt')
  PROVE  SP!IInv'
<1> DEFINE C == {i \in Slots : AbsEnt'[i] # AbsEnt[i]}
<1>1. C \in SUBSET Slots /\ \A i \in Slots \ C : AbsEnt'[i] = AbsEnt[i]
  OBVIOUS
<1>2. \A i \in C : ~SP!Holds(AbsEnt[i])
  BY DEF HoldersSame
<1>3. \A i \in C : AbsEnt'[i] \in {Space!Unused, Space!Other, Space!Empty}
  BY DEF HoldersSame
<1> HIDE DEF C
<1>4. QED BY <1>1, <1>2, <1>3, Renamed

(* and two changes of the kind are one. *)
LEMMA HoldersSameTwice ==
  ASSUME NEW e, NEW e1, NEW e2, HoldersSame(e, e1), HoldersSame(e1, e2)
  PROVE  HoldersSame(e, e2)
<1>1. \A x \in {Space!Unused, Space!Other, Space!Empty} : ~SP!Holds(x)
  BY Bridge, AreaOK, SP!Constructors
<1>2. QED BY <1>1 DEF HoldersSame

(* A directory's name is freed or entered. *)
LEMMA DirGone ==
  ASSUME NEW u, InOrder(Tidy, u), NEW jx, NEW f \in Slots, f # 3, Unnamed(jx, u.index, f),
         u.index[f].entry_type = "DIR_ENTRY"
  PROVE  HoldersSame(AbsOf(u.index), AbsOf(jx))
<1> DEFINE C == Follow(f, Conts(u.index, f))
           e == AbsOf(u.index)
<1>1. FreesName(e, AbsOf(jx), f, C) /\ e[f] = Space!Other
  BY UnnamedEntries
<1> HIDE DEF C, e
<1>2. \A i \in C \cup {f} : ~SP!Holds(e[i])
  BY <1>1, Bridge, AreaOK, SP!Constructors DEF FreesName
<1>3. \A i \in Slots : AbsOf(jx)[i] = IF i \in C \cup {f} THEN Space!Unused ELSE e[i]
  BY <1>1 DEF FreesName, Space!Clear
<1>4. HoldersSame(e, AbsOf(jx))
  BY <1>2, <1>3 DEF HoldersSame
<1>5. QED BY <1>4 DEF e

(* A name entered in unused entries moves no block. *)
LEMMA DirEntered ==
  ASSUME NEW jx, NEW ix, NEW new \in Slots, NEW x, Named(jx, ix, new, x),
         x.start_block = 0, x.end_block = 0
  PROVE  HoldersSame(AbsOf(ix), AbsOf(jx))
<1> DEFINE C == Follow(new, x.cont_entries)
           t == IF x.entry_type = "FILE_ENTRY" THEN Space!Empty ELSE Space!Other
<1>1. EntersName(AbsOf(ix), AbsOf(jx), new, C, t)
  BY NamedEntries
<1>2. t \in {Space!Unused, Space!Other, Space!Empty}
  OBVIOUS
<1> HIDE DEF C, t
<1>3. QED BY <1>1, <1>2 DEF EntersName, HoldersSame, SP!Holds

(* fuse_sfs_rename() of a directory *)
LEMMA DirRenamedSpace ==
  ASSUME NEW u, InOrder(Tidy, u), NEW p \in FilePaths \cup DirPaths, NEW q \in FilePaths \cup DirPaths,
         NEW dir, dir = rename_dir(u.index, p, q), dir.ok
  PROVE  HoldersSame(AbsOf(u.index), AbsOf(dir.index))
<1> DEFINE removed == sfs_rmdir(u.index, p)
           made    == sfs_mkdir(removed.index, q)
           w       == Reindexed(u, removed.index)
           z       == Reindexed(w, made.index)
<1>1. removed.ok /\ dir.index = made.index
  BY DEF rename_dir
<1>2. removed = sfs_rmdir(u.index, p) /\ made = sfs_mkdir(removed.index, q)
  OBVIOUS
<1> HIDE DEF removed, made
<1>3. /\ InOrder(Tidy, w) /\ w.index = removed.index
      /\ \E f \in Slots : /\ f # 3 /\ u.index[f].entry_type = "DIR_ENTRY"
                          /\ Unnamed(w.index, u.index, f)
  BY <1>1, <1>2, RemovedDir
<1>4. PICK f \in Slots : /\ f # 3 /\ u.index[f].entry_type = "DIR_ENTRY"
                         /\ Unnamed(removed.index, u.index, f)
  BY <1>3
<1>5. HoldersSame(AbsOf(u.index), AbsOf(removed.index))
  BY <1>4, DirGone
<1>6. CASE made.ok
  <2> HIDE DEF w
  <2>1. made = sfs_mkdir(w.index, q)
    BY <1>2, <1>3
  <2>2. /\ z.index = made.index
        /\ \E new \in Slots : \E x : /\ Named(z.index, w.index, new, x)
                                     /\ x.start_block = 0 /\ x.end_block = 0
    BY <1>3, <1>6, <2>1, MadeDir
  <2>3. PICK new \in Slots : \E x : /\ Named(made.index, removed.index, new, x)
                                    /\ x.start_block = 0 /\ x.end_block = 0
    BY <1>3, <2>2
  <2>4. HoldersSame(AbsOf(removed.index), AbsOf(made.index))
    BY <2>3, DirEntered
  <2>5. QED BY <1>1, <1>5, <2>4, HoldersSameTwice
<1>7. CASE ~made.ok
  <2>1. made.index = removed.index
    BY <1>2, <1>7 DEF sfs_mkdir
  <2>2. QED BY <1>1, <1>5, <2>1
<1>8. QED BY <1>6, <1>7

(* fuse_sfs_unlink() of a file that is open: it keeps its blocks. *)
LEMMA UnlinkOpenSpace ==
  ASSUME FInv, SP!IInv, NEW p \in FilePaths, search_file(index, p) # 0,
         Becomes(Reindexed(fs, sfs_unlink(fs.index, p)))
  PROVE  SP!IInv'
<1> DEFINE f == search_file(index, p)
           w == Reindexed(fs, sfs_unlink(fs.index, p))
<1>1. InOrder(Tidy, fs) /\ fs.index = index /\ f = search_file(fs.index, p) /\ f # 0
  BY Parts
<1> HIDE DEF f
<1>2. AbsOf(w.index) = AbsOf(fs.index)
  BY <1>1, UnlinkedFile
<1>3. index' = w.index
  BY DEF Becomes
<1>4. AbsEnt' = AbsEnt
  BY <1>1, <1>2, <1>3, LostAre
<1>5. QED BY <1>4, StillAccounted DEF HoldersSame

(* fuse_sfs_unlink() of another file releases its blocks. *)
LEMMA UnlinkClosedSpace ==
  ASSUME FInv, SP!IInv, NEW p \in FilePaths, NEW f, f = search_file(index, p), f # 0,
         Becomes(sfs_delete(Reindexed(fs, sfs_unlink(fs.index, p)), f))
  PROVE  SP!IInv'
<1> DEFINE u == Reindexed(fs, sfs_unlink(fs.index, p))
           w == sfs_delete(u, f)
<1>1. IInv(Tidy) /\ InOrder(Tidy, fs) /\ fs.index = index /\ f = search_file(fs.index, p)
  BY Parts
<1>2. /\ f \in Slots /\ InOrder(Tidy, u) /\ IsUnlinked(u.index[f])
      /\ AbsOf(u.index) = AbsOf(fs.index)
  BY <1>1, UnlinkedFile
<1> HIDE DEF u
<1>3. AbsOf(u.index) = AbsEnt
  BY <1>1, <1>2, LostAre
<1>4. OwnsData(u.index[f]) /\ IsFile(u.index[f]) /\ f # 3
  BY <1>2, Kinds DEF InOrder, Entered
<1>5. \E jx : /\ Unnamed(jx, u.index, f)
              /\ \E ok : Freed(AbsOf(jx), AbsOf(w.index), ok,
                               u.index[f].start_block, u.index[f].end_block)
  BY <1>2, <1>4, DeletedFile
<1>6. PICK jx : /\ Unnamed(jx, u.index, f)
                /\ \E ok : Freed(AbsOf(jx), AbsOf(w.index), ok,
                                 u.index[f].start_block, u.index[f].end_block)
  BY <1>5
<1>7. PICK ok : Freed(AbsOf(jx), AbsOf(w.index), ok,
                      u.index[f].start_block, u.index[f].end_block)
  BY <1>6
<1>8. Becomes(w)
  BY DEF u
<1> HIDE DEF w
<1>9. AbsEnt' = AbsOf(w.index)
  BY <1>8, LostAre DEF Becomes
<1>10. AbsEnt[f].start = u.index[f].start_block /\ AbsEnt[f].end = u.index[f].end_block
  BY <1>2, <1>3, AbsFields
<1>11. IsFile(index[f])
  <2>1. f # 0 /\ HeadsWhole(index)
    BY Parts
  <2>2. index[f].entry_type = "FILE_ENTRY"
    BY <2>1, SearchFile
  <2>3. QED BY <2>2, Kinds DEF IsFile, OwnsData
<1>12. Freed(AbsOf(jx), AbsEnt', ok, AbsEnt[f].start, AbsEnt[f].end)
  BY <1>7, <1>9, <1>10
<1>13. QED BY <1>1, <1>2, <1>3, <1>4, <1>6, <1>11, <1>12, ExtentReleased

(* fuse_sfs_unlink() *)
LEMMA UnlinkSpace ==
  ASSUME FInv, SP!IInv, NEW p \in FilePaths, fuse_sfs_unlink(p)
  PROVE  SP!IInv'
<1> DEFINE f == search_file(index, p)
<1>1. f # 0 /\ fs.index = index
  BY DEF fuse_sfs_unlink, fs
<1>2. CASE Becomes(Reindexed(fs, sfs_unlink(fs.index, p)))
  BY <1>1, <1>2, UnlinkOpenSpace
<1>3. CASE Becomes(sfs_delete(Reindexed(fs, sfs_unlink(fs.index, p)), f))
  <2> HIDE DEF f
  <2>1. f = search_file(index, p)
    BY DEF f
  <2>2. QED BY <1>1, <1>3, <2>1, UnlinkClosedSpace
<1>4. QED BY <1>2, <1>3 DEF fuse_sfs_unlink, Reindexed

(* fuse_sfs_release() of an unlinked file *)
LEMMA ReleaseSpace ==
  ASSUME FInv, SP!IInv, NEW h \in HandleIds, fuse_sfs_release(h)
  PROVE  SP!IInv'
<1> DEFINE v == handle[h].vino
           f == handle[h].file
<1>1. handle[h].kind = "file" /\ data' = data
  BY DEF fuse_sfs_release
<1>2. /\ v \in DOMAIN inode_table /\ inode_table[v] \in TableEntries /\ f \in Slots
      /\ inode_table[v].pino = f /\ Reaches(inode_table, handle[h], index)
  BY <1>1, Parts, FileReached
<1>3. get_pino(h) = f /\ get_dirty(h) = inode_table[v].dirty /\ inode_table[v].dirty \in BOOLEAN
  BY <1>2 DEF get_pino, get_dirty, TableEntries
<1>4. CASE inode_table[v].dirty = TRUE
  <2>1. Becomes(sfs_delete(fs, f))
    BY <1>3, <1>4 DEF fuse_sfs_release
  <2>2. Delete(f)
    BY <1>1, <1>2, <1>4, <2>1 DEF Reaches, Delete
  <2> HIDE DEF f
  <2>3. QED BY <1>2, <2>2, Parts, DeleteStep
<1>5. CASE inode_table[v].dirty # TRUE
  <2>1. index' = index
    BY <1>3, <1>5 DEF fuse_sfs_release
  <2>2. AbsEnt' = AbsEnt
    BY <2>1, LostAre
  <2>3. QED BY <2>2, StillAccounted DEF HoldersSame
<1>6. QED BY <1>4, <1>5

(* fuse_sfs_rename() *)
LEMMA RenameSpace ==
  ASSUME FInv, SP!IInv, NEW p \in FilePaths \cup DirPaths, NEW q \in FilePaths \cup DirPaths,
         index[sfs_open(index, p)].start_block = 0, fuse_sfs_rename(p, q)
  PROVE  SP!IInv'
<1> DEFINE old == sfs_open(index, p)
           dir == rename_dir(index, p, q)
           new == sfs_rename(fs, old, q).off
<1>1. old # 0 /\ data' = data
  BY DEF fuse_sfs_rename
<1>2. old \in Slots
  BY <1>1, OpenFinds
<1>3. CASE dir.ok /\ index' = dir.index
  <2>1. InOrder(Tidy, fs) /\ fs.index = index /\ dir = rename_dir(fs.index, p, q)
    BY Parts
  <2> HIDE DEF dir
  <2>2. HoldersSame(AbsOf(fs.index), AbsOf(dir.index))
    BY <1>3, <2>1, DirRenamedSpace
  <2>3. HoldersSame(AbsEnt, AbsEnt')
    BY <1>3, <2>1, <2>2, LostAre
  <2>4. QED BY <2>3, StillAccounted
<1>4. CASE new # 0 /\ Becomes(sfs_rename(fs, old, q).u)
  <2>1. SafeRename(old, q)
    BY <1>1, <1>4 DEF SafeRename, Rename
  <2> HIDE DEF old
  <2>2. QED BY <1>2, <2>1, Parts, RenameStep
<1>5. QED BY <1>3, <1>4 DEF fuse_sfs_rename

(* A file's blocks change as the library says. *)
LEMMA FileSpace ==
  ASSUME FInv, SP!IInv, NEW f \in Slots, IsFile(index[f]),
         \/ AbsEnt' = AbsEnt \/ Regrown(AbsEnt, AbsEnt', f) \/ Emptied(AbsEnt, AbsEnt', f)
  PROVE  SP!IInv'
<1>1. CASE AbsEnt' = AbsEnt
  BY <1>1, StillAccounted DEF HoldersSame
<1>2. CASE Regrown(AbsEnt, AbsEnt', f)
  BY <1>2, Parts, RegrownStep
<1>3. CASE Emptied(AbsEnt, AbsEnt', f)
  BY <1>3, Parts, Truncate0Step
<1>4. QED BY <1>1, <1>2, <1>3

(* fuse_sfs_write(), fuse_sfs_ftruncate() and fuse_sfs_truncate() *)
LEMMA DataSpace ==
  ASSUME FInv, SP!IInv, Data
  PROVE  SP!IInv'
<1>1. ASSUME NEW h \in HandleIds, NEW s \in Spans, NEW t \in Tokens, fuse_sfs_write(h, s[1], s[2], t)
      PROVE  SP!IInv'
  <2> DEFINE f == handle[h].file
  <2>1. handle[h].kind = "file" /\ Write(get_pino(h), s[1], s[2], t)
    BY <1>1 DEF fuse_sfs_write
  <2>2. f \in Slots /\ get_pino(h) = f
    BY <2>1, Parts, FileReached DEF get_pino
  <2>3. Write(f, s[1], s[2], t) /\ InOrder(Tidy, fs) /\ data \in Contents
    BY <2>1, <2>2, Parts
  <2> HIDE DEF f
  <2>4. IsFile(index[f]) /\ (AbsEnt' = AbsEnt \/ Regrown(AbsEnt, AbsEnt', f))
    BY <2>2, <2>3, WriteOrder
  <2>5. QED BY <2>2, <2>4, FileSpace
<1>2. ASSUME NEW f \in Slots, NEW len \in Lengths, SafeTruncate(f, len)
      PROVE  SP!IInv'
  <2>1. InOrder(Tidy, fs) /\ data \in Contents
    BY Parts
  <2>2. /\ IsFile(index[f])
        /\ \/ AbsEnt' = AbsEnt
           \/ Regrown(AbsEnt, AbsEnt', f)
           \/ Emptied(AbsEnt, AbsEnt', f)
    BY <1>2, <2>1, TruncateOrder
  <2>3. QED BY <2>2, FileSpace
<1>3. ASSUME NEW h \in HandleIds, NEW len \in Lengths, fuse_sfs_ftruncate(h, len)
      PROVE  SP!IInv'
  <2> DEFINE f == handle[h].file
  <2>1. handle[h].kind = "file" /\ SafeTruncate(get_pino(h), len)
    BY <1>3 DEF fuse_sfs_ftruncate
  <2>2. f \in Slots /\ get_pino(h) = f
    BY <2>1, Parts, FileReached DEF get_pino
  <2>3. SafeTruncate(f, len)
    BY <2>1, <2>2
  <2> HIDE DEF f
  <2>4. QED BY <1>2, <2>2, <2>3
<1>4. ASSUME NEW p \in FilePaths, NEW len \in Lengths, fuse_sfs_truncate(p, len)
      PROVE  SP!IInv'
  <2> DEFINE f == search_file(index, p)
  <2>1. f # 0 /\ SafeTruncate(f, len)
    BY <1>4 DEF fuse_sfs_truncate
  <2>2. f \in Slots
    BY <2>1, Parts, SearchFile
  <2> HIDE DEF f
  <2>3. QED BY <1>2, <2>1, <2>2
<1>5. QED BY <1>1, <1>3, <1>4 DEF Data

(* Every handler moves blocks as SfsSpace says. *)
LEMMA SpaceStep ==
  ASSUME FInv, SP!IInv, [PoliteNext]_fvars
  PROVE  SP!IInv'
<1>1. ASSUME index' = index PROVE SP!IInv'
  <2>1. AbsEnt' = AbsEnt
    BY <1>1, LostAre
  <2>2. QED BY <2>1, StillAccounted DEF HoldersSame
<1>2. ASSUME Lookups PROVE SP!IInv'
  BY <1>1, <1>2 DEF Lookups, fuse_sfs_getattr, fuse_sfs_readdir
<1>3. ASSUME NEW p \in FilePaths, fuse_sfs_mknod(p) PROVE SP!IInv'
  BY <1>3, Parts, CreatStep DEF fuse_sfs_mknod
<1>4. ASSUME NEW p \in DirPaths, fuse_sfs_mkdir(p) PROVE SP!IInv'
  BY <1>4, Parts, MkdirStep DEF fuse_sfs_mkdir
<1>5. ASSUME NEW p \in DirPaths, fuse_sfs_rmdir(p) PROVE SP!IInv'
  BY <1>5, Parts, RmdirStep DEF fuse_sfs_rmdir
<1>6. ASSUME Opens PROVE SP!IInv'
  BY <1>1, <1>6 DEF Opens, fuse_sfs_open, fuse_sfs_opendir
<1>7. ASSUME NEW h \in HandleIds, fuse_sfs_releasedir(h) PROVE SP!IInv'
  <2>1. handle[h].kind = "dir"
    BY <1>7 DEF fuse_sfs_releasedir
  <2>2. ~(get_dirty(h) = TRUE)
    BY <2>1, Parts, DirNotDirty DEF get_dirty
  <2>3. get_dirty(h) \in BOOLEAN
    <3>1. handle[h].vino \in DOMAIN inode_table
      BY <2>1, Parts DEF Agree, WellTyped
    <3>2. inode_table[handle[h].vino] \in TableEntries
      BY <3>1, Parts, FieldsSet
    <3>3. QED BY <3>2 DEF TableEntries, get_dirty
  <2>4. index' = index
    BY <1>7, <2>2, <2>3 DEF fuse_sfs_releasedir
  <2>5. QED BY <1>1, <2>4
<1>8. ASSUME Renames PROVE SP!IInv'
  BY <1>8, RenameSpace DEF Renames, Paths
<1>9. CASE UNCHANGED fvars
  BY <1>1, <1>9 DEF fvars
<1>10. ASSUME Namespace PROVE SP!IInv'
  BY <1>3, <1>4, <1>5, <1>10, UnlinkSpace DEF Namespace
<1>11. ASSUME Releases PROVE SP!IInv'
  BY <1>7, <1>11, ReleaseSpace DEF Releases
<1>12. QED BY <1>2, <1>6, <1>8, <1>9, <1>10, <1>11, DataSpace DEF PoliteNext, FuseNext

-----------------------------------------------------------------------------
(* The theorems *)

(* Table, handles and index agree after every handler, while no file's      *)
(* entry has been overwritten with file data (see Grow): a handle's file    *)
(* would then have no entry for the table to lead to.                       *)
THEOREM FuseStaysInOrder == PoliteSpec /\ []Unclobbered => []FInv
<1>1. FuseInit => FInv
  BY FuseStart
<1>2. FInv /\ [PoliteNext]_fvars /\ Unclobbered' => FInv'
  BY FuseStep
<1>3. QED BY <1>1, <1>2, PTL DEF PoliteSpec

(* A handle is a vino of the table and a pino an offset, FuseTypeOK,        *)
(* whatever fuse_sfs_open, release, unlink and rename do to the table.      *)
THEOREM FuseTypeIsRight == PoliteSpec /\ []Unclobbered => []FuseTypeOK
<1>1. FInv => FuseTypeOK
  <2> SUFFICES ASSUME FInv PROVE FuseTypeOK
    OBVIOUS
  <2>1. ASSUME NEW v \in DOMAIN inode_table
        PROVE  /\ inode_table[v].pino \in 0..(N + 1) /\ inode_table[v].dirty \in BOOLEAN
               /\ inode_table[v].openbit \in BOOLEAN
    <3>1. inode_table[v] \in TableEntries
      BY Parts, FieldsSet
    <3>2. QED BY <3>1 DEF TableEntries
  <2>2. ASSUME NEW h \in HandleIds
        PROVE  /\ handle[h].kind \in {"closed", "file", "dir"} /\ handle[h].file \in Offsets
               /\ handle[h].kind # "closed" => handle[h].vino \in DOMAIN inode_table
    <3>1. handle[h] \in HandleStates
      BY Parts
    <3>2. handle[h].kind # "closed" => handle[h].vino \in DOMAIN inode_table
      BY Parts DEF Agree, WellTyped
    <3>3. QED BY <3>1, <3>2 DEF HandleStates, HandleKinds
  <2>3. QED BY <2>1, <2>2 DEF FuseTypeOK
<1>2. QED BY <1>1, FuseStaysInOrder, PTL

(* A handle reaches the file that was opened through it, through every      *)
(* rename of it and after its unlinking, HandlesFollowFiles.                *)
THEOREM HandlesReachTheirFiles == PoliteSpec /\ []Unclobbered => []HandlesFollowFiles
<1>1. FInv => HandlesFollowFiles
  <2> SUFFICES ASSUME FInv, NEW h \in HandleIds, handle[h].kind = "file"
               PROVE  /\ handle[h].file # 0 /\ get_pino(h) = handle[h].file
                      /\ OwnsData(index[handle[h].file])
    BY DEF HandlesFollowFiles, Open
  <2>1. /\ inode_table[handle[h].vino].pino = handle[h].file
        /\ Reaches(inode_table, handle[h], index)
    BY Parts, FileReached
  <2>2. \A i \in Slots : i # 0
    BY SfsAssumption DEF Slots
  <2>3. QED BY <2>1, <2>2 DEF Reaches, get_pino
<1>2. QED BY <1>1, FuseStaysInOrder, PTL

(* fuse_sfs_unlink() finds, for the path of an open file, the vino of its   *)
(* handle with the open bit, PathAndHandleAgree, and does not delete the    *)
(* file under the handle.                                                   *)
THEOREM PathsAndHandlesAgree == PoliteSpec /\ []Unclobbered => []PathAndHandleAgree
<1>1. FInv => PathAndHandleAgree
  <2> SUFFICES ASSUME FInv, NEW h \in HandleIds, handle[h].kind = "file"
               PROVE  LET vino == get_vino(inode_table, handle[h].file)
                      IN  vino = handle[h].vino /\ inode_table[vino].openbit
    BY DEF PathAndHandleAgree, Open
  <2>1. Reaches(inode_table, handle[h], index)
    BY Parts, FileReached
  <2>2. QED BY <2>1 DEF Reaches
<1>2. QED BY <1>1, FuseStaysInOrder, PTL

(* When the last handle of a file is closed, nothing is left of unlinked    *)
(* files: fuse_sfs_release() has deleted every one of them.                 *)
THEOREM NoUnlinkedFileStays ==
  PoliteSpec /\ []Unclobbered => [](Open("file") = {} => \A i \in Slots : ~IsUnlinked(index[i]))
<1>1. FInv => (Open("file") = {} => \A i \in Slots : ~IsUnlinked(index[i]))
  BY Parts DEF Agree, UnlinkedOpen, Open
<1>2. QED BY <1>1, FuseStaysInOrder, PTL

(* When the last handle is closed, nothing is left of unlinked files, and   *)
(* free space and files make up the data area, QuietSpace, so that the next *)
(* mount finds the free space in order, unless blocks were leaked because   *)
(* the index had no entry for a free extent.                                *)
THEOREM QuietSpaceAddsUp == PoliteSpec /\ []Unclobbered => [](AbsLost = {} => QuietSpace)
<1>1. FuseInit => SP!IInv
  BY InitStep DEF FuseInit
<1>2. FInv /\ SP!IInv /\ [PoliteNext]_fvars => SP!IInv'
  BY SpaceStep
<1>3. FInv /\ SP!IInv => (AbsLost = {} => QuietSpace)
  <2> SUFFICES ASSUME FInv, SP!IInv, AbsLost = {} PROVE QuietSpace
    OBVIOUS
  <2>1. SpaceConserved
    BY Parts, SpaceAdds DEF SpaceConserved
  <2>2. Open("file") = {} => \A i \in Slots : ~IsUnlinked(index[i])
    BY Parts DEF Agree, UnlinkedOpen, Open
  <2>3. QED BY <2>1, <2>2 DEF QuietSpace
<1>4. QED BY <1>1, <1>2, <1>3, FuseStaysInOrder, PTL DEF PoliteSpec

(* Where a directory was removed there is room for one of a name that takes *)
(* as many entries, and the parents of the other name are still there.      *)
LEMMA DirMadeAgain ==
  ASSUME NEW u, InOrder(Tidy, u), NEW p \in FilePaths \cup DirPaths, NEW q \in FilePaths \cup DirPaths,
         p # q, NEW removed, removed = sfs_rmdir(u.index, p), removed.ok,
         NEW v, v = Reindexed(u, removed.index),
         search_dir(u.index, q) = 0, check_dirs(u.index, q), p \notin Ancestors(q),
         count_entry(Len(q) + 1, FirstDir) = count_entry(Len(p) + 1, FirstDir)
  PROVE  /\ InOrder(Tidy, v) /\ v.index = removed.index
         /\ sfs_mkdir(v.index, q).ok /\ ~DirNamed(v.index, p)
<1> DEFINE n == count_entry(Len(q) + 1, FirstDir)
<1>1. /\ InOrder(Tidy, v) /\ v.index = removed.index
      /\ \E f \in Slots : /\ u.index[f].entry_type = "DIR_ENTRY" /\ u.index[f].name = p
                          /\ Unnamed(v.index, u.index, f)
  BY RemovedDir
<1>2. PICK f \in Slots : /\ u.index[f].entry_type = "DIR_ENTRY" /\ u.index[f].name = p
                         /\ Unnamed(v.index, u.index, f)
  BY <1>1
<1>3. /\ HeadsWhole(u.index) /\ HeadsWhole(v.index) /\ Once(u.index)
      /\ Conts(u.index, f) \in Nat /\ IsHead(u.index[f]) /\ EntryOK(u.index[f])
  BY <1>1, <1>2, OrderShaped, Kinds DEF InOrder, NamesOK, Tidy, Entered
<1>4. Conts(u.index, f) + 1 = n
  BY <1>2, <1>3 DEF EntryOK, DirSized, Conts
<1>5. n \in Nat \ {0}
  BY EntriesOfName, SfsAssumption
<1> HIDE DEF n
<1> DEFINE r == f..(f + Conts(u.index, f))
<1>6. /\ f \in r /\ r \subseteq Slots
      /\ \A i \in r : i # f => u.index[i].entry_type = "CONT"
  BY <1>2, <1>3, RangeOfName, ContFields
<1>7. \A i \in Slots : v.index[i] = IF i \in r THEN UnusedEntry ELSE u.index[i]
  BY <1>2 DEF Unnamed
<1>8. UnusedEntry.entry_type = "UNUSED_ENTRY"
  BY UnusedFields
<1>9. f + n - 1 = f + Conts(u.index, f) /\ r = f..(f + n - 1)
  BY <1>3, <1>4, <1>5 DEF Slots
<1> HIDE DEF r
<1>10. alloc_entry(v.index, n) # 0
  <2> DEFINE S == {i \in 1..(N - n + 1) :
                      \A k \in i..(i + n - 1) : v.index[k].entry_type = "UNUSED_ENTRY"}
  <2>1. alloc_entry(v.index, n) = FirstOf(S)
    BY DEF alloc_entry
  <2>2. f + n - 1 \in Slots
    <3>1. f + n - 1 \in r
      BY <1>5, <1>9 DEF Slots
    <3>2. QED BY <1>6, <3>1
  <2>3. f \in 1..(N - n + 1)
    BY <1>5, <2>2, SfsAssumption DEF Slots
  <2>4. \A k \in f..(f + n - 1) : v.index[k].entry_type = "UNUSED_ENTRY"
    BY <1>6, <1>7, <1>8, <1>9
  <2>5. f \in S
    BY <2>3, <2>4
  <2>6. S \in SUBSET Slots
    BY <1>5, SfsAssumption DEF Slots
  <2> HIDE DEF S
  <2>7. QED BY <2>1, <2>5, <2>6, FirstOfSet
<1>11. \A i \in Slots : v.index[i].entry_type = "DIR_ENTRY" => i \notin r /\ v.index[i] = u.index[i]
  BY <1>7, <1>8
<1>12. search_dir(v.index, q) = 0
  <2>1. ~DirNamed(u.index, q)
    BY <1>3, SearchDir
  <2>2. ~DirNamed(v.index, q)
    BY <1>11, <2>1 DEF DirNamed
  <2>3. QED BY <1>3, <2>2, SearchDir
<1>13. check_dirs(v.index, q)
  <2>1. ASSUME NEW a \in Ancestors(q) PROVE search_dir(v.index, a) # 0
    <3>1. DirNamed(u.index, a) /\ a # p
      BY <1>3, CheckedDirs
    <3>2. PICK i \in Slots : u.index[i].entry_type = "DIR_ENTRY" /\ u.index[i].name = a
      BY <3>1 DEF DirNamed
    <3>3. i \notin r
      BY <1>2, <1>6, <3>1, <3>2
    <3>4. DirNamed(v.index, a)
      BY <1>7, <3>2, <3>3 DEF DirNamed
    <3>5. QED BY <1>3, <3>4, SearchDir
  <2>2. QED BY <2>1 DEF check_dirs
<1>14. sfs_mkdir(v.index, q).ok
  BY <1>10, <1>12, <1>13 DEF sfs_mkdir, n
<1>15. ~DirNamed(v.index, p)
  <2>1. ASSUME NEW i \in Slots, v.index[i].entry_type = "DIR_ENTRY", v.index[i].name = p
        PROVE  FALSE
    <3>1. i \notin r /\ u.index[i].entry_type = "DIR_ENTRY" /\ u.index[i].name = p
      BY <1>11, <2>1
    <3>2. i = f
      BY <1>2, <3>1 DEF Once, IsSeen, InOrder, NamesOK, Tidy
    <3>3. QED BY <1>6, <3>1, <3>2
  <2>2. QED BY <2>1 DEF DirNamed
<1>16. QED BY <1>1, <1>14, <1>15

(* Renaming an empty directory to a free name of as many entries does not   *)
(* lose it, DirRenameKeepsIt, however full the index is: sfs_rmdir() frees  *)
(* the entries that sfs_mkdir() needs.                                      *)
THEOREM DirRenamesKeepThem == PoliteSpec /\ []Unclobbered => []DirRenameKeepsIt
<1>1. FInv => DirRenameKeepsIt
  <2> SUFFICES ASSUME FInv, NEW p \in FilePaths \cup DirPaths, NEW q \in FilePaths \cup DirPaths,
                      p # q, rename_dir(index, p, q).ok, search_dir(index, q) = 0,
                      count_entry(Len(q) + 1, FirstDir) = count_entry(Len(p) + 1, FirstDir),
                      check_dirs(index, q), p \notin Ancestors(q)
               PROVE  /\ search_dir(rename_dir(index, p, q).index, q) # 0
                      /\ search_dir(rename_dir(index, p, q).index, p) = 0
    BY DEF DirRenameKeepsIt, Paths
  <2> DEFINE removed == sfs_rmdir(index, p)
             v       == Reindexed(fs, removed.index)
             made    == sfs_mkdir(v.index, q)
             w       == Reindexed(v, made.index)
  <2>1. removed.ok
    BY DEF rename_dir
  <2>2. InOrder(Tidy, v) /\ v.index = removed.index /\ made.ok /\ ~DirNamed(v.index, p)
    <3> HIDE DEF removed
    <3>1. removed = sfs_rmdir(fs.index, p)
      BY Parts DEF removed
    <3>2. QED BY <2>1, <3>1, Parts, DirMadeAgain
  <2>3. rename_dir(index, p, q).index = made.index
    BY <2>2 DEF rename_dir
  <2> HIDE DEF v
  <2>4. /\ InOrder(Tidy, w) /\ w.index = made.index
        /\ \E new \in Slots : \E x : /\ Named(w.index, v.index, new, x)
                                     /\ x.entry_type = "DIR_ENTRY" /\ x.name = q
    <3> HIDE DEF made
    <3>1. made = sfs_mkdir(v.index, q)
      BY DEF made
    <3>2. QED BY <2>2, <3>1, MadeDir
  <2> HIDE DEF made, w
  <2>5. PICK new \in Slots : \E x : /\ Named(w.index, v.index, new, x)
                                    /\ x.entry_type = "DIR_ENTRY" /\ x.name = q
    BY <2>4
  <2>6. PICK x : Named(w.index, v.index, new, x) /\ x.entry_type = "DIR_ENTRY" /\ x.name = q
    BY <2>5
  <2>7. HeadsWhole(w.index)
    BY <2>4 DEF InOrder, NamesOK
  <2>8. DirNamed(w.index, q)
    BY <2>6 DEF Named, DirNamed
  <2>9. ~DirNamed(w.index, p)
    <3>1. ASSUME NEW i \in Slots, w.index[i].entry_type = "DIR_ENTRY", w.index[i].name = p
          PROVE  FALSE
      <4>1. w.index[i] = x \/ w.index[i].entry_type = "CONT" \/ w.index[i] = v.index[i]
        BY <2>6, ContFields DEF Named
      <4>2. w.index[i] = v.index[i]
        BY <2>6, <3>1, <4>1
      <4>3. QED BY <2>2, <3>1, <4>2 DEF DirNamed
    <3>2. QED BY <3>1 DEF DirNamed
  <2>10. QED BY <2>3, <2>4, <2>7, <2>8, <2>9, SearchDir
<1>2. QED BY <1>1, FuseStaysInOrder, PTL

=============================================================================
