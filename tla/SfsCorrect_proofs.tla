--------------------------- MODULE SfsCorrect_proofs ---------------------------
(***************************************************************************)
(* The library keeps its index in order, for every size of index and data  *)
(* area and all paths: the inductive invariant of SafeSpec, the invariants *)
(* of SfsCorrect that follow from it, and the step-by-step proofs that the *)
(* library implements the space accounting of module SfsSpace and, while   *)
(* no entry is overwritten with data, the file store of FileStore.         *)
(*                                                                         *)
(* The calls change the index in four ways, each with its lemmas: the list *)
(* operations (Kept), a rewritten entry (Renewed), a freed name (Unnamed)  *)
(* and a new name (Named).                                                 *)
(***************************************************************************)
EXTENDS SfsCorrect, Induction_proofs, SequenceTheorems

-----------------------------------------------------------------------------
(* The deleted-file list, for an index of any size: what a list is, that   *)
(* the walk along a list visits its entries and ends, what the searches    *)
(* along it find, and that del_file_list_remove/add/alloc keep it a list.  *)
(* A list is described without the walk: neighbours point at each other,   *)
(* only the head has no predecessor, and ranks increase along it, which    *)
(* excludes the cycles that doubly linked entries could form off the list. *)

Extents   == {0} \cup Lo..Hi
FileSizes == Lengths \cup {s[1] + s[2] : s \in Spans}
Entries   == [entry_type  : EntryTypes, cont_entries : 0..N, time_stamp : 0..N,
              start_block : Extents, end_block : Extents,
              size : (0..N) \cup FileSizes,
              name : FilePaths \cup DirPaths \cup {<<>>, FreeName}]
State     == [index : [Offsets -> Entries], del_begin : Offsets]

Frees(u)  == {i \in Slots : IsFree(u.index[i])}

Linked(u) ==
    /\ u \in State
    /\ u.del_begin # 0 => u.del_begin \in Frees(u) /\ PREV_DEL(u.index[u.del_begin]) = 0
    /\ \A i \in Frees(u) :
          /\ PREV_DEL(u.index[i]) = 0 => i = u.del_begin
          /\ PREV_DEL(u.index[i]) # 0 => /\ PREV_DEL(u.index[i]) \in Frees(u)
                                         /\ NEXT_DEL(u.index[PREV_DEL(u.index[i])]) = i
          /\ NEXT_DEL(u.index[i]) # 0 => /\ NEXT_DEL(u.index[i]) \in Frees(u)
                                         /\ PREV_DEL(u.index[NEXT_DEL(u.index[i])]) = i

Ranked(u, r) ==
    /\ r \in [Slots -> Nat]
    /\ \A i \in Frees(u) : NEXT_DEL(u.index[i]) # 0 => r[i] < r[NEXT_DEL(u.index[i])]

IsList(u) == Linked(u) /\ \E r : Ranked(u, r)

(* What a walk needs: links lead to free extents only. *)
Leads(u) ==
    /\ u.del_begin # 0 => u.del_begin \in Frees(u)
    /\ \A i \in Frees(u) : NEXT_DEL(u.index[i]) # 0 => NEXT_DEL(u.index[i]) \in Frees(u)

(* The part of SfsAssumption that arithmetic needs. *)
LEMMA Numbers ==
  /\ N \in Nat /\ N >= 3 /\ Lo \in Nat \ {0} /\ Hi \in Nat /\ Lo <= Hi
  /\ \A i \in Slots : i \in Offsets /\ i \in Nat /\ i >= 1 /\ i <= N
  BY SfsAssumption DEF Slots, Offsets

-----------------------------------------------------------------------------
(* The walk *)

WalkStep(u, w, k) ==
    IF k = 0 THEN u.del_begin ELSE IF w[k - 1] = 0 THEN 0 ELSE NEXT_DEL(u.index[w[k - 1]])

(* The function of a walk along the list, as far as any bound. *)
LEMMA WalkExists ==
  ASSUME NEW u, NEW m \in Nat
  PROVE  \E w : w = [k \in 0..m |-> WalkStep(u, w, k)]
<1> DEFINE Upto(j) == \E w : w = [k \in 0..j |-> WalkStep(u, w, k)]
           A == {j \in 0..m : Upto(j)}
<1>1. 0 \in A
  <2>1. [k \in 0..0 |-> u.del_begin] = [k \in 0..0 |-> WalkStep(u, [i \in 0..0 |-> u.del_begin], k)]
    BY DEF WalkStep
  <2>2. QED BY <2>1
<1>2. ASSUME NEW j \in 0..m, j < m, j \in A PROVE j + 1 \in A
  <2>1. PICK w : w = [k \in 0..j |-> WalkStep(u, w, k)]
    BY <1>2
  <2> DEFINE x == WalkStep(u, w, j + 1)
             v == [k \in 0..(j + 1) |-> IF k = j + 1 THEN x ELSE w[k]]
  <2>2. ASSUME NEW k \in 0..(j + 1) PROVE v[k] = WalkStep(u, v, k)
    <3>1. CASE k = j + 1
      <4>1. v[k] = x /\ v[k - 1] = w[k - 1] /\ k # 0
        BY <3>1
      <4>2. QED BY <4>1, <3>1 DEF WalkStep
    <3>2. CASE k # j + 1
      <4>1. k \in 0..j
        BY <3>2
      <4>2. v[k] = w[k] /\ (k # 0 => v[k - 1] = w[k - 1])
        BY <4>1
      <4>3. w[k] = WalkStep(u, w, k)
        BY <2>1, <4>1
      <4>4. QED BY <4>2, <4>3 DEF WalkStep
    <3>3. QED BY <3>1, <3>2
  <2>3. v = [k \in 0..(j + 1) |-> WalkStep(u, v, k)]
    BY <2>2
  <2>4. Upto(j + 1)
    <3> HIDE DEF v
    <3>1. QED BY <2>3
  <2>5. j + 1 \in 0..m
    BY <1>2
  <2> HIDE DEF Upto
  <2>6. QED BY <2>4, <2>5
<1> HIDE DEF A
<1>3. m \in A
  BY <1>1, <1>2, UpTo
<1>4. QED BY <1>3 DEF A

(* What the recursive definition of the walk defines. *)
LEMMA WalkUnfolds ==
  ASSUME NEW u
  PROVE  /\ Walk(u) = [k \in 0..(N + 1) |-> WalkStep(u, Walk(u), k)]
         /\ Walk(u)[0] = u.del_begin
         /\ \A k \in 0..N : Walk(u)[k + 1] = IF Walk(u)[k] = 0 THEN 0
                                              ELSE NEXT_DEL(u.index[Walk(u)[k]])
<1>1. \E w : w = [k \in 0..(N + 1) |-> WalkStep(u, w, k)]
  <2>1. N + 1 \in Nat
    BY SfsAssumption
  <2>2. QED BY <2>1, WalkExists
<1>2. Walk(u) = [k \in 0..(N + 1) |-> WalkStep(u, Walk(u), k)]
  BY <1>1 DEF Walk, WalkStep
<1> DEFINE w == Walk(u)
<1> HIDE DEF w
<1>3. w = [k \in 0..(N + 1) |-> WalkStep(u, w, k)]
  BY <1>2 DEF w
<1>4. w[0] = u.del_begin
  BY <1>3, SfsAssumption DEF WalkStep
<1>5. ASSUME NEW k \in 0..N
      PROVE  w[k + 1] = IF w[k] = 0 THEN 0 ELSE NEXT_DEL(u.index[w[k]])
  <2>1. k + 1 \in 0..(N + 1) /\ k + 1 # 0 /\ (k + 1) - 1 = k
    BY SfsAssumption
  <2>2. w[k + 1] = WalkStep(u, w, k + 1)
    BY <1>3, <2>1
  <2>3. QED BY <2>1, <2>2 DEF WalkStep
<1>6. QED BY <1>3, <1>4, <1>5 DEF w

(* A walk where links lead to free extents meets nothing else, *)
LEMMA WalkStaysFree ==
  ASSUME NEW u, Leads(u)
  PROVE  \A k \in 0..(N + 1) : Walk(u)[k] # 0 => Walk(u)[k] \in Frees(u)
<1> DEFINE w == Walk(u)
           A == {k \in 0..(N + 1) : w[k] # 0 => w[k] \in Frees(u)}
<1>1. w[0] = u.del_begin /\ \A k \in 0..N : w[k + 1] = IF w[k] = 0 THEN 0 ELSE NEXT_DEL(u.index[w[k]])
  BY WalkUnfolds
<1> HIDE DEF w
<1>2. N \in Nat /\ N + 1 \in Nat
  BY SfsAssumption
<1>3. 0 \in A
  BY <1>1, <1>2 DEF Leads
<1>4. ASSUME NEW k \in 0..(N + 1), k < N + 1, k \in A PROVE k + 1 \in A
  <2>1. k \in 0..N /\ k + 1 \in 0..(N + 1)
    BY <1>2, <1>4
  <2>2. w[k + 1] = IF w[k] = 0 THEN 0 ELSE NEXT_DEL(u.index[w[k]])
    BY <1>1, <2>1
  <2>3. QED BY <1>4, <2>1, <2>2 DEF Leads
<1> HIDE DEF A
<1>5. \A k \in 0..(N + 1) : k \in A
  BY <1>2, <1>3, <1>4, UpTo
<1>6. QED BY <1>5 DEF A, w

(* climbs the ranks, *)
LEMMA WalkClimbs ==
  ASSUME NEW u, Leads(u), NEW r, Ranked(u, r), NEW j \in 0..(N + 1)
  PROVE  \A k \in 0..(N + 1) : j < k /\ Walk(u)[k] # 0 =>
            Walk(u)[j] # 0 /\ r[Walk(u)[j]] < r[Walk(u)[k]]
<1> DEFINE w == Walk(u)
           A == {k \in 0..(N + 1) : j < k /\ w[k] # 0 => w[j] # 0 /\ r[w[j]] < r[w[k]]}
<1>1. \A k \in 0..N : w[k + 1] = IF w[k] = 0 THEN 0 ELSE NEXT_DEL(u.index[w[k]])
  BY WalkUnfolds
<1>2. \A k \in 0..(N + 1) : w[k] # 0 => w[k] \in Frees(u)
  BY WalkStaysFree
<1> HIDE DEF w
<1>3. N \in Nat /\ N + 1 \in Nat /\ j \in Nat
  BY SfsAssumption
<1>4. 0 \in A
  BY <1>3
<1>5. ASSUME NEW k \in 0..(N + 1), k < N + 1, k \in A PROVE k + 1 \in A
  <2>1. k \in 0..N /\ k + 1 \in 0..(N + 1)
    BY <1>3, <1>5
  <2>2. SUFFICES ASSUME j < k + 1, w[k + 1] # 0 PROVE w[j] # 0 /\ r[w[j]] < r[w[k + 1]]
    BY <2>1
  <2>3. w[k] # 0 /\ w[k + 1] = NEXT_DEL(u.index[w[k]])
    BY <1>1, <2>1, <2>2
  <2>4. w[k] \in Frees(u) /\ w[k + 1] \in Frees(u) /\ r[w[k]] < r[w[k + 1]]
    BY <1>2, <2>1, <2>2, <2>3 DEF Ranked
  <2>5. CASE j = k
    BY <2>3, <2>4, <2>5
  <2>6. CASE j < k
    <3>1. w[j] # 0 /\ r[w[j]] < r[w[k]]
      BY <1>5, <2>3, <2>6
    <3>2. r[w[j]] \in Nat /\ r[w[k]] \in Nat /\ r[w[k + 1]] \in Nat
      BY <1>2, <3>1, <2>4 DEF Ranked, Frees
    <3>3. QED BY <3>1, <3>2, <2>4
  <2>7. QED BY <2>1, <2>2, <2>5, <2>6, <1>3
<1> HIDE DEF A
<1>6. \A k \in 0..(N + 1) : k \in A
  BY <1>3, <1>4, <1>5, UpTo
<1>7. QED BY <1>6 DEF A, w

(* ends before the watchdog does, as no entry is met twice, *)
LEMMA WalkEndsFree ==
  ASSUME NEW u, Leads(u), \E r : Ranked(u, r)
  PROVE  /\ Walk(u)[N] = 0
         /\ \A k, l \in 0..N : Walk(u)[k] # 0 /\ Walk(u)[k] = Walk(u)[l] => k = l
<1> DEFINE w == Walk(u)
<1>1. PICK r : Ranked(u, r)
  OBVIOUS
<1>2. N \in Nat
  BY SfsAssumption
<1>3. \A j, k \in 0..N : j < k /\ w[k] # 0 => w[j] # 0 /\ r[w[j]] < r[w[k]]
  BY <1>1, <1>2, WalkClimbs
<1>4. \A k \in 0..N : w[k] # 0 => w[k] \in Slots /\ r[w[k]] \in Nat
  <2>1. \A k \in 0..(N + 1) : w[k] # 0 => w[k] \in Frees(u)
    BY WalkStaysFree
  <2>2. QED BY <1>1, <1>2, <2>1 DEF Frees, Ranked
<1> HIDE DEF w
<1>5. ASSUME NEW k \in 0..N, NEW l \in 0..N, w[k] # 0, w[k] = w[l] PROVE k = l
  BY <1>2, <1>3, <1>4, <1>5
<1>6. ASSUME w[N] # 0 PROVE FALSE
  <2>1. \A k \in 0..N : w[k] # 0
    BY <1>2, <1>3, <1>6
  <2> DEFINE v == [k \in 0..N |-> w[k]]
  <2>2. v \in [0..N -> 1..N]
    BY <2>1, <1>4 DEF Slots
  <2>3. /\ IsFiniteSet(0..N) /\ Cardinality(0..N) = N + 1
        /\ IsFiniteSet(1..N) /\ Cardinality(1..N) = N
    BY <1>2, FS_Interval
  <2>4. Cardinality(1..N) < Cardinality(0..N)
    BY <2>3, <1>2
  <2> HIDE DEF v
  <2>5. \E k, l \in 0..N : k # l /\ v[k] = v[l]
    BY <2>2, <2>3, <2>4, FS_PigeonHole
  <2>6. QED BY <2>1, <2>5, <1>5 DEF v
<1>7. QED BY <1>5, <1>6 DEF w

(* A list is such a thing: the walk stays on it and ends, *)
LEMMA WalkStays ==
  ASSUME NEW u, Linked(u)
  PROVE  \A k \in 0..(N + 1) : Walk(u)[k] # 0 => Walk(u)[k] \in Frees(u)
<1>1. Leads(u)
  BY DEF Linked, Leads
<1>2. QED BY <1>1, WalkStaysFree

(* The walk from the head of a list ends and visits no entry twice.         *)
LEMMA WalkEnds ==
  ASSUME NEW u, IsList(u)
  PROVE  /\ Walk(u)[N] = 0
         /\ \A k, l \in 0..N : Walk(u)[k] # 0 /\ Walk(u)[k] = Walk(u)[l] => k = l
<1>1. Leads(u) /\ \E r : Ranked(u, r)
  BY DEF IsList, Linked, Leads
<1>2. QED BY <1>1, WalkEndsFree

(* and has then visited the whole list: the entry of least rank that it had *)
(* not visited would have no predecessor on the list.                       *)
LEMMA WalkFinds ==
  ASSUME NEW u, IsList(u), NEW i \in Frees(u)
  PROVE  \E k \in 0..N : Walk(u)[k] = i
<1> DEFINE w == Walk(u)
           Visited == {j \in Frees(u) : \E k \in 0..N : w[k] = j}
<1>1. PICK r : Ranked(u, r)
  BY DEF IsList
<1>2. Linked(u) /\ N \in Nat
  BY SfsAssumption DEF IsList
<1>3. /\ w[0] = u.del_begin
      /\ \A k \in 0..N : w[k + 1] = IF w[k] = 0 THEN 0 ELSE NEXT_DEL(u.index[w[k]])
  BY WalkUnfolds
<1>4. w[N] = 0
  BY WalkEnds
<1> HIDE DEF w
<1> DEFINE T == {r[j] : j \in Frees(u) \ Visited}
<1>5. ASSUME i \notin Visited PROVE FALSE
  <2>1. T \in SUBSET Nat /\ T # {}
    BY <1>1, <1>5 DEF Ranked, Frees
  <2>2. \E x \in T : \A y \in T : x <= y
    <3> HIDE DEF T
    <3>1. QED BY <2>1, LeastNat
  <2>3. PICK j \in Frees(u) \ Visited : \A l \in Frees(u) \ Visited : r[j] <= r[l]
    BY <2>2
  <2> DEFINE p == PREV_DEL(u.index[j])
  <2>4. CASE p = 0
    <3>1. w[0] = j /\ 0 \in 0..N
      BY <1>2, <1>3, <2>3, <2>4 DEF Linked
    <3>2. QED BY <2>3, <3>1
  <2>5. CASE p # 0
    <3>1. p \in Frees(u) /\ NEXT_DEL(u.index[p]) = j
      BY <1>2, <2>3, <2>5 DEF Linked
    <3>2. j # 0 /\ p # 0
      BY <1>2, <2>5, <2>3 DEF Frees, Slots
    <3>3. r[p] < r[j] /\ r[p] \in Nat /\ r[j] \in Nat
      BY <1>1, <2>3, <3>1, <3>2 DEF Ranked, Frees
    <3>4. p \in Visited
      BY <2>3, <3>1, <3>3
    <3>5. PICK k \in 0..N : w[k] = p
      BY <3>4
    <3>6. k # N
      BY <1>4, <3>5, <3>2
    <3>7. k + 1 \in 0..N /\ w[k + 1] = j
      BY <1>2, <1>3, <3>1, <3>2, <3>5, <3>6
    <3>8. QED BY <2>3, <3>7
  <2>6. QED BY <2>4, <2>5
<1>6. QED BY <1>5 DEF w

(* So a list is what ListWellFormed says of the walk. *)
LEMMA ListIsWellFormed ==
  ASSUME IsList(fs)
  PROVE  ListWellFormed
<1> DEFINE u == fs
           w == Walk(u)
<1>1. u.index = index
  BY DEF fs
<1>2. Linked(u) /\ N \in Nat
  BY SfsAssumption DEF IsList
<1>3. w[N] = 0 /\ \A k, l \in 0..N : w[k] # 0 /\ w[k] = w[l] => k = l
  BY WalkEnds
<1>4. \A k \in 0..(N + 1) : w[k] # 0 => w[k] \in Frees(u)
  BY <1>2, WalkStays
<1>5. \A i \in Frees(u) : \E k \in 0..N : w[k] = i
  BY WalkFinds
<1>6. /\ w[0] = u.del_begin
      /\ \A k \in 0..N : w[k + 1] = IF w[k] = 0 THEN 0 ELSE NEXT_DEL(u.index[w[k]])
  BY WalkUnfolds
<1> HIDE DEF w, u
<1> DEFINE on == {k \in 0..N : w[k] # 0}
<1>7. {w[k] : k \in on} = Frees(u)
  <2>1. \A k \in on : w[k] \in Frees(u)
    BY <1>2, <1>4
  <2>2. \A i \in Frees(u) : \E k \in on : w[k] = i
    BY <1>2, <1>5 DEF Frees, Slots
  <2>3. QED BY <2>1, <2>2
<1>8. ASSUME NEW k \in on PROVE PREV_DEL(u.index[w[k]]) = IF k = 0 THEN 0 ELSE w[k - 1]
  <2>1. CASE k = 0
    BY <2>1, <1>2, <1>6 DEF Linked
  <2>2. CASE k # 0
    <3>1. k - 1 \in 0..N /\ (k - 1) + 1 = k
      BY <1>2, <2>2
    <3>2. w[k - 1] # 0 /\ w[k] = NEXT_DEL(u.index[w[k - 1]]) /\ w[k] # 0
      BY <1>6, <3>1
    <3>3. w[k - 1] \in Frees(u)
      BY <1>2, <1>4, <3>1, <3>2
    <3>4. QED BY <1>2, <2>2, <3>2, <3>3 DEF Linked
  <2>3. QED BY <2>1, <2>2
<1>9. \A k, l \in on : k # l => w[k] # w[l]
  BY <1>3
<1> HIDE DEF on
<1>10. QED BY <1>1, <1>3, <1>7, <1>8, <1>9 DEF on, w, u, Frees, ListWellFormed

-----------------------------------------------------------------------------
(* The searches along a list *)

(* The first hit of a search that goes up, and of one that goes down. *)
LEMMA MinMax ==
  ASSUME NEW m \in Nat, NEW S \in SUBSET (0..m), S # {}
  PROVE  /\ Min(S) \in S /\ \A y \in S : Min(S) <= y
         /\ Max(S) \in S /\ \A y \in S : y <= Max(S)
<1>1. S \in SUBSET Nat
  OBVIOUS
<1>2. \E x \in S : \A y \in S : x <= y
  BY <1>1, LeastNat
<1>3. \E x \in S : \A y \in S : y <= x
  BY GreatestNat
<1>4. \A x, y \in S : y <= x <=> x >= y
  BY <1>1
<1>5. \E x \in S : \A y \in S : x >= y
  BY <1>3, <1>4
<1>6. Min(S) \in S /\ \A y \in S : Min(S) <= y
  BY <1>2 DEF Min
<1>7. Max(S) \in S /\ \A y \in S : Max(S) >= y
  BY <1>5 DEF Max
<1>8. QED BY <1>4, <1>6, <1>7

(* The first or last of some steps of the walk along a list: S are the      *)
(* steps that stand on an entry of the set B.                               *)
LEMMA StepsOn ==
  ASSUME NEW u, IsList(u), NEW B,
         NEW S, S = {k \in 0..N : Walk(u)[k] # 0 /\ Walk(u)[k] \in B}
  PROVE  /\ S = {} => \A i \in Frees(u) : i \notin B
         /\ S # {} => /\ Walk(u)[Min(S)] \in Frees(u) \cap B
                      /\ Walk(u)[Max(S)] \in Frees(u) \cap B
<1> DEFINE w == Walk(u)
<1>1. N \in Nat /\ Linked(u)
  BY SfsAssumption DEF IsList
<1>2. \A k \in 0..N : w[k] # 0 => w[k] \in Frees(u)
  BY <1>1, WalkStays
<1>3. \A i \in Frees(u) : \E k \in 0..N : w[k] = i
  BY WalkFinds
<1>4. \A i \in Frees(u) : i # 0
  BY <1>1 DEF Frees, Slots
<1> HIDE DEF w
<1>5. S = {k \in 0..N : w[k] # 0 /\ w[k] \in B}
  BY DEF w
<1>6. ASSUME S = {}, NEW i \in Frees(u), i \in B PROVE FALSE
  BY <1>3, <1>4, <1>5, <1>6
<1>7. ASSUME S # {} PROVE w[Min(S)] \in Frees(u) \cap B /\ w[Max(S)] \in Frees(u) \cap B
  <2>1. S \in SUBSET (0..N)
    BY <1>5
  <2>2. Min(S) \in S /\ Max(S) \in S
    BY <1>1, <1>7, <2>1, MinMax
  <2>3. QED BY <1>2, <1>5, <2>2
<1>8. QED BY <1>6, <1>7 DEF w

(* What the search of del_file_list_add() for the extent before a block     *)
(* returns: such an extent of the list, or 0 and there is none.             *)
LEMMA PrevExtent ==
  ASSUME NEW u, IsList(u), NEW start
  PROVE  LET p == prev_extent(u, start)
         IN  IF p = 0 THEN \A i \in Frees(u) : u.index[i].end_block + 1 # start
             ELSE p \in Frees(u) /\ u.index[p].end_block + 1 = start
<1> DEFINE w == Walk(u)
           B == {i \in Slots : u.index[i].end_block + 1 = start}
           S == {k \in 0..N : w[k] # 0 /\ w[k] \in B}
<1>1. S = {k \in 0..N : w[k] # 0 /\ u.index[w[k]].end_block + 1 = start}
  <2>1. \A k \in 0..N : w[k] # 0 => w[k] \in Slots
    BY WalkStays, SfsAssumption DEF IsList, Frees
  <2>2. QED BY <2>1
<1>2. /\ S = {} => \A i \in Frees(u) : i \notin B
      /\ S # {} => w[Max(S)] \in Frees(u) \cap B
  BY StepsOn
<1>3. prev_extent(u, start) = IF S = {} THEN 0 ELSE w[Max(S)]
  BY <1>1 DEF prev_extent, LastInList, Steps
<1> HIDE DEF w, S
<1>4. QED BY <1>2, <1>3, SfsAssumption DEF Frees, Slots

(* What its search for the extent behind a block returns. *)
LEMMA NextExtent ==
  ASSUME NEW u, IsList(u), NEW start, NEW end
  PROVE  LET q == next_extent(u, start, end)
             Behind(i) == u.index[i].end_block + 1 # start /\ u.index[i].start_block - 1 = end
         IN  IF q = 0 THEN \A i \in Frees(u) : ~Behind(i)
             ELSE q \in Frees(u) /\ Behind(q)
<1> DEFINE w == Walk(u)
           B == {i \in Slots : u.index[i].end_block + 1 # start /\ u.index[i].start_block - 1 = end}
           S == {k \in 0..N : w[k] # 0 /\ w[k] \in B}
<1>1. S = {k \in 0..N : w[k] # 0 /\ u.index[w[k]].end_block + 1 # start
                        /\ u.index[w[k]].start_block - 1 = end}
  <2>1. \A k \in 0..N : w[k] # 0 => w[k] \in Slots
    BY WalkStays, SfsAssumption DEF IsList, Frees
  <2>2. QED BY <2>1
<1>2. /\ S = {} => \A i \in Frees(u) : i \notin B
      /\ S # {} => w[Max(S)] \in Frees(u) \cap B
  BY StepsOn
<1>3. next_extent(u, start, end) = IF S = {} THEN 0 ELSE w[Max(S)]
  BY <1>1 DEF next_extent, LastInList, Steps
<1> HIDE DEF w, S
<1>4. QED BY <1>2, <1>3, SfsAssumption DEF Frees, Slots

(* What the search of try_expand() returns: the extent behind the file's    *)
(* last block if it is large enough, or 0 and there is none.                *)
LEMMA Donor ==
  ASSUME NEW u, IsList(u), NEW f, NEW new_size
  PROVE  LET d == donor(u, f, new_size)
             Fits(i) == /\ u.index[i].start_block = u.index[f].end_block + 1
                        /\ get_size(u.index[i]) >= delta_block(u, f, new_size)
         IN  IF d = 0 THEN \A i \in Frees(u) : ~Fits(i)
             ELSE d \in Frees(u) /\ Fits(d)
<1> DEFINE w == Walk(u)
           Fits(i) == /\ u.index[i].start_block = u.index[f].end_block + 1
                      /\ get_size(u.index[i]) >= delta_block(u, f, new_size)
           B == {i \in Slots : Fits(i)}
           S == {k \in 0..N : w[k] # 0 /\ w[k] \in B}
<1>1. S = {k \in 0..N : w[k] # 0 /\ Fits(w[k])}
  <2>1. \A k \in 0..N : w[k] # 0 => w[k] \in Slots
    BY WalkStays, SfsAssumption DEF IsList, Frees
  <2>2. QED BY <2>1
<1>2. /\ S = {} => \A i \in Frees(u) : i \notin B
      /\ S # {} => w[Min(S)] \in Frees(u) \cap B
  BY StepsOn
<1>3. donor(u, f, new_size) = IF S = {} THEN 0 ELSE w[Min(S)]
  BY <1>1 DEF donor, FirstInList, Steps
<1> HIDE DEF w, S
<1>4. QED BY <1>2, <1>3, SfsAssumption DEF Frees, Slots

(* The largest free extent: max_size is its size, or 0 when there is none.  *)
LEMMA MaxExtent ==
  ASSUME NEW u, IsList(u), NEW m \in Nat, \A i \in Frees(u) : get_size(u.index[i]) \in 0..m
  PROVE  /\ max_size(u) \in Nat
         /\ \A i \in Frees(u) : get_size(u.index[i]) <= max_size(u)
         /\ max_size(u) # 0 => /\ max_extent(u) \in Frees(u)
                               /\ get_size(u.index[max_extent(u)]) = max_size(u)
<1> DEFINE w == Walk(u)
           K == {k \in 0..N : w[k] # 0}
           Z == {0} \cup {get_size(u.index[w[k]]) : k \in K}
           B == {i \in Slots : get_size(u.index[i]) = max_size(u)}
           S == {k \in 0..N : w[k] # 0 /\ w[k] \in B}
<1>1. \A k \in 0..N : w[k] # 0 => w[k] \in Frees(u) /\ w[k] \in Slots
  BY WalkStays, SfsAssumption DEF IsList, Frees
<1>2. max_size(u) = Max(Z)
  BY DEF max_size, MaxOverList, Steps
<1>3. \A i \in Frees(u) : \E k \in K : w[k] = i
  <2>1. \A i \in Frees(u) : i # 0
    BY SfsAssumption DEF Frees, Slots
  <2>2. QED BY <2>1, WalkFinds
<1>4. S = {k \in 0..N : w[k] # 0 /\ get_size(u.index[w[k]]) = max_size(u)}
  BY <1>1
<1>5. S # {} => w[Min(S)] \in Frees(u) \cap B
  BY StepsOn
<1>6. max_extent(u) = IF S = {} THEN 0 ELSE w[Min(S)]
  BY <1>4 DEF max_extent, FirstInList, Steps
<1> HIDE DEF w
<1>7. Z \in SUBSET (0..m) /\ Z # {}
  BY <1>1
<1>8. Max(Z) \in Z /\ \A y \in Z : y <= Max(Z)
  <2> HIDE DEF Z
  <2>1. QED BY <1>7, MinMax
<1>9. \A i \in Frees(u) : get_size(u.index[i]) \in Z
  BY <1>3
<1>10. ASSUME max_size(u) # 0 PROVE S # {}
  <2>1. PICK k \in K : get_size(u.index[w[k]]) = max_size(u)
    BY <1>2, <1>8, <1>10
  <2>2. k \in S
    BY <2>1, <1>4
  <2>3. QED BY <2>2
<1> HIDE DEF Z, S
<1>11. QED BY <1>2, <1>5, <1>6, <1>7, <1>8, <1>9, <1>10

-----------------------------------------------------------------------------
(* Writing one field of an entry *)

SameName(x, y)   == /\ x.entry_type = y.entry_type /\ x.cont_entries = y.cont_entries
                    /\ x.name = y.name
SameExtent(x, y) == x.start_block = y.start_block /\ x.end_block = y.end_block
SameLinks(x, y)  == x.time_stamp = y.time_stamp /\ x.size = y.size
ElseSame(jx, ix, X) == \A j \in Offsets \ X : jx[j] = ix[j]

(* Writing the next pointer of an entry leaves its name, its extent and all *)
(* other entries.                                                           *)
LEMMA WriteNext ==
  ASSUME NEW ix \in [Offsets -> Entries], NEW i \in Offsets, NEW x \in Offsets
  PROVE  LET jx == [ix EXCEPT ![i].size = x]
         IN  /\ jx \in [Offsets -> Entries] /\ ElseSame(jx, ix, {i})
             /\ SameName(jx[i], ix[i]) /\ SameExtent(jx[i], ix[i])
             /\ jx[i].size = x /\ jx[i].time_stamp = ix[i].time_stamp
  BY DEF Entries, SameName, SameExtent, ElseSame, Offsets

(* Writing the previous pointer of an entry does, too. *)
LEMMA WritePrev ==
  ASSUME NEW ix \in [Offsets -> Entries], NEW i \in Offsets, NEW x \in Offsets
  PROVE  LET jx == [ix EXCEPT ![i].time_stamp = x]
         IN  /\ jx \in [Offsets -> Entries] /\ ElseSame(jx, ix, {i})
             /\ SameName(jx[i], ix[i]) /\ SameExtent(jx[i], ix[i])
             /\ jx[i].time_stamp = x /\ jx[i].size = ix[i].size
  BY DEF Entries, SameName, SameExtent, ElseSame, Offsets

(* The fields of an entry with nothing but a type. *)
LEMMA EmptyFields ==
  ASSUME NEW t \in EntryTypes
  PROVE  /\ NoEntry(t) \in Entries /\ NoEntry(t).entry_type = t
         /\ NoEntry(t).start_block = 0 /\ NoEntry(t).end_block = 0 /\ NoEntry(t).size = 0
         /\ NoEntry(t).cont_entries = 0 /\ NoEntry(t).name = <<>> /\ NoEntry(t).time_stamp = 0
         /\ ~IsFree(NoEntry(t))
<1>1. FreeName # <<>>
  BY DEF FreeName
<1>2. QED BY <1>1, SfsAssumption DEF NoEntry, Entries, Extents, IsFree

(* The fields of the entry that free_entry() writes. *)
LEMMA UnusedFields ==
  /\ UnusedEntry \in Entries /\ UnusedEntry.entry_type = "UNUSED_ENTRY" /\ ~IsFree(UnusedEntry)
  /\ UnusedEntry.start_block = 0 /\ UnusedEntry.end_block = 0 /\ UnusedEntry.size = 0
  /\ UnusedEntry.cont_entries = 0 /\ UnusedEntry.name = <<>>
  BY EmptyFields DEF UnusedEntry, EntryTypes

(* free_entry() of one entry of the index *)
LEMMA FreeOne ==
  ASSUME NEW ix \in [Offsets -> Entries], NEW i \in Slots
  PROVE  LET jx == free_entry(ix, i, 1)
         IN  /\ jx \in [Offsets -> Entries] /\ ElseSame(jx, ix, {i}) /\ jx[i] = UnusedEntry
  BY UnusedFields, SfsAssumption DEF free_entry, ElseSame, Offsets, Slots

-----------------------------------------------------------------------------
(* The list operations.  SameBut: outside X the entries of u are those of v, *)
(* apart from the links of the list entries.                                 *)

SameBut(v, u, X) ==
    \A i \in Offsets \ X :
        /\ i \in Frees(v) <=> i \in Frees(u)
        /\ i \in Frees(u) => SameExtent(v.index[i], u.index[i]) /\ SameName(v.index[i], u.index[i])
        /\ i \notin Frees(u) => v.index[i] = u.index[i]

(* del_file_list_remove() leaves a list without the entry, and touches only *)
(* entries of the list and the one removed.                                 *)
LEMMA RemoveKeeps ==
  ASSUME NEW u, IsList(u), NEW off \in Frees(u)
  PROVE  LET v == del_file_list_remove(u, off)
         IN  /\ IsList(v) /\ SameBut(v, u, {off}) /\ v.index[off] = UnusedEntry
             /\ \A j \in Frees(v) : NEXT_DEL(v.index[j]) =
                   IF j = PREV_DEL(u.index[off]) THEN NEXT_DEL(u.index[off]) ELSE NEXT_DEL(u.index[j])
<1> DEFINE prev == PREV_DEL(u.index[off])
           next == NEXT_DEL(u.index[off])
           ix1  == IF prev = 0 THEN u.index ELSE [u.index EXCEPT ![prev].size = next]
           ix2  == IF next = 0 THEN ix1 ELSE [ix1 EXCEPT ![next].time_stamp = prev]
           v    == del_file_list_remove(u, off)
<1>1. PICK r : Ranked(u, r)
  BY DEF IsList
<1>2. /\ u.index \in [Offsets -> Entries] /\ u.del_begin \in Offsets /\ Linked(u)
      /\ \A i \in Frees(u) : i \in Slots /\ i \in Offsets /\ i # 0 /\ IsFree(u.index[i])
      /\ off \in Slots /\ off # 0
  BY SfsAssumption DEF IsList, Linked, State, Frees, Slots, Offsets
<1>3. /\ prev # 0 => prev \in Frees(u) /\ NEXT_DEL(u.index[prev]) = off
      /\ next # 0 => next \in Frees(u) /\ PREV_DEL(u.index[next]) = off
      /\ prev = 0 => u.del_begin = off
  BY <1>2 DEF Linked
<1>4. prev \in Offsets /\ next \in Offsets
  BY <1>2, <1>3, SfsAssumption DEF Offsets
<1>5. /\ prev # 0 => r[prev] < r[off] /\ r[prev] \in Nat /\ r[off] \in Nat
      /\ next # 0 => r[off] < r[next] /\ r[next] \in Nat /\ r[off] \in Nat
  BY <1>1, <1>2, <1>3 DEF Ranked
<1>6. (prev # 0 => prev # off) /\ (next # 0 => next # off) /\ (prev # 0 /\ next # 0 => prev # next)
  BY <1>5
<1> HIDE DEF prev, next
<1>7. /\ ix1 \in [Offsets -> Entries]
      /\ \A i \in Offsets : i # prev \/ prev = 0 => ix1[i] = u.index[i]
      /\ prev # 0 => /\ SameName(ix1[prev], u.index[prev]) /\ SameExtent(ix1[prev], u.index[prev])
                     /\ ix1[prev].size = next /\ ix1[prev].time_stamp = u.index[prev].time_stamp
  BY <1>2, <1>4, WriteNext DEF ElseSame
<1> HIDE DEF ix1
<1>8. /\ ix2 \in [Offsets -> Entries]
      /\ \A i \in Offsets : i # next \/ next = 0 => ix2[i] = ix1[i]
      /\ next # 0 => /\ SameName(ix2[next], ix1[next]) /\ SameExtent(ix2[next], ix1[next])
                     /\ ix2[next].time_stamp = prev /\ ix2[next].size = ix1[next].size
  BY <1>7, <1>4, WritePrev DEF ElseSame
<1> HIDE DEF ix2
<1>9. /\ v.index = free_entry(ix2, off, 1)
      /\ v.del_begin = IF prev = 0 THEN next ELSE u.del_begin
      /\ v = [index |-> v.index, del_begin |-> v.del_begin]
  BY DEF del_file_list_remove, prev, next, ix1, ix2
<1> HIDE DEF v
<1>10. /\ v.index \in [Offsets -> Entries] /\ v.index[off] = UnusedEntry
       /\ \A i \in Offsets : i # off => v.index[i] = ix2[i]
  BY <1>2, <1>8, <1>9, FreeOne DEF ElseSame
<1>11. v \in State
  BY <1>2, <1>4, <1>9, <1>10 DEF State
<1>12. /\ prev # 0 => /\ SameName(v.index[prev], u.index[prev])
                      /\ SameExtent(v.index[prev], u.index[prev])
                      /\ NEXT_DEL(v.index[prev]) = next
                      /\ PREV_DEL(v.index[prev]) = PREV_DEL(u.index[prev])
       /\ next # 0 => /\ SameName(v.index[next], u.index[next])
                      /\ SameExtent(v.index[next], u.index[next])
                      /\ PREV_DEL(v.index[next]) = prev
                      /\ NEXT_DEL(v.index[next]) = NEXT_DEL(u.index[next])
       /\ \A i \in Offsets \ {off} : (i # prev \/ prev = 0) /\ (i # next \/ next = 0) =>
             v.index[i] = u.index[i]
  BY <1>4, <1>6, <1>7, <1>8, <1>10 DEF SameName, SameExtent, NEXT_DEL, PREV_DEL
<1>13. Frees(v) = Frees(u) \ {off}
  <2>1. off \notin Frees(v)
    BY <1>10, UnusedFields DEF Frees
  <2>2. ASSUME NEW i \in Slots \ {off} PROVE IsFree(v.index[i]) <=> IsFree(u.index[i])
    <3>1. i \in Offsets /\ i # 0
      BY SfsAssumption DEF Slots, Offsets
    <3>2. QED BY <3>1, <1>12 DEF SameName, IsFree
  <2>3. QED BY <2>1, <2>2, <1>2 DEF Frees
<1>14. SameBut(v, u, {off})
  BY <1>2, <1>3, <1>12, <1>13, <1>4 DEF SameBut, SameName, SameExtent
<1>15. \A j \in Frees(v) : NEXT_DEL(v.index[j]) = IF j = prev THEN next ELSE NEXT_DEL(u.index[j])
  BY <1>2, <1>12, <1>13, <1>6
<1>16. v.del_begin # 0 => v.del_begin \in Frees(v) /\ PREV_DEL(v.index[v.del_begin]) = 0
  <2>1. CASE prev = 0
    BY <2>1, <1>3, <1>6, <1>9, <1>12, <1>13
  <2>2. CASE prev # 0
    <3>1. u.del_begin # 0 => u.del_begin \in Frees(u) /\ PREV_DEL(u.index[u.del_begin]) = 0
      BY <1>2 DEF Linked
    <3>2. u.del_begin # off /\ (next # 0 => u.del_begin # next)
      BY <2>2, <3>1, <1>2, <1>3 DEF prev
    <3>3. QED BY <2>2, <3>1, <3>2, <1>2, <1>9, <1>12, <1>13
  <2>3. QED BY <2>1, <2>2
<1>17. ASSUME NEW i \in Frees(v)
       PROVE  /\ PREV_DEL(v.index[i]) = 0 => i = v.del_begin
              /\ PREV_DEL(v.index[i]) # 0 => /\ PREV_DEL(v.index[i]) \in Frees(v)
                                             /\ NEXT_DEL(v.index[PREV_DEL(v.index[i])]) = i
              /\ NEXT_DEL(v.index[i]) # 0 => /\ NEXT_DEL(v.index[i]) \in Frees(v)
                                             /\ PREV_DEL(v.index[NEXT_DEL(v.index[i])]) = i
  <2> DEFINE p == PREV_DEL(u.index[i])
             n == NEXT_DEL(u.index[i])
  <2>1. i \in Frees(u) /\ i # off /\ i # 0
    BY <1>13, <1>2
  <2>2. /\ p = 0 => i = u.del_begin
        /\ p # 0 => p \in Frees(u) /\ NEXT_DEL(u.index[p]) = i
        /\ n # 0 => n \in Frees(u) /\ PREV_DEL(u.index[n]) = i
    BY <1>2, <2>1 DEF Linked
  <2>3. (p = off <=> i = next) /\ (n = off <=> i = prev)
    BY <1>2, <1>3, <2>1, <2>2 DEF prev, next
  <2>4. PREV_DEL(v.index[i]) = IF i = next THEN prev ELSE p
    BY <1>2, <1>12, <2>1, <1>6
  <2>5. NEXT_DEL(v.index[i]) = IF i = prev THEN next ELSE n
    BY <1>2, <1>12, <2>1, <1>6
  <2>6. \A j \in Frees(v) : NEXT_DEL(v.index[j]) = IF j = prev THEN next ELSE NEXT_DEL(u.index[j])
    BY <1>15
  <2>7. \A j \in Frees(v) : PREV_DEL(v.index[j]) = IF j = next THEN prev ELSE PREV_DEL(u.index[j])
    BY <1>2, <1>12, <1>13, <1>6
  <2> HIDE DEF p, n
  <2>8. PREV_DEL(v.index[i]) = 0 => i = v.del_begin
    BY <2>1, <2>2, <2>3, <2>4, <1>3, <1>9
  <2>9. ASSUME PREV_DEL(v.index[i]) # 0
        PROVE  /\ PREV_DEL(v.index[i]) \in Frees(v)
               /\ NEXT_DEL(v.index[PREV_DEL(v.index[i])]) = i
    <3>1. CASE i = next
      BY <3>1, <2>1, <2>4, <2>6, <2>9, <1>3, <1>6, <1>13
    <3>2. CASE i # next
      <4>1. p \in Frees(v) /\ PREV_DEL(v.index[i]) = p /\ NEXT_DEL(u.index[p]) = i
        BY <3>2, <2>2, <2>3, <2>4, <2>9, <1>13
      <4>2. p # prev
        BY <4>1, <2>1, <1>3, <1>2, <1>13
      <4>3. QED BY <4>1, <4>2, <2>6
    <3>3. QED BY <3>1, <3>2
  <2>10. ASSUME NEXT_DEL(v.index[i]) # 0
         PROVE  /\ NEXT_DEL(v.index[i]) \in Frees(v)
                /\ PREV_DEL(v.index[NEXT_DEL(v.index[i])]) = i
    <3>1. CASE i = prev
      BY <3>1, <2>1, <2>5, <2>7, <2>10, <1>3, <1>6, <1>13
    <3>2. CASE i # prev
      <4>1. n \in Frees(v) /\ NEXT_DEL(v.index[i]) = n /\ PREV_DEL(u.index[n]) = i
        BY <3>2, <2>2, <2>3, <2>5, <2>10, <1>13
      <4>2. n # next
        BY <4>1, <2>1, <1>3, <1>2, <1>13
      <4>3. QED BY <4>1, <4>2, <2>7
    <3>3. QED BY <3>1, <3>2
  <2>11. QED BY <2>8, <2>9, <2>10
<1>18. Ranked(v, r)
  <2>1. ASSUME NEW i \in Frees(v), NEXT_DEL(v.index[i]) # 0 PROVE r[i] < r[NEXT_DEL(v.index[i])]
    <3>1. CASE i = prev /\ prev # 0
      <4>1. NEXT_DEL(v.index[i]) = next
        BY <3>1, <1>12
      <4>2. QED BY <3>1, <4>1, <2>1, <1>5
    <3>2. CASE ~(i = prev /\ prev # 0)
      <4>1. NEXT_DEL(v.index[i]) = NEXT_DEL(u.index[i]) /\ i \in Frees(u)
        BY <3>2, <1>2, <1>12, <1>13
      <4>2. QED BY <4>1, <2>1, <1>1 DEF Ranked
    <3>3. QED BY <3>1, <3>2
  <2>2. QED BY <2>1, <1>1 DEF Ranked
<1>19. IsList(v)
  BY <1>11, <1>16, <1>17, <1>18 DEF IsList, Linked
<1>20. QED BY <1>10, <1>14, <1>15, <1>19 DEF v, prev, next

(* Writing entries off the list, or what is no link of an entry on it, *)
LEMMA OffTheList ==
  ASSUME NEW u, IsList(u), NEW v \in State, v.del_begin = u.del_begin,
         \A i \in Slots : /\ IsFree(v.index[i]) <=> IsFree(u.index[i])
                          /\ IsFree(u.index[i]) => SameLinks(v.index[i], u.index[i])
  PROVE  IsList(v)
<1>1. PICK r : Ranked(u, r)
  BY DEF IsList
<1>2. Linked(u)
  BY DEF IsList
<1>3. Frees(v) = Frees(u)
  BY DEF Frees
<1>4. \A i \in Frees(u) : /\ PREV_DEL(v.index[i]) = PREV_DEL(u.index[i])
                          /\ NEXT_DEL(v.index[i]) = NEXT_DEL(u.index[i])
  BY DEF Frees, SameLinks, PREV_DEL, NEXT_DEL
<1>5. v.del_begin # 0 => v.del_begin \in Frees(v) /\ PREV_DEL(v.index[v.del_begin]) = 0
  BY <1>2, <1>3, <1>4 DEF Linked
<1>6. ASSUME NEW i \in Frees(v)
      PROVE  /\ PREV_DEL(v.index[i]) = 0 => i = v.del_begin
             /\ PREV_DEL(v.index[i]) # 0 => /\ PREV_DEL(v.index[i]) \in Frees(v)
                                            /\ NEXT_DEL(v.index[PREV_DEL(v.index[i])]) = i
             /\ NEXT_DEL(v.index[i]) # 0 => /\ NEXT_DEL(v.index[i]) \in Frees(v)
                                            /\ PREV_DEL(v.index[NEXT_DEL(v.index[i])]) = i
  BY <1>2, <1>3, <1>4 DEF Linked
<1>7. Ranked(v, r)
  BY <1>1, <1>3, <1>4 DEF Ranked
<1>8. QED BY <1>5, <1>6, <1>7 DEF IsList, Linked

(* The fields of the entry that the last branch of del_file_list_add()      *)
(* makes.                                                                   *)
LEMMA FreeEntryFields ==
  ASSUME NEW start \in Extents, NEW end \in Extents, NEW prev \in Offsets, NEW next \in Offsets
  PROVE  LET e == FreeEntry(start, end, prev, next)
         IN  /\ e \in Entries /\ IsFree(e) /\ e.start_block = start /\ e.end_block = end
             /\ PREV_DEL(e) = prev /\ NEXT_DEL(e) = next /\ e.cont_entries = 0
<1> DEFINE e0 == NoEntry("DEL_FILE_ENTRY")
<1>1. e0 \in Entries /\ e0.entry_type = "DEL_FILE_ENTRY" /\ e0.cont_entries = 0
  BY EmptyFields DEF EntryTypes
<1> HIDE DEF e0
<1>2. PICK e : e = [e0 EXCEPT !.start_block = start, !.end_block = end, !.time_stamp = prev,
                              !.size = next, !.name = FreeName]
  OBVIOUS
<1>3. e \in Entries
  BY <1>1, <1>2 DEF Entries, Offsets
<1>4. /\ e.entry_type = "DEL_FILE_ENTRY" /\ e.name = FreeName /\ e.start_block = start
      /\ e.end_block = end /\ e.time_stamp = prev /\ e.size = next /\ e.cont_entries = 0
  BY <1>1, <1>2 DEF Entries
<1>5. FreeEntry(start, end, prev, next) = e
  BY <1>1, <1>2 DEF FreeEntry, e0
<1>6. QED BY <1>3, <1>4, <1>5 DEF IsFree, PREV_DEL, NEXT_DEL

Pushed(v, u, new, start, end) ==
    /\ IsList(v) /\ SameBut(v, u, {new}) /\ new \in Frees(v)
    /\ v.index[new].start_block = start /\ v.index[new].end_block = end
    /\ v.index[new].cont_entries = 0
    /\ \A i \in Frees(u) : NEXT_DEL(v.index[i]) = NEXT_DEL(u.index[i])

(* That branch, which puts a new entry in front of the list, leaves a list. *)
LEMMA PushKeeps ==
  ASSUME NEW u, IsList(u), NEW new \in Slots, ~IsFree(u.index[new]),
         NEW start \in Extents, NEW end \in Extents, NEW v, v = PushFront(u, new, start, end)
  PROVE  Pushed(v, u, new, start, end)
<1> DEFINE b  == u.del_begin
           ix == [u.index EXCEPT ![new] = FreeEntry(start, end, 0, b)]
           jx == IF b = 0 THEN ix ELSE [ix EXCEPT ![b].time_stamp = new]
<1>1. PICK r : Ranked(u, r)
  BY DEF IsList
<1>2. /\ u.index \in [Offsets -> Entries] /\ b \in Offsets /\ Linked(u)
      /\ \A i \in Frees(u) : i \in Slots /\ i \in Offsets /\ i # 0
      /\ new \in Slots /\ new \in Offsets /\ new # 0 /\ new \notin Frees(u) /\ 0 \in Offsets
  BY SfsAssumption DEF IsList, Linked, State, Frees, Slots, Offsets
<1>3. b # 0 => b \in Frees(u) /\ b # new /\ PREV_DEL(u.index[b]) = 0
  BY <1>2 DEF Linked
<1> HIDE DEF b
<1>4. /\ ix \in [Offsets -> Entries] /\ \A i \in Offsets : i # new => ix[i] = u.index[i]
      /\ ix[new] = FreeEntry(start, end, 0, b)
  BY <1>2, FreeEntryFields
<1> HIDE DEF ix
<1>5. /\ jx \in [Offsets -> Entries]
      /\ \A i \in Offsets : i # b \/ b = 0 => jx[i] = ix[i]
      /\ b # 0 => /\ SameName(jx[b], ix[b]) /\ SameExtent(jx[b], ix[b])
                  /\ jx[b].time_stamp = new /\ jx[b].size = ix[b].size
  BY <1>2, <1>4, WritePrev DEF ElseSame
<1>6. v = [index |-> jx, del_begin |-> new]
  BY DEF PushFront, ix, jx, b
<1> HIDE DEF jx
<1>7. v \in State /\ v.index = jx /\ v.del_begin = new
  BY <1>2, <1>5, <1>6 DEF State
<1>8. /\ v.index[new] = FreeEntry(start, end, 0, b)
      /\ IsFree(v.index[new]) /\ PREV_DEL(v.index[new]) = 0 /\ NEXT_DEL(v.index[new]) = b
      /\ v.index[new].start_block = start /\ v.index[new].end_block = end
      /\ v.index[new].cont_entries = 0
  BY <1>2, <1>3, <1>4, <1>5, <1>7, FreeEntryFields
<1>9. /\ \A i \in Offsets \ {new} : i # b \/ b = 0 => v.index[i] = u.index[i]
      /\ b # 0 => /\ SameName(v.index[b], u.index[b]) /\ SameExtent(v.index[b], u.index[b])
                  /\ PREV_DEL(v.index[b]) = new /\ NEXT_DEL(v.index[b]) = NEXT_DEL(u.index[b])
  BY <1>2, <1>3, <1>4, <1>5, <1>7 DEF NEXT_DEL, PREV_DEL, SameName, SameExtent
<1>10. Frees(v) = Frees(u) \cup {new}
  <2>1. ASSUME NEW i \in Slots \ {new} PROVE IsFree(v.index[i]) <=> IsFree(u.index[i])
    <3>1. i \in Offsets /\ i # 0
      BY SfsAssumption DEF Slots, Offsets
    <3>2. QED BY <3>1, <1>9 DEF SameName, IsFree
  <2>2. QED BY <2>1, <1>2, <1>8 DEF Frees
<1>11. SameBut(v, u, {new})
  BY <1>2, <1>3, <1>9, <1>10 DEF SameBut, SameName, SameExtent
<1>12. ASSUME NEW i \in Frees(v)
       PROVE  /\ PREV_DEL(v.index[i]) = 0 => i = v.del_begin
              /\ PREV_DEL(v.index[i]) # 0 => /\ PREV_DEL(v.index[i]) \in Frees(v)
                                             /\ NEXT_DEL(v.index[PREV_DEL(v.index[i])]) = i
              /\ NEXT_DEL(v.index[i]) # 0 => /\ NEXT_DEL(v.index[i]) \in Frees(v)
                                             /\ PREV_DEL(v.index[NEXT_DEL(v.index[i])]) = i
  <2>1. CASE i = new
    BY <2>1, <1>3, <1>7, <1>8, <1>9, <1>10
  <2>2. CASE i # new
    <3> DEFINE p == PREV_DEL(u.index[i])
               n == NEXT_DEL(u.index[i])
    <3>1. i \in Frees(u) /\ i # 0
      BY <2>2, <1>2, <1>10
    <3>2. /\ p = 0 => i = b
          /\ p # 0 => p \in Frees(u) /\ NEXT_DEL(u.index[p]) = i
          /\ n # 0 => n \in Frees(u) /\ PREV_DEL(u.index[n]) = i
      BY <1>2, <3>1 DEF Linked, b
    <3>3. \A j \in Frees(u) : /\ PREV_DEL(v.index[j]) = IF j = b THEN new ELSE PREV_DEL(u.index[j])
                              /\ NEXT_DEL(v.index[j]) = NEXT_DEL(u.index[j])
      BY <1>2, <1>9
    <3>4. n # 0 => n # b
      BY <3>1, <3>2, <1>3
    <3> HIDE DEF p, n
    <3>5. /\ PREV_DEL(v.index[i]) = IF i = b THEN new ELSE p
          /\ NEXT_DEL(v.index[i]) = n
      BY <3>1, <3>3 DEF p, n
    <3>6. CASE i = b
      BY <3>6, <3>1, <3>2, <3>3, <3>4, <3>5, <1>2, <1>8, <1>10
    <3>7. CASE i # b
      BY <3>7, <3>1, <3>2, <3>3, <3>4, <3>5, <1>10
    <3>8. QED BY <3>6, <3>7
  <2>3. QED BY <2>1, <2>2
<1> DEFINE q == [i \in Slots |-> IF i = new THEN 0 ELSE r[i] + 1]
<1>13. Ranked(v, q)
  <2>1. \A i \in Slots : r[i] \in Nat
    BY <1>1 DEF Ranked
  <2>2. q \in [Slots -> Nat]
    BY <2>1
  <2>3. ASSUME NEW i \in Frees(v), NEXT_DEL(v.index[i]) # 0 PROVE q[i] < q[NEXT_DEL(v.index[i])]
    <3>1. CASE i = new
      BY <3>1, <2>1, <2>3, <1>2, <1>3, <1>8
    <3>2. CASE i # new
      <4>1. i \in Frees(u) /\ NEXT_DEL(v.index[i]) = NEXT_DEL(u.index[i])
        BY <3>2, <1>2, <1>9, <1>10
      <4>2. /\ NEXT_DEL(u.index[i]) \in Frees(u) /\ r[i] < r[NEXT_DEL(u.index[i])]
        BY <4>1, <2>3, <1>1, <1>2 DEF Ranked, Linked
      <4>3. QED BY <3>2, <4>1, <4>2, <2>1, <1>2
    <3>3. QED BY <3>1, <3>2
  <2> HIDE DEF q
  <2>4. QED BY <2>2, <2>3 DEF Ranked
<1>14. v.del_begin # 0 => v.del_begin \in Frees(v) /\ PREV_DEL(v.index[v.del_begin]) = 0
  BY <1>7, <1>8, <1>10
<1> HIDE DEF q
<1>15. IsList(v)
  BY <1>7, <1>12, <1>13, <1>14 DEF IsList, Linked
<1>16. \A i \in Frees(u) : NEXT_DEL(v.index[i]) = NEXT_DEL(u.index[i])
  BY <1>2, <1>9
<1>17. QED BY <1>8, <1>10, <1>11, <1>15, <1>16 DEF Pushed

(* alloc_entry() finds n unused entries in a row, if there are. *)
LEMMA AllocEntry ==
  ASSUME NEW ix, NEW n \in Nat \ {0}
  PROVE  LET s == alloc_entry(ix, n)
         IN  IF s = 0 THEN n = 1 => \A i \in Slots : ix[i].entry_type # "UNUSED_ENTRY"
             ELSE /\ s \in Slots /\ s + n - 1 \in Slots
                  /\ \A k \in s..(s + n - 1) : ix[k].entry_type = "UNUSED_ENTRY"
<1> DEFINE S == {i \in 1..(N - n + 1) : \A k \in i..(i + n - 1) : ix[k].entry_type = "UNUSED_ENTRY"}
<1>1. S \in SUBSET (0..N)
  BY SfsAssumption
<1>2. alloc_entry(ix, n) = IF S = {} THEN 0 ELSE Min(S)
  BY DEF alloc_entry, FirstOf
<1>3. CASE S = {}
  <2>1. ASSUME n = 1, NEW i \in Slots, ix[i].entry_type = "UNUSED_ENTRY" PROVE FALSE
    <3>1. i \in S
      BY <2>1, SfsAssumption DEF Slots
    <3>2. QED BY <3>1, <1>3
  <2>2. QED BY <2>1, <1>2, <1>3
<1>4. CASE S # {}
  <2>1. Min(S) \in S
    <3> HIDE DEF S
    <3>1. QED BY <1>1, <1>4, SfsAssumption, MinMax
  <2>2. PICK s : s = Min(S)
    OBVIOUS
  <2>3. /\ s \in 1..(N - n + 1) /\ s # 0
        /\ \A k \in s..(s + n - 1) : ix[k].entry_type = "UNUSED_ENTRY"
    BY <2>1, <2>2
  <2>4. s \in Slots /\ s + n - 1 \in Slots
    BY <2>3, SfsAssumption DEF Slots
  <2>5. alloc_entry(ix, n) = s
    BY <1>2, <1>4, <2>2
  <2>6. QED BY <2>3, <2>4, <2>5
<1>5. QED BY <1>3, <1>4

-----------------------------------------------------------------------------
(* Lists as module SfsSpace sees them *)

AbsOf(ix) == [i \in Slots |-> [type  |-> AbsType(ix[i]), start |-> ix[i].start_block,
                               end   |-> ix[i].end_block]]

FreeShaped(u) == \A i \in Frees(u) :
    /\ u.index[i].start_block \in Lo..Hi /\ u.index[i].end_block \in Lo..Hi
    /\ u.index[i].start_block <= u.index[i].end_block
    /\ u.index[i].cont_entries = 0

(* What module SfsSpace calls an entry, by its type. *)
LEMMA AbsTypes ==
  ASSUME NEW e
  PROVE  /\ AbsType(e) = "free"   <=> IsFree(e)
         /\ AbsType(e) = "unused" <=> e.entry_type = "UNUSED_ENTRY"
         /\ AbsType(e) = "file"   <=> OwnsData(e) \/ e.entry_type = "CLOBBERED"
         /\ AbsType(e) \in {"free", "unused", "file", "other"}
  BY DEF AbsType, OwnsData, IsFree, IsUnlinked

(* An entry that a list operation leaves alone is the same for SfsSpace. *)
LEMMA AbsSame ==
  ASSUME NEW u, NEW v, NEW X, SameBut(v, u, X), NEW i \in Slots \ X
  PROVE  AbsOf(v.index)[i] = AbsOf(u.index)[i]
<1>1. i \in Offsets
  BY DEF Slots, Offsets
<1>2. AbsType(v.index[i]) = AbsType(u.index[i])
  BY <1>1 DEF SameBut, SameName, AbsType, OwnsData, IsFree, IsUnlinked
<1>3. v.index[i].start_block = u.index[i].start_block /\ v.index[i].end_block = u.index[i].end_block
  BY <1>1 DEF SameBut, SameExtent
<1>4. QED BY <1>2, <1>3 DEF AbsOf

(* The fields that SfsSpace sees of an entry. *)
LEMMA AbsFields ==
  ASSUME NEW ix, NEW i \in Slots
  PROVE  /\ AbsOf(ix)[i].type = AbsType(ix[i])
         /\ AbsOf(ix)[i].start = ix[i].start_block /\ AbsOf(ix)[i].end = ix[i].end_block
         /\ AbsOf(ix)[i] = [type |-> AbsType(ix[i]), start |-> ix[i].start_block,
                            end |-> ix[i].end_block]
  BY DEF AbsOf

(* The extents before and behind: what the searches along the list find is  *)
(* what module SfsSpace says of the whole index.                            *)
LEMMA NeighbourExtents ==
  ASSUME NEW u, IsList(u), FreeShaped(u), NEW st \in Lo..Hi, NEW en \in Lo..Hi, st <= en
  PROVE  LET p == prev_extent(u, st)
             q == next_extent(u, st, en)
             e == AbsOf(u.index)
         IN  /\ IF p = 0 THEN Space!PrevOf(e, st) = {} ELSE p \in Frees(u) /\ p \in Space!PrevOf(e, st)
             /\ IF q = 0 THEN Space!NextOf(e, en) = {} ELSE q \in Frees(u) /\ q \in Space!NextOf(e, en)
             /\ p # 0 /\ q # 0 => p # q
<1> DEFINE e == AbsOf(u.index)
<1>1. \A i \in Slots : /\ e[i].type = "free" <=> i \in Frees(u)
                       /\ e[i].start = u.index[i].start_block
                       /\ e[i].end = u.index[i].end_block
  <2>1. ASSUME NEW i \in Slots
        PROVE  /\ e[i].type = AbsType(u.index[i]) /\ e[i].start = u.index[i].start_block
               /\ e[i].end = u.index[i].end_block
    BY AbsFields
  <2>2. ASSUME NEW i \in Slots PROVE AbsType(u.index[i]) = "free" <=> i \in Frees(u)
    BY AbsTypes DEF Frees
  <2> HIDE DEF e
  <2>3. QED BY <2>1, <2>2
<1>2. Frees(u) \subseteq Slots
  BY DEF Frees
<1>3. \A i \in Frees(u) : /\ u.index[i].start_block \in Int /\ u.index[i].end_block \in Int
                          /\ u.index[i].start_block <= u.index[i].end_block
  BY SfsAssumption DEF FreeShaped
<1>4. st \in Int /\ en \in Int
  BY SfsAssumption
<1> HIDE DEF e
<1>5. Space!PrevOf(e, st) = {i \in Frees(u) : u.index[i].end_block + 1 = st}
  BY <1>1, <1>2 DEF Space!PrevOf
<1>6. Space!NextOf(e, en) = {i \in Frees(u) : u.index[i].end_block + 1 # st
                                              /\ u.index[i].start_block - 1 = en}
  <2>1. \A i \in Frees(u) : u.index[i].start_block = en + 1 <=>
            u.index[i].end_block + 1 # st /\ u.index[i].start_block - 1 = en
    BY <1>3, <1>4
  <2>2. Space!NextOf(e, en) = {i \in Slots : e[i].type = "free" /\ e[i].start = en + 1}
    BY DEF Space!NextOf
  <2>3. QED BY <1>1, <1>2, <2>1, <2>2
<1>7. QED BY <1>5, <1>6, PrevExtent, NextExtent DEF e

(* The start or the end of an entry is moved. *)
StartAt(ix, i, x)  == [ix EXCEPT ![i].start_block = x]
EndAt(ix, i, x)    == [ix EXCEPT ![i].end_block = x]
MoveStart(u, i, x) == [u EXCEPT !.index[i].start_block = x]
MoveEnd(u, i, x)   == [u EXCEPT !.index[i].end_block = x]

(* Writing start_block of an entry leaves its links, its name and all other *)
(* entries.                                                                 *)
LEMMA WriteStart ==
  ASSUME NEW ix \in [Offsets -> Entries], NEW i \in Offsets, NEW x \in Extents
  PROVE  /\ StartAt(ix, i, x) \in [Offsets -> Entries]
         /\ ElseSame(StartAt(ix, i, x), ix, {i})
         /\ SameName(StartAt(ix, i, x)[i], ix[i]) /\ SameLinks(StartAt(ix, i, x)[i], ix[i])
         /\ StartAt(ix, i, x)[i].start_block = x
         /\ StartAt(ix, i, x)[i].end_block = ix[i].end_block
  BY DEF Entries, SameName, SameLinks, ElseSame, StartAt

(* Writing end_block does, too. *)
LEMMA WriteEnd ==
  ASSUME NEW ix \in [Offsets -> Entries], NEW i \in Offsets, NEW x \in Extents
  PROVE  /\ EndAt(ix, i, x) \in [Offsets -> Entries]
         /\ ElseSame(EndAt(ix, i, x), ix, {i})
         /\ SameName(EndAt(ix, i, x)[i], ix[i]) /\ SameLinks(EndAt(ix, i, x)[i], ix[i])
         /\ EndAt(ix, i, x)[i].end_block = x
         /\ EndAt(ix, i, x)[i].start_block = ix[i].start_block
  BY DEF Entries, SameName, SameLinks, ElseSame, EndAt

(* WriteStart for an index with its list head. *)
LEMMA WriteStartIn ==
  ASSUME NEW u \in State, NEW i \in Slots, NEW x \in Extents
  PROVE  /\ MoveStart(u, i, x) \in State /\ MoveStart(u, i, x).del_begin = u.del_begin
         /\ ElseSame(MoveStart(u, i, x).index, u.index, {i})
         /\ SameName(MoveStart(u, i, x).index[i], u.index[i])
         /\ SameLinks(MoveStart(u, i, x).index[i], u.index[i])
         /\ MoveStart(u, i, x).index[i].start_block = x
         /\ MoveStart(u, i, x).index[i].end_block = u.index[i].end_block
<1> DEFINE ix == u.index
           jx == StartAt(ix, i, x)
           v  == MoveStart(u, i, x)
<1>1. ix \in [Offsets -> Entries] /\ i \in Offsets
  BY Numbers DEF State
<1>2. v = [u EXCEPT !.index = jx]
  BY DEF MoveStart, StartAt
<1> HIDE DEF ix
<1>3. /\ jx \in [Offsets -> Entries] /\ ElseSame(jx, ix, {i})
      /\ SameName(jx[i], ix[i]) /\ SameLinks(jx[i], ix[i])
      /\ jx[i].start_block = x /\ jx[i].end_block = ix[i].end_block
  BY <1>1, WriteStart
<1> HIDE DEF jx, v
<1>4. v \in State /\ v.index = jx /\ v.del_begin = u.del_begin
  BY <1>2, <1>3 DEF State
<1>5. QED BY <1>3, <1>4 DEF v, ix

(* WriteEnd for an index with its list head. *)
LEMMA WriteEndIn ==
  ASSUME NEW u \in State, NEW i \in Slots, NEW x \in Extents
  PROVE  /\ MoveEnd(u, i, x) \in State /\ MoveEnd(u, i, x).del_begin = u.del_begin
         /\ ElseSame(MoveEnd(u, i, x).index, u.index, {i})
         /\ SameName(MoveEnd(u, i, x).index[i], u.index[i])
         /\ SameLinks(MoveEnd(u, i, x).index[i], u.index[i])
         /\ MoveEnd(u, i, x).index[i].end_block = x
         /\ MoveEnd(u, i, x).index[i].start_block = u.index[i].start_block
<1> DEFINE ix == u.index
           jx == EndAt(ix, i, x)
           v  == MoveEnd(u, i, x)
<1>1. ix \in [Offsets -> Entries] /\ i \in Offsets
  BY Numbers DEF State
<1>2. v = [u EXCEPT !.index = jx]
  BY DEF MoveEnd, EndAt
<1> HIDE DEF ix
<1>3. /\ jx \in [Offsets -> Entries] /\ ElseSame(jx, ix, {i})
      /\ SameName(jx[i], ix[i]) /\ SameLinks(jx[i], ix[i])
      /\ jx[i].end_block = x /\ jx[i].start_block = ix[i].start_block
  BY <1>1, WriteEnd
<1> HIDE DEF jx, v
<1>4. v \in State /\ v.index = jx /\ v.del_begin = u.del_begin
  BY <1>2, <1>3 DEF State
<1>5. QED BY <1>3, <1>4 DEF v, ix

(* A list entry is given the extent s..t. *)
ReExtended(v, u, i, s, t) ==
    /\ v \in State /\ v.del_begin = u.del_begin /\ ElseSame(v.index, u.index, {i})
    /\ SameName(v.index[i], u.index[i]) /\ SameLinks(v.index[i], u.index[i])
    /\ v.index[i].start_block = s /\ v.index[i].end_block = t

(* Giving a free extent other limits (the merges of del_file_list_add, the  *)
(* remainder of try_expand and del_file_list_alloc) leaves the list as it   *)
(* is and is Put of SfsSpace.                                               *)
LEMMA ReExtent ==
  ASSUME NEW u, IsList(u), FreeShaped(u), NEW i \in Frees(u),
         NEW s \in Lo..Hi, NEW t \in Lo..Hi, s <= t,
         NEW v, ReExtended(v, u, i, s, t)
  PROVE  /\ IsList(v) /\ FreeShaped(v) /\ Frees(v) = Frees(u)
         /\ AbsOf(v.index) = Space!Put(AbsOf(u.index), i, Space!Free(s, t))
<1> USE DEF ReExtended
<1>1. i \in Slots /\ IsFree(u.index[i]) /\ \A j \in Slots : j \in Offsets
  BY SfsAssumption DEF Frees, Slots, Offsets
<1>2. \A j \in Slots \ {i} : v.index[j] = u.index[j]
  BY <1>1 DEF ElseSame
<1>3. IsFree(v.index[i]) /\ v.index[i].cont_entries = u.index[i].cont_entries
  BY <1>1 DEF SameName, IsFree
<1>4. IsList(v)
  BY <1>1, <1>2, <1>3, OffTheList DEF SameLinks
<1>5. Frees(v) = Frees(u)
  BY <1>1, <1>2, <1>3 DEF Frees
<1>6. FreeShaped(v)
  <2>1. ASSUME NEW j \in Frees(v), j # i PROVE v.index[j] = u.index[j]
    BY <2>1, <1>2 DEF Frees
  <2>2. QED BY <1>3, <1>5, <2>1 DEF FreeShaped
<1>7. AbsOf(v.index) = Space!Put(AbsOf(u.index), i, Space!Free(s, t))
  <2> DEFINE e == AbsOf(u.index)
             e2 == AbsOf(v.index)
  <2>1. e2[i] = Space!Free(s, t)
    BY <1>1, <1>3, AbsTypes DEF AbsOf, Space!Free
  <2>2. \A j \in Slots \ {i} : e2[j] = e[j]
    BY <1>2 DEF AbsOf
  <2>3. e2 = [j \in Slots |-> e2[j]]
    BY DEF AbsOf
  <2> HIDE DEF e, e2
  <2>4. Space!Put(e, i, Space!Free(s, t)) = [j \in Slots |-> IF j = i THEN Space!Free(s, t) ELSE e[j]]
    BY DEF Space!Put
  <2>5. \A j \in Slots : e2[j] = IF j = i THEN Space!Free(s, t) ELSE e[j]
    BY <2>1, <2>2
  <2>6. e2 = [j \in Slots |-> IF j = i THEN Space!Free(s, t) ELSE e[j]]
    BY <2>3, <2>5
  <2>7. QED BY <2>4, <2>6 DEF e, e2
<1>8. QED BY <1>4, <1>5, <1>6, <1>7

(* Pool: the entries that the list operations work with.  Kept: an operation *)
(* takes entries from the pool or gives some back, and changes no other.     *)
Pool(u)  == {i \in Slots : IsFree(u.index[i]) \/ u.index[i].entry_type = "UNUSED_ENTRY"}
Clean(u) == \A i \in Slots : u.index[i].entry_type = "UNUSED_ENTRY" => u.index[i] = UnusedEntry
Kept(v, u) == Pool(v) = Pool(u) /\ \A i \in Offsets \ Pool(u) : v.index[i] = u.index[i]
ShapedList(u) == IsList(u) /\ FreeShaped(u) /\ Clean(u)

(* A list operation that frees entries or turns them into free extents      *)
(* keeps everything that is not a free or unused entry.                     *)
LEMMA KeptBy ==
  ASSUME NEW u, FreeShaped(u), Clean(u), NEW v, NEW X \in SUBSET Pool(u), SameBut(v, u, X),
         \A i \in X : \/ v.index[i] = UnusedEntry
                      \/ /\ IsFree(v.index[i]) /\ v.index[i].cont_entries = 0
                         /\ v.index[i].start_block \in Lo..Hi /\ v.index[i].end_block \in Lo..Hi
                         /\ v.index[i].start_block <= v.index[i].end_block
  PROVE  FreeShaped(v) /\ Clean(v) /\ Kept(v, u)
<1>1. \A i \in Slots : i \in Offsets
  BY DEF Slots, Offsets
<1>2. ASSUME NEW i \in Slots \ X
      PROVE  /\ IsFree(v.index[i]) <=> IsFree(u.index[i])
             /\ v.index[i].entry_type = "UNUSED_ENTRY" <=> u.index[i].entry_type = "UNUSED_ENTRY"
             /\ ~IsFree(u.index[i]) => v.index[i] = u.index[i]
             /\ IsFree(u.index[i]) => /\ SameExtent(v.index[i], u.index[i])
                                      /\ SameName(v.index[i], u.index[i])
  BY <1>1, <1>2 DEF SameBut, Frees, SameName
<1>3. FreeShaped(v)
  <2>1. ASSUME NEW i \in Frees(v)
        PROVE  /\ v.index[i].start_block \in Lo..Hi /\ v.index[i].end_block \in Lo..Hi
               /\ v.index[i].start_block <= v.index[i].end_block /\ v.index[i].cont_entries = 0
    <3>1. i \in Slots /\ IsFree(v.index[i])
      BY DEF Frees
    <3>2. CASE i \in X
      BY <3>1, <3>2, UnusedFields
    <3>3. CASE i \notin X
      <4>1. /\ i \in Frees(u) /\ SameExtent(v.index[i], u.index[i])
            /\ SameName(v.index[i], u.index[i])
        BY <3>1, <3>3, <1>2 DEF Frees
      <4>2. QED BY <4>1 DEF FreeShaped, SameExtent, SameName
    <3>4. QED BY <3>2, <3>3
  <2>2. QED BY <2>1 DEF FreeShaped
<1>4. Clean(v)
  <2>1. ASSUME NEW i \in Slots, v.index[i].entry_type = "UNUSED_ENTRY"
        PROVE  v.index[i] = UnusedEntry
    <3>1. CASE i \in X
      BY <3>1, <2>1 DEF IsFree
    <3>2. CASE i \notin X
      <4>1. u.index[i].entry_type = "UNUSED_ENTRY" /\ v.index[i] = u.index[i]
        BY <3>2, <2>1, <1>2 DEF IsFree
      <4>2. QED BY <4>1 DEF Clean
    <3>3. QED BY <3>1, <3>2
  <2>2. QED BY <2>1 DEF Clean
<1>5. Pool(v) = Pool(u)
  <2>1. ASSUME NEW i \in Slots PROVE i \in Pool(v) <=> i \in Pool(u)
    <3>1. CASE i \in X
      BY <3>1, UnusedFields DEF Pool
    <3>2. CASE i \notin X
      BY <3>2, <1>2 DEF Pool
    <3>3. QED BY <3>1, <3>2
  <2>2. QED BY <2>1 DEF Pool
<1>6. ASSUME NEW i \in Offsets \ Pool(u) PROVE v.index[i] = u.index[i]
  <2>1. i \notin Frees(u) /\ i \notin X
    BY DEF Frees, Pool
  <2>2. QED BY <2>1 DEF SameBut
<1>7. QED BY <1>3, <1>4, <1>5, <1>6 DEF Kept

(* A change of one entry of the index is Put of SfsSpace. *)
LEMMA AbsPut ==
  ASSUME NEW u, NEW v, NEW i \in Slots, SameBut(v, u, {i}), NEW x, AbsOf(v.index)[i] = x
  PROVE  AbsOf(v.index) = Space!Put(AbsOf(u.index), i, x)
<1> DEFINE e == AbsOf(u.index)
           e2 == AbsOf(v.index)
<1>1. ASSUME NEW j \in Slots \ {i} PROVE e2[j] = e[j]
  BY AbsSame
<1>2. e2 = [j \in Slots |-> e2[j]]
  BY DEF AbsOf
<1>3. e2[i] = x
  OBVIOUS
<1> HIDE DEF e, e2
<1>4. Space!Put(e, i, x) = [j \in Slots |-> IF j = i THEN x ELSE e[j]]
  BY DEF Space!Put
<1>5. e2 = [j \in Slots |-> IF j = i THEN x ELSE e[j]]
  BY <1>1, <1>2, <1>3
<1>6. QED BY <1>4, <1>5 DEF e, e2

(* del_file_list_remove() *)
LEMMA RemoveShaped ==
  ASSUME NEW u, ShapedList(u), NEW off \in Frees(u), NEW v, v = del_file_list_remove(u, off)
  PROVE  /\ ShapedList(v) /\ Kept(v, u) /\ SameBut(v, u, {off})
         /\ AbsOf(v.index) = Space!Put(AbsOf(u.index), off, Space!Unused)
<1>1. IsList(u) /\ FreeShaped(u) /\ Clean(u) /\ off \in Slots /\ off \in Pool(u)
  BY DEF ShapedList, Frees, Pool
<1>2. IsList(v) /\ SameBut(v, u, {off}) /\ v.index[off] = UnusedEntry
  BY <1>1, RemoveKeeps
<1>3. FreeShaped(v) /\ Clean(v) /\ Kept(v, u)
  BY <1>1, <1>2, KeptBy
<1>4. AbsOf(v.index)[off] = Space!Unused
  <2>1. AbsType(UnusedEntry) = "unused"
    <3>1. UnusedEntry.entry_type = "UNUSED_ENTRY"
      BY UnusedFields
    <3>2. QED BY <3>1, AbsTypes
  <2>2. AbsOf(v.index)[off] = [type  |-> AbsType(v.index[off]), start |-> v.index[off].start_block,
                               end   |-> v.index[off].end_block]
    BY <1>1 DEF AbsOf
  <2>3. QED BY <1>2, <2>1, <2>2, UnusedFields DEF Space!Unused
<1>5. QED BY <1>1, <1>2, <1>3, <1>4, AbsPut DEF ShapedList

(* PushKeeps, with the shape of the free entries and the view of SfsSpace. *)
LEMMA PushShaped ==
  ASSUME NEW u, ShapedList(u), NEW new \in Slots, u.index[new].entry_type = "UNUSED_ENTRY",
         NEW st \in Lo..Hi, NEW en \in Lo..Hi, st <= en, NEW v, v = PushFront(u, new, st, en)
  PROVE  /\ ShapedList(v) /\ Kept(v, u)
         /\ AbsOf(v.index) = Space!Put(AbsOf(u.index), new, Space!Free(st, en))
<1>1. /\ IsList(u) /\ FreeShaped(u) /\ Clean(u) /\ ~IsFree(u.index[new]) /\ new \in Pool(u)
      /\ st \in Extents /\ en \in Extents
  BY DEF ShapedList, Pool, IsFree, Extents
<1>2. /\ IsList(v) /\ SameBut(v, u, {new}) /\ new \in Frees(v)
      /\ v.index[new].start_block = st /\ v.index[new].end_block = en
      /\ v.index[new].cont_entries = 0
  <2>1. Pushed(v, u, new, st, en)
    BY <1>1, PushKeeps
  <2>2. QED BY <2>1 DEF Pushed
<1>3. IsFree(v.index[new])
  BY <1>2 DEF Frees
<1>4. FreeShaped(v) /\ Clean(v) /\ Kept(v, u)
  BY <1>1, <1>2, <1>3, KeptBy
<1>5. AbsOf(v.index)[new] = Space!Free(st, en)
  BY <1>2, <1>3, AbsTypes, AbsFields DEF Space!Free
<1>6. QED BY <1>2, <1>4, <1>5, AbsPut DEF ShapedList

(* The start or the end of a list entry is moved. *)
LEMMA MoveShaped ==
  ASSUME NEW u, ShapedList(u), NEW i \in Frees(u),
         NEW s \in Lo..Hi, NEW t \in Lo..Hi, s <= t, NEW v,
         \/ v = MoveStart(u, i, s) /\ u.index[i].end_block = t
         \/ v = MoveEnd(u, i, t) /\ u.index[i].start_block = s
  PROVE  /\ ShapedList(v) /\ Kept(v, u) /\ Frees(v) = Frees(u)
         /\ AbsOf(v.index) = Space!Put(AbsOf(u.index), i, Space!Free(s, t))
<1>1. /\ IsList(u) /\ FreeShaped(u) /\ Clean(u) /\ i \in Slots /\ i \in Pool(u) /\ u \in State
      /\ s \in Extents /\ t \in Extents /\ IsFree(u.index[i])
  BY DEF ShapedList, Frees, Pool, IsList, Linked, Extents
<1>2. /\ v \in State /\ v.del_begin = u.del_begin /\ ElseSame(v.index, u.index, {i})
      /\ SameName(v.index[i], u.index[i]) /\ SameLinks(v.index[i], u.index[i])
      /\ v.index[i].start_block = s /\ v.index[i].end_block = t
  <2>1. CASE v = MoveStart(u, i, s) /\ u.index[i].end_block = t
    BY <1>1, <2>1, WriteStartIn
  <2>2. CASE v = MoveEnd(u, i, t) /\ u.index[i].start_block = s
    BY <1>1, <2>2, WriteEndIn
  <2>3. QED BY <2>1, <2>2
<1>3. /\ IsList(v) /\ FreeShaped(v) /\ Frees(v) = Frees(u)
      /\ AbsOf(v.index) = Space!Put(AbsOf(u.index), i, Space!Free(s, t))
  <2>1. ReExtended(v, u, i, s, t)
    BY <1>2 DEF ReExtended
  <2>2. QED BY <1>1, <2>1, ReExtent
<1>4. SameBut(v, u, {i})
  <2>1. \A j \in Offsets \ {i} : v.index[j] = u.index[j]
    BY <1>2 DEF ElseSame
  <2>2. QED BY <2>1, <1>3 DEF SameBut, SameExtent, SameName
<1>5. IsFree(v.index[i]) /\ v.index[i].cont_entries = 0
  BY <1>1, <1>2 DEF SameName, IsFree, FreeShaped
<1>6. Clean(v) /\ Kept(v, u)
  BY <1>1, <1>2, <1>4, <1>5, KeptBy
<1>7. QED BY <1>3, <1>6 DEF ShapedList

(* What del_file_list_add() of an extent does to the index e of SfsSpace,   *)
(* and that it does so: it fails only when it would need an unused entry    *)
(* and there is none, and then changes nothing.                             *)
Added(e, e2, ok, st, en) ==
    \/ /\ ok
       /\ \E p \in Space!PrevOf(e, st), q \in Space!NextOf(e, en) :
             e2 = Space!Put(Space!Put(e, p, Space!Unused), q, Space!Free(e[p].start, e[q].end))
    \/ /\ ok /\ Space!PrevOf(e, st) = {}
       /\ \E q \in Space!NextOf(e, en) : e2 = Space!Put(e, q, Space!Free(st, e[q].end))
    \/ /\ ok /\ Space!NextOf(e, en) = {}
       /\ \E p \in Space!PrevOf(e, st) : e2 = Space!Put(e, p, Space!Free(e[p].start, en))
    \/ /\ ok /\ Space!PrevOf(e, st) = {} /\ Space!NextOf(e, en) = {}
       /\ \E n \in Space!UnusedIn(e) : e2 = Space!Put(e, n, Space!Free(st, en))
    \/ /\ ~ok /\ e2 = e /\ Space!UnusedIn(e) = {}
       /\ Space!PrevOf(e, st) = {} /\ Space!NextOf(e, en) = {}

(* del_file_list_add() of any extent: it leaves a list of well-formed       *)
(* entries, keeps the others, and is one of the five outcomes of SfsSpace.  *)
LEMMA AddShaped ==
  ASSUME NEW u, ShapedList(u), NEW st \in Lo..Hi, NEW en \in Lo..Hi, st <= en,
         NEW a, a = del_file_list_add(u, st, en)
  PROVE  /\ ShapedList(a.u) /\ Kept(a.u, u)
         /\ Added(AbsOf(u.index), AbsOf(a.u.index), a.ok, st, en)
<1> DEFINE p   == prev_extent(u, st)
           q   == next_extent(u, st, en)
           new == alloc_entry(u.index, 1)
           e   == AbsOf(u.index)
<1>1. /\ IsList(u) /\ FreeShaped(u) /\ st # 0 /\ st \in Int /\ en \in Int
  BY SfsAssumption DEF ShapedList
<1>2. /\ IF p = 0 THEN Space!PrevOf(e, st) = {} ELSE p \in Frees(u) /\ p \in Space!PrevOf(e, st)
      /\ IF q = 0 THEN Space!NextOf(e, en) = {} ELSE q \in Frees(u) /\ q \in Space!NextOf(e, en)
      /\ p # 0 /\ q # 0 => p # q
  BY <1>1, NeighbourExtents
<1>3. ASSUME NEW i \in Frees(u)
      PROVE  /\ i \in Slots /\ e[i].start = u.index[i].start_block
             /\ e[i].end = u.index[i].end_block
             /\ u.index[i].start_block \in Lo..Hi /\ u.index[i].end_block \in Lo..Hi
             /\ u.index[i].start_block <= u.index[i].end_block
             /\ u.index[i].start_block \in Int /\ u.index[i].end_block \in Int
  <2>1. i \in Slots
    BY DEF Frees
  <2>2. e[i].start = u.index[i].start_block /\ e[i].end = u.index[i].end_block
    BY <2>1, AbsFields
  <2>3. /\ u.index[i].start_block \in Lo..Hi /\ u.index[i].end_block \in Lo..Hi
        /\ u.index[i].start_block <= u.index[i].end_block
    BY <1>1 DEF FreeShaped
  <2>4. QED BY <2>1, <2>2, <2>3, SfsAssumption
<1>4. /\ p # 0 => u.index[p].end_block + 1 = st
      /\ q # 0 => u.index[q].start_block = en + 1
  BY <1>2, <1>3 DEF Space!PrevOf, Space!NextOf
<1>5. a = CASE next_extent(u, st, en) # 0 /\ prev_extent(u, st) # 0 ->
                 [ok |-> TRUE, u |-> [del_file_list_remove(u, p) EXCEPT
                                        !.index[q].start_block = u.index[p].start_block]]
            [] q # 0 /\ p = 0 -> [ok |-> TRUE, u |-> [u EXCEPT !.index[q].start_block = st]]
            [] q = 0 /\ p # 0 -> [ok |-> TRUE, u |-> [u EXCEPT !.index[p].end_block = en]]
            [] OTHER -> IF new = 0 THEN [ok |-> FALSE, u |-> u]
                        ELSE [ok |-> TRUE, u |-> PushFront(u, new, st, en)]
  BY <1>1 DEF del_file_list_add
<1> HIDE DEF p, q, new, e
<1>6. CASE q # 0 /\ p # 0
  <2> DEFINE w == del_file_list_remove(u, p)
             s == u.index[p].start_block
             t == u.index[q].end_block
  <2>1. /\ ShapedList(w) /\ Kept(w, u) /\ SameBut(w, u, {p})
        /\ AbsOf(w.index) = Space!Put(e, p, Space!Unused)
    BY <1>2, <1>6, RemoveShaped DEF e
  <2> HIDE DEF w
  <2>2. p \in Frees(u) /\ q \in Frees(u) /\ q # p /\ q \in Offsets
    BY <1>2, <1>6 DEF Frees, Slots, Offsets
  <2>3. q \in Frees(w) /\ w.index[q].end_block = t
    BY <2>1, <2>2 DEF SameBut, SameExtent
  <2>4. s \in Lo..Hi /\ t \in Lo..Hi /\ s <= t
    BY <1>1, <1>3, <1>4, <1>6, <2>2
  <2> DEFINE v == MoveStart(w, q, s)
  <2>5. /\ ShapedList(v) /\ Kept(v, w)
        /\ AbsOf(v.index) = Space!Put(AbsOf(w.index), q, Space!Free(s, t))
    BY <2>1, <2>3, <2>4, MoveShaped
  <2>6. a.ok = TRUE /\ a.u = v
    BY <1>5, <1>6 DEF w, q, p, MoveStart
  <2> HIDE DEF v
  <2>7. Kept(v, u)
    BY <2>1, <2>5 DEF Kept
  <2>8. AbsOf(v.index) = Space!Put(Space!Put(e, p, Space!Unused), q, Space!Free(e[p].start, e[q].end))
    BY <2>1, <2>2, <2>5, <1>3
  <2>9. Added(e, AbsOf(v.index), a.ok, st, en)
    BY <1>2, <1>6, <2>6, <2>8 DEF Added
  <2>10. QED BY <2>5, <2>6, <2>7, <2>9 DEF e
<1>7. CASE q # 0 /\ p = 0
  <2> DEFINE t == u.index[q].end_block
             v == MoveStart(u, q, st)
  <2>1. q \in Frees(u) /\ t \in Lo..Hi /\ st <= t /\ e[q].end = t
    BY <1>1, <1>2, <1>3, <1>4, <1>7
  <2>2. /\ ShapedList(v) /\ Kept(v, u)
        /\ AbsOf(v.index) = Space!Put(e, q, Space!Free(st, t))
    BY <2>1, MoveShaped DEF e
  <2>3. a.ok = TRUE /\ a.u = v
    BY <1>5, <1>7 DEF q, p, MoveStart
  <2> HIDE DEF v
  <2>4. Added(e, AbsOf(v.index), a.ok, st, en)
    BY <1>2, <1>7, <2>1, <2>2, <2>3 DEF Added
  <2>5. QED BY <2>2, <2>3, <2>4 DEF e
<1>8. CASE q = 0 /\ p # 0
  <2> DEFINE s == u.index[p].start_block
             v == MoveEnd(u, p, en)
  <2>1. p \in Frees(u) /\ s \in Lo..Hi /\ s <= en /\ e[p].start = s
    BY <1>1, <1>2, <1>3, <1>4, <1>8
  <2>2. /\ ShapedList(v) /\ Kept(v, u)
        /\ AbsOf(v.index) = Space!Put(e, p, Space!Free(s, en))
    BY <2>1, MoveShaped DEF e
  <2>3. a.ok = TRUE /\ a.u = v
    BY <1>5, <1>8 DEF q, p, MoveEnd
  <2> HIDE DEF v
  <2>4. Added(e, AbsOf(v.index), a.ok, st, en)
    BY <1>2, <1>8, <2>1, <2>2, <2>3 DEF Added
  <2>5. QED BY <2>2, <2>3, <2>4 DEF e
<1>9. CASE q = 0 /\ p = 0
  <2>1. IF new = 0 THEN \A i \in Slots : u.index[i].entry_type # "UNUSED_ENTRY"
        ELSE new \in Slots /\ u.index[new].entry_type = "UNUSED_ENTRY"
    <3> DEFINE ix == u.index
    <3>1. IF new = 0 THEN \A i \in Slots : ix[i].entry_type # "UNUSED_ENTRY"
          ELSE new \in Slots /\ \A k \in new..(new + 1 - 1) : ix[k].entry_type = "UNUSED_ENTRY"
      BY AllocEntry DEF new
    <3>2. new # 0 => new \in new..(new + 1 - 1)
      BY <3>1, SfsAssumption DEF Slots
    <3>3. QED BY <3>1, <3>2
  <2>2. \A i \in Slots : i \in Space!UnusedIn(e) <=> u.index[i].entry_type = "UNUSED_ENTRY"
    <3>1. ASSUME NEW i \in Slots
          PROVE  e[i].type = "unused" <=> u.index[i].entry_type = "UNUSED_ENTRY"
      <4>1. e[i].type = AbsType(u.index[i])
        BY AbsFields DEF e
      <4>2. QED BY <4>1, AbsTypes
    <3>2. QED BY <3>1 DEF Space!UnusedIn
  <2>3. CASE new = 0
    <3>1. a.ok = FALSE /\ a.u = u
      BY <1>5, <1>9, <2>3 DEF q, p
    <3>2. Space!UnusedIn(e) = {}
      BY <2>1, <2>2, <2>3 DEF Space!UnusedIn
    <3>3. Added(e, e, a.ok, st, en)
      BY <1>2, <1>9, <3>1, <3>2 DEF Added
    <3>4. QED BY <3>1, <3>3 DEF e, Kept
  <2>4. CASE new # 0
    <3> DEFINE v == PushFront(u, new, st, en)
    <3>1. /\ ShapedList(v) /\ Kept(v, u)
          /\ AbsOf(v.index) = Space!Put(e, new, Space!Free(st, en))
      BY <2>1, <2>4, PushShaped DEF e
    <3>2. a.ok = TRUE /\ a.u = v
      BY <1>5, <1>9, <2>4 DEF q, p
    <3> HIDE DEF v
    <3>3. new \in Space!UnusedIn(e)
      BY <2>1, <2>2, <2>4
    <3>4. Added(e, AbsOf(v.index), a.ok, st, en)
      BY <1>2, <1>9, <3>1, <3>2, <3>3 DEF Added
    <3>5. QED BY <3>1, <3>2, <3>4 DEF e
  <2>5. QED BY <2>3, <2>4
<1>10. QED BY <1>6, <1>7, <1>8, <1>9

(* The extent of an empty file is not added. *)
LEMMA AddNothing ==
  ASSUME NEW u, NEW a, a = del_file_list_add(u, 0, 0)
  PROVE  a.u = u /\ a.ok
  BY DEF del_file_list_add

-----------------------------------------------------------------------------
(* Numbers of blocks and of bytes *)

(* Sizes in bytes and in blocks compare alike. *)
LEMMA Times ==
  ASSUME NEW a \in Int, NEW b \in Int
  PROVE  /\ BlockSize * a \in Int
         /\ BlockSize * a <= BlockSize * b <=> a <= b
         /\ BlockSize * a = BlockSize * b <=> a = b
         /\ BlockSize * a - BlockSize * b = BlockSize * (a - b)
         /\ (BlockSize * a) \div BlockSize = a
         /\ BlockSize * 0 = 0
  BY SfsAssumption

(* The number of blocks that get_real_size() rounds a length up to. *)
LEMMA BlockCounts ==
  ASSUME NEW b \in Nat
  PROVE  /\ BlockCount(b) \in Nat /\ (b = 0 <=> BlockCount(b) = 0)
         /\ get_real_size(b) = BlockSize * BlockCount(b) /\ get_real_size(b) \in Nat
  BY SfsAssumption DEF BlockCount, get_real_size

(* get_size() of an extent that is not empty counts its blocks. *)
LEMMA SizeOf ==
  ASSUME NEW e, e.start_block \in Lo..Hi, e.end_block \in Lo..Hi, e.start_block <= e.end_block
  PROVE  /\ get_size(e) = BlockSize * (e.end_block - e.start_block + 1)
         /\ e.end_block - e.start_block + 1 \in Nat \ {0}
         /\ get_size(e) \in 0..(BlockSize * (Hi + 1))
<1> DEFINE n == e.end_block - e.start_block + 1
<1>1. n \in 1..Hi /\ n \in Int /\ n < Word /\ Hi + 1 \in Int /\ 0 \in Int
  BY SfsAssumption
<1>2. n % Word = n
  <2>1. ASSUME NEW k \in Nat, k < Word PROVE k % Word = k
    BY <2>1, SfsAssumption
  <2>2. QED BY <1>1, <2>1, SfsAssumption
<1>3. get_size(e) = BlockSize * n
  BY <1>2 DEF get_size
<1> HIDE DEF n
<1>4. BlockSize * 0 <= BlockSize * n /\ BlockSize * n <= BlockSize * (Hi + 1)
  <2>1. 0 <= n /\ n <= Hi + 1
    BY <1>1, SfsAssumption
  <2>2. QED BY <1>1, <2>1, Times
<1>5. BlockSize * n \in Int /\ BlockSize * 0 = 0 /\ BlockSize * (Hi + 1) \in Int
  BY <1>1, Times
<1>6. QED BY <1>1, <1>3, <1>4, <1>5 DEF n

(* A free extent gives its first n blocks. *)
LEMMA TakeShaped ==
  ASSUME NEW u, ShapedList(u), NEW d \in Frees(u), NEW n \in Nat \ {0},
         n <= Space!Size(AbsOf(u.index)[d]), NEW v, v = TakeFront(u, d, BlockSize * n)
  PROVE  /\ ShapedList(v) /\ Kept(v, u)
         /\ AbsOf(v.index) = Space!TakeFront(AbsOf(u.index), d, n)
<1> DEFINE e == AbsOf(u.index)
           s == u.index[d].start_block
           t == u.index[d].end_block
<1>1. /\ d \in Slots /\ e[d].start = s /\ e[d].end = t
      /\ s \in Lo..Hi /\ t \in Lo..Hi /\ s <= t /\ s \in Int /\ t \in Int
  <2>1. d \in Slots
    BY DEF Frees
  <2>2. e[d].start = s /\ e[d].end = t
    BY <2>1, AbsFields
  <2>3. s \in Lo..Hi /\ t \in Lo..Hi /\ s <= t
    BY DEF ShapedList, FreeShaped
  <2>4. QED BY <2>1, <2>2, <2>3, SfsAssumption
<1>2. Space!Size(e[d]) = t - s + 1
  BY <1>1 DEF Space!Size
<1>3. get_size(u.index[d]) = BlockSize * (t - s + 1)
  BY <1>1, SizeOf
<1>4. BlockSize * n = BlockSize * (t - s + 1) <=> n = t - s + 1
  <2>1. n \in Int /\ t - s + 1 \in Int
    BY <1>1
  <2> HIDE DEF s, t
  <2>2. QED BY <2>1, Times
<1>5. (BlockSize * n) \div BlockSize = n
  BY Times
<1>6. CASE n = t - s + 1
  <2>1. v = del_file_list_remove(u, d)
    BY <1>3, <1>6 DEF TakeFront
  <2>2. /\ ShapedList(v) /\ Kept(v, u)
        /\ AbsOf(v.index) = Space!Put(e, d, Space!Unused)
    BY <2>1, RemoveShaped
  <2>3. QED BY <1>2, <1>6, <2>2 DEF Space!TakeFront
<1>7. CASE n # t - s + 1
  <2>1. v = MoveStart(u, d, s + n)
    BY <1>3, <1>4, <1>5, <1>7 DEF TakeFront, MoveStart
  <2>2. s + n \in Lo..Hi /\ s + n <= t
    <3>1. n <= t - s + 1
      BY <1>2
    <3>2. Lo \in Int /\ Hi \in Int
      BY SfsAssumption
    <3> HIDE DEF s, t
    <3>3. s \in Int /\ t \in Int /\ Lo <= s /\ t <= Hi
      BY <1>1, <3>2
    <3>4. s + n \in Int /\ Lo <= s + n /\ s + n <= t /\ s + n <= Hi
      BY <1>7, <3>1, <3>2, <3>3
    <3>5. QED BY <3>2, <3>4
  <2>3. /\ ShapedList(v) /\ Kept(v, u)
        /\ AbsOf(v.index) = Space!Put(e, d, Space!Free(s + n, t))
    BY <1>1, <2>1, <2>2, MoveShaped
  <2>4. QED BY <1>1, <1>2, <1>7, <2>3 DEF Space!TakeFront
<1>8. QED BY <1>6, <1>7

(* The bounds of the sizes of free extents that the searches need. *)
LEMMA FreeSizes ==
  ASSUME NEW u, ShapedList(u), NEW i \in Frees(u)
  PROVE  /\ i \in Slots /\ AbsOf(u.index)[i].type = "free"
         /\ AbsOf(u.index)[i].start = u.index[i].start_block
         /\ AbsOf(u.index)[i].end = u.index[i].end_block
         /\ u.index[i].start_block \in Lo..Hi /\ u.index[i].end_block \in Lo..Hi
         /\ u.index[i].start_block <= u.index[i].end_block
         /\ Space!Size(AbsOf(u.index)[i]) \in Nat \ {0}
         /\ get_size(u.index[i]) = BlockSize * Space!Size(AbsOf(u.index)[i])
         /\ get_size(u.index[i]) \in 0..(BlockSize * (Hi + 1))
<1>1. i \in Slots /\ IsFree(u.index[i])
  BY DEF Frees
<1>2. /\ u.index[i].start_block \in Lo..Hi /\ u.index[i].end_block \in Lo..Hi
      /\ u.index[i].start_block <= u.index[i].end_block
  BY DEF ShapedList, FreeShaped
<1>3. /\ AbsOf(u.index)[i].type = "free"
      /\ AbsOf(u.index)[i].start = u.index[i].start_block
      /\ AbsOf(u.index)[i].end = u.index[i].end_block
  <2>1. AbsType(u.index[i]) = "free"
    BY <1>1, AbsTypes
  <2>2. QED BY <1>1, <2>1, AbsFields
<1>4. Space!Size(AbsOf(u.index)[i]) = u.index[i].end_block - u.index[i].start_block + 1
  BY <1>3 DEF Space!Size
<1>5. QED BY <1>1, <1>2, <1>3, <1>4, SizeOf

(* del_file_list_alloc() takes the front of a largest free extent, or fails *)
(* because that is too small.                                               *)
LEMMA AllocShaped ==
  ASSUME NEW u, ShapedList(u), NEW size \in Nat \ {0}, NEW a, a = del_file_list_alloc(u, size)
  PROVE  LET e == AbsOf(u.index)
             n == BlockCount(size)
         IN  \/ a.start = 0 /\ a.u = u
             \/ /\ a.start \in Lo..Hi /\ ShapedList(a.u) /\ Kept(a.u, u)
                /\ max_extent(u) \in Frees(u) /\ n <= Space!Size(e[max_extent(u)])
                /\ a.u = TakeFront(u, max_extent(u), BlockSize * n)
                /\ \E d \in Frees(u) : /\ \A c \in Frees(u) : Space!Size(e[c]) <= Space!Size(e[d])
                                       /\ n <= Space!Size(e[d])
                                       /\ a.start = e[d].start
                                       /\ AbsOf(a.u.index) = Space!TakeFront(e, d, n)
<1> DEFINE e == AbsOf(u.index)
           n == BlockCount(size)
           m == BlockSize * (Hi + 1)
           d == max_extent(u)
<1>1. n \in Nat \ {0} /\ get_real_size(size) = BlockSize * n /\ BlockSize * n \in Nat
  BY BlockCounts
<1>2. m \in Nat
  <2>1. Hi + 1 \in Int /\ 0 \in Int /\ 0 <= Hi + 1
    BY SfsAssumption
  <2>2. BlockSize * (Hi + 1) \in Int /\ BlockSize * 0 <= BlockSize * (Hi + 1) /\ BlockSize * 0 = 0
    BY <2>1, Times
  <2>3. QED BY <2>2
<1>3. \A i \in Frees(u) : get_size(u.index[i]) \in 0..m
  BY FreeSizes
<1> HIDE DEF m, d, n
<1>4. /\ max_size(u) \in Nat
      /\ \A i \in Frees(u) : get_size(u.index[i]) <= max_size(u)
      /\ max_size(u) # 0 => d \in Frees(u) /\ get_size(u.index[d]) = max_size(u)
  <2>1. IsList(u)
    BY DEF ShapedList
  <2>2. QED BY <2>1, <1>2, <1>3, MaxExtent DEF d
<1>5. CASE get_real_size(size) > max_size(u)
  BY <1>5 DEF del_file_list_alloc
<1>6. CASE ~(get_real_size(size) > max_size(u))
  <2>1. BlockSize * n <= max_size(u)
    BY <1>1, <1>4, <1>6
  <2>2. BlockSize * n # 0
    <3>1. BlockSize * n = BlockSize * 0 <=> n = 0
      BY <1>1, Times
    <3>2. BlockSize * 0 = 0
      BY <1>1, Times
    <3>3. QED BY <1>1, <3>1, <3>2
  <2>3. d \in Frees(u) /\ get_size(u.index[d]) = max_size(u)
    BY <1>1, <1>4, <2>1, <2>2
  <2>4. \A c \in Frees(u) : /\ Space!Size(e[c]) \in Int
                            /\ get_size(u.index[c]) = BlockSize * Space!Size(e[c])
    BY FreeSizes
  <2> HIDE DEF e
  <2>5. n <= Space!Size(e[d])
    <3>1. BlockSize * n <= BlockSize * Space!Size(e[d])
      BY <2>1, <2>3, <2>4
    <3>2. QED BY <1>1, <2>3, <2>4, <3>1, Times
  <2>6. ASSUME NEW c \in Frees(u) PROVE Space!Size(e[c]) <= Space!Size(e[d])
    <3>1. BlockSize * Space!Size(e[c]) <= BlockSize * Space!Size(e[d])
      BY <1>4, <2>3, <2>4
    <3>2. QED BY <2>3, <2>4, <3>1, Times
  <2>7. a.start = u.index[d].start_block /\ a.u = TakeFront(u, d, BlockSize * n)
    BY <1>1, <1>6 DEF del_file_list_alloc, d
  <2>8. e[d].start = u.index[d].start_block /\ u.index[d].start_block \in Lo..Hi
    BY <2>3, FreeSizes DEF e
  <2>9. ShapedList(a.u) /\ Kept(a.u, u) /\ AbsOf(a.u.index) = Space!TakeFront(e, d, n)
    BY <1>1, <2>3, <2>5, <2>7, TakeShaped DEF e
  <2>10. QED BY <2>3, <2>5, <2>6, <2>7, <2>8, <2>9 DEF d, e, n
<1>7. QED BY <1>5, <1>6

(* try_expand() takes what the file lacks from the front of the extent      *)
(* behind it, or there is none that is large enough.                        *)
LEMMA ExpandShaped ==
  ASSUME NEW u, ShapedList(u), NEW f, NEW new \in Nat, NEW x, x = try_expand(u, f, new),
         u.index[f].size \in Nat, BlockCount(new) > BlockCount(u.index[f].size)
  PROVE  LET e == AbsOf(u.index)
             n == BlockCount(new) - BlockCount(u.index[f].size)
             Behind(i) == e[i].start = u.index[f].end_block + 1 /\ n <= Space!Size(e[i])
         IN  \/ ~x.ok /\ x.u = u /\ \A i \in Frees(u) : ~Behind(i)
             \/ /\ x.ok /\ ShapedList(x.u) /\ Kept(x.u, u)
                /\ donor(u, f, new) \in Frees(u) /\ n <= Space!Size(e[donor(u, f, new)])
                /\ n \in Nat \ {0} /\ delta_block(u, f, new) = BlockSize * n
                /\ \E d \in Frees(u) : /\ Behind(d)
                                       /\ AbsOf(x.u.index) = Space!TakeFront(e, d, n)
<1> DEFINE e == AbsOf(u.index)
           n == BlockCount(new) - BlockCount(u.index[f].size)
           d == donor(u, f, new)
           Behind(i) == e[i].start = u.index[f].end_block + 1 /\ n <= Space!Size(e[i])
           Fits(i) == /\ u.index[i].start_block = u.index[f].end_block + 1
                      /\ get_size(u.index[i]) >= delta_block(u, f, new)
<1>1. n \in Nat \ {0} /\ delta_block(u, f, new) = BlockSize * n
  <2>1. /\ BlockCount(new) \in Int /\ BlockCount(u.index[f].size) \in Int
        /\ get_real_size(new) = BlockSize * BlockCount(new)
        /\ get_real_size(u.index[f].size) = BlockSize * BlockCount(u.index[f].size)
    BY BlockCounts
  <2>2. delta_block(u, f, new) = BlockSize * (BlockCount(new) - BlockCount(u.index[f].size))
    BY <2>1, Times DEF delta_block
  <2>3. QED BY <2>1, <2>2
<1>2. ASSUME NEW i \in Frees(u) PROVE Fits(i) <=> Behind(i)
  <2>1. /\ e[i].start = u.index[i].start_block /\ Space!Size(e[i]) \in Int
        /\ get_size(u.index[i]) = BlockSize * Space!Size(e[i])
    BY FreeSizes
  <2> HIDE DEF e, n
  <2>2. BlockSize * n <= BlockSize * Space!Size(e[i]) <=> n <= Space!Size(e[i])
    <3>1. ASSUME NEW z \in Int PROVE BlockSize * n <= BlockSize * z <=> n <= z
      BY <1>1, Times
    <3>2. QED BY <2>1, <3>1
  <2>3. BlockSize * n \in Int /\ BlockSize * Space!Size(e[i]) \in Int
    BY <1>1, <2>1, Times
  <2>4. QED BY <1>1, <2>1, <2>2, <2>3
<1>3. IF d = 0 THEN \A i \in Frees(u) : ~Fits(i) ELSE d \in Frees(u) /\ Fits(d)
  <2>1. IsList(u)
    BY DEF ShapedList
  <2>2. QED BY <2>1, Donor
<1> HIDE DEF d, n, Fits
<1>4. CASE d = 0
  <2>1. x.ok = FALSE /\ x.u = u
    BY <1>4 DEF try_expand, d
  <2>2. \A i \in Frees(u) : ~Behind(i)
    BY <1>2, <1>3, <1>4
  <2>3. QED BY <2>1, <2>2 DEF n
<1>5. CASE d # 0
  <2>1. x.ok = TRUE /\ x.u = TakeFront(u, d, BlockSize * n)
    BY <1>1, <1>5 DEF try_expand, d
  <2>2. d \in Frees(u) /\ Behind(d)
    BY <1>2, <1>3, <1>5
  <2>3. ShapedList(x.u) /\ Kept(x.u, u) /\ AbsOf(x.u.index) = Space!TakeFront(e, d, n)
    BY <1>1, <2>1, <2>2, TakeShaped
  <2>4. QED BY <1>1, <2>1, <2>2, <2>3 DEF d, n
<1>6. QED BY <1>4, <1>5

-----------------------------------------------------------------------------
(* The order of the index: entries, and names *)

IsHead(e) == OwnsData(e) \/ e.entry_type = "DIR_ENTRY"
IsFile(e) == OwnsData(e) \/ e.entry_type = "CLOBBERED"
IsSeen(e) == e.entry_type \in {"FILE_ENTRY", "DIR_ENTRY"}

(* The extent of a file or former file is what its size asks for. *)
Sized(e) ==
    IF e.size = 0 THEN e.start_block = 0 /\ e.end_block = 0
    ELSE /\ e.start_block \in Lo..Hi /\ e.end_block \in Lo..Hi
         /\ e.end_block - e.start_block + 1 = BlockCount(e.size)

(* A directory has the continuation entries that its name needs.  A rename  *)
(* in FUSE may give a file's path to a directory, and the reverse.          *)
DirSized(e) == e.cont_entries + 1 = count_entry(Len(e.name) + 1, FirstDir)

EntryOK(e) ==
    /\ e.entry_type # "BOOT_CODE"
    /\ e.entry_type = "UNUSED_ENTRY" => e = UnusedEntry
    /\ e.entry_type = "DIR_ENTRY" => e.name \in FilePaths \cup DirPaths \cup {<<>>} /\ DirSized(e)
    /\ e.entry_type \in {"DIR_ENTRY", "CONT", "START_ENTRY"} => e.start_block = 0 /\ e.end_block = 0
    /\ IsFile(e) => Sized(e) /\ e.size \in Nat
    /\ OwnsData(e) => e.name \in FilePaths \cup DirPaths /\ e.time_stamp # 0

Entered(ix) ==
    /\ \A i \in Slots : EntryOK(ix[i])
    /\ ix[1].entry_type = "START_ENTRY"
    /\ ix[3].entry_type = "DIR_ENTRY" /\ ix[3].name = <<>>

(* The parts of the invariant about names. *)
HeadsWhole(ix) == \A i \in Slots : IsHead(ix[i]) => NameMatches(ix, i, ix[i].name)

ContsOwned(ix) == \A c \in Slots : ix[c].entry_type = "CONT" =>
    \E i \in Slots : /\ c = i + Conts(ix, c) /\ Conts(ix, c) >= 1
                     /\ \/ ix[i].entry_type = "CLOBBERED"
                        \/ IsHead(ix[i]) /\ Conts(ix, c) <= Conts(ix, i)

Once(ix) == \A i, j \in Slots :
    IsSeen(ix[i]) /\ ix[i].entry_type = ix[j].entry_type /\ ix[i].name = ix[j].name => i = j

DirNamed(ix, p) == \E i \in Slots : ix[i].entry_type = "DIR_ENTRY" /\ ix[i].name = p

Parented(ix) == \A i \in Slots : IsSeen(ix[i]) =>
    \A a \in Ancestors(ix[i].name) : DirNamed(ix, a)

(* A mount makes every unlinked file a file again, with a name that another *)
(* file may have by now, in a directory that may be gone.  So names are     *)
(* unique, and have their directories, only in a tidy index, which no mount *)
(* has changed.                                                             *)
Tidy == TRUE

NamesOK(tidy, ix) ==
    HeadsWhole(ix) /\ ContsOwned(ix) /\ (tidy => Once(ix) /\ Parented(ix))

InOrder(tidy, u) == IsList(u) /\ FreeShaped(u) /\ Entered(u.index) /\ NamesOK(tidy, u.index)

(* The inductive invariant. *)
IInv(tidy) == InOrder(tidy, fs) /\ data \in [Bytes -> Tokens \cup {Fresh}]

-----------------------------------------------------------------------------
(* Entries and searches *)

(* A continuation entry, as sfs_creat, sfs_mkdir and sfs_rename write it. *)
LEMMA ContFields ==
  ASSUME NEW p, NEW k
  PROVE  /\ ContEntry(p, k).entry_type = "CONT" /\ ContEntry(p, k).name = p
         /\ ContEntry(p, k).cont_entries = k /\ ~IsFree(ContEntry(p, k))
         /\ EntryOK(ContEntry(p, k))
         /\ p \in FilePaths \cup DirPaths /\ k \in 0..N => ContEntry(p, k) \in Entries
<1> DEFINE e0 == NoEntry("CONT")
           e  == [e0 EXCEPT !.name = p, !.cont_entries = k]
<1>1. e0 \in Entries /\ e0.entry_type = "CONT" /\ e0.start_block = 0 /\ e0.end_block = 0
  BY EmptyFields DEF EntryTypes
<1> HIDE DEF e0
<1>2. /\ e.entry_type = "CONT" /\ e.name = p /\ e.cont_entries = k
      /\ e.start_block = 0 /\ e.end_block = 0
  BY <1>1 DEF Entries
<1>3. p \in FilePaths \cup DirPaths /\ k \in 0..N => e \in Entries
  BY <1>1 DEF Entries
<1>4. ContEntry(p, k) = e
  BY DEF ContEntry, e0
<1> HIDE DEF e
<1>5. QED BY <1>2, <1>3, <1>4 DEF EntryOK, IsFree, IsFile, OwnsData, IsUnlinked

(* The kinds of entries exclude each other as the searches need it. *)
LEMMA Kinds ==
  ASSUME NEW e
  PROVE  /\ e.entry_type \in {"UNUSED_ENTRY", "START_ENTRY", "CONT", "CLOBBERED"} =>
               ~IsHead(e) /\ ~IsSeen(e) /\ ~IsFree(e)
         /\ IsFree(e) => /\ ~IsHead(e) /\ ~IsSeen(e) /\ ~IsFile(e)
                         /\ e.entry_type \notin {"CONT", "CLOBBERED"}
         /\ IsSeen(e) => IsHead(e) /\ ~IsFree(e)
         /\ IsHead(e) => e.entry_type \notin {"CONT", "CLOBBERED", "UNUSED_ENTRY", "START_ENTRY"}
         /\ e.entry_type = "DIR_ENTRY" => IsHead(e) /\ IsSeen(e) /\ ~IsFile(e)
         /\ e.entry_type = "FILE_ENTRY" => IsHead(e) /\ IsSeen(e) /\ IsFile(e) /\ OwnsData(e)
         /\ IsUnlinked(e) => IsHead(e) /\ IsFile(e) /\ ~IsSeen(e) /\ ~IsFree(e) /\ OwnsData(e)
         /\ OwnsData(e) => IsHead(e) /\ IsFile(e) /\ ~IsFree(e) /\ e.entry_type # "DIR_ENTRY"
  BY DEF IsHead, IsFile, IsSeen, IsFree, OwnsData, IsUnlinked

(* The first slot of a set of slots, 0 if there is none. *)
LEMMA FirstOfSet ==
  ASSUME NEW S \in SUBSET Slots
  PROVE  IF S = {} THEN FirstOf(S) = 0
         ELSE FirstOf(S) \in S /\ FirstOf(S) # 0 /\ \A y \in S : FirstOf(S) <= y
<1>1. CASE S = {}
  BY <1>1 DEF FirstOf
<1>2. CASE S # {}
  <2>1. S \in SUBSET (0..N) /\ 0 \notin S /\ N \in Nat
    BY SfsAssumption DEF Slots
  <2>2. Min(S) \in S /\ \A y \in S : Min(S) <= y
    BY <1>2, <2>1, MinMax
  <2>3. QED BY <1>2, <2>1, <2>2 DEF FirstOf
<1>3. QED BY <1>1, <1>2

(* When no head has lost its continuations, names are found. *)
LEMMA SearchFile ==
  ASSUME NEW ix, HeadsWhole(ix), NEW p
  PROVE  IF search_file(ix, p) = 0
         THEN \A i \in Slots : ~(ix[i].entry_type = "FILE_ENTRY" /\ ix[i].name = p)
         ELSE /\ search_file(ix, p) \in Slots /\ ix[search_file(ix, p)].name = p
              /\ ix[search_file(ix, p)].entry_type = "FILE_ENTRY"
<1> DEFINE S == {i \in Slots : read_file_entry(ix, i, p)}
<1>1. ASSUME NEW i \in Slots, ix[i].entry_type = "FILE_ENTRY", ix[i].name = p PROVE i \in S
  BY <1>1, Kinds DEF HeadsWhole, read_file_entry
<1>2. \A i \in S : i \in Slots /\ ix[i].entry_type = "FILE_ENTRY" /\ ix[i].name = p
  BY DEF read_file_entry, NameMatches
<1>3. search_file(ix, p) = FirstOf(S) /\ S \in SUBSET Slots
  BY DEF search_file
<1> HIDE DEF S
<1>4. QED BY <1>1, <1>2, <1>3, FirstOfSet

(* search_dir() finds a directory exactly if there is one, and its own      *)
(* entry.                                                                   *)
LEMMA SearchDir ==
  ASSUME NEW ix, HeadsWhole(ix), NEW p
  PROVE  /\ search_dir(ix, p) # 0 <=> DirNamed(ix, p)
         /\ search_dir(ix, p) # 0 => /\ search_dir(ix, p) \in Slots
                                     /\ ix[search_dir(ix, p)].name = p
                                     /\ ix[search_dir(ix, p)].entry_type = "DIR_ENTRY"
<1> DEFINE S == {i \in Slots : read_dir_entry(ix, i, p)}
<1>1. ASSUME NEW i \in Slots, ix[i].entry_type = "DIR_ENTRY", ix[i].name = p PROVE i \in S
  BY <1>1, Kinds DEF HeadsWhole, read_dir_entry
<1>2. \A i \in S : i \in Slots /\ ix[i].entry_type = "DIR_ENTRY" /\ ix[i].name = p
  BY DEF read_dir_entry, NameMatches
<1>3. search_dir(ix, p) = FirstOf(S) /\ S \in SUBSET Slots
  BY DEF search_dir
<1> HIDE DEF S
<1>4. QED BY <1>1, <1>2, <1>3, FirstOfSet DEF DirNamed

-----------------------------------------------------------------------------
(* Names: what the four kinds of change do to them *)

(* Entries without a part in any name may change. *)
Nameless(e) == ~IsHead(e) /\ e.entry_type \notin {"CONT", "CLOBBERED"}

(* Changes of entries that have no name and are not part of one keep the    *)
(* names in order (the list operations).                                    *)
LEMMA NamesAgree ==
  ASSUME NEW tidy, NEW ix, NEW jx, NamesOK(tidy, ix),
         \A i \in Slots : jx[i] = ix[i] \/ (Nameless(ix[i]) /\ Nameless(jx[i]))
  PROVE  NamesOK(tidy, jx)
<1>1. ASSUME NEW i \in Slots
      PROVE  /\ IsHead(ix[i]) \/ IsHead(jx[i]) => jx[i] = ix[i]
             /\ IsSeen(ix[i]) \/ IsSeen(jx[i]) => jx[i] = ix[i]
             /\ ix[i].entry_type \in {"CONT", "CLOBBERED", "DIR_ENTRY"} => jx[i] = ix[i]
             /\ jx[i].entry_type \in {"CONT", "CLOBBERED", "DIR_ENTRY"} => jx[i] = ix[i]
  BY Kinds DEF Nameless
<1>2. HeadsWhole(jx)
  <2>1. ASSUME NEW i \in Slots, IsHead(jx[i]) PROVE NameMatches(jx, i, jx[i].name)
    <3>1. jx[i] = ix[i] /\ NameMatches(ix, i, ix[i].name)
      BY <2>1, <1>1 DEF NamesOK, HeadsWhole
    <3>2. ASSUME NEW k \in 1..Conts(ix, i)
          PROVE  i + k \in Slots /\ jx[i + k] = ContEntry(ix[i].name, k)
      <4>1. i + k \in Slots /\ ix[i + k] = ContEntry(ix[i].name, k)
        BY <3>1 DEF NameMatches
      <4>2. QED BY <4>1, <1>1, ContFields
    <3>3. QED BY <3>1, <3>2 DEF NameMatches, Conts
  <2>2. QED BY <2>1 DEF HeadsWhole
<1>3. ContsOwned(jx)
  <2>1. ASSUME NEW c \in Slots, jx[c].entry_type = "CONT"
        PROVE  \E i \in Slots : /\ c = i + Conts(jx, c) /\ Conts(jx, c) >= 1
                                /\ \/ jx[i].entry_type = "CLOBBERED"
                                   \/ IsHead(jx[i]) /\ Conts(jx, c) <= Conts(jx, i)
    <3>1. jx[c] = ix[c]
      BY <2>1, <1>1
    <3>2. PICK i \in Slots : /\ c = i + Conts(ix, c) /\ Conts(ix, c) >= 1
                             /\ \/ ix[i].entry_type = "CLOBBERED"
                                \/ IsHead(ix[i]) /\ Conts(ix, c) <= Conts(ix, i)
      BY <2>1, <3>1 DEF NamesOK, ContsOwned
    <3>3. jx[i] = ix[i]
      BY <3>2, <1>1
    <3>4. QED BY <3>1, <3>2, <3>3 DEF Conts
  <2>2. QED BY <2>1 DEF ContsOwned
<1>4. ASSUME tidy PROVE Once(jx)
  <2>1. ASSUME NEW i \in Slots, NEW j \in Slots, IsSeen(jx[i]),
               jx[i].entry_type = jx[j].entry_type, jx[i].name = jx[j].name
        PROVE  i = j
    <3>1. IsSeen(jx[j])
      BY <2>1 DEF IsSeen
    <3>2. QED BY <1>4, <2>1, <3>1, <1>1 DEF NamesOK, Once
  <2>2. QED BY <2>1 DEF Once
<1>5. \A p : DirNamed(ix, p) => DirNamed(jx, p)
  BY <1>1 DEF DirNamed
<1>6. ASSUME tidy PROVE Parented(jx)
  BY <1>6, <1>1, <1>5 DEF NamesOK, Parented
<1>7. QED BY <1>2, <1>3, <1>4, <1>6 DEF NamesOK

(* A file's entry is written again: it keeps its name, is unlinked, or is   *)
(* CLOBBERED.                                                               *)
Renewed(x, e) ==
    /\ IsFile(e)
    /\ \/ x.entry_type = "CLOBBERED"
       \/ /\ OwnsData(x) /\ OwnsData(e) /\ x.name = e.name /\ x.cont_entries = e.cont_entries
          /\ x.entry_type = "FILE_ENTRY" => e.entry_type = "FILE_ENTRY"

(* So does a rewritten head entry with the same name (write, truncate,      *)
(* unlink).                                                                 *)
LEMMA NamesRenewed ==
  ASSUME NEW tidy, NEW ix, NEW jx, NamesOK(tidy, ix), NEW f \in Slots, Renewed(jx[f], ix[f]),
         \A i \in Slots : i # f => jx[i] = ix[i]
  PROVE  NamesOK(tidy, jx)
<1>1. /\ ix[f].entry_type \notin {"CONT", "DIR_ENTRY"} /\ jx[f].entry_type \notin {"CONT", "DIR_ENTRY"}
      /\ IsHead(jx[f]) => /\ IsHead(ix[f]) /\ jx[f].name = ix[f].name
                          /\ jx[f].cont_entries = ix[f].cont_entries
      /\ IsSeen(jx[f]) => /\ IsSeen(ix[f]) /\ jx[f].name = ix[f].name
                          /\ jx[f].entry_type = ix[f].entry_type
      /\ IsHead(jx[f]) \/ jx[f].entry_type = "CLOBBERED"
      /\ ix[f].entry_type = "CLOBBERED" => jx[f].entry_type = "CLOBBERED"
  BY DEF Renewed, IsFile, IsHead, IsSeen, OwnsData, IsUnlinked
<1>2. HeadsWhole(jx)
  <2>1. ASSUME NEW i \in Slots, IsHead(jx[i]) PROVE NameMatches(jx, i, jx[i].name)
    <3>1. /\ IsHead(ix[i]) /\ jx[i].name = ix[i].name /\ jx[i].cont_entries = ix[i].cont_entries
          /\ NameMatches(ix, i, ix[i].name)
      BY <2>1, <1>1 DEF NamesOK, HeadsWhole
    <3>2. ASSUME NEW k \in 1..Conts(ix, i)
          PROVE  i + k \in Slots /\ jx[i + k] = ContEntry(ix[i].name, k)
      <4>1. i + k \in Slots /\ ix[i + k] = ContEntry(ix[i].name, k)
        BY <3>1 DEF NameMatches
      <4>2. i + k # f
        BY <4>1, <1>1, ContFields
      <4>3. QED BY <4>1, <4>2
    <3>3. QED BY <3>1, <3>2 DEF NameMatches, Conts
  <2>2. QED BY <2>1 DEF HeadsWhole
<1>3. ContsOwned(jx)
  <2>1. ASSUME NEW c \in Slots, jx[c].entry_type = "CONT"
        PROVE  \E i \in Slots : /\ c = i + Conts(jx, c) /\ Conts(jx, c) >= 1
                                /\ \/ jx[i].entry_type = "CLOBBERED"
                                   \/ IsHead(jx[i]) /\ Conts(jx, c) <= Conts(jx, i)
    <3>1. jx[c] = ix[c]
      BY <2>1, <1>1
    <3>2. PICK i \in Slots : /\ c = i + Conts(ix, c) /\ Conts(ix, c) >= 1
                             /\ \/ ix[i].entry_type = "CLOBBERED"
                                \/ IsHead(ix[i]) /\ Conts(ix, c) <= Conts(ix, i)
      BY <2>1, <3>1 DEF NamesOK, ContsOwned
    <3>3. \/ jx[i].entry_type = "CLOBBERED"
          \/ IsHead(jx[i]) /\ Conts(jx, i) = Conts(ix, i) /\ IsHead(ix[i]) /\ Conts(ix, c) <= Conts(ix, i)
      BY <3>2, <1>1 DEF Conts
    <3>4. QED BY <3>1, <3>2, <3>3 DEF Conts
  <2>2. QED BY <2>1 DEF ContsOwned
<1>4. \A i \in Slots : IsSeen(jx[i]) => /\ IsSeen(ix[i]) /\ jx[i].name = ix[i].name
                                        /\ jx[i].entry_type = ix[i].entry_type
  BY <1>1
<1>5. ASSUME tidy PROVE Once(jx)
  <2>1. ASSUME NEW i \in Slots, NEW j \in Slots, IsSeen(jx[i]),
               jx[i].entry_type = jx[j].entry_type, jx[i].name = jx[j].name
        PROVE  i = j
    <3>1. IsSeen(jx[j])
      BY <2>1 DEF IsSeen
    <3>2. QED BY <1>5, <2>1, <3>1, <1>4 DEF NamesOK, Once
  <2>2. QED BY <2>1 DEF Once
<1>6. \A p : DirNamed(ix, p) => DirNamed(jx, p)
  <2>1. \A i \in Slots : ix[i].entry_type = "DIR_ENTRY" => jx[i] = ix[i]
    BY <1>1
  <2>2. QED BY <2>1 DEF DirNamed
<1>7. ASSUME tidy PROVE Parented(jx)
  BY <1>7, <1>4, <1>6 DEF NamesOK, Parented
<1>8. QED BY <1>2, <1>3, <1>5, <1>7 DEF NamesOK

(* An entry and its continuations are freed; a directory only when nothing  *)
(* is left below it.                                                        *)
Unnamed(jx, ix, f) ==
    /\ IsHead(ix[f])
    /\ \A i \in Slots : jx[i] = IF i \in f..(f + Conts(ix, f)) THEN UnusedEntry ELSE ix[i]
    /\ ix[f].entry_type = "DIR_ENTRY" =>
          \A i \in Slots : IsSeen(ix[i]) => ix[f].name \notin Ancestors(ix[i].name)

(* What is in the range that is freed. *)
LEMMA RangeOfName ==
  ASSUME NEW ix, HeadsWhole(ix), NEW f \in Slots, IsHead(ix[f]), Conts(ix, f) \in Nat
  PROVE  /\ f \in f..(f + Conts(ix, f)) /\ f..(f + Conts(ix, f)) \subseteq Slots
         /\ \A i \in f..(f + Conts(ix, f)) :
               i # f => /\ i - f \in 1..Conts(ix, f) /\ i = f + (i - f)
                        /\ ix[i] = ContEntry(ix[f].name, i - f)
<1>1. NameMatches(ix, f, ix[f].name) /\ f \in Int
  BY SfsAssumption DEF HeadsWhole, Slots
<1>2. ASSUME NEW i \in f..(f + Conts(ix, f)), i # f
      PROVE  /\ i - f \in 1..Conts(ix, f) /\ i = f + (i - f)
             /\ i \in Slots /\ ix[i] = ContEntry(ix[f].name, i - f)
  <2>1. i - f \in 1..Conts(ix, f) /\ i = f + (i - f)
    BY <1>1, <1>2
  <2>2. QED BY <1>1, <2>1 DEF NameMatches
<1>3. QED BY <1>1, <1>2

(* So does freeing an entry with its continuation entries, if it is no      *)
(* directory in use (delete, rmdir, rename).                                *)
LEMMA NamesUnnamed ==
  ASSUME NEW tidy, NEW ix, NEW jx, NamesOK(tidy, ix), NEW f \in Slots, Unnamed(jx, ix, f),
         \A i \in Slots : Conts(ix, i) \in Nat
  PROVE  NamesOK(tidy, jx)
<1> DEFINE R == f..(f + Conts(ix, f))
<1>1. /\ f \in R /\ R \subseteq Slots /\ f \in Int
      /\ \A i \in R : i # f => /\ i - f \in 1..Conts(ix, f) /\ i = f + (i - f)
                               /\ ix[i] = ContEntry(ix[f].name, i - f)
  BY RangeOfName, SfsAssumption DEF Unnamed, NamesOK, Slots
<1>2. /\ IsHead(ix[f])
      /\ \A i \in Slots : jx[i] = IF i \in R THEN UnusedEntry ELSE ix[i]
      /\ ix[f].entry_type = "DIR_ENTRY" =>
          \A i \in Slots : IsSeen(ix[i]) => ix[f].name \notin Ancestors(ix[i].name)
  BY DEF Unnamed
<1>3. /\ UnusedEntry.entry_type = "UNUSED_ENTRY" /\ ~IsHead(UnusedEntry) /\ ~IsSeen(UnusedEntry)
  BY UnusedFields, Kinds
<1>4. \A i \in Slots : IsHead(jx[i]) \/ IsSeen(jx[i]) \/ jx[i].entry_type \in {"CONT", "CLOBBERED"} =>
          i \notin R /\ jx[i] = ix[i]
  BY <1>2, <1>3
<1>5. \A i \in R : i # f => ix[i].entry_type = "CONT" /\ ix[i].cont_entries = i - f
  BY <1>1, ContFields
<1> HIDE DEF R
<1>6. HeadsWhole(jx)
  <2>1. ASSUME NEW i \in Slots, IsHead(jx[i]) PROVE NameMatches(jx, i, jx[i].name)
    <3>1. jx[i] = ix[i] /\ i \notin R /\ NameMatches(ix, i, ix[i].name)
      BY <2>1, <1>4 DEF NamesOK, HeadsWhole
    <3>2. ASSUME NEW k \in 1..Conts(ix, i)
          PROVE  i + k \in Slots /\ jx[i + k] = ContEntry(ix[i].name, k)
      <4>1. i + k \in Slots /\ ix[i + k] = ContEntry(ix[i].name, k)
        BY <3>1 DEF NameMatches
      <4>2. ix[i + k].entry_type = "CONT" /\ ix[i + k].cont_entries = k
        BY <4>1, ContFields
      <4>3. ASSUME i + k \in R PROVE FALSE
        <5>1. i + k # f
          BY <4>2, <1>2, Kinds
        <5>2. k = (i + k) - f
          BY <4>2, <4>3, <5>1, <1>5
        <5>3. i = f
          BY <5>2, <1>1, SfsAssumption DEF Slots
        <5>4. QED BY <5>3, <3>1, <1>1
      <4>4. QED BY <4>1, <4>3, <1>2
    <3>3. QED BY <3>1, <3>2 DEF NameMatches, Conts
  <2>2. QED BY <2>1 DEF HeadsWhole
<1>7. ContsOwned(jx)
  <2>1. ASSUME NEW c \in Slots, jx[c].entry_type = "CONT"
        PROVE  \E i \in Slots : /\ c = i + Conts(jx, c) /\ Conts(jx, c) >= 1
                                /\ \/ jx[i].entry_type = "CLOBBERED"
                                   \/ IsHead(jx[i]) /\ Conts(jx, c) <= Conts(jx, i)
    <3>1. jx[c] = ix[c] /\ c \notin R
      BY <2>1, <1>4
    <3>2. PICK i \in Slots : /\ c = i + Conts(ix, c) /\ Conts(ix, c) >= 1
                             /\ \/ ix[i].entry_type = "CLOBBERED"
                                \/ IsHead(ix[i]) /\ Conts(ix, c) <= Conts(ix, i)
      BY <2>1, <3>1 DEF NamesOK, ContsOwned
    <3>3. ASSUME i \in R PROVE FALSE
      <4>1. i = f
        BY <3>2, <3>3, <1>5, Kinds
      <4>2. Conts(ix, c) <= Conts(ix, f) /\ Conts(ix, c) \in Nat /\ Conts(ix, f) \in Nat
        BY <3>2, <4>1, <1>2, Kinds
      <4>3. c \in R
        BY <3>2, <4>1, <4>2, <1>1 DEF R
      <4>4. QED BY <4>3, <3>1
    <3>4. QED BY <3>1, <3>2, <3>3, <1>2 DEF Conts
  <2>2. QED BY <2>1 DEF ContsOwned
<1>8. ASSUME tidy PROVE Once(jx)
  <2>1. ASSUME NEW i \in Slots, NEW j \in Slots, IsSeen(jx[i]),
               jx[i].entry_type = jx[j].entry_type, jx[i].name = jx[j].name
        PROVE  i = j
    <3>1. IsSeen(jx[j])
      BY <2>1 DEF IsSeen
    <3>2. QED BY <1>8, <2>1, <3>1, <1>4 DEF NamesOK, Once
  <2>2. QED BY <2>1 DEF Once
<1>9. ASSUME tidy PROVE Parented(jx)
  <2>1. ASSUME NEW i \in Slots, IsSeen(jx[i]), NEW a \in Ancestors(jx[i].name)
        PROVE  DirNamed(jx, a)
    <3>1. jx[i] = ix[i]
      BY <2>1, <1>4
    <3>2. PICK d \in Slots : ix[d].entry_type = "DIR_ENTRY" /\ ix[d].name = a
      BY <1>9, <2>1, <3>1 DEF NamesOK, Parented, DirNamed
    <3>3. d \notin R
      BY <2>1, <3>1, <3>2, <1>2, <1>5
    <3>4. QED BY <3>2, <3>3, <1>2 DEF DirNamed
  <2>2. QED BY <2>1 DEF Parented
<1>10. QED BY <1>6, <1>7, <1>8, <1>9 DEF NamesOK

(* A new name: a head entry and its continuations in unused entries. *)
Named(jx, ix, new, x) ==
    /\ IsSeen(x) /\ x.cont_entries \in Nat /\ new + x.cont_entries \in Slots
    /\ \A i \in new..(new + x.cont_entries) : ix[i].entry_type = "UNUSED_ENTRY"
    /\ \A i \in Slots : jx[i] = IF i = new THEN x
                                ELSE IF i \in (new + 1)..(new + x.cont_entries)
                                     THEN ContEntry(x.name, i - new) ELSE ix[i]
    /\ \A i \in Slots : ~(ix[i].entry_type = x.entry_type /\ ix[i].name = x.name)
    /\ \A a \in Ancestors(x.name) : DirNamed(ix, a)

(* So does entering a new name in unused entries, with existing parents     *)
(* (creat, mkdir, rename).                                                  *)
LEMMA NamesNamed ==
  ASSUME NEW tidy, NEW ix, NEW jx, NamesOK(tidy, ix), NEW new \in Slots, NEW x, Named(jx, ix, new, x)
  PROVE  NamesOK(tidy, jx)
<1> DEFINE m == x.cont_entries
           R == new..(new + m)
<1>1. new \in Int /\ m \in Nat /\ new \in R /\ R \subseteq Slots
  BY SfsAssumption DEF Named, Slots
<1>2. /\ \A i \in R : ix[i].entry_type = "UNUSED_ENTRY"
      /\ jx[new] = x /\ IsSeen(x) /\ IsHead(x) /\ x.entry_type \notin {"CONT", "CLOBBERED"}
      /\ \A i \in Slots \ R : jx[i] = ix[i]
      /\ \A k \in 1..m : new + k \in R /\ new + k # new /\ jx[new + k] = ContEntry(x.name, k)
      /\ \A i \in R : i # new => /\ jx[i] = ContEntry(x.name, i - new)
                                 /\ i - new \in 1..m /\ i = new + (i - new)
  BY <1>1, Kinds DEF Named
<1>3. /\ \A i \in Slots : ~(ix[i].entry_type = x.entry_type /\ ix[i].name = x.name)
      /\ \A a \in Ancestors(x.name) : DirNamed(ix, a)
  BY DEF Named
<1>4. \A i \in Slots :
         IsHead(ix[i]) \/ IsSeen(ix[i]) \/ ix[i].entry_type \in {"CONT", "CLOBBERED", "DIR_ENTRY"} =>
         i \notin R /\ jx[i] = ix[i]
  BY <1>2, Kinds
<1>5. \A i \in Slots : IsHead(jx[i]) \/ IsSeen(jx[i]) => i = new \/ (i \notin R /\ jx[i] = ix[i])
  BY <1>2, ContFields, Kinds
<1> HIDE DEF R, m
<1>6. HeadsWhole(jx)
  <2>1. ASSUME NEW i \in Slots, IsHead(jx[i]), i # new PROVE NameMatches(jx, i, jx[i].name)
    <3>1. jx[i] = ix[i] /\ NameMatches(ix, i, ix[i].name)
      BY <2>1, <1>5 DEF NamesOK, HeadsWhole
    <3>2. ASSUME NEW k \in 1..Conts(ix, i)
          PROVE  i + k \in Slots /\ jx[i + k] = ContEntry(ix[i].name, k)
      <4>1. i + k \in Slots /\ ix[i + k] = ContEntry(ix[i].name, k)
        BY <3>1 DEF NameMatches
      <4>2. QED BY <4>1, <1>4, ContFields
    <3>3. QED BY <3>1, <3>2 DEF NameMatches, Conts
  <2>2. NameMatches(jx, new, jx[new].name)
    BY <1>1, <1>2 DEF NameMatches, Conts, m
  <2>3. QED BY <2>1, <2>2 DEF HeadsWhole
<1>7. ContsOwned(jx)
  <2>1. ASSUME NEW c \in Slots, jx[c].entry_type = "CONT"
        PROVE  \E i \in Slots : /\ c = i + Conts(jx, c) /\ Conts(jx, c) >= 1
                                /\ \/ jx[i].entry_type = "CLOBBERED"
                                   \/ IsHead(jx[i]) /\ Conts(jx, c) <= Conts(jx, i)
    <3>1. CASE c \in R
      <4>1. c # new
        BY <2>1, <1>2
      <4>2. /\ jx[c] = ContEntry(x.name, c - new) /\ c - new \in 1..m /\ c = new + (c - new)
        BY <3>1, <4>1, <1>2
      <4>3. Conts(jx, c) = c - new /\ Conts(jx, new) = m
        BY <4>2, <1>2, ContFields DEF Conts, m
      <4>4. QED BY <4>2, <4>3, <1>1, <1>2
    <3>2. CASE c \notin R
      <4>1. jx[c] = ix[c]
        BY <3>2, <1>2
      <4>2. PICK i \in Slots : /\ c = i + Conts(ix, c) /\ Conts(ix, c) >= 1
                               /\ \/ ix[i].entry_type = "CLOBBERED"
                                  \/ IsHead(ix[i]) /\ Conts(ix, c) <= Conts(ix, i)
        BY <2>1, <4>1 DEF NamesOK, ContsOwned
      <4>3. QED BY <4>1, <4>2, <1>4 DEF Conts
    <3>3. QED BY <3>1, <3>2
  <2>2. QED BY <2>1 DEF ContsOwned
<1>8. ASSUME tidy PROVE Once(jx)
  <2>1. ASSUME NEW i \in Slots, NEW j \in Slots, IsSeen(jx[i]),
               jx[i].entry_type = jx[j].entry_type, jx[i].name = jx[j].name
        PROVE  i = j
    <3>1. IsSeen(jx[j])
      BY <2>1 DEF IsSeen
    <3>2. (i = new \/ jx[i] = ix[i]) /\ (j = new \/ jx[j] = ix[j])
      BY <2>1, <3>1, <1>5
    <3>3. QED BY <1>8, <2>1, <3>2, <1>2, <1>3 DEF NamesOK, Once
  <2>2. QED BY <2>1 DEF Once
<1>9. \A p : DirNamed(ix, p) => DirNamed(jx, p)
  BY <1>4 DEF DirNamed
<1>10. ASSUME tidy PROVE Parented(jx)
  BY <1>10, <1>2, <1>3, <1>5, <1>9 DEF NamesOK, Parented
<1>11. QED BY <1>6, <1>7, <1>8, <1>10 DEF NamesOK

-----------------------------------------------------------------------------
(* The index stays in order *)

(* FreeName is no path and not the empty name. *)
LEMMA NoPath ==
  /\ \A p \in FilePaths \cup DirPaths : p # FreeName /\ p # <<>>
  /\ FreeName # <<>>
  BY SfsAssumption DEF FreeName

(* What InOrder says of every entry. *)
LEMMA OrderShaped ==
  ASSUME NEW tidy, NEW u, InOrder(tidy, u)
  PROVE  /\ ShapedList(u) /\ u \in State
         /\ \A i \in Slots : i \in Offsets /\ u.index[i] \in Entries /\ Conts(u.index, i) \in Nat
<1>1. IsList(u) /\ FreeShaped(u) /\ u \in State
  BY DEF InOrder, IsList, Linked
<1>2. Clean(u)
  BY DEF InOrder, Entered, EntryOK, Clean
<1>3. ASSUME NEW i \in Slots
      PROVE  i \in Offsets /\ u.index[i] \in Entries /\ Conts(u.index, i) \in Nat
  <2>1. i \in Offsets /\ u.index \in [Offsets -> Entries]
    BY <1>1 DEF State, Slots, Offsets
  <2>2. u.index[i] \in Entries
    BY <2>1
  <2>3. u.index[i].cont_entries \in 0..N
    BY <2>2 DEF Entries
  <2>4. QED BY <2>1, <2>2, <2>3, SfsAssumption DEF Conts
<1>4. QED BY <1>1, <1>2, <1>3 DEF ShapedList

(* After list operations. *)
LEMMA KeptOrder ==
  ASSUME NEW tidy, NEW u, InOrder(tidy, u), NEW v, ShapedList(v), Kept(v, u)
  PROVE  InOrder(tidy, v)
<1>1. \A i \in Slots : i \in Offsets
  BY DEF Slots, Offsets
<1>2. ASSUME NEW i \in Slots
      PROVE  \/ v.index[i] = u.index[i]
             \/ /\ IsFree(v.index[i]) \/ v.index[i] = UnusedEntry
                /\ IsFree(u.index[i]) \/ u.index[i].entry_type = "UNUSED_ENTRY"
  <2>1. CASE i \in Pool(u)
    BY <2>1, <1>1 DEF Kept, Pool, ShapedList, Clean
  <2>2. CASE i \notin Pool(u)
    BY <2>2, <1>1 DEF Kept
  <2>3. QED BY <2>1, <2>2
<1>3. Entered(v.index)
  <2>1. /\ EntryOK(UnusedEntry) /\ UnusedEntry.entry_type = "UNUSED_ENTRY"
        /\ \A e : IsFree(e) => EntryOK(e) /\ e.entry_type \notin {"START_ENTRY", "DIR_ENTRY"}
    BY UnusedFields DEF EntryOK, IsFree, IsFile, OwnsData, IsUnlinked
  <2>2. ASSUME NEW i \in Slots PROVE EntryOK(v.index[i])
    BY <1>2, <2>1 DEF InOrder, Entered
  <2>3. 1 \in Slots /\ 3 \in Slots
    BY SfsAssumption DEF Slots
  <2>4. v.index[1] = u.index[1] /\ v.index[3] = u.index[3]
    BY <1>2, <2>1, <2>3 DEF InOrder, Entered
  <2>5. QED BY <2>2, <2>4 DEF InOrder, Entered
<1>4. NamesOK(tidy, v.index)
  <2>1. \A e : IsFree(e) \/ e.entry_type = "UNUSED_ENTRY" => Nameless(e)
    BY Kinds DEF Nameless
  <2>2. \A i \in Slots : \/ v.index[i] = u.index[i]
                         \/ Nameless(u.index[i]) /\ Nameless(v.index[i])
    BY <1>2, <2>1, UnusedFields
  <2>3. QED BY <2>2, NamesAgree DEF InOrder
<1>5. QED BY <1>3, <1>4 DEF InOrder, ShapedList

(* Changes of entries that are not in the list, before and after. *)
LEMMA OffList ==
  ASSUME NEW u, IsList(u), FreeShaped(u), NEW v \in State, v.del_begin = u.del_begin,
         \A i \in Slots : v.index[i] = u.index[i] \/ (~IsFree(u.index[i]) /\ ~IsFree(v.index[i]))
  PROVE  IsList(v) /\ FreeShaped(v) /\ Frees(v) = Frees(u)
<1>1. IsList(v)
  BY OffTheList DEF SameLinks
<1>2. Frees(v) = Frees(u) /\ \A i \in Frees(u) : v.index[i] = u.index[i]
  BY DEF Frees
<1>3. QED BY <1>1, <1>2 DEF FreeShaped

(* After a file's entry is written again. *)
SetEntry(u, f, x) == [u EXCEPT !.index[f] = x]

(* A rewritten head entry keeps the index in order. *)
LEMMA RenewedOrder ==
  ASSUME NEW tidy, NEW u, InOrder(tidy, u), NEW f \in Slots, NEW x \in Entries, Renewed(x, u.index[f]),
         Sized(x), x.size \in Nat, OwnsData(x) => x.time_stamp # 0,
         NEW v, v = SetEntry(u, f, x)
  PROVE  /\ InOrder(tidy, v) /\ v.index[f] = x /\ v.del_begin = u.del_begin
         /\ \A i \in Slots : i # f => v.index[i] = u.index[i]
<1>1. /\ u \in State /\ f \in Offsets /\ u.index \in [Offsets -> Entries]
      /\ \A i \in Slots : i \in Offsets
  BY OrderShaped DEF State
<1>2. /\ v \in State /\ v.del_begin = u.del_begin /\ v.index[f] = x
      /\ \A i \in Slots : i # f => v.index[i] = u.index[i]
  <2> DEFINE jx == [u.index EXCEPT ![f] = x]
  <2>1. /\ jx \in [Offsets -> Entries] /\ jx[f] = x
        /\ \A i \in Offsets : i # f => jx[i] = u.index[i]
    BY <1>1
  <2>2. v = [u EXCEPT !.index = jx]
    BY DEF SetEntry
  <2> HIDE DEF jx
  <2>3. v \in State /\ v.index = jx /\ v.del_begin = u.del_begin
    BY <1>1, <2>1, <2>2 DEF State
  <2>4. QED BY <1>1, <2>1, <2>3
<1>3. /\ IsFile(x) /\ ~IsFree(x) /\ ~IsFree(u.index[f])
      /\ x.entry_type \notin {"BOOT_CODE", "UNUSED_ENTRY", "DIR_ENTRY", "CONT", "START_ENTRY"}
  BY DEF Renewed, IsFile, OwnsData, IsFree, IsUnlinked
<1>4. IsList(v) /\ FreeShaped(v)
  BY <1>1, <1>2, <1>3, OffList DEF InOrder
<1>5. Entered(v.index)
  <2>1. OwnsData(x) => x.name \in FilePaths \cup DirPaths
    <3>1. EntryOK(u.index[f])
      BY DEF InOrder, Entered
    <3>2. OwnsData(x) => x.name = u.index[f].name /\ OwnsData(u.index[f])
      BY Kinds DEF Renewed
    <3>3. QED BY <3>1, <3>2 DEF EntryOK
  <2>2. EntryOK(x)
    BY <1>3, <2>1 DEF EntryOK
  <2>3. f # 1 /\ f # 3
    BY DEF InOrder, Entered, Renewed, IsFile, OwnsData, IsUnlinked
  <2>4. 1 \in Slots /\ 3 \in Slots
    BY SfsAssumption DEF Slots
  <2>5. \A i \in Slots : EntryOK(v.index[i])
    BY <1>2, <2>2 DEF InOrder, Entered
  <2>6. QED BY <1>2, <2>3, <2>4, <2>5 DEF InOrder, Entered
<1>6. NamesOK(tidy, v.index)
  BY <1>2, NamesRenewed DEF InOrder
<1>7. QED BY <1>2, <1>4, <1>5, <1>6 DEF InOrder

(* After a name is freed. *)
DropName(u, f) == [u EXCEPT !.index = free_entry(u.index, f, 1 + Conts(u.index, f))]

(* A freed name keeps the index in order. *)
LEMMA UnnamedOrder ==
  ASSUME NEW tidy, NEW u, InOrder(tidy, u), NEW f \in Slots, f # 3, IsHead(u.index[f]),
         u.index[f].entry_type = "DIR_ENTRY" =>
            \A i \in Slots : IsSeen(u.index[i]) => u.index[f].name \notin Ancestors(u.index[i].name),
         NEW v, v = DropName(u, f)
  PROVE  InOrder(tidy, v) /\ Unnamed(v.index, u.index, f) /\ v.del_begin = u.del_begin
<1> DEFINE R == f..(f + Conts(u.index, f))
           jx == free_entry(u.index, f, 1 + Conts(u.index, f))
<1>1. /\ u \in State /\ f \in Offsets /\ u.index \in [Offsets -> Entries]
      /\ \A i \in Slots : i \in Offsets /\ Conts(u.index, i) \in Nat
      /\ f \in Int /\ \A i \in Slots : i # 0
  BY OrderShaped, SfsAssumption DEF State, Slots
<1>2. /\ f \in R /\ R \subseteq Slots
      /\ \A i \in R : i # f => u.index[i] = ContEntry(u.index[f].name, i - f)
  BY <1>1, RangeOfName DEF InOrder, NamesOK
<1>3. /\ jx \in [Offsets -> Entries]
      /\ \A i \in Offsets : jx[i] = IF i \in R THEN UnusedEntry ELSE u.index[i]
  <2>1. f..(f + (1 + Conts(u.index, f)) - 1) = R
    BY <1>1
  <2>2. jx = [i \in Offsets |-> IF i \notin R THEN u.index[i] ELSE UnusedEntry]
    BY <1>1, <1>2, <2>1 DEF free_entry
  <2> HIDE DEF jx, R
  <2>3. QED BY <1>1, <2>2, UnusedFields
<1>4. v = [u EXCEPT !.index = jx]
  BY DEF DropName
<1> HIDE DEF jx
<1>5. v \in State /\ v.index = jx /\ v.del_begin = u.del_begin
  BY <1>1, <1>3, <1>4 DEF State
<1>6. \A i \in R : ~IsFree(u.index[i]) /\ (i # f => u.index[i].entry_type = "CONT")
  BY <1>2, ContFields, Kinds
<1> HIDE DEF R
<1>7. \A i \in Slots : v.index[i] = IF i \in R THEN UnusedEntry ELSE u.index[i]
  BY <1>1, <1>3, <1>5
<1>8. Unnamed(v.index, u.index, f)
  BY <1>7 DEF Unnamed, R
<1>9. IsList(v) /\ FreeShaped(v)
  <2>1. \A i \in Slots : v.index[i] = u.index[i] \/ (~IsFree(u.index[i]) /\ ~IsFree(v.index[i]))
    BY <1>6, <1>7, UnusedFields
  <2>2. QED BY <1>5, <2>1, OffList DEF InOrder
<1>10. Entered(v.index)
  <2>1. EntryOK(UnusedEntry)
    BY UnusedFields DEF EntryOK, IsFile, OwnsData, IsUnlinked
  <2>2. 1 \in Slots /\ 3 \in Slots
    BY SfsAssumption DEF Slots
  <2>3. 1 \notin R /\ 3 \notin R
    BY <1>6, Kinds DEF InOrder, Entered
  <2>4. \A i \in Slots : EntryOK(v.index[i])
    BY <1>7, <2>1 DEF InOrder, Entered
  <2>5. QED BY <1>7, <2>2, <2>3, <2>4 DEF InOrder, Entered
<1>11. NamesOK(tidy, v.index)
  BY <1>1, <1>8, NamesUnnamed DEF InOrder
<1>12. QED BY <1>5, <1>8, <1>9, <1>10, <1>11 DEF InOrder

(* After a name is entered. *)
EnterName(u, new, x) == [u EXCEPT !.index = write_name(u.index, new, x, x.cont_entries)]

(* A new name keeps the index in order. *)
LEMMA NamedOrder ==
  ASSUME NEW tidy, NEW u, InOrder(tidy, u), NEW new \in Slots, NEW x \in Entries, EntryOK(x), IsSeen(x),
         x.name \in FilePaths \cup DirPaths,
         new + x.cont_entries \in Slots,
         \A i \in new..(new + x.cont_entries) : u.index[i].entry_type = "UNUSED_ENTRY",
         \A i \in Slots : ~(u.index[i].entry_type = x.entry_type /\ u.index[i].name = x.name),
         \A a \in Ancestors(x.name) : DirNamed(u.index, a),
         NEW v, v = EnterName(u, new, x)
  PROVE  InOrder(tidy, v) /\ Named(v.index, u.index, new, x) /\ v.del_begin = u.del_begin
<1> DEFINE m  == x.cont_entries
           jx == write_name(u.index, new, x, m)
<1>1. /\ u \in State /\ u.index \in [Offsets -> Entries]
      /\ \A i \in Slots : i \in Offsets /\ i \in Int /\ i >= 1 /\ i <= N
      /\ m \in Nat /\ N \in Int
  <2>1. u \in State /\ \A i \in Slots : i \in Offsets
    BY OrderShaped
  <2>2. m \in Nat
    BY SfsAssumption DEF Entries
  <2>3. QED BY <2>1, <2>2, Numbers DEF State
<1>2. jx = [i \in Offsets |-> IF i = new THEN x
                             ELSE IF i \in (new + 1)..(new + m) THEN ContEntry(x.name, i - new)
                             ELSE u.index[i]]
  BY DEF write_name
<1>3. ASSUME NEW i \in (new + 1)..(new + m)
      PROVE  i - new \in 0..N /\ ContEntry(x.name, i - new) \in Entries
  <2>1. i - new \in 0..N
    BY <1>1
  <2>2. QED BY <2>1, ContFields
<1> HIDE DEF jx, m
<1>4. jx \in [Offsets -> Entries]
  <2>1. ASSUME NEW i \in Offsets
        PROVE  (IF i = new THEN x ELSE IF i \in (new + 1)..(new + m) THEN ContEntry(x.name, i - new)
                ELSE u.index[i]) \in Entries
    BY <1>1, <1>3
  <2>2. QED BY <1>2, <2>1
<1>5. v = [u EXCEPT !.index = jx]
  BY DEF EnterName, jx, m
<1>6. v \in State /\ v.index = jx /\ v.del_begin = u.del_begin
  BY <1>1, <1>4, <1>5 DEF State
<1>7. \A i \in Slots : v.index[i] = IF i = new THEN x
                        ELSE IF i \in (new + 1)..(new + m) THEN ContEntry(x.name, i - new)
                        ELSE u.index[i]
  BY <1>1, <1>2, <1>6
<1>8. Named(v.index, u.index, new, x)
  BY <1>1, <1>7 DEF Named, m
<1>9. \A i \in Slots : \/ v.index[i] = u.index[i]
                       \/ /\ i \in new..(new + m) /\ u.index[i].entry_type = "UNUSED_ENTRY"
                          /\ (i = new /\ v.index[i] = x) \/ v.index[i] = ContEntry(x.name, i - new)
  <2>1. ASSUME NEW i \in Slots, i = new \/ i \in (new + 1)..(new + m)
        PROVE  i \in new..(new + m) /\ u.index[i].entry_type = "UNUSED_ENTRY"
    <3>1. i \in new..(new + m)
      BY <1>1, <2>1
    <3>2. QED BY <3>1 DEF m
  <2>2. QED BY <1>7, <2>1
<1>10. IsList(v) /\ FreeShaped(v)
  <2>1. \A i \in Slots : v.index[i] = u.index[i] \/ (~IsFree(u.index[i]) /\ ~IsFree(v.index[i]))
    BY <1>9, ContFields, Kinds
  <2>2. QED BY <1>6, <2>1, OffList DEF InOrder
<1>11. Entered(v.index)
  <2>1. 1 \in Slots /\ 3 \in Slots
    BY SfsAssumption DEF Slots
  <2>2. v.index[1] = u.index[1] /\ v.index[3] = u.index[3]
    BY <1>9, <2>1 DEF InOrder, Entered
  <2>3. \A i \in Slots : EntryOK(v.index[i])
    BY <1>9, ContFields DEF InOrder, Entered
  <2>4. QED BY <2>2, <2>3 DEF InOrder, Entered
<1>12. NamesOK(tidy, v.index)
  BY <1>8, NamesNamed DEF InOrder
<1>13. QED BY <1>6, <1>8, <1>10, <1>11, <1>12 DEF InOrder

-----------------------------------------------------------------------------
(* Paths *)

(* A path is a sequence of its own characters. *)
LEMMA PathLength ==
  ASSUME NEW p \in FilePaths \cup DirPaths
  PROVE  p \in Seq(Range(p)) /\ Len(p) \in Nat
<1>1. p \in Seq(Range(p))
  BY SfsAssumption
<1>2. QED BY <1>1

(* A parent's path is a prefix of the path, and shorter. *)
LEMMA ParentIsPrefix ==
  ASSUME NEW p \in FilePaths \cup DirPaths \cup {<<>>}, NEW a \in Ancestors(p)
  PROVE  IsPrefix(a, p) /\ a # p
<1>1. PICK S : p \in Seq(S)
  <2>1. CASE p = <<>>
    BY <2>1
  <2>2. CASE p \in FilePaths \cup DirPaths
    BY <2>2, PathLength
  <2>3. QED BY <2>1, <2>2
<1>2. PICK k \in 1..Len(p) : a = SubSeq(p, 1, k - 1)
  BY DEF Ancestors
<1>3. Len(p) \in Nat /\ k \in Int /\ k - 1 \in Int /\ \A i \in 1..(k - 1) : p[i] \in S
  BY <1>1, <1>2
<1>4. a \in Seq(S) /\ Len(a) = k - 1
  <2>1. SubSeq(p, 1, k - 1) \in Seq(S) /\ Len(SubSeq(p, 1, k - 1)) = IF 1 <= k - 1 THEN k - 1 - 1 + 1 ELSE 0
    BY <1>3, SubSeqProperties
  <2>2. QED BY <1>2, <1>3, <2>1
<1>5. SubSeq(a, 1, Len(a)) = a
  BY <1>4, SubSeqFull
<1>6. Len(a) <= Len(p) /\ SubSeq(a, 1, Len(a)) = SubSeq(p, 1, Len(a))
  BY <1>2, <1>3, <1>4, <1>5
<1>7. IsPrefix(a, p)
  BY <1>6 DEF IsPrefix
<1>8. Len(a) < Len(p)
  BY <1>2, <1>3, <1>4
<1>9. QED BY <1>3, <1>7, <1>8

(* A name takes at least the head entry. *)
LEMMA EntriesOfName ==
  ASSUME NEW p \in FilePaths \cup DirPaths, NEW first \in Nat \ {0}
  PROVE  count_entry(Len(p) + 1, first) \in Nat \ {0}
<1>1. Len(p) + 1 \in Nat /\ first \in Nat /\ EntrySize \in Nat /\ EntrySize > 0
  BY PathLength, SfsAssumption
<1>2. CASE Len(p) + 1 <= first
  BY <1>2 DEF count_entry
<1>3. CASE ~(Len(p) + 1 <= first)
  <2> DEFINE m == Len(p) + 1 - first
  <2>1. m \in Nat
    BY <1>1, <1>3
  <2> HIDE DEF m
  <2>2. m \div EntrySize \in Nat /\ 1 % EntrySize \in Nat
    BY <1>1, <2>1
  <2>3. count_entry(Len(p) + 1, first) = 1 + (m \div EntrySize) + (1 % EntrySize)
    BY <1>3 DEF count_entry, m
  <2>4. QED BY <2>2, <2>3
<1>4. QED BY <1>2, <1>3

(* The fields of the entry that sfs_creat() and sfs_mkdir() write. *)
LEMMA HeadFields ==
  ASSUME NEW type \in {"FILE_ENTRY", "DIR_ENTRY"}, NEW p \in FilePaths \cup DirPaths,
         NEW n \in 0..N, type = "DIR_ENTRY" => n + 1 = count_entry(Len(p) + 1, FirstDir)
  PROVE  LET x == HeadEntry(type, p, n)
         IN  /\ x \in Entries /\ EntryOK(x) /\ IsSeen(x) /\ x.entry_type = type /\ x.name = p
             /\ x.cont_entries = n /\ x.start_block = 0 /\ x.end_block = 0 /\ x.size = 0
<1> DEFINE e0 == NoEntry(type)
           x  == [e0 EXCEPT !.name = p, !.cont_entries = n, !.time_stamp = 1]
<1>1. /\ e0 \in Entries /\ e0.entry_type = type /\ e0.start_block = 0 /\ e0.end_block = 0
      /\ e0.size = 0
  BY EmptyFields DEF EntryTypes
<1>2. 1 \in 0..N
  BY SfsAssumption
<1> HIDE DEF e0
<1>3. x \in Entries
  BY <1>1, <1>2 DEF Entries
<1>4. /\ x.entry_type = type /\ x.name = p /\ x.cont_entries = n /\ x.time_stamp = 1
      /\ x.start_block = 0 /\ x.end_block = 0 /\ x.size = 0
  BY <1>1 DEF Entries
<1>5. HeadEntry(type, p, n) = x
  BY DEF HeadEntry, NewTime, e0
<1> HIDE DEF x
<1>6. EntryOK(x) /\ IsSeen(x)
  BY <1>4 DEF EntryOK, DirSized, IsSeen, IsFile, OwnsData, IsUnlinked, Sized
<1>7. QED BY <1>3, <1>4, <1>5, <1>6

-----------------------------------------------------------------------------
(* The calls on names *)

(* check_dirs passes only when every ancestor is a directory of the index. *)
LEMMA CheckedDirs ==
  ASSUME NEW ix, HeadsWhole(ix), NEW p, check_dirs(ix, p)
  PROVE  \A a \in Ancestors(p) : DirNamed(ix, a)
  BY SearchDir DEF check_dirs

(* The new name that sfs_creat and sfs_mkdir enter. *)
LEMMA NewHead ==
  ASSUME NEW tidy, NEW u, InOrder(tidy, u), NEW type \in {"FILE_ENTRY", "DIR_ENTRY"},
         NEW p \in FilePaths \cup DirPaths,
         NEW n \in Nat \ {0}, type = "DIR_ENTRY" => n = count_entry(Len(p) + 1, FirstDir),
         NEW new, new = alloc_entry(u.index, n), new # 0,
         check_dirs(u.index, p),
         type = "FILE_ENTRY" => search_file(u.index, p) = 0,
         type = "DIR_ENTRY" => search_dir(u.index, p) = 0,
         NEW x, x = HeadEntry(type, p, n - 1), NEW v, v = EnterName(u, new, x)
  PROVE  /\ InOrder(tidy, v) /\ v.del_begin = u.del_begin /\ new \in Slots
         /\ Named(v.index, u.index, new, x) /\ x.entry_type = type /\ x.cont_entries = n - 1
         /\ x.start_block = 0 /\ x.end_block = 0 /\ x.name = p /\ x.size = 0
<1>1. HeadsWhole(u.index)
  BY DEF InOrder, NamesOK
<1>2. /\ new \in Slots /\ new + n - 1 \in Slots
      /\ \A k \in new..(new + n - 1) : u.index[k].entry_type = "UNUSED_ENTRY"
  BY AllocEntry
<1>3. n - 1 \in 0..N
  BY <1>2, SfsAssumption DEF Slots
<1>4. /\ x \in Entries /\ EntryOK(x) /\ IsSeen(x) /\ x.entry_type = type /\ x.name = p
      /\ x.cont_entries = n - 1 /\ x.start_block = 0 /\ x.end_block = 0 /\ x.size = 0
  <2>1. n - 1 + 1 = n
    OBVIOUS
  <2>2. type = "DIR_ENTRY" => n - 1 + 1 = count_entry(Len(p) + 1, FirstDir)
    BY <2>1
  <2>3. QED BY <1>3, <2>2, HeadFields
<1>5. new + x.cont_entries \in Slots /\ new + x.cont_entries = new + n - 1
  BY <1>2, <1>4 DEF Slots
<1>6. \A i \in Slots : ~(u.index[i].entry_type = x.entry_type /\ u.index[i].name = x.name)
  BY <1>1, <1>4, SearchFile, SearchDir DEF DirNamed
<1>7. \A a \in Ancestors(x.name) : DirNamed(u.index, a)
  BY <1>1, <1>4, CheckedDirs
<1>8. QED BY <1>2, <1>4, <1>5, <1>6, <1>7, NamedOrder

(* sfs_creat() keeps the index in order, and enters the name of an empty    *)
(* file.                                                                    *)
LEMMA CreatOrder ==
  ASSUME NEW tidy, InOrder(tidy, fs), NEW p \in FilePaths, Creat(p)
  PROVE  /\ InOrder(tidy, fs)'
         /\ \E new \in Slots : \E x : /\ Named(index', index, new, x)
                                      /\ x.entry_type = "FILE_ENTRY"
                                      /\ x.start_block = 0 /\ x.end_block = 0
                                      /\ x.name = p /\ x.size = 0
<1> DEFINE n   == count_entry(Len(p) + 1, FirstFile)
           new == alloc_entry(index, n)
           x   == HeadEntry("FILE_ENTRY", p, n - 1)
           v   == EnterName(fs, new, x)
<1>1. /\ check_dirs(index, p) /\ search_dir(index, p) = 0 /\ search_file(index, p) = 0 /\ new # 0
      /\ index' = write_name(index, new, x, n - 1) /\ del_begin' = del_begin
  BY DEF Creat, sfs_creat
<1>2. n \in Nat \ {0} /\ "FILE_ENTRY" \in {"FILE_ENTRY", "DIR_ENTRY"}
  BY EntriesOfName, SfsAssumption
<1>3. fs.index = index /\ fs.del_begin = del_begin
  BY DEF fs
<1> HIDE DEF n
<1>4. /\ InOrder(tidy, v) /\ v.del_begin = fs.del_begin /\ new \in Slots
      /\ Named(v.index, fs.index, new, x) /\ x.entry_type = "FILE_ENTRY" /\ x.cont_entries = n - 1
      /\ x.start_block = 0 /\ x.end_block = 0 /\ x.name = p /\ x.size = 0
  BY <1>1, <1>2, <1>3, NewHead
<1>5. v = fs'
  BY <1>1, <1>3, <1>4 DEF EnterName, fs
<1> HIDE DEF v, x, new
<1>6. v.index = index' /\ InOrder(tidy, fs')
  BY <1>4, <1>5 DEF fs
<1>7. Named(index', index, new, x)
  BY <1>3, <1>4, <1>6
<1>8. QED BY <1>4, <1>6, <1>7

(* A call that changes the index and not the list. *)
Reindexed(u, ix) == [u EXCEPT !.index = ix]

(* sfs_mkdir() keeps the index in order, and enters the name of a           *)
(* directory.                                                               *)
LEMMA MadeDir ==
  ASSUME NEW tidy, NEW u, InOrder(tidy, u), NEW p \in FilePaths \cup DirPaths,
         NEW made, made = sfs_mkdir(u.index, p), made.ok,
         NEW v, v = Reindexed(u, made.index)
  PROVE  /\ InOrder(tidy, v) /\ v.index = made.index /\ v.del_begin = u.del_begin
         /\ \E new \in Slots : \E x : /\ Named(v.index, u.index, new, x)
                                      /\ x.entry_type = "DIR_ENTRY" /\ x.name = p
                                      /\ x.start_block = 0 /\ x.end_block = 0
<1> DEFINE n   == count_entry(Len(p) + 1, FirstDir)
           new == alloc_entry(u.index, n)
           x   == HeadEntry("DIR_ENTRY", p, n - 1)
<1>1. /\ check_dirs(u.index, p) /\ search_dir(u.index, p) = 0 /\ new # 0
      /\ made.index = write_name(u.index, new, x, n - 1)
  BY DEF sfs_mkdir
<1>2. n \in Nat \ {0} /\ "DIR_ENTRY" \in {"FILE_ENTRY", "DIR_ENTRY"}
  BY EntriesOfName, SfsAssumption
<1>3. n - 1 = x.cont_entries /\ x.name = p
  BY DEF HeadEntry, NoEntry
<1>4. v = EnterName(u, new, x)
  BY <1>1, <1>3 DEF EnterName, Reindexed
<1>5. /\ n = count_entry(Len(p) + 1, FirstDir) /\ check_dirs(u.index, p)
      /\ new = alloc_entry(u.index, n) /\ x = HeadEntry("DIR_ENTRY", p, n - 1)
  BY <1>1
<1> HIDE DEF n, x, new
<1>6. /\ InOrder(tidy, v) /\ v.del_begin = u.del_begin /\ new \in Slots
      /\ Named(v.index, u.index, new, x) /\ x.entry_type = "DIR_ENTRY" /\ x.cont_entries = n - 1
      /\ x.start_block = 0 /\ x.end_block = 0
  BY <1>1, <1>2, <1>4, <1>5, NewHead
<1>7. v.index = made.index
  <2>1. u \in State
    BY OrderShaped
  <2>2. QED BY <2>1 DEF State, Reindexed
<1>8. QED BY <1>3, <1>6, <1>7

(* The call. *)
LEMMA MkdirOrder ==
  ASSUME NEW tidy, InOrder(tidy, fs), NEW p \in FilePaths \cup DirPaths, Mkdir(p)
  PROVE  /\ InOrder(tidy, fs)'
         /\ \E new \in Slots : \E x : /\ Named(index', index, new, x)
                                      /\ x.entry_type = "DIR_ENTRY" /\ x.name = p
                                      /\ x.start_block = 0 /\ x.end_block = 0
<1> DEFINE made == sfs_mkdir(index, p)
           v    == Reindexed(fs, made.index)
<1>1. made.ok /\ index' = made.index /\ del_begin' = del_begin
  BY DEF Mkdir
<1>2. fs.index = index /\ fs.del_begin = del_begin /\ v = fs'
  BY <1>1 DEF fs, Reindexed
<1> HIDE DEF made, v
<1>3. /\ InOrder(tidy, v) /\ v.index = made.index
      /\ \E new \in Slots : \E x : /\ Named(v.index, index, new, x)
                                   /\ x.entry_type = "DIR_ENTRY" /\ x.name = p
                                   /\ x.start_block = 0 /\ x.end_block = 0
  BY <1>1, <1>2, MadeDir DEF made, v
<1>4. QED BY <1>1, <1>2, <1>3

(* A directory that is removed is nobody's parent: the entries below it     *)
(* would be found by their prefix.                                          *)
LEMMA RemovedDir ==
  ASSUME NEW tidy, NEW u, InOrder(tidy, u), NEW p \in FilePaths \cup DirPaths,
         NEW removed, removed = sfs_rmdir(u.index, p), removed.ok,
         NEW v, v = Reindexed(u, removed.index)
  PROVE  /\ InOrder(tidy, v) /\ v.index = removed.index /\ v.del_begin = u.del_begin
         /\ \E f \in Slots : /\ f = search_dir(u.index, p)
                             /\ f # 3 /\ u.index[f].entry_type = "DIR_ENTRY" /\ u.index[f].name = p
                             /\ Unnamed(v.index, u.index, f)
<1> DEFINE ix == u.index
           f  == search_dir(ix, p)
<1>1. /\ f # 0 /\ search_file_mask(ix, p, 1) = f /\ search_file_mask(ix, p, f + 1) = 0
      /\ removed.index = free_entry(ix, f, 1 + Conts(ix, f))
  BY DEF sfs_rmdir
<1>2. f \in Slots /\ ix[f].name = p /\ ix[f].entry_type = "DIR_ENTRY"
  BY <1>1, SearchDir DEF InOrder, NamesOK
<1>3. f # 3
  BY <1>2, NoPath DEF InOrder, Entered
<1>4. v = DropName(u, f)
  BY <1>1 DEF DropName, Reindexed
<1>5. f = search_dir(u.index, p)
  OBVIOUS
<1> HIDE DEF f
<1>6. ASSUME NEW i \in Slots, IsSeen(ix[i]), p \in Ancestors(ix[i].name)
      PROVE  FALSE
  <2> DEFINE S == {j \in 1..N : check_file_mask(ix, j, p)}
             T == {j \in (f + 1)..N : check_file_mask(ix, j, p)}
  <2>1. ix[i].name \in FilePaths \cup DirPaths \cup {<<>>}
    <3>1. EntryOK(ix[i])
      BY DEF InOrder, Entered
    <3>2. QED BY <1>6, <3>1, Kinds DEF EntryOK, IsSeen
  <2>2. IsPrefix(p, ix[i].name) /\ p # ix[i].name
    BY <1>6, <2>1, ParentIsPrefix
  <2>3. check_file_mask(ix, i, p)
    BY <1>6, <2>2 DEF check_file_mask, IsSeen
  <2>4. i \in Int /\ f \in Int /\ N \in Int /\ 1 <= i /\ i <= N /\ 1 <= f /\ f <= N
    BY <1>2, SfsAssumption DEF Slots
  <2>5. S \in SUBSET Slots /\ T \in SUBSET Slots /\ i \in S
    BY <2>3, <2>4 DEF Slots
  <2>6. FirstOf(S) = f /\ FirstOf(T) = 0
    BY <1>1 DEF search_file_mask
  <2>7. f <= i
    BY <2>5, <2>6, FirstOfSet
  <2>8. f # i
    BY <2>2, <1>2
  <2>9. i \in T
    BY <2>3, <2>4, <2>7, <2>8
  <2> HIDE DEF S, T
  <2>10. QED BY <2>5, <2>6, <2>9, FirstOfSet
<1>7. IsHead(ix[f])
  BY <1>2, Kinds
<1>8. InOrder(tidy, v) /\ Unnamed(v.index, ix, f) /\ v.del_begin = u.del_begin
  <2>1. \A i \in Slots : IsSeen(u.index[i]) => u.index[f].name \notin Ancestors(u.index[i].name)
    BY <1>2, <1>6
  <2>2. f \in Slots /\ f # 3 /\ IsHead(u.index[f])
    BY <1>2, <1>3, <1>7
  <2>3. QED BY <1>4, <2>1, <2>2, UnnamedOrder
<1>9. v.index = removed.index
  <2>1. u \in State
    BY OrderShaped
  <2>2. QED BY <2>1 DEF State, Reindexed
<1>10. QED BY <1>2, <1>3, <1>5, <1>8, <1>9

(* The call. *)
LEMMA RmdirOrder ==
  ASSUME NEW tidy, InOrder(tidy, fs), NEW p \in FilePaths \cup DirPaths, Rmdir(p)
  PROVE  /\ InOrder(tidy, fs)'
         /\ \E f \in Slots : /\ f # 3 /\ index[f].entry_type = "DIR_ENTRY" /\ Unnamed(index', index, f)
                             /\ index[f].name = p
<1> DEFINE removed == sfs_rmdir(index, p)
           v       == Reindexed(fs, removed.index)
<1>1. removed.ok /\ index' = removed.index /\ del_begin' = del_begin
  BY DEF Rmdir
<1>2. fs.index = index /\ fs.del_begin = del_begin /\ v = fs'
  BY <1>1 DEF fs, Reindexed
<1> HIDE DEF removed, v
<1>3. /\ InOrder(tidy, v) /\ v.index = removed.index
      /\ \E f \in Slots : /\ f # 3 /\ index[f].entry_type = "DIR_ENTRY" /\ Unnamed(v.index, index, f)
                          /\ index[f].name = p
  BY <1>1, <1>2, RemovedDir DEF removed, v
<1>4. QED BY <1>1, <1>2, <1>3

(* A state of the library and the next one, as records *)
LEMMA NextState ==
  ASSUME NEW v \in State, Becomes(v)
  PROVE  fs' = v /\ index' = v.index
  BY DEF Becomes, fs, State

(* sfs_unlink() keeps the index in order, and changes nothing that SfsSpace *)
(* sees: the file's entry becomes one of an unlinked file.                  *)
LEMMA UnlinkedFile ==
  ASSUME NEW tidy, NEW u, InOrder(tidy, u), NEW p, NEW f, f = search_file(u.index, p), f # 0,
         NEW v, v = Reindexed(u, sfs_unlink(u.index, p))
  PROVE  /\ f \in Slots /\ InOrder(tidy, v) /\ v.index = sfs_unlink(u.index, p)
         /\ v.del_begin = u.del_begin /\ IsUnlinked(v.index[f])
         /\ \A i \in Slots : i # f => v.index[i] = u.index[i]
         /\ AbsOf(v.index) = AbsOf(u.index)
<1>1. f \in Slots /\ u.index[f].name = p /\ u.index[f].entry_type = "FILE_ENTRY"
  BY SearchFile DEF InOrder, NamesOK
<1> DEFINE e == u.index[f]
           x == [e EXCEPT !.entry_type = "DEL_FILE_ENTRY"]
           w == SetEntry(u, f, x)
<1>2. u \in State /\ e \in Entries /\ EntryOK(e)
  BY <1>1, OrderShaped DEF InOrder, Entered
<1>3. /\ x \in Entries /\ x.entry_type = "DEL_FILE_ENTRY" /\ x.name = e.name /\ SameLinks(x, e)
      /\ x.cont_entries = e.cont_entries /\ SameExtent(x, e)
  <2>1. e \in Entries
    BY <1>2
  <2> HIDE DEF e
  <2>2. QED BY <2>1 DEF Entries, EntryTypes, SameLinks, SameExtent
<1>4. e.entry_type = "FILE_ENTRY" /\ OwnsData(e) /\ IsFile(e)
  BY <1>1, Kinds
<1>5. w = v
  BY DEF SetEntry, sfs_unlink, Reindexed
<1>6. v.index = sfs_unlink(u.index, p) /\ v.del_begin = u.del_begin
  BY <1>2 DEF Reindexed, State
<1> HIDE DEF x, e
<1>7. IsUnlinked(x) /\ OwnsData(x) /\ IsFile(x)
  <2>1. x.name # FreeName
    BY <1>2, <1>3, <1>4, NoPath DEF EntryOK
  <2>2. QED BY <1>3, <2>1 DEF OwnsData, IsUnlinked, IsFile
<1>8. Renewed(x, u.index[f])
  BY <1>3, <1>4, <1>7 DEF Renewed, e
<1>9. Sized(x) /\ x.size \in Nat /\ x.time_stamp # 0
  BY <1>2, <1>3, <1>4 DEF EntryOK, Sized, SameLinks, SameExtent
<1>10. /\ InOrder(tidy, w) /\ w.index[f] = x
       /\ \A i \in Slots : i # f => w.index[i] = u.index[i]
  BY <1>1, <1>3, <1>8, <1>9, RenewedOrder
<1> HIDE DEF w
<1>11. /\ InOrder(tidy, v) /\ v.index[f] = x
       /\ \A i \in Slots : i # f => v.index[i] = u.index[i]
  BY <1>5, <1>10
<1>12. AbsOf(v.index) = AbsOf(u.index)
  <2>1. ASSUME NEW i \in Slots
        PROVE  /\ AbsType(v.index[i]) = AbsType(u.index[i])
               /\ SameExtent(v.index[i], u.index[i])
    <3>1. CASE i = f
      <4>1. v.index[f] = x /\ AbsType(x) = "file" /\ AbsType(e) = "file"
        BY <1>4, <1>7, <1>11, AbsTypes
      <4>2. QED BY <3>1, <4>1, <1>3 DEF e
    <3>2. CASE i # f
      BY <3>2, <1>11 DEF SameExtent
    <3>3. QED BY <3>1, <3>2
  <2>2. QED BY <2>1 DEF AbsOf, SameExtent
<1>13. QED BY <1>1, <1>6, <1>7, <1>11, <1>12

(* The call. *)
LEMMA UnlinkOrder ==
  ASSUME NEW tidy, InOrder(tidy, fs), NEW p \in FilePaths, Unlink(p)
  PROVE  InOrder(tidy, fs)' /\ AbsEnt' = AbsEnt
<1> DEFINE v == Reindexed(fs, sfs_unlink(fs.index, p))
<1>1. /\ fs.index = index /\ fs.del_begin = del_begin /\ search_file(index, p) # 0
      /\ index' = sfs_unlink(index, p) /\ del_begin' = del_begin
  BY DEF fs, Unlink
<1>2. InOrder(tidy, v) /\ AbsOf(v.index) = AbsOf(index) /\ v.index = index' /\ v.del_begin = del_begin'
  BY <1>1, UnlinkedFile
<1> HIDE DEF v
<1>3. fs' = v /\ index' = v.index
  BY <1>2, OrderShaped, NextState DEF Becomes
<1>4. QED BY <1>2, <1>3 DEF AbsEnt, AbsOf

(* The extent of a file, for which it is enough to look at the start. *)
LEMMA FitsBlocks ==
  ASSUME NEW e, Sized(e), e.size \in Nat
  PROVE  /\ e.start_block = 0 <=> e.size = 0
         /\ e.size = 0 => e.end_block = 0
         /\ e.start_block # 0 => /\ e.start_block \in Lo..Hi /\ e.end_block \in Lo..Hi
                                 /\ e.start_block <= e.end_block
                                 /\ e.end_block - e.start_block + 1 = BlockCount(e.size)
         /\ e.start_block \in Extents /\ e.end_block \in Extents
<1>1. CASE e.size = 0
  BY <1>1 DEF Sized, Extents
<1>2. CASE e.size # 0
  <2>1. /\ e.start_block \in Lo..Hi /\ e.end_block \in Lo..Hi
        /\ e.end_block - e.start_block + 1 = BlockCount(e.size)
    BY <1>2 DEF Sized
  <2>2. BlockCount(e.size) \in Nat /\ BlockCount(e.size) # 0
    BY <1>2, BlockCounts
  <2>3. QED BY <1>2, <2>1, <2>2, SfsAssumption DEF Extents
<1>3. QED BY <1>1, <1>2

(* What a release of the extent st..en does to the index of SfsSpace: an    *)
(* empty file has none.                                                     *)
Freed(e, e2, ok, st, en) == IF st = 0 THEN ok /\ e2 = e ELSE Added(e, e2, ok, st, en)

(* Handing a file's blocks to del_file_list_add(), whatever it answers,     *)
(* keeps the index in order.                                                *)
LEMMA FreedOrder ==
  ASSUME NEW tidy, NEW u, InOrder(tidy, u), NEW e, Sized(e), e.size \in Nat,
         NEW a, a = del_file_list_add(u, e.start_block, e.end_block)
  PROVE  /\ InOrder(tidy, a.u) /\ Kept(a.u, u)
         /\ Freed(AbsOf(u.index), AbsOf(a.u.index), a.ok, e.start_block, e.end_block)
<1>1. ShapedList(u)
  BY OrderShaped
<1>2. CASE e.start_block = 0
  <2>1. e.end_block = 0
    BY <1>2, FitsBlocks
  <2>2. a.u = u /\ a.ok
    BY <1>2, <2>1, AddNothing
  <2>3. QED BY <1>2, <2>2 DEF Freed, Kept
<1>3. CASE e.start_block # 0
  <2>1. /\ e.start_block \in Lo..Hi /\ e.end_block \in Lo..Hi
        /\ e.start_block <= e.end_block
    BY <1>3, FitsBlocks
  <2>2. /\ ShapedList(a.u) /\ Kept(a.u, u)
        /\ Added(AbsOf(u.index), AbsOf(a.u.index), a.ok, e.start_block, e.end_block)
    BY <1>1, <2>1, AddShaped
  <2>3. QED BY <1>3, <2>2, KeptOrder DEF Freed
<1>4. QED BY <1>2, <1>3

(* The files outside of X are not touched. *)
Spared(jx, ix, X) ==
    \A i \in Slots \ X : OwnsData(ix[i]) \/ OwnsData(jx[i]) => jx[i] = ix[i]

(* List operations spare every file. *)
LEMMA KeptSpares ==
  ASSUME NEW u, NEW v, Kept(v, u)
  PROVE  Spared(v.index, u.index, {})
<1>1. ASSUME NEW i \in Slots, OwnsData(u.index[i]) \/ OwnsData(v.index[i])
      PROVE  v.index[i] = u.index[i]
  <2>1. i \in Offsets /\ (i \in Pool(v) <=> i \in Pool(u))
    BY SfsAssumption DEF Kept, Slots, Offsets
  <2>2. \A e : IsFree(e) \/ e.entry_type = "UNUSED_ENTRY" => ~OwnsData(e)
    BY Kinds
  <2>3. i \notin Pool(u)
    BY <1>1, <2>1, <2>2 DEF Pool
  <2>4. QED BY <2>1, <2>3 DEF Kept
<1>2. QED BY <1>1 DEF Spared

(* A new name is entered where no file is. *)
LEMMA NamedSpares ==
  ASSUME NEW ix, NEW jx, NEW new \in Slots, NEW x, Named(jx, ix, new, x)
  PROVE  /\ Spared(jx, ix, {new}) /\ ~OwnsData(ix[new])
         /\ x.entry_type = "DIR_ENTRY" => Spared(jx, ix, {})
<1>1. new \in new..(new + x.cont_entries)
  BY SfsAssumption DEF Named, Slots
<1>2. ~OwnsData(ix[new]) /\ jx[new] = x
  BY <1>1, Kinds DEF Named
<1>3. ASSUME NEW i \in Slots \ {new}, OwnsData(ix[i]) \/ OwnsData(jx[i])
      PROVE  jx[i] = ix[i]
  <2>1. CASE i \in (new + 1)..(new + x.cont_entries)
    <3>1. i \in new..(new + x.cont_entries)
      BY <2>1, SfsAssumption DEF Slots
    <3>2. ix[i].entry_type = "UNUSED_ENTRY" /\ jx[i] = ContEntry(x.name, i - new)
      BY <2>1, <3>1 DEF Named
    <3>3. jx[i].entry_type = "CONT"
      BY <3>2, ContFields
    <3>4. QED BY <1>3, <3>2, <3>3, Kinds
  <2>2. CASE i \notin (new + 1)..(new + x.cont_entries)
    BY <2>2 DEF Named
  <2>3. QED BY <2>1, <2>2
<1>4. x.entry_type = "DIR_ENTRY" => ~OwnsData(x)
  BY Kinds
<1>5. QED BY <1>2, <1>3, <1>4 DEF Spared

(* A freed name is one file's, or no file's. *)
LEMMA UnnamedSpares ==
  ASSUME NEW tidy, NEW u, InOrder(tidy, u), NEW f \in Slots, NEW jx, Unnamed(jx, u.index, f)
  PROVE  /\ Spared(jx, u.index, {f}) /\ jx[f] = UnusedEntry
         /\ u.index[f].entry_type = "DIR_ENTRY" => Spared(jx, u.index, {})
<1> DEFINE ix == u.index
           R  == f..(f + Conts(ix, f))
<1>1. HeadsWhole(ix) /\ IsHead(ix[f]) /\ Conts(ix, f) \in Nat
  BY OrderShaped DEF InOrder, NamesOK, Unnamed
<1>2. /\ f \in R /\ \A i \in R : i # f => ix[i] = ContEntry(ix[f].name, i - f)
  BY <1>1, RangeOfName
<1>3. \A i \in Slots : jx[i] = IF i \in R THEN UnusedEntry ELSE ix[i]
  BY DEF Unnamed
<1>4. ~OwnsData(UnusedEntry)
  BY UnusedFields, Kinds
<1> HIDE DEF R
<1>5. ASSUME NEW i \in Slots \ {f}, OwnsData(ix[i]) \/ OwnsData(jx[i])
      PROVE  jx[i] = ix[i]
  <2>1. i \notin R
    BY <1>2, <1>3, <1>4, <1>5, ContFields, Kinds
  <2>2. QED BY <1>3, <2>1
<1>6. ix[f].entry_type = "DIR_ENTRY" => ~OwnsData(ix[f])
  BY Kinds
<1>7. QED BY <1>2, <1>3, <1>4, <1>5, <1>6 DEF Spared

(* Two changes after each other spare what both spare. *)
LEMMA BothSpare ==
  ASSUME NEW ix, NEW jx, NEW kx, NEW X, NEW Y, Spared(jx, ix, X), Spared(kx, jx, Y)
  PROVE  Spared(kx, ix, X \cup Y)
<1>1. ASSUME NEW i \in Slots \ (X \cup Y), OwnsData(ix[i]) \/ OwnsData(kx[i])
      PROVE  kx[i] = ix[i]
  <2>1. i \in Slots \ X /\ i \in Slots \ Y
    OBVIOUS
  <2>2. QED BY <1>1, <2>1 DEF Spared
<1>2. QED BY <1>1 DEF Spared

(* The directories are the same. *)
SameDirs(jx, ix) == \A i \in Slots :
    ix[i].entry_type = "DIR_ENTRY" \/ jx[i].entry_type = "DIR_ENTRY" => jx[i] = ix[i]

(* List operations leave them alone. *)
LEMMA KeptDirs ==
  ASSUME NEW u, NEW v, Kept(v, u)
  PROVE  SameDirs(v.index, u.index)
<1>1. ASSUME NEW i \in Slots, u.index[i].entry_type = "DIR_ENTRY" \/ v.index[i].entry_type = "DIR_ENTRY"
      PROVE  v.index[i] = u.index[i]
  <2>1. i \in Offsets /\ (i \in Pool(v) <=> i \in Pool(u))
    BY SfsAssumption DEF Kept, Slots, Offsets
  <2>2. \A e : IsFree(e) \/ e.entry_type = "UNUSED_ENTRY" => e.entry_type # "DIR_ENTRY"
    BY DEF IsFree
  <2>3. i \notin Pool(u)
    BY <1>1, <2>1, <2>2 DEF Pool
  <2>4. QED BY <2>1, <2>3 DEF Kept
<1>2. QED BY <1>1 DEF SameDirs

(* So does the removal of a file's name. *)
LEMMA UnnamedDirs ==
  ASSUME NEW tidy, NEW u, InOrder(tidy, u), NEW f \in Slots, NEW jx, Unnamed(jx, u.index, f),
         u.index[f].entry_type # "DIR_ENTRY"
  PROVE  SameDirs(jx, u.index)
<1> DEFINE ix == u.index
           R  == f..(f + Conts(ix, f))
<1>1. HeadsWhole(ix) /\ IsHead(ix[f]) /\ Conts(ix, f) \in Nat
  BY OrderShaped DEF InOrder, NamesOK, Unnamed
<1>2. \A i \in R : i # f => ix[i] = ContEntry(ix[f].name, i - f)
  BY <1>1, RangeOfName
<1>3. \A i \in Slots : jx[i] = IF i \in R THEN UnusedEntry ELSE ix[i]
  BY DEF Unnamed
<1> HIDE DEF R
<1>4. \A i \in R : ix[i].entry_type # "DIR_ENTRY"
  BY <1>2, ContFields
<1>5. UnusedEntry.entry_type # "DIR_ENTRY"
  BY UnusedFields
<1>6. QED BY <1>3, <1>4, <1>5 DEF SameDirs

(* sfs_delete() keeps the index in order: the name goes, and the blocks     *)
(* then go to the list.                                                     *)
LEMMA DeletedFile ==
  ASSUME NEW tidy, NEW u, InOrder(tidy, u), NEW f \in Slots, OwnsData(u.index[f]), NEW v, v = sfs_delete(u, f)
  PROVE  /\ InOrder(tidy, v) /\ Spared(v.index, u.index, {f}) /\ ~OwnsData(v.index[f])
         /\ SameDirs(v.index, u.index)
         /\ \E jx : /\ Unnamed(jx, u.index, f)
                    /\ \E ok : Freed(AbsOf(jx), AbsOf(v.index), ok,
                                     u.index[f].start_block, u.index[f].end_block)
<1> DEFINE e == u.index[f]
           w == DropName(u, f)
           a == del_file_list_add(w, e.start_block, e.end_block)
<1>1. v = a.u
  BY DEF sfs_delete, DropName, Conts
<1>2. IsHead(e) /\ IsFile(e) /\ e.entry_type # "DIR_ENTRY"
  BY Kinds
<1>3. f # 3 /\ EntryOK(e)
  BY <1>2 DEF InOrder, Entered
<1>4. InOrder(tidy, w) /\ Unnamed(w.index, u.index, f)
  BY <1>2, <1>3, UnnamedOrder
<1>5. Sized(e) /\ e.size \in Nat
  BY <1>2, <1>3 DEF EntryOK
<1> HIDE DEF e, w
<1>6. /\ InOrder(tidy, a.u) /\ Kept(a.u, w)
      /\ Freed(AbsOf(w.index), AbsOf(a.u.index), a.ok, e.start_block, e.end_block)
  BY <1>4, <1>5, FreedOrder
<1> HIDE DEF a
<1>7. Spared(v.index, u.index, {f}) /\ ~OwnsData(v.index[f])
  <2>1. Spared(w.index, u.index, {f}) /\ w.index[f] = UnusedEntry
    BY <1>4, UnnamedSpares
  <2>2. Spared(v.index, w.index, {})
    BY <1>1, <1>6, KeptSpares
  <2>3. {f} \cup {} = {f}
    OBVIOUS
  <2>4. Spared(v.index, u.index, {f} \cup {})
    BY <2>1, <2>2, BothSpare
  <2>5. ~OwnsData(w.index[f])
    BY <2>1, UnusedFields, Kinds
  <2>6. QED BY <2>2, <2>3, <2>4, <2>5 DEF Spared
<1>8. SameDirs(v.index, u.index)
  <2>1. SameDirs(w.index, u.index)
    BY <1>2, <1>4, UnnamedDirs DEF e
  <2>2. SameDirs(v.index, w.index)
    BY <1>1, <1>6, KeptDirs
  <2>3. QED BY <2>1, <2>2 DEF SameDirs
<1>9. QED BY <1>1, <1>4, <1>6, <1>7, <1>8 DEF e

(* The call. *)
LEMMA DeleteOrder ==
  ASSUME NEW tidy, InOrder(tidy, fs), NEW f \in Slots, Delete(f)
  PROVE  /\ InOrder(tidy, fs)' /\ Spared(index', index, {f}) /\ ~OwnsData(index'[f])
         /\ SameDirs(index', index)
         /\ \E jx : /\ IsUnlinked(index[f]) /\ Unnamed(jx, index, f)
                    /\ \E ok : Freed(AbsOf(jx), AbsOf(index'), ok,
                                     index[f].start_block, index[f].end_block)
<1> DEFINE v == sfs_delete(fs, f)
<1>1. fs.index = index /\ IsUnlinked(index[f]) /\ OwnsData(index[f]) /\ Becomes(v)
  BY Kinds DEF fs, Delete
<1> HIDE DEF v
<1>2. /\ InOrder(tidy, v) /\ Spared(v.index, index, {f}) /\ ~OwnsData(v.index[f])
      /\ SameDirs(v.index, index)
      /\ \E jx : /\ Unnamed(jx, index, f)
                 /\ \E ok : Freed(AbsOf(jx), AbsOf(v.index), ok,
                                  index[f].start_block, index[f].end_block)
  BY <1>1, DeletedFile DEF v
<1>3. v \in State
  BY <1>2, OrderShaped
<1>4. fs' = v /\ index' = v.index
  BY <1>1, <1>3, NextState
<1>5. QED BY <1>1, <1>2, <1>4

(* A file without blocks moves to other entries: its old name is freed, and *)
(* then the new one entered.                                                *)
LEMMA RenamedFile ==
  ASSUME NEW tidy, NEW u, InOrder(tidy, u), NEW f \in Slots, NEW p \in FilePaths \cup DirPaths,
         NEW r, r = sfs_rename(u, f, p), r.off # 0, u.index[f].start_block = 0,
         NEW w, w = sfs_delete(u, f)
  PROVE  /\ InOrder(tidy, w) /\ InOrder(tidy, r.u) /\ r.off \in Slots
         /\ u.index[f].entry_type = "FILE_ENTRY" /\ Unnamed(w.index, u.index, f)
         /\ \E x : /\ Named(r.u.index, w.index, r.off, x)
                   /\ x.entry_type = "FILE_ENTRY" /\ x.start_block = 0 /\ x.end_block = 0
                   /\ x.name = p /\ x.size = 0
                   /\ \A i \in r.off..(r.off + x.cont_entries) :
                         u.index[i].entry_type = "UNUSED_ENTRY"
<1> DEFINE n    == count_entry(Len(p) + 1, FirstFile)
           new  == alloc_entry(u.index, n)
           e    == u.index[f]
           head == [e EXCEPT !.name = p, !.cont_entries = n - 1]
           v    == EnterName(w, new, head)
<1>1. u \in State
  BY OrderShaped
<1>2. /\ check_dirs(u.index, p) /\ search_dir(u.index, p) = 0 /\ search_file(u.index, p) = 0
      /\ new # 0 /\ e.entry_type = "FILE_ENTRY" /\ new = r.off
      /\ r.u = [w EXCEPT !.index = write_name(@, new, head, n - 1)]
  <2> DEFINE s == sfs_delete(u, f)
             t == [s EXCEPT !.index = write_name(@, new, head, n - 1)]
             ok == /\ check_dirs(u.index, p)
                   /\ search_dir(u.index, p) = 0 /\ search_file(u.index, p) = 0
                   /\ new # 0 /\ e.entry_type = "FILE_ENTRY"
  <2>1. r.off = IF ok THEN new ELSE 0
    BY DEF sfs_rename
  <2>2. r.u = IF ok THEN t ELSE u
    BY DEF sfs_rename
  <2>3. ok /\ r.u = t
    BY <2>1, <2>2
  <2>4. new = r.off
    BY <2>1, <2>3
  <2>5. QED BY <2>3, <2>4
<1>3. n \in Nat \ {0}
  BY EntriesOfName, SfsAssumption
<1> HIDE DEF n
<1>4. /\ e \in Entries /\ EntryOK(e) /\ IsHead(e) /\ IsFile(e) /\ OwnsData(e) /\ f # 3
      /\ Sized(e) /\ e.size \in Nat
  <2>1. e \in Entries /\ EntryOK(e)
    BY OrderShaped DEF InOrder, Entered
  <2>2. IsHead(e) /\ IsFile(e) /\ OwnsData(e)
    BY <1>2, Kinds
  <2>3. f # 3
    BY <1>2 DEF InOrder, Entered
  <2>4. QED BY <2>1, <2>2, <2>3 DEF EntryOK
<1>5. w = DropName(u, f)
  <2>1. e.start_block = 0 /\ e.end_block = 0
    BY <1>4, FitsBlocks
  <2>2. sfs_delete(u, f) = del_file_list_add(DropName(u, f), 0, 0).u
    BY <2>1 DEF sfs_delete, DropName, Conts
  <2>3. QED BY <2>2, AddNothing
<1>6. InOrder(tidy, w) /\ Unnamed(w.index, u.index, f) /\ w.del_begin = u.del_begin
  BY <1>2, <1>4, <1>5, UnnamedOrder
<1>7. /\ new \in Slots /\ new + n - 1 \in Slots
      /\ \A k \in new..(new + n - 1) : u.index[k].entry_type = "UNUSED_ENTRY"
  BY <1>2, <1>3, AllocEntry
<1>8. n - 1 \in 0..N
  BY <1>3, <1>7, SfsAssumption DEF Slots
<1>9. /\ head \in Entries /\ head.name = p /\ head.cont_entries = n - 1
      /\ head.entry_type = "FILE_ENTRY" /\ SameExtent(head, e) /\ SameLinks(head, e)
  <2> HIDE DEF e
  <2>1. QED BY <1>2, <1>4, <1>8 DEF Entries, SameExtent, SameLinks
<1>10. e.start_block = 0
  OBVIOUS
<1> HIDE DEF head, e, new
<1>11. /\ IsSeen(head) /\ EntryOK(head) /\ head.start_block = 0 /\ head.end_block = 0
  <2>1. IsSeen(head) /\ OwnsData(head) /\ IsFile(head)
    BY <1>9, Kinds
  <2>2. Sized(head) /\ head.size \in Nat
    BY <1>4, <1>9 DEF Sized, SameExtent, SameLinks
  <2>3. e.time_stamp # 0 /\ e.end_block = 0
    BY <1>4, <1>10, FitsBlocks DEF EntryOK
  <2>4. EntryOK(head)
    BY <1>9, <2>2, <2>3 DEF EntryOK, SameLinks
  <2>5. QED BY <1>9, <1>10, <2>1, <2>3, <2>4 DEF SameExtent
<1>12. /\ new + head.cont_entries \in Slots /\ new + head.cont_entries = new + n - 1
       /\ \A i \in new..(new + head.cont_entries) : u.index[i].entry_type = "UNUSED_ENTRY"
  BY <1>3, <1>7, <1>9 DEF Slots
<1>13. \A i \in Slots : w.index[i] = UnusedEntry \/ w.index[i] = u.index[i]
  BY <1>6 DEF Unnamed
<1>14. \A i \in new..(new + head.cont_entries) : w.index[i].entry_type = "UNUSED_ENTRY"
  <2>1. ASSUME NEW i \in new..(new + head.cont_entries)
        PROVE  i \in Slots
    <3>1. new \in Slots /\ new + head.cont_entries \in Slots
      BY <1>7, <1>12
    <3>2. QED BY <3>1, Numbers DEF Slots
  <2>2. QED BY <1>12, <1>13, <2>1, UnusedFields
<1>15. \A i \in Slots : ~(w.index[i].entry_type = head.entry_type /\ w.index[i].name = head.name)
  <2>1. \A i \in Slots : ~(u.index[i].entry_type = "FILE_ENTRY" /\ u.index[i].name = p)
    BY <1>2, SearchFile DEF InOrder, NamesOK
  <2>2. QED BY <1>9, <1>13, <2>1, UnusedFields
<1>16. ASSUME NEW d \in Ancestors(head.name) PROVE DirNamed(w.index, d)
  <2>1. DirNamed(u.index, d)
    BY <1>2, <1>9, CheckedDirs DEF InOrder, NamesOK
  <2>2. PICK i \in Slots : u.index[i].entry_type = "DIR_ENTRY" /\ u.index[i].name = d
    BY <2>1 DEF DirNamed
  <2>3. i \notin f..(f + Conts(u.index, f))
    <3>1. Conts(u.index, f) \in Nat /\ HeadsWhole(u.index)
      BY OrderShaped DEF InOrder, NamesOK
    <3>2. \A j \in f..(f + Conts(u.index, f)) : j # f => u.index[j].entry_type = "CONT"
      BY <1>4, <3>1, RangeOfName, ContFields DEF e
    <3>3. QED BY <1>2, <2>2, <3>2 DEF e
  <2>4. QED BY <1>6, <2>2, <2>3 DEF Unnamed, DirNamed
<1>17. InOrder(tidy, v) /\ Named(v.index, w.index, new, head) /\ v.del_begin = w.del_begin
  BY <1>6, <1>7, <1>9, <1>11, <1>12, <1>14, <1>15, <1>16, NamedOrder
<1>18. v = r.u
  BY <1>2, <1>9 DEF EnterName
<1>19. InOrder(tidy, r.u) /\ Named(r.u.index, w.index, r.off, head) /\ r.off \in Slots
  BY <1>2, <1>7, <1>17, <1>18
<1>20. \A i \in r.off..(r.off + head.cont_entries) : u.index[i].entry_type = "UNUSED_ENTRY"
  BY <1>2, <1>12
<1>21. head.size = 0
  BY <1>4, <1>9, <1>10, FitsBlocks DEF SameLinks
<1>22. QED BY <1>2, <1>6, <1>9, <1>11, <1>19, <1>20, <1>21 DEF e

(* The call. *)
LEMMA RenameOrder ==
  ASSUME NEW tidy, InOrder(tidy, fs), NEW f \in Slots, NEW p \in FilePaths \cup DirPaths, SafeRename(f, p)
  PROVE  /\ InOrder(tidy, fs)'
         /\ index[f].entry_type = "FILE_ENTRY" /\ index[f].start_block = 0
         /\ \E jx, x : \E new \in Slots :
               /\ new = sfs_rename(fs, f, p).off
               /\ Unnamed(jx, index, f) /\ Named(index', jx, new, x) /\ NamesOK(tidy, jx)
               /\ x.entry_type = "FILE_ENTRY" /\ x.start_block = 0 /\ x.end_block = 0
               /\ x.name = p /\ x.size = 0
               /\ \A i \in new..(new + x.cont_entries) : index[i].entry_type = "UNUSED_ENTRY"
<1> DEFINE r == sfs_rename(fs, f, p)
           w == sfs_delete(fs, f)
<1>1. fs.index = index /\ r.off # 0 /\ index[f].start_block = 0 /\ Becomes(r.u)
  BY DEF fs, SafeRename, Rename
<1> HIDE DEF r, w
<1>2. /\ InOrder(tidy, r.u) /\ r.off \in Slots
      /\ index[f].entry_type = "FILE_ENTRY" /\ Unnamed(w.index, index, f) /\ InOrder(tidy, w)
      /\ \E x : /\ Named(r.u.index, w.index, r.off, x)
                /\ x.entry_type = "FILE_ENTRY" /\ x.start_block = 0 /\ x.end_block = 0
                /\ x.name = p /\ x.size = 0
                /\ \A i \in r.off..(r.off + x.cont_entries) : index[i].entry_type = "UNUSED_ENTRY"
  BY <1>1, RenamedFile DEF r, w
<1>3. fs' = r.u /\ index' = r.u.index
  BY <1>1, <1>2, OrderShaped, NextState
<1>4. r.off = sfs_rename(fs, f, p).off
  BY DEF r
<1>5. NamesOK(tidy, w.index)
  BY <1>2 DEF InOrder
<1>6. QED BY <1>1, <1>2, <1>3, <1>4, <1>5

-----------------------------------------------------------------------------
(* Files that are written and truncated *)

(* The larger of two sizes *)
LEMMA MaxOfTwo ==
  ASSUME NEW a \in Nat, NEW b \in Nat
  PROVE  /\ Max({a, b}) \in {a, b} /\ a <= Max({a, b}) /\ b <= Max({a, b})
<1>1. \E m \in Nat : a <= m /\ b <= m
  <2>1. CASE a <= b
    BY <2>1
  <2>2. CASE ~(a <= b)
    BY <2>2
  <2>3. QED BY <2>1, <2>2
<1>2. PICK m \in Nat : a <= m /\ b <= m
  BY <1>1
<1>3. {a, b} \in SUBSET (0..m) /\ {a, b} # {}
  BY <1>2
<1>4. QED BY <1>3, MinMax

(* A larger file does not need fewer blocks. *)
LEMMA CountClimbs ==
  ASSUME NEW a \in Nat, NEW b \in Nat, a <= b
  PROVE  BlockCount(a) <= BlockCount(b)
<1> DEFINE p == BlockCount(a)
           q == BlockCount(b)
<1>1. /\ p \in Nat /\ q \in Nat
      /\ BlockSize * p \in Int /\ BlockSize * (q + 1) \in Int /\ BlockSize \in Nat
      /\ BlockSize * p <= a + BlockSize - 1
      /\ b + BlockSize - 1 < BlockSize * (q + 1)
  <2>1. ASSUME NEW x \in Nat
        PROVE  /\ x \div BlockSize \in Nat /\ BlockSize * (x \div BlockSize) <= x
               /\ x < BlockSize * ((x \div BlockSize) + 1)
    BY SfsAssumption
  <2>2. a + BlockSize - 1 \in Nat /\ b + BlockSize - 1 \in Nat
    BY SfsAssumption
  <2>3. p \in Nat /\ q \in Nat
    BY BlockCounts
  <2>4. BlockSize * p \in Int /\ BlockSize * (q + 1) \in Int
    BY <2>3, SfsAssumption
  <2>5. QED BY <2>1, <2>2, <2>3, <2>4, SfsAssumption DEF BlockCount
<1>2. SUFFICES ASSUME ~(p <= q) PROVE FALSE
  OBVIOUS
<1> HIDE DEF p, q
<1>3. q + 1 \in Int /\ p \in Int /\ q + 1 <= p
  BY <1>1, <1>2
<1>4. BlockSize * (q + 1) <= BlockSize * p
  BY <1>3, Times
<1>5. QED BY <1>1, <1>4

(* An entry that is written back keeps its name, or is overwritten by data. *)
Rewrote(x, e) == x.entry_type = "CLOBBERED" \/ SameName(x, e)

RewritesOnly(jx, ix, f) == Rewrote(jx[f], ix[f]) /\ Spared(jx, ix, {f})

(* The entry of a file as it is written back. *)
LEMMA RewrittenFields ==
  ASSUME NEW e \in Entries, IsFile(e), NEW g, g.start \in Extents, g.end \in Extents,
         NEW new \in (0..N) \cup FileSizes, NEW x, x = Rewritten(e, g, new)
  PROVE  /\ x \in Entries /\ Renewed(x, e) /\ Rewrote(x, e)
         /\ x.start_block = g.start /\ x.end_block = g.end /\ x.size = new /\ x.time_stamp = NewTime
<1> DEFINE b == IF g.intact THEN e ELSE NoEntry("CLOBBERED")
<1>1. b \in Entries
  BY EmptyFields DEF EntryTypes
<1>2. /\ g.intact => b = e
      /\ ~g.intact => b.entry_type = "CLOBBERED"
  BY EmptyFields DEF EntryTypes
<1>3. x = [b EXCEPT !.start_block = g.start, !.end_block = g.end, !.size = new,
                    !.time_stamp = NewTime]
  BY DEF Rewritten
<1> HIDE DEF b
<1>4. NewTime \in 0..N
  BY SfsAssumption DEF NewTime
<1>5. /\ x \in Entries /\ SameName(x, b)
      /\ x.start_block = g.start /\ x.end_block = g.end /\ x.size = new /\ x.time_stamp = NewTime
  BY <1>1, <1>3, <1>4 DEF Entries, SameName
<1>6. Rewrote(x, e)
  BY <1>2, <1>5 DEF Rewrote, SameName
<1>7. CASE g.intact
  <2>1. SameName(x, e)
    BY <1>2, <1>5, <1>7
  <2>2. CASE e.entry_type = "CLOBBERED"
    BY <1>5, <1>6, <2>1, <2>2 DEF Renewed, SameName
  <2>3. CASE OwnsData(e)
    BY <1>5, <1>6, <2>1, <2>3 DEF Renewed, SameName, OwnsData, IsUnlinked
  <2>4. QED BY <2>2, <2>3 DEF IsFile
<1>8. CASE ~g.intact
  BY <1>2, <1>5, <1>6, <1>8 DEF Renewed, SameName
<1>9. QED BY <1>7, <1>8

(* An index in order whose file f is given a new extent and size. *)
LEMMA RepointedOrder ==
  ASSUME NEW tidy, NEW u, InOrder(tidy, u), NEW f \in Slots, NEW e, e = u.index[f], IsFile(e),
         NEW g, g.u = u, g.start \in Extents, g.end \in Extents,
         NEW new \in (0..N) \cup FileSizes, new \in Nat,
         IF new = 0 THEN g.start = 0 /\ g.end = 0
         ELSE /\ g.start \in Lo..Hi /\ g.end \in Lo..Hi
              /\ g.end - g.start + 1 = BlockCount(new),
         NEW v, v = Repointed(f, g, new)
  PROVE  /\ InOrder(tidy, v)
         /\ AbsOf(v.index) = Space!Put(AbsOf(u.index), f,
                                [type |-> "file", start |-> g.start, end |-> g.end])
         /\ IsFile(v.index[f]) /\ RewritesOnly(v.index, u.index, f)
<1> DEFINE x == Rewritten(e, g, new)
<1>1. e \in Entries /\ u \in State /\ f \in Offsets
  BY OrderShaped
<1>2. /\ x \in Entries /\ Renewed(x, e) /\ Rewrote(x, e)
      /\ x.start_block = g.start /\ x.end_block = g.end
      /\ x.size = new /\ x.time_stamp = NewTime
  BY <1>1, RewrittenFields
<1>3. v = SetEntry(u, f, x)
  BY <1>1 DEF Repointed, SetEntry, State
<1> HIDE DEF x
<1>4. Sized(x) /\ x.size \in Nat /\ x.time_stamp # 0
  BY <1>2 DEF Sized, NewTime
<1>5. /\ InOrder(tidy, v) /\ v.index[f] = x
      /\ \A i \in Slots : i # f => v.index[i] = u.index[i]
  BY <1>2, <1>3, <1>4, RenewedOrder
<1>6. IsFile(x)
  BY <1>2 DEF Renewed, IsFile
<1>7. AbsType(x) = "file"
  BY <1>6, AbsTypes DEF IsFile
<1>8. AbsOf(v.index) = Space!Put(AbsOf(u.index), f, [type |-> "file", start |-> g.start, end |-> g.end])
  BY <1>2, <1>5, <1>7 DEF AbsOf, Space!Put
<1>9. RewritesOnly(v.index, u.index, f)
  BY <1>2, <1>5 DEF Spared, RewritesOnly
<1>10. QED BY <1>2, <1>5, <1>6, <1>8, <1>9

(* Data stays data. *)
Contents == [Bytes -> Tokens \cup {Fresh}]

(* copy_block() leaves bytes or tokens in the data area. *)
LEMMA Copied ==
  ASSUME NEW d \in Contents, NEW src \in Lo..Hi, NEW dst \in Lo..Hi, NEW n \in Nat \ {0},
         src + n - 1 \in Lo..Hi
  PROVE  copy_block(d, src, dst, n) \in Contents
<1> SUFFICES ASSUME NEW a \in Bytes, a \in (dst * BlockSize) .. ((dst + n) * BlockSize - 1)
             PROVE  a - dst * BlockSize + src * BlockSize \in Bytes
  BY DEF copy_block, Contents
<1>1. /\ Lo \in Int /\ Hi \in Int /\ src \in Int /\ dst \in Int /\ n \in Int
      /\ Lo <= src /\ src + n <= Hi + 1
  BY SfsAssumption
<1>2. /\ BlockSize * Lo <= BlockSize * src /\ BlockSize * (src + n) <= BlockSize * (Hi + 1)
      /\ BlockSize * (dst + n) - BlockSize * dst = BlockSize * n
      /\ BlockSize * (src + n) - BlockSize * src = BlockSize * n
  <2>1. ASSUME NEW x \in Int, NEW y \in Int
        PROVE  BlockSize * (x + y) - BlockSize * x = BlockSize * y
    BY Times
  <2>2. ASSUME NEW x \in Int, NEW y \in Int
        PROVE  BlockSize * x <= BlockSize * y <=> x <= y
    BY Times
  <2>3. src + n \in Int /\ Hi + 1 \in Int
    BY <1>1
  <2>4. BlockSize * Lo <= BlockSize * src /\ BlockSize * (src + n) <= BlockSize * (Hi + 1)
    BY <1>1, <2>2, <2>3
  <2>5. QED BY <1>1, <2>1, <2>4
<1>3. /\ BlockSize * Lo \in Int /\ BlockSize * Hi \in Int /\ BlockSize * (Hi + 1) \in Int
      /\ BlockSize * src \in Int /\ BlockSize * dst \in Int /\ BlockSize * n \in Int
      /\ BlockSize * (dst + n) \in Int /\ BlockSize * (src + n) \in Int
  <2>1. ASSUME NEW x \in Int PROVE BlockSize * x \in Int
    BY Times
  <2>2. QED BY <1>1, <2>1
<1>4. /\ dst * BlockSize = BlockSize * dst /\ (dst + n) * BlockSize = BlockSize * (dst + n)
      /\ src * BlockSize = BlockSize * src
      /\ Lo * BlockSize = BlockSize * Lo /\ (Hi + 1) * BlockSize = BlockSize * (Hi + 1)
  BY <1>1, SfsAssumption
<1>5. Bytes = (BlockSize * Lo) .. (BlockSize * (Hi + 1) - 1)
  BY <1>4 DEF Bytes
<1>6. /\ a \in Int /\ BlockSize * dst <= a /\ a <= BlockSize * (dst + n) - 1
  BY <1>3, <1>4
<1>7. a - BlockSize * dst + BlockSize * src \in (BlockSize * Lo) .. (BlockSize * (Hi + 1) - 1)
  BY <1>2, <1>3, <1>6
<1>8. QED BY <1>4, <1>5, <1>7

(* write_data() does, too. *)
LEMMA Written ==
  ASSUME NEW d \in Contents, NEW a, NEW size, NEW t \in Tokens
  PROVE  write_data(d, a, size, t) \in Contents
  BY DEF write_data, Contents

(* What Grow() of the file f to n blocks does to the index e of SfsSpace,   *)
(* before the file's own entry is written back: e2 has the blocks taken and *)
(* the old ones released, and st is the first block of the grown file.      *)
OldCount(e, f) == IF e[f].start = 0 THEN 0 ELSE Space!Size(e[f])
Behind(e, f, n) == {d \in Slots : /\ e[d].type = "free" /\ e[d].start = e[f].end + 1
                                  /\ n <= Space!Size(e[d])}

Grown(e, e2, f, n, st) ==
    \/ /\ e[f].start # 0 /\ st = e[f].start
       /\ \E d \in Behind(e, f, n - OldCount(e, f)) : e2 = Space!TakeFront(e, d, n - OldCount(e, f))
    \/ /\ e[f].start = 0 \/ Behind(e, f, n - OldCount(e, f)) = {}
       /\ \E d \in Slots : /\ e[d].type = "free" /\ n <= Space!Size(e[d])
                           /\ \A c \in Slots : e[c].type = "free" => Space!Size(e[c]) <= Space!Size(e[d])
                           /\ st = e[d].start
                           /\ \E ok : Freed(Space!TakeFront(e, d, n), e2, ok, e[f].start, e[f].end)

(* The file of the index of SfsSpace *)
LEMMA FileOf ==
  ASSUME NEW ix, NEW f \in Slots, Sized(ix[f]), ix[f].size \in Nat
  PROVE  /\ AbsOf(ix)[f].start = ix[f].start_block /\ AbsOf(ix)[f].end = ix[f].end_block
         /\ OldCount(AbsOf(ix), f) = BlockCount(ix[f].size) /\ BlockCount(ix[f].size) \in Nat
         /\ ix[f].start_block # 0 => OldCount(AbsOf(ix), f) = ix[f].end_block - ix[f].start_block + 1
<1>1. AbsOf(ix)[f].start = ix[f].start_block /\ AbsOf(ix)[f].end = ix[f].end_block
  BY AbsFields
<1>2. CASE ix[f].start_block = 0
  BY <1>1, <1>2, FitsBlocks, BlockCounts DEF OldCount
<1>3. CASE ix[f].start_block # 0
  BY <1>1, <1>3, FitsBlocks, BlockCounts DEF OldCount, Space!Size
<1>4. QED BY <1>1, <1>2, <1>3

(* n blocks from st on, within what is free. *)
LEMMA WithinArea ==
  ASSUME NEW st \in Lo..Hi, NEW n \in Nat \ {0}, NEW t \in Lo..Hi, n <= t - st + 1
  PROVE  st + n - 1 \in Lo..Hi /\ st <= st + n - 1 /\ (st + n - 1) - st + 1 = n
<1>1. Lo \in Int /\ Hi \in Int
  BY SfsAssumption
<1>2. QED BY <1>1

(* The list entries are the free extents of the index of SfsSpace. *)
LEMMA FreesOf ==
  ASSUME NEW u, NEW ix, ix = u.index, NEW i \in Slots
  PROVE  i \in Frees(u) <=> AbsOf(ix)[i].type = "free"
<1>1. AbsOf(ix)[i].type = AbsType(ix[i])
  BY AbsFields
<1>2. AbsType(ix[i]) = "free" <=> IsFree(ix[i])
  BY AbsTypes
<1>3. QED BY <1>1, <1>2 DEF Frees

(* What Grow() returns: an index in order, but for the file's own entry,    *)
(* and the new extent.                                                      *)
LEMMA GrowOrder ==
  ASSUME NEW tidy, InOrder(tidy, fs), data \in Contents, NEW f \in Slots, IsFile(index[f]),
         NEW new \in Nat, BlockCount(new) > BlockCount(index[f].size),
         NEW g, g = Grow(f, new), g.ok
  PROVE  /\ InOrder(tidy, g.u) /\ Kept(g.u, fs) /\ g.u.index[f] = index[f] /\ g.data \in Contents
         /\ g.start \in Lo..Hi /\ g.end \in Lo..Hi /\ g.start <= g.end
         /\ g.end - g.start + 1 = BlockCount(new)
         /\ Grown(AbsOf(index), AbsOf(g.u.index), f, BlockCount(new), g.start)
<1> DEFINE e  == index[f]
           n  == BlockCount(new)
           m  == BlockCount(e.size)
           x  == try_expand(fs, f, new)
           al == del_file_list_alloc(fs, new)
           ad == del_file_list_add(al.u, e.start_block, e.end_block)
           ab == AbsOf(index)
<1>1. fs.index = index /\ ShapedList(fs)
  BY OrderShaped DEF fs
<1>2. Sized(e) /\ e.size \in Nat
  BY <1>1 DEF InOrder, Entered, EntryOK
<1>3. /\ ab[f].start = e.start_block /\ ab[f].end = e.end_block
      /\ OldCount(ab, f) = m /\ m \in Nat
  BY <1>2, FileOf
<1>4. n \in Nat /\ m < n /\ n # 0 /\ new # 0
  BY <1>3, BlockCounts
<1>5. \A v : Kept(v, fs) => v.index[f] = e
  <2>1. f \in Offsets \ Pool(fs)
    BY <1>1, SfsAssumption, Kinds DEF Pool, Slots, Offsets, IsFile, OwnsData, IsUnlinked, IsFree
  <2>2. QED BY <1>1, <2>1 DEF Kept
<1>6. \/ ~x.ok /\ x.u = fs /\ Behind(ab, f, n - m) = {}
      \/ /\ x.ok /\ ShapedList(x.u) /\ Kept(x.u, fs)
         /\ \E d \in Behind(ab, f, n - m) : AbsOf(x.u.index) = Space!TakeFront(ab, d, n - m)
  <2>1. \A i \in Slots : i \in Frees(fs) <=> ab[i].type = "free"
    BY <1>1, FreesOf
  <2>2. \A i \in Slots : i \in Behind(ab, f, n - m) <=>
           i \in Frees(fs) /\ ab[i].start = e.end_block + 1 /\ n - m <= Space!Size(ab[i])
    BY <1>3, <2>1 DEF Behind
  <2>3. Frees(fs) \subseteq Slots /\ Behind(ab, f, n - m) \subseteq Slots
    BY DEF Frees, Behind
  <2>4. LET Fit(i) == ab[i].start = e.end_block + 1 /\ n - m <= Space!Size(ab[i])
        IN  \/ ~x.ok /\ x.u = fs /\ \A i \in Frees(fs) : ~Fit(i)
            \/ /\ x.ok /\ ShapedList(x.u) /\ Kept(x.u, fs)
               /\ \E d \in Frees(fs) : Fit(d) /\ AbsOf(x.u.index) = Space!TakeFront(ab, d, n - m)
    BY <1>1, <1>2, <1>4, ExpandShaped
  <2> HIDE DEF x, ab, n, m, e
  <2>5. QED BY <2>2, <2>3, <2>4
<1>7. CASE e.start_block # 0 /\ x.ok
  <2>1. /\ g.u = x.u /\ g.start = e.start_block /\ g.data = data
        /\ g.end = e.start_block + n - 1
    BY <1>1, <1>7 DEF Grow
  <2>2. InOrder(tidy, x.u) /\ x.u.index[f] = e
    BY <1>5, <1>6, <1>7, KeptOrder
  <2>3. PICK d \in Behind(ab, f, n - m) : AbsOf(x.u.index) = Space!TakeFront(ab, d, n - m)
    BY <1>6, <1>7
  <2>4. /\ e.start_block \in Lo..Hi /\ e.end_block \in Lo..Hi
        /\ e.end_block - e.start_block + 1 = m
    BY <1>2, <1>7, FitsBlocks
  <2>5. /\ ab[d].end \in Lo..Hi /\ ab[d].start = e.end_block + 1
        /\ n - m <= ab[d].end - ab[d].start + 1
    <3>1. d \in Frees(fs)
      BY <1>1, <2>3, FreesOf DEF Behind
    <3>2. QED BY <1>1, <1>3, <2>3, <3>1, FreeSizes DEF Behind, Space!Size
  <2>6. g.start \in Lo..Hi /\ g.end \in Lo..Hi /\ g.start <= g.end /\ g.end - g.start + 1 = n
    <3>1. /\ Lo \in Int /\ Hi \in Int
      BY SfsAssumption
    <3> HIDE DEF n, m, e, ab
    <3>2. /\ e.start_block \in Int /\ e.end_block \in Int /\ ab[d].end \in Int
          /\ Lo <= e.start_block /\ ab[d].end <= Hi
      BY <2>4, <2>5, <3>1
    <3>3. e.start_block + n - 1 <= Hi
      BY <1>3, <1>4, <2>4, <2>5, <3>1, <3>2
    <3>4. QED BY <1>4, <2>1, <3>1, <3>2, <3>3
  <2>7. Grown(ab, AbsOf(g.u.index), f, n, g.start)
    BY <1>3, <1>7, <2>1, <2>3 DEF Grown
  <2>8. QED BY <1>6, <1>7, <2>1, <2>2, <2>6, <2>7
<1>8. CASE ~(e.start_block # 0 /\ x.ok)
  <2>1. /\ al.start # 0 /\ g.u = ad.u /\ g.start = al.start /\ g.end = al.start + n - 1
        /\ g.data = IF e.start_block # 0
                    THEN copy_block(data, e.start_block, al.start, e.end_block - e.start_block + 1)
                    ELSE data
    BY <1>1, <1>8 DEF Grow
  <2>2. /\ al.start \in Lo..Hi /\ ShapedList(al.u) /\ Kept(al.u, fs)
        /\ \E d \in Frees(fs) : /\ \A c \in Frees(fs) : Space!Size(ab[c]) <= Space!Size(ab[d])
                                /\ n <= Space!Size(ab[d])
                                /\ al.start = ab[d].start
                                /\ AbsOf(al.u.index) = Space!TakeFront(ab, d, n)
    BY <1>1, <1>4, <2>1, AllocShaped
  <2>3. PICK d \in Frees(fs) : /\ \A c \in Frees(fs) : Space!Size(ab[c]) <= Space!Size(ab[d])
                               /\ n <= Space!Size(ab[d])
                               /\ al.start = ab[d].start
                               /\ AbsOf(al.u.index) = Space!TakeFront(ab, d, n)
    BY <2>2
  <2>4. InOrder(tidy, al.u) /\ al.u.index[f] = e
    BY <1>5, <2>2, KeptOrder
  <2>5. /\ InOrder(tidy, ad.u) /\ Kept(ad.u, al.u)
        /\ Freed(AbsOf(al.u.index), AbsOf(ad.u.index), ad.ok, e.start_block, e.end_block)
    BY <1>2, <2>4, FreedOrder
  <2>6. Kept(ad.u, fs) /\ ad.u.index[f] = e
    <3>1. Kept(ad.u, fs)
      BY <2>2, <2>5 DEF Kept
    <3>2. QED BY <1>5, <3>1
  <2>7. g.start \in Lo..Hi /\ g.end \in Lo..Hi /\ g.start <= g.end /\ g.end - g.start + 1 = n
    <3>1. ab[d].end \in Lo..Hi /\ Space!Size(ab[d]) = ab[d].end - ab[d].start + 1
      BY <1>1, FreeSizes DEF Space!Size
    <3> HIDE DEF n, ab, al
    <3>2. n <= ab[d].end - al.start + 1
      BY <2>3, <3>1
    <3>3. al.start \in Lo..Hi /\ n \in Nat \ {0}
      BY <1>4, <2>2
    <3>4. al.start + n - 1 \in Lo..Hi /\ al.start <= al.start + n - 1
          /\ (al.start + n - 1) - al.start + 1 = n
      BY <3>1, <3>2, <3>3, WithinArea
    <3>5. QED BY <2>1, <3>3, <3>4
  <2>8. g.data \in Contents
    <3>1. CASE e.start_block = 0
      BY <2>1, <3>1
    <3>2. CASE e.start_block # 0
      <4>1. /\ e.start_block \in Lo..Hi /\ e.end_block \in Lo..Hi
            /\ e.start_block <= e.end_block
        BY <1>2, <3>2, FitsBlocks
      <4>2. /\ e.end_block - e.start_block + 1 \in Nat \ {0}
            /\ e.start_block + (e.end_block - e.start_block + 1) - 1 \in Lo..Hi
        <5>1. Lo \in Int /\ Hi \in Int
          BY SfsAssumption
        <5> HIDE DEF e
        <5>2. QED BY <4>1, <5>1
      <4> HIDE DEF e, al
      <4>3. QED BY <2>1, <2>2, <3>2, <4>1, <4>2, Copied
    <3>3. QED BY <3>1, <3>2
  <2>9. Grown(ab, AbsOf(g.u.index), f, n, g.start)
    <3>1. \A c \in Slots : ab[c].type = "free" <=> c \in Frees(fs)
      BY <1>1, FreesOf
    <3>2. d \in Slots
      BY DEF Frees
    <3>3. Freed(Space!TakeFront(ab, d, n), AbsOf(g.u.index), ad.ok, ab[f].start, ab[f].end)
      BY <1>3, <2>1, <2>3, <2>5
    <3>4. ab[f].start = 0 \/ Behind(ab, f, n - OldCount(ab, f)) = {}
      BY <1>3, <1>6, <1>8
    <3> HIDE DEF ab, n, al, ad
    <3>5. QED BY <2>1, <2>3, <3>1, <3>2, <3>3, <3>4 DEF Grown
  <2>10. QED BY <2>1, <2>5, <2>6, <2>7, <2>8, <2>9
<1>9. QED BY <1>7, <1>8

(* A file grows, in the index of SfsSpace: its entry after the step is the  *)
(* new extent.                                                              *)
Regrown(e, e2, f) ==
    \E n \in 1..(Hi - Lo + 1) : \E st, e1 :
        /\ OldCount(e, f) < n /\ Grown(e, e1, f, n, st)
        /\ e2 = Space!Put(e1, f, Space!File(st, st + n - 1))

(* A file is made empty: its blocks are released.                           *)
Emptied(e, e2, f) ==
    \E ok, e1 : /\ Freed(e, e1, ok, e[f].start, e[f].end)
                /\ e2 = Space!Put(e1, f, Space!Empty)

(* The common end of sfs_write() and sfs_truncate(): the file has enough    *)
(* blocks, or gets more.                                                    *)
LEMMA Repointing ==
  ASSUME NEW tidy, InOrder(tidy, fs), data \in Contents, NEW f \in Slots, IsFile(index[f]),
         NEW new \in (0..N) \cup FileSizes, new \in Nat \ {0},
         BlockCount(index[f].size) <= BlockCount(new),
         NEW g, g.ok,
         g = IF BlockCount(new) > BlockCount(index[f].size) THEN Grow(f, new) ELSE InPlace(f),
         NEW v, v = Repointed(f, g, new)
  PROVE  /\ InOrder(tidy, v) /\ g.data \in Contents
         /\ RewritesOnly(v.index, index, f)
         /\ \/ AbsOf(v.index) = AbsOf(index)
            \/ Regrown(AbsOf(index), AbsOf(v.index), f)
<1> DEFINE e  == index[f]
           n  == BlockCount(new)
           ab == AbsOf(index)
           x  == [type |-> "file", start |-> g.start, end |-> g.end]
<1>1. fs.index = index /\ e.size \in Nat /\ Sized(e) /\ e \in Entries
  <2>1. fs.index = index /\ e \in Entries
    BY OrderShaped DEF fs
  <2>2. QED BY <2>1 DEF InOrder, Entered, EntryOK
<1>2. BlockCount(e.size) \in Nat /\ n \in Nat /\ n # 0
  BY <1>1, BlockCounts
<1>3. CASE n > BlockCount(e.size)
  <2>1. g = Grow(f, new)
    BY <1>3
  <2>2. /\ InOrder(tidy, g.u) /\ Kept(g.u, fs) /\ g.u.index[f] = e /\ g.data \in Contents
        /\ g.start \in Lo..Hi /\ g.end \in Lo..Hi /\ g.start <= g.end
        /\ g.end - g.start + 1 = n
        /\ Grown(ab, AbsOf(g.u.index), f, n, g.start)
    BY <1>3, <2>1, GrowOrder
  <2>3. g.start \in Extents /\ g.end \in Extents
    BY <2>2 DEF Extents
  <2> HIDE DEF e, n
  <2>4. /\ InOrder(tidy, v) /\ AbsOf(v.index) = Space!Put(AbsOf(g.u.index), f, x)
        /\ RewritesOnly(v.index, g.u.index, f)
    <3>1. IsFile(e)
      BY DEF e
    <3>2. g.end - g.start + 1 = BlockCount(new)
      BY <2>2 DEF n
    <3>3. QED BY <2>2, <2>3, <3>1, <3>2, RepointedOrder
  <2>5. /\ n \in 1..(Hi - Lo + 1) /\ g.end = g.start + n - 1
    BY <1>2, <2>2, Numbers
  <2>6. x = Space!File(g.start, g.start + n - 1)
    BY <2>5 DEF Space!File
  <2>7. OldCount(ab, f) < n
    <3>1. OldCount(ab, f) = BlockCount(e.size)
      BY <1>1, FileOf DEF e
    <3>2. QED BY <1>2, <1>3, <3>1
  <2>8. Regrown(ab, AbsOf(v.index), f)
    BY <2>2, <2>4, <2>5, <2>6, <2>7 DEF Regrown
  <2>9. RewritesOnly(v.index, index, f)
    <3>1. Spared(g.u.index, index, {})
      BY <1>1, <2>2, KeptSpares
    <3>2. {} \cup {f} = {f}
      OBVIOUS
    <3>3. Spared(v.index, index, {} \cup {f})
      BY <2>4, <3>1, BothSpare DEF RewritesOnly
    <3>4. QED BY <2>2, <2>4, <3>2, <3>3 DEF RewritesOnly, e
  <2>10. QED BY <2>2, <2>4, <2>8, <2>9
<1>4. CASE ~(n > BlockCount(e.size))
  <2>1. g = InPlace(f) /\ n = BlockCount(e.size)
    BY <1>2, <1>4
  <2>2. g.u = fs /\ g.start = e.start_block /\ g.end = e.end_block /\ g.data = data
    BY <2>1 DEF InPlace
  <2>3. e.size # 0
    BY <1>1, <1>2, <2>1, BlockCounts
  <2>4. /\ g.start \in Lo..Hi /\ g.end \in Lo..Hi /\ g.end - g.start + 1 = n
        /\ g.start \in Extents /\ g.end \in Extents
    BY <1>1, <2>1, <2>2, <2>3 DEF Sized, Extents
  <2>5. /\ InOrder(tidy, v) /\ AbsOf(v.index) = Space!Put(AbsOf(g.u.index), f, x)
        /\ RewritesOnly(v.index, g.u.index, f)
    BY <1>1, <2>2, <2>4, RepointedOrder
  <2>6. x = ab[f]
    <3>1. AbsType(e) = "file"
      BY AbsTypes DEF IsFile
    <3>2. QED BY <2>2, <3>1, AbsFields
  <2>7. Space!Put(ab, f, ab[f]) = ab
    BY DEF Space!Put, AbsOf
  <2>8. QED BY <1>1, <2>2, <2>5, <2>6, <2>7
<1>5. QED BY <1>3, <1>4

(* sfs_write() keeps the index in order, and for SfsSpace it is nothing or  *)
(* the growth of the file.                                                  *)
LEMMA WriteOrder ==
  ASSUME NEW tidy, InOrder(tidy, fs), data \in Contents, NEW f \in Slots, NEW s \in Spans, NEW t \in Tokens,
         Write(f, s[1], s[2], t)
  PROVE  /\ InOrder(tidy, fs)' /\ data' \in Contents /\ IsFile(index[f])
         /\ RewritesOnly(index', index, f)
         /\ AbsEnt' = AbsEnt \/ Regrown(AbsEnt, AbsEnt', f)
<1> DEFINE old == index[f].size
           new == Max({s[1] + s[2], old})
           g   == IF BlockCount(new) > BlockCount(old) THEN Grow(f, new) ELSE InPlace(f)
           v   == Repointed(f, g, new)
<1>1. /\ f \in Handles \cup {0} /\ g.ok /\ Becomes(v)
      /\ data' = write_data(g.data, g.start * BlockSize + s[1], s[2], t)
  BY DEF Write
<1>2. IsFile(index[f])
  BY <1>1, SfsAssumption DEF Handles, IsFile, Slots
<1>3. fs.index = index /\ old \in Nat /\ index[f] \in Entries
  BY <1>2, OrderShaped DEF fs, InOrder, Entered, EntryOK
<1>4. s[1] \in Nat /\ s[2] \in Nat /\ s[2] # 0
  BY SfsAssumption
<1>5. s[1] + s[2] \in Nat /\ s[1] + s[2] # 0 /\ s[1] + s[2] \in FileSizes
  BY <1>4 DEF FileSizes
<1>6. new \in {s[1] + s[2], old} /\ s[1] + s[2] <= new /\ old <= new
  BY <1>3, <1>5, MaxOfTwo
<1>7. new \in (0..N) \cup FileSizes /\ new \in Nat \ {0}
  <2>1. old \in (0..N) \cup FileSizes
    BY <1>3 DEF Entries
  <2> HIDE DEF new, old
  <2>2. QED BY <1>3, <1>5, <1>6, <2>1
<1>8. BlockCount(old) <= BlockCount(new)
  BY <1>3, <1>6, <1>7, CountClimbs
<1> HIDE DEF new
<1>9. /\ InOrder(tidy, v) /\ g.data \in Contents
      /\ RewritesOnly(v.index, index, f)
      /\ AbsOf(v.index) = AbsOf(index) \/ Regrown(AbsOf(index), AbsOf(v.index), f)
  BY <1>1, <1>2, <1>7, <1>8, Repointing
<1> HIDE DEF v, g
<1>10. v \in State
  BY <1>9, OrderShaped
<1>11. fs' = v /\ index' = v.index
  BY <1>1, <1>10, NextState
<1>12. AbsEnt = AbsOf(index) /\ AbsEnt' = AbsOf(v.index)
  BY <1>11 DEF AbsEnt, AbsOf
<1>13. data' \in Contents
  BY <1>1, <1>9, Written
<1>14. QED BY <1>2, <1>9, <1>11, <1>12, <1>13

(* So does sfs_truncate(), except to a smaller number of blocks that is not *)
(* 0; it may also empty the file.                                           *)
LEMMA TruncateOrder ==
  ASSUME NEW tidy, InOrder(tidy, fs), data \in Contents, NEW f \in Slots, NEW new \in Lengths,
         SafeTruncate(f, new)
  PROVE  /\ InOrder(tidy, fs)' /\ data' \in Contents /\ IsFile(index[f])
         /\ RewritesOnly(index', index, f)
         /\ \/ AbsEnt' = AbsEnt
            \/ Regrown(AbsEnt, AbsEnt', f)
            \/ Emptied(AbsEnt, AbsEnt', f)
<1> DEFINE e == index[f]
           a == del_file_list_add(fs, e.start_block, e.end_block)
           z == [InPlace(f) EXCEPT !.start = 0, !.end = 0, !.u = a.u]
           g == IF new = 0 THEN z
                ELSE IF BlockCount(new) > BlockCount(e.size) THEN Grow(f, new) ELSE InPlace(f)
           v == Repointed(f, g, new)
<1>1. f \in Handles \cup {0}
  BY DEF SafeTruncate, Truncate
<1>2. IsFile(e)
  BY <1>1, SfsAssumption DEF Handles, IsFile, Slots
<1>3. fs.index = index /\ e.size \in Nat /\ Sized(e) /\ e \in Entries
  BY <1>2, OrderShaped DEF fs, InOrder, Entered, EntryOK
<1>4. new \in Nat /\ new \in (0..N) \cup FileSizes
  BY SfsAssumption DEF FileSizes
<1>5. BlockCount(new) \in Nat /\ BlockCount(e.size) \in Nat /\ (new = 0 <=> BlockCount(new) = 0)
  BY <1>3, <1>4, BlockCounts
<1>6. new # 0 => BlockCount(e.size) <= BlockCount(new)
  BY <1>5 DEF SafeTruncate, Shrinks
<1>7. g.ok /\ Becomes(v) /\ data' = g.data
  <2>1. CASE new = 0
    <3>1. ~(BlockCount(new) > BlockCount(e.size))
      BY <1>5, <2>1
    <3>2. QED BY <2>1, <3>1 DEF SafeTruncate, Truncate
  <2>2. CASE new # 0 /\ BlockCount(new) > BlockCount(e.size)
    BY <1>5, <2>2 DEF SafeTruncate, Truncate
  <2>3. CASE new # 0 /\ ~(BlockCount(new) > BlockCount(e.size))
    BY <1>5, <1>6, <2>3 DEF SafeTruncate, Truncate
  <2>4. QED BY <2>1, <2>2, <2>3
<1>8. CASE new # 0
  <2>1. g = IF BlockCount(new) > BlockCount(e.size) THEN Grow(f, new) ELSE InPlace(f)
    BY <1>8
  <2>2. /\ InOrder(tidy, v) /\ g.data \in Contents
        /\ RewritesOnly(v.index, index, f)
        /\ AbsOf(v.index) = AbsOf(index) \/ Regrown(AbsOf(index), AbsOf(v.index), f)
    <3> HIDE DEF g
    <3>1. QED BY <1>2, <1>4, <1>6, <1>7, <1>8, <2>1, Repointing
  <2> HIDE DEF v, g
  <2>3. v \in State
    BY <2>2, OrderShaped
  <2>4. fs' = v /\ index' = v.index
    BY <1>7, <2>3, NextState
  <2>5. AbsEnt = AbsOf(index) /\ AbsEnt' = AbsOf(v.index)
    BY <2>4 DEF AbsEnt, AbsOf
  <2>6. QED BY <1>2, <1>7, <2>2, <2>4, <2>5
<1>9. CASE new = 0
  <2>1. /\ g.start = 0 /\ g.end = 0 /\ g.u = a.u /\ g.data = data
    BY <1>9 DEF InPlace
  <2>2. /\ InOrder(tidy, a.u) /\ Kept(a.u, fs)
        /\ Freed(AbsOf(index), AbsOf(a.u.index), a.ok, e.start_block, e.end_block)
    BY <1>3, FreedOrder
  <2>3. a.u.index[f] = e
    <3>1. f \in Offsets \ Pool(fs)
      BY <1>2, <1>3, SfsAssumption, Kinds
         DEF Pool, Slots, Offsets, IsFile, OwnsData, IsUnlinked, IsFree
    <3>2. QED BY <1>3, <2>2, <3>1 DEF Kept
  <2> HIDE DEF a, g
  <2>4. /\ InOrder(tidy, v) /\ RewritesOnly(v.index, g.u.index, f)
        /\ AbsOf(v.index) = Space!Put(AbsOf(a.u.index), f, [type |-> "file", start |-> 0, end |-> 0])
    <3>1. 0 \in Extents
      BY DEF Extents
    <3> HIDE DEF e
    <3>2. IsFile(e)
      BY <1>2
    <3>3. QED BY <1>4, <1>9, <2>1, <2>2, <2>3, <3>1, <3>2, RepointedOrder
  <2> HIDE DEF v
  <2>5. v \in State
    BY <2>4, OrderShaped
  <2>6. fs' = v /\ index' = v.index
    BY <1>7, <2>5, NextState
  <2>7. AbsEnt = AbsOf(index) /\ AbsEnt' = AbsOf(v.index)
    BY <2>6 DEF AbsEnt, AbsOf
  <2>8. Emptied(AbsEnt, AbsEnt', f)
    <3>1. AbsEnt[f].start = e.start_block /\ AbsEnt[f].end = e.end_block
      BY <2>7, AbsFields
    <3>2. QED BY <2>2, <2>4, <2>7, <3>1 DEF Emptied, Space!Empty
  <2>9. RewritesOnly(v.index, index, f)
    <3>1. Spared(a.u.index, index, {})
      BY <1>3, <2>2, KeptSpares
    <3>2. {} \cup {f} = {f}
      OBVIOUS
    <3>3. Spared(v.index, index, {} \cup {f})
      BY <2>1, <2>4, <3>1, BothSpare DEF RewritesOnly
    <3>4. QED BY <2>1, <2>3, <2>4, <3>2, <3>3 DEF RewritesOnly, e
  <2>10. QED BY <1>2, <1>7, <2>1, <2>4, <2>6, <2>8, <2>9
<1>10. QED BY <1>8, <1>9

-----------------------------------------------------------------------------
(* The invariant *)

(* image_create() makes an index in order. *)
LEMMA InitOrder ==
  ASSUME NEW tidy, Init
  PROVE  /\ IInv(tidy)
         /\ 3 \in Slots /\ index[3].entry_type = "DIR_ENTRY" /\ index[3].name = <<>>
         /\ \A i \in Slots : ~IsFile(index[i]) /\ (index[i].entry_type = "DIR_ENTRY" => i = 3)
<1>1. /\ index[0] = NoEntry("BOOT_CODE") /\ index[1] = NoEntry("START_ENTRY")
      /\ index[2] = FreeEntry(Lo, Hi, 0, 0) /\ index[3] = NoEntry("DIR_ENTRY")
      /\ \A i \in Offsets \ 0..3 : index[i] = UnusedEntry
      /\ 0 \in Offsets /\ 1 \in Slots /\ 2 \in Slots /\ 3 \in Slots
      /\ fs.index = index /\ fs.del_begin = 2
  <2>1. 0 \in Offsets /\ 1 \in Slots /\ 2 \in Slots /\ 3 \in Slots /\ Slots \subseteq Offsets
    BY SfsAssumption DEF Offsets, Slots
  <2>2. fs.index = index /\ fs.del_begin = 2
    BY DEF Init, fs
  <2>3. QED BY <2>1, <2>2 DEF Init
<1>2. /\ Lo \in Lo..Hi /\ Hi \in Lo..Hi /\ Lo \in Extents /\ Hi \in Extents /\ 0 \in Offsets
  BY SfsAssumption DEF Extents, Offsets
<1>3. /\ index[2] \in Entries /\ IsFree(index[2])
      /\ index[2].start_block = Lo /\ index[2].end_block = Hi
      /\ PREV_DEL(index[2]) = 0 /\ NEXT_DEL(index[2]) = 0 /\ index[2].cont_entries = 0
  BY <1>1, <1>2, FreeEntryFields
<1>4. \A i \in Offsets \ {2} :
         /\ index[i] \in Entries /\ ~IsFree(index[i])
         /\ index[i].start_block = 0 /\ index[i].end_block = 0 /\ index[i].cont_entries = 0
         /\ index[i].name = <<>> /\ index[i].time_stamp = 0
         /\ index[i].entry_type = IF i = 0 THEN "BOOT_CODE" ELSE IF i = 1 THEN "START_ENTRY"
                                  ELSE IF i = 3 THEN "DIR_ENTRY" ELSE "UNUSED_ENTRY"
  <2>1. ASSUME NEW i \in Offsets, i # 2
        PROVE  \/ i = 0 /\ index[i] = NoEntry("BOOT_CODE")
               \/ i = 1 /\ index[i] = NoEntry("START_ENTRY")
               \/ i = 3 /\ index[i] = NoEntry("DIR_ENTRY")
               \/ i \notin {0, 1, 3} /\ index[i] = NoEntry("UNUSED_ENTRY")
    BY <1>1, <2>1, SfsAssumption DEF Offsets, UnusedEntry
  <2>2. QED BY <2>1, EmptyFields DEF EntryTypes
<1>5. fs \in State
  <2>1. index \in [Offsets -> Entries]
    BY <1>3, <1>4 DEF Init
  <2>2. QED BY <2>1, SfsAssumption DEF State, fs, Init, Offsets
<1>6. Frees(fs) = {2}
  BY <1>1, <1>3, <1>4, SfsAssumption DEF Frees, Slots, Offsets
<1>7. IsList(fs)
  <2>1. Linked(fs)
    BY <1>1, <1>3, <1>5, <1>6 DEF Linked
  <2>2. Ranked(fs, [i \in Slots |-> 0])
    BY <1>1, <1>3, <1>6 DEF Ranked
  <2>3. QED BY <2>1, <2>2 DEF IsList
<1>8. FreeShaped(fs)
  BY <1>1, <1>2, <1>3, <1>6, SfsAssumption DEF FreeShaped
<1>9. \A i \in Slots : /\ i # 0 /\ i \in Offsets
                       /\ ~OwnsData(index[i]) /\ index[i].entry_type \notin {"CONT", "CLOBBERED", "FILE_ENTRY"}
                       /\ index[i].entry_type = "DIR_ENTRY" => i = 3
                       /\ index[i].entry_type = "UNUSED_ENTRY" => index[i] = UnusedEntry
  <2>1. \A i \in Slots : i # 0 /\ i \in Offsets
    BY SfsAssumption DEF Slots, Offsets
  <2>2. ~OwnsData(index[2]) /\ index[2].entry_type = "DEL_FILE_ENTRY"
    BY <1>3, Kinds DEF IsFree
  <2>3. \A i \in Offsets \ {2} : ~OwnsData(index[i])
    BY <1>4 DEF OwnsData, IsUnlinked
  <2>4. \A i \in Offsets \ {2} : index[i].entry_type = "UNUSED_ENTRY" => index[i] = UnusedEntry
    BY <1>1, <1>4, SfsAssumption DEF Offsets
  <2>5. QED BY <1>4, <2>1, <2>2, <2>3, <2>4
<1>10. Entered(index)
  <2>1. ASSUME NEW i \in Slots PROVE EntryOK(index[i])
    <3>1. ~IsFile(index[i])
      BY <1>9 DEF IsFile
    <3>2. CASE i = 2
      BY <1>3, <1>9, <3>1, <3>2 DEF EntryOK, IsFree
    <3>3. CASE i # 2
      <4>1. count_entry(Len(<<>>) + 1, FirstDir) = 1
        BY SfsAssumption DEF count_entry
      <4>2. index[i].entry_type = "DIR_ENTRY" => DirSized(index[i])
        <5>1. i \in Offsets \ {2}
          BY <1>9, <3>3
        <5>2. index[i].cont_entries = 0 /\ index[i].name = <<>>
          BY <1>4, <5>1
        <5>3. QED BY <4>1, <5>2 DEF DirSized
      <4>3. QED BY <1>4, <1>9, <3>1, <3>3, <4>2 DEF EntryOK
    <3>4. QED BY <3>2, <3>3
  <2>2. QED BY <1>1, <1>4, <2>1, SfsAssumption DEF Entered, Slots, Offsets
<1>11. NamesOK(tidy, index)
  <2>1. \A i \in Slots : IsHead(index[i]) \/ IsSeen(index[i]) => i = 3
    BY <1>9 DEF IsHead, IsSeen
  <2>2. index[3].cont_entries = 0 /\ index[3].name = <<>>
    BY <1>1, <1>4 DEF Slots, Offsets
  <2>3. Ancestors(<<>>) = {}
    BY DEF Ancestors
  <2>4. HeadsWhole(index)
    BY <2>1, <2>2 DEF HeadsWhole, NameMatches, Conts
  <2>5. ContsOwned(index)
    BY <1>9 DEF ContsOwned
  <2>6. Once(index)
    <3>1. ASSUME NEW i \in Slots, NEW j \in Slots, IsSeen(index[i]),
                 index[i].entry_type = index[j].entry_type
          PROVE  i = j
      <4>1. IsSeen(index[j])
        BY <3>1 DEF IsSeen
      <4>2. QED BY <2>1, <3>1, <4>1
    <3>2. QED BY <3>1 DEF Once
  <2>7. Parented(index)
    BY <2>1, <2>2, <2>3 DEF Parented
  <2>8. QED BY <2>4, <2>5, <2>6, <2>7 DEF NamesOK
<1>12. IInv(tidy)
  BY <1>1, <1>7, <1>8, <1>10, <1>11 DEF IInv, InOrder, Init
<1>13. index[3].entry_type = "DIR_ENTRY" /\ index[3].name = <<>>
  BY <1>1, <1>4 DEF Slots, Offsets
<1>14. \A i \in Slots : ~IsFile(index[i])
  BY <1>9 DEF IsFile
<1>15. QED BY <1>1, <1>9, <1>12, <1>13, <1>14

(* Every call keeps the index in order. *)
LEMMA StepOrder == ASSUME NEW tidy, IInv(tidy), [SafeNext]_vars PROVE IInv(tidy)'
<1>1. InOrder(tidy, fs) /\ data \in Contents
  BY DEF IInv, Contents
<1>2. SUFFICES InOrder(tidy, fs)' /\ data' \in Contents
  BY DEF IInv, Contents
<1>3. ASSUME NEW p \in FilePaths, Creat(p) PROVE InOrder(tidy, fs)' /\ data' \in Contents
  BY <1>1, <1>3, CreatOrder DEF Creat
<1>4. ASSUME NEW p \in FilePaths, Unlink(p) PROVE InOrder(tidy, fs)' /\ data' \in Contents
  BY <1>1, <1>4, UnlinkOrder DEF Unlink
<1>5. ASSUME NEW p \in DirPaths, Mkdir(p) PROVE InOrder(tidy, fs)' /\ data' \in Contents
  BY <1>1, <1>5, MkdirOrder DEF Mkdir
<1>6. ASSUME NEW p \in DirPaths, Rmdir(p) PROVE InOrder(tidy, fs)' /\ data' \in Contents
  BY <1>1, <1>6, RmdirOrder DEF Rmdir
<1>7. ASSUME NEW f \in Slots, Delete(f) PROVE InOrder(tidy, fs)' /\ data' \in Contents
  BY <1>1, <1>7, DeleteOrder DEF Delete
<1>8. ASSUME NEW f \in Slots, NEW s \in Spans, NEW t \in Tokens, Write(f, s[1], s[2], t)
      PROVE  InOrder(tidy, fs)' /\ data' \in Contents
  BY <1>1, <1>8, WriteOrder
<1>9. ASSUME NEW f \in Slots, NEW new \in Lengths, SafeTruncate(f, new)
      PROVE  InOrder(tidy, fs)' /\ data' \in Contents
  BY <1>1, <1>9, TruncateOrder
<1>10. ASSUME NEW f \in Slots, NEW p \in FilePaths, SafeRename(f, p)
       PROVE  InOrder(tidy, fs)' /\ data' \in Contents
  BY <1>1, <1>10, RenameOrder DEF SafeRename, Rename
<1>11. CASE UNCHANGED vars
  <2>1. index' = index /\ fs' = fs /\ data' = data
    BY <1>11 DEF vars, fs
  <2>2. QED BY <1>1, <2>1 DEF Contents
<1>12. QED BY <1>3, <1>4, <1>5, <1>6, <1>7, <1>8, <1>9, <1>10, <1>11
           DEF SafeNext, FileCalls, DirCalls, DeleteCalls, WriteCalls

(* The index stays in order: the inductive invariant of the library. *)
THEOREM StaysInOrder == SafeSpec => []IInv(Tidy)
<1>1. Init => IInv(Tidy)
  BY InitOrder
<1>2. IInv(Tidy) /\ [SafeNext]_vars => IInv(Tidy)'
  BY StepOrder
<1>3. QED BY <1>1, <1>2, PTL DEF SafeSpec

(* Every call leaves entries, list head and bytes of their types, TypeOK.   *)
THEOREM TypeIsRight == SafeSpec => []TypeOK
<1>1. IInv(Tidy) => TypeOK
  <2> SUFFICES ASSUME IInv(Tidy) PROVE TypeOK
    OBVIOUS
  <2>1. index \in [Offsets -> Entries] /\ del_begin \in Offsets
    <3>1. InOrder(Tidy, fs)
      BY DEF IInv
    <3>2. fs \in State
      BY <3>1, OrderShaped
    <3>3. QED BY <3>2 DEF State, fs
  <2>2. del_begin \in {0} \cup Slots
    BY <2>1, SfsAssumption DEF Offsets, Slots
  <2>3. ASSUME NEW i \in Offsets
        PROVE  /\ index[i].entry_type \in EntryTypes
               /\ index[i].cont_entries \in 0..N
               /\ index[i].start_block \in {0} \cup Lo..Hi
               /\ index[i].end_block \in {0} \cup Lo..Hi
               /\ index[i].time_stamp \in 0..N
               /\ index[i].size \in (0..N) \cup Lengths \cup {s[1] + s[2] : s \in Spans}
               /\ index[i].name \in FilePaths \cup DirPaths \cup {<<>>, FreeName}
    BY <2>1 DEF Entries, Extents, FileSizes
  <2>4. QED BY <2>1, <2>2, <2>3 DEF TypeOK, IInv
<1>2. QED BY <1>1, StaysInOrder, PTL

(* The walk along the deleted-file list ends, visits the list's entries and *)
(* no other, each once, and PREV_DEL undoes NEXT_DEL: ListWellFormed holds  *)
(* whatever del_file_list_add, remove, alloc and try_expand do.             *)
THEOREM ListStaysWhole == SafeSpec => []ListWellFormed
<1>1. IInv(Tidy) => ListWellFormed
  BY ListIsWellFormed DEF IInv, InOrder
<1>2. QED BY <1>1, StaysInOrder, PTL

(* sfs_init() finds the list head: unlinked files have a time where list    *)
(* entries have PREV_DEL, and of these only the head has none.              *)
LEMMA HeadIsFound ==
  ASSUME NEW tidy, NEW u, InOrder(tidy, u)
  PROVE  search_begin(u.index) = u.del_begin
<1> DEFINE ix == u.index
           S == {i \in Slots : ix[i].entry_type = "DEL_FILE_ENTRY" /\ PREV_DEL(ix[i]) = 0}
<1>1. Linked(u)
  BY DEF InOrder, IsList
<1>2. ASSUME NEW i \in S PROVE i \in Slots /\ i = u.del_begin
  <2>1. EntryOK(ix[i])
    BY DEF InOrder, Entered
  <2>2. ~OwnsData(ix[i])
    BY <2>1 DEF EntryOK, PREV_DEL
  <2>3. i \in Frees(u)
    BY <2>2 DEF OwnsData, IsUnlinked, IsFree, Frees
  <2>4. QED BY <1>1, <2>3 DEF Linked
<1>3. u.del_begin # 0 => u.del_begin \in S
  BY <1>1 DEF Linked, Frees, IsFree
<1>4. search_begin(ix) = FirstOf(S)
  BY DEF search_begin
<1> HIDE DEF S
<1>5. CASE S = {}
  BY <1>3, <1>4, <1>5 DEF FirstOf
<1>6. CASE S # {}
  <2>1. S \in SUBSET Slots
    BY <1>2
  <2>2. FirstOf(S) \in S
    BY <1>6, <2>1, FirstOfSet
  <2>3. QED BY <1>2, <1>4, <2>2
<1>7. QED BY <1>5, <1>6

(* So a mount finds what the last one left, HeadRecoverable. *)
THEOREM HeadStaysRecoverable == SafeSpec => []HeadRecoverable
<1>1. IInv(Tidy) => HeadRecoverable
  <2> SUFFICES ASSUME IInv(Tidy) PROVE HeadRecoverable
    OBVIOUS
  <2>1. InOrder(Tidy, fs) /\ fs.index = index /\ fs.del_begin = del_begin
    BY DEF IInv, fs
  <2>2. search_begin(fs.index) = fs.del_begin
    BY <2>1, HeadIsFound
  <2>3. QED BY <2>1, <2>2 DEF HeadRecoverable
<1>2. QED BY <1>1, StaysInOrder, PTL

(* The size and the extent of every file agree, in one state. *)
LEMMA ExtentsFit ==
  ASSUME NEW tidy, NEW u, u.index = index, InOrder(tidy, u)
  PROVE  ExtentFitsSize
<1> SUFFICES ASSUME NEW f \in Handles
             PROVE  IF index[f].size = 0
                    THEN index[f].start_block = 0 /\ index[f].end_block = 0
                    ELSE /\ index[f].start_block # 0
                         /\ index[f].end_block - index[f].start_block + 1 = BlockCount(index[f].size)
  BY DEF ExtentFitsSize
<1>1. EntryOK(index[f]) /\ IsFile(index[f])
  BY DEF InOrder, Entered, Handles, IsFile
<1>2. Sized(index[f]) /\ index[f].size \in Nat
  BY <1>1 DEF EntryOK
<1>3. QED BY <1>2, FitsBlocks DEF Sized

(* The size of a file and its extent agree, ExtentFitsSize, so that         *)
(* try_expand() and sfs_write() may count a file's blocks from its size.    *)
THEOREM ExtentsFitSizes == SafeSpec => []ExtentFitsSize
<1>1. IInv(Tidy) => ExtentFitsSize
  <2>1. IInv(Tidy) => fs.index = index /\ InOrder(Tidy, fs)
    BY DEF IInv, fs
  <2>2. QED BY <2>1, ExtentsFit
<1>2. QED BY <1>1, StaysInOrder, PTL

(* sfs_rmdir() never removes a directory that a file or directory is in:    *)
(* check_dirs() of every name holds, ParentsExist.                          *)
THEOREM ParentsStay == SafeSpec => []ParentsExist
<1>1. IInv(Tidy) => ParentsExist
  <2> SUFFICES ASSUME IInv(Tidy), NEW i \in Visible, NEW a \in Ancestors(index[i].name)
               PROVE  search_dir(index, a) # 0
    BY DEF ParentsExist, check_dirs
  <2>1. HeadsWhole(index) /\ Parented(index)
    BY DEF IInv, InOrder, NamesOK, Tidy, fs
  <2>2. DirNamed(index, a)
    BY <2>1 DEF Parented, Visible, IsSeen
  <2>3. QED BY <2>1, <2>2, SearchDir
<1>2. QED BY <1>1, StaysInOrder, PTL

(* search_file() and search_dir() find every file and directory by its      *)
(* name, EveryNameFound.                                                    *)
THEOREM NamesAreFound == SafeSpec => []EveryNameFound
<1>1. IInv(Tidy) => EveryNameFound
  <2> SUFFICES ASSUME IInv(Tidy), NEW i \in Visible
               PROVE  i = IF index[i].entry_type = "FILE_ENTRY"
                          THEN search_file(index, index[i].name)
                          ELSE search_dir(index, index[i].name)
    BY DEF EveryNameFound
  <2>1. HeadsWhole(index) /\ Once(index)
    BY DEF IInv, InOrder, NamesOK, Tidy, fs
  <2>2. i \in Slots /\ IsSeen(index[i])
    BY DEF Visible, IsSeen
  <2>3. CASE index[i].entry_type = "FILE_ENTRY"
    <3>1. LET j == search_file(index, index[i].name)
          IN  j \in Slots /\ index[j].name = index[i].name /\ index[j].entry_type = "FILE_ENTRY"
      BY <2>1, <2>2, <2>3, SearchFile
    <3>2. QED BY <2>1, <2>2, <2>3, <3>1 DEF Once
  <2>4. CASE index[i].entry_type # "FILE_ENTRY"
    <3>1. index[i].entry_type = "DIR_ENTRY"
      BY <2>2, <2>4 DEF IsSeen
    <3>2. DirNamed(index, index[i].name)
      BY <2>2, <3>1 DEF DirNamed
    <3>3. LET j == search_dir(index, index[i].name)
          IN  j \in Slots /\ index[j].name = index[i].name /\ index[j].entry_type = "DIR_ENTRY"
      BY <2>1, <3>2, SearchDir
    <3>4. QED BY <2>1, <2>2, <2>4, <3>1, <3>3 DEF Once
  <2>5. QED BY <2>3, <2>4
<1>2. QED BY <1>1, StaysInOrder, PTL

(* sfs_delete(), sfs_rmdir() and sfs_rename() leave no continuation entry   *)
(* behind, NoOrphanEntries.  Only the file whose entry was overwritten with *)
(* file data (see Grow) has lost track of its own.                          *)
Unclobbered == \A i \in Slots : index[i].entry_type # "CLOBBERED"

(* As long as no entry is overwritten, every continuation entry belongs to  *)
(* a name, NoOrphanEntries: sfs_delete(), sfs_rmdir() and sfs_rename() free *)
(* all of them.                                                             *)
THEOREM NothingOrphaned == SafeSpec => [](Unclobbered => NoOrphanEntries)
<1>1. IInv(Tidy) => (Unclobbered => NoOrphanEntries)
  <2> SUFFICES ASSUME IInv(Tidy), Unclobbered, NEW c \in Slots, index[c].entry_type = "CONT"
               PROVE  \E i \in Slots : /\ OwnsData(index[i]) \/ index[i].entry_type = "DIR_ENTRY"
                                       /\ c \in (i + 1)..(i + Conts(index, i))
    BY DEF NoOrphanEntries
  <2>1. /\ ContsOwned(index) /\ InOrder(Tidy, fs) /\ fs.index = index
    BY DEF IInv, InOrder, NamesOK, fs
  <2>2. PICK i \in Slots : /\ c = i + Conts(index, c) /\ Conts(index, c) >= 1
                           /\ \/ index[i].entry_type = "CLOBBERED"
                              \/ IsHead(index[i]) /\ Conts(index, c) <= Conts(index, i)
    BY <2>1 DEF ContsOwned
  <2>3. IsHead(index[i]) /\ Conts(index, c) <= Conts(index, i)
    BY <2>2 DEF Unclobbered
  <2>4. Conts(index, c) \in Nat /\ Conts(index, i) \in Nat /\ i \in Int
    <3>1. \A k \in Slots : Conts(fs.index, k) \in Nat
      BY <2>1, OrderShaped
    <3>2. QED BY <2>1, <3>1 DEF Slots
  <2>5. c \in (i + 1)..(i + Conts(index, i))
    BY <2>2, <2>3, <2>4
  <2>6. QED BY <2>3, <2>5 DEF IsHead
<1>2. QED BY <1>1, StaysInOrder, PTL

-----------------------------------------------------------------------------
(* The space accounting *)

(* The theorems about SfsSpace, read as theorems about the library. *)
SP == INSTANCE SfsSpace_proofs WITH ent <- AbsEnt, lost <- AbsLost,
                                    FreeSlot <- 2, Fixed <- {1, 3}

(* The assumptions of SfsSpace hold. *)
LEMMA AreaOK == SP!AreaAssumption /\ SP!SlotAssumption
  BY SfsAssumption DEF SP!AreaAssumption, SP!SlotAssumption, Slots

(* The definitions of SfsSpace are the same under both names. *)
LEMMA Bridge ==
  /\ SP!Unused = Space!Unused /\ SP!Other = Space!Other /\ SP!Empty = Space!Empty
  /\ SP!Blocks = Lo..Hi /\ Space!Blocks = Lo..Hi
  /\ \A s, t : SP!File(s, t) = Space!File(s, t) /\ SP!Free(s, t) = Space!Free(s, t)
  /\ \A x : SP!Size(x) = Space!Size(x)
  /\ \A x : SP!Holds(x) <=> Space!Holds(x)
  /\ \A e, s : SP!PrevOf(e, s) = Space!PrevOf(e, s) /\ SP!NextOf(e, s) = Space!NextOf(e, s)
  /\ \A e : SP!UnusedIn(e) = Space!UnusedIn(e)
<1>1. SP!Unused = Space!Unused /\ SP!Other = Space!Other /\ SP!Empty = Space!Empty
  BY DEF SP!Unused, Space!Unused, SP!Other, Space!Other, SP!Empty, Space!Empty
<1>2. SP!Blocks = Lo..Hi /\ Space!Blocks = Lo..Hi
  BY DEF SP!Blocks, Space!Blocks
<1>3. \A s, t : SP!File(s, t) = Space!File(s, t) /\ SP!Free(s, t) = Space!Free(s, t)
  BY DEF SP!File, Space!File, SP!Free, Space!Free
<1>4. \A x : SP!Size(x) = Space!Size(x)
  BY DEF SP!Size, Space!Size
<1>5. \A x : SP!Holds(x) <=> Space!Holds(x)
  BY DEF SP!Holds, Space!Holds
<1>6. \A e, s : SP!PrevOf(e, s) = Space!PrevOf(e, s) /\ SP!NextOf(e, s) = Space!NextOf(e, s)
  BY DEF SP!PrevOf, Space!PrevOf, SP!NextOf, Space!NextOf
<1>7. \A e : SP!UnusedIn(e) = Space!UnusedIn(e)
  BY DEF SP!UnusedIn, Space!UnusedIn
<1>8. QED BY <1>1, <1>2, <1>3, <1>4, <1>5, <1>6, <1>7

(* The same for Put, *)
LEMMA PutBridge ==
  ASSUME NEW e, NEW i, NEW x
  PROVE  SP!Put(e, i, x) = Space!Put(e, i, x)
  BY DEF SP!Put, Space!Put

(* and for TakeFront. *)
LEMMA TakeBridge ==
  ASSUME NEW e, NEW d, NEW n
  PROVE  SP!TakeFront(e, d, n) = Space!TakeFront(e, d, n)
  BY Bridge, PutBridge DEF SP!TakeFront, Space!TakeFront

-----------------------------------------------------------------------------
(* The blocks that no entry of an index holds *)
LostOf(ix) ==
    {b \in Lo..Hi : \A i \in Slots : ~(ix[i].start_block <= b /\ b <= ix[i].end_block)}

(* The refinement mapping is made of AbsOf and LostOf. *)
LEMMA LostAre ==
  /\ AbsLost = LostOf(index) /\ AbsLost' = LostOf(index')
  /\ AbsEnt = AbsOf(index) /\ AbsEnt' = AbsOf(index')
  BY DEF AbsLost, LostOf, AbsEnt, AbsOf

(* They are what the accounting says. *)
LEMMA LostIs ==
  ASSUME NEW ix, NEW l, SP!Part(AbsOf(ix), l, {})
  PROVE  LostOf(ix) = l
<1> DEFINE e == AbsOf(ix)
<1>1. /\ l \subseteq Lo..Hi /\ e \in [Slots -> SP!Entry] /\ SP!Shaped(e) /\ SP!Accounted(e, l \cup {})
  BY Bridge DEF SP!Part, SP!Typed
<1>2. ASSUME NEW b \in Lo..Hi PROVE b \in l <=> \A i \in Slots : ~SP!InExt(b, e[i])
  BY <1>1, <1>2, Bridge DEF SP!Accounted
<1>3. ASSUME NEW b \in Lo..Hi, NEW i \in Slots
      PROVE  SP!InExt(b, e[i]) <=> (ix[i].start_block <= b /\ b <= ix[i].end_block)
  <2>1. e[i].start = ix[i].start_block /\ e[i].end = ix[i].end_block
    BY AbsFields
  <2>2. CASE SP!Holds(e[i])
    BY <2>1, <2>2 DEF SP!InExt
  <2>3. CASE ~SP!Holds(e[i])
    <3>1. e[i].start = 0 /\ e[i].end = 0
      BY <1>1, <2>3 DEF SP!Shaped
    <3>2. ~(0 <= b /\ b <= 0)
      BY SfsAssumption
    <3>3. QED BY <2>1, <2>3, <3>1, <3>2 DEF SP!InExt
  <2>4. QED BY <2>2, <2>3
<1> HIDE DEF e
<1>4. \A b \in Lo..Hi : b \in l <=> b \in LostOf(ix)
  BY <1>2, <1>3 DEF LostOf
<1>5. QED BY <1>1, <1>4 DEF LostOf

(* The accounting after a step, which makes the lost blocks l. *)
LEMMA NowLost ==
  ASSUME NEW l, SP!Part(AbsEnt', l, {})
  PROVE  AbsLost' = l /\ SP!IInv'
<1>1. AbsLost' = l
  BY LostAre, LostIs
<1>2. QED BY <1>1 DEF SP!IInv, SP!Part, SP!Typed

(* A release of the extent of x: the five outcomes of del_file_list_add()   *)
(* are those of SfsSpace.                                                   *)
LEMMA Released ==
  ASSUME NEW e, NEW x, NEW ok, SP!Part(e, AbsLost, SP!Extent(x)),
         IF SP!Holds(x) THEN x.start \in Lo..Hi /\ x.end \in Lo..Hi /\ x.start <= x.end
                        ELSE x.start = 0,
         Freed(e, AbsEnt', ok, x.start, x.end)
  PROVE  Space!Release(e, x) /\ SP!IInv'
<1> DEFINE st == x.start
           en == x.end
           e2 == AbsEnt'
<1>1. CASE ~SP!Holds(x)
  <2>1. st = 0 /\ SP!Extent(x) = {} /\ e2 = e
    BY <1>1 DEF Freed, SP!Extent
  <2>2. AbsLost' = AbsLost /\ SP!IInv'
    BY <2>1, NowLost
  <2>3. QED BY <2>1, <2>2 DEF Space!Release
<1>2. CASE SP!Holds(x)
  <2>1. /\ st \in SP!Blocks /\ en \in SP!Blocks /\ st <= en /\ SP!Part(e, AbsLost, st .. en)
        /\ st # 0 /\ Added(e, e2, ok, st, en)
    BY <1>2, SfsAssumption, Bridge DEF SP!Extent, Freed
  <2>2. SUFFICES Space!AddExtent(e, st, en) /\ SP!IInv'
    BY <2>1 DEF Space!Release
  <2> HIDE DEF st, en, e2
  <2>3. ASSUME NEW p \in Space!PrevOf(e, st), NEW q \in Space!NextOf(e, en),
               e2 = Space!Put(Space!Put(e, p, Space!Unused), q, Space!Free(e[p].start, e[q].end))
        PROVE  Space!MergeBoth(e, st, en) /\ SP!IInv'
    <3>1. SP!Part(e2, AbsLost, {})
      BY <2>1, <2>3, AreaOK, Bridge, PutBridge, SP!MergeBothOK
    <3>2. QED BY <2>3, <3>1, NowLost DEF e2, Space!MergeBoth
  <2>4. ASSUME Space!PrevOf(e, st) = {}, NEW q \in Space!NextOf(e, en),
               e2 = Space!Put(e, q, Space!Free(st, e[q].end))
        PROVE  Space!MergeNext(e, st, en) /\ SP!IInv'
    <3>1. SP!Part(e2, AbsLost, {})
      BY <2>1, <2>4, AreaOK, Bridge, PutBridge, SP!MergeNextOK
    <3>2. QED BY <2>4, <3>1, NowLost DEF e2, Space!MergeNext
  <2>5. ASSUME Space!NextOf(e, en) = {}, NEW p \in Space!PrevOf(e, st),
               e2 = Space!Put(e, p, Space!Free(e[p].start, en))
        PROVE  Space!MergePrev(e, st, en) /\ SP!IInv'
    <3>1. SP!Part(e2, AbsLost, {})
      BY <2>1, <2>5, AreaOK, Bridge, PutBridge, SP!MergePrevOK
    <3>2. QED BY <2>5, <3>1, NowLost DEF e2, Space!MergePrev
  <2>6. ASSUME Space!PrevOf(e, st) = {}, Space!NextOf(e, en) = {}, NEW n \in Space!UnusedIn(e),
               e2 = Space!Put(e, n, Space!Free(st, en))
        PROVE  Space!AddNew(e, st, en) /\ SP!IInv'
    <3>1. SP!Part(e2, AbsLost, {})
      BY <2>1, <2>6, AreaOK, Bridge, PutBridge, SP!AddNewOK
    <3>2. QED BY <2>6, <3>1, NowLost DEF e2, Space!AddNew
  <2>7. ASSUME e2 = e, Space!UnusedIn(e) = {}, Space!PrevOf(e, st) = {}, Space!NextOf(e, en) = {}
        PROVE  Space!Leak(e, st, en) /\ SP!IInv'
    <3>1. SP!Part(e2, AbsLost \cup (st .. en), {})
      BY <2>1, <2>7 DEF SP!Part, SP!Typed
    <3>2. QED BY <2>7, <3>1, NowLost DEF e2, Space!Leak
  <2>8. QED BY <2>1, <2>3, <2>4, <2>5, <2>6, <2>7 DEF Added, Space!AddExtent
<1>3. QED BY <1>1, <1>2

-----------------------------------------------------------------------------
(* Entries that hold no blocks, before and after a step *)
LEMMA Renamed ==
  ASSUME SP!IInv, NEW C \in SUBSET Slots, \A i \in C : ~SP!Holds(AbsEnt[i]),
         \A i \in C : AbsEnt'[i] \in {Space!Unused, Space!Other, Space!Empty},
         \A i \in Slots \ C : AbsEnt'[i] = AbsEnt[i]
  PROVE  SP!IInv' /\ AbsLost' = AbsLost
<1>1. AbsEnt' \in [Slots -> SP!Entry]
  <2>1. AbsEnt \in [Slots -> SP!Entry]
    BY DEF SP!IInv, SP!Part, SP!Typed
  <2>2. \A i \in Slots : AbsEnt'[i] \in SP!Entry
    BY <2>1, Bridge, SP!Constructors, AreaOK
  <2>3. AbsEnt' = [i \in Slots |-> AbsEnt'[i]]
    BY DEF AbsEnt
  <2>4. QED BY <2>2, <2>3
<1>2. AbsLost' = AbsLost
  <2>1. ASSUME NEW i \in Slots
        PROVE  \/ index'[i].start_block = index[i].start_block /\ index'[i].end_block = index[i].end_block
               \/ /\ index'[i].start_block = 0 /\ index'[i].end_block = 0
                  /\ index[i].start_block = 0 /\ index[i].end_block = 0
    <3>1. /\ AbsEnt'[i].start = index'[i].start_block /\ AbsEnt'[i].end = index'[i].end_block
          /\ AbsEnt[i].start = index[i].start_block /\ AbsEnt[i].end = index[i].end_block
      BY LostAre, AbsFields
    <3>2. CASE i \in C
      <4>1. AbsEnt[i].start = 0 /\ AbsEnt[i].end = 0
        BY <3>2 DEF SP!IInv, SP!Part, SP!Shaped
      <4>2. AbsEnt'[i].start = 0 /\ AbsEnt'[i].end = 0
        BY <3>2, Bridge, SP!Constructors, AreaOK
      <4>3. QED BY <3>1, <4>1, <4>2
    <3>3. CASE i \notin C
      BY <3>1, <3>3
    <3>4. QED BY <3>2, <3>3
  <2>2. \A b \in Lo..Hi : b # 0 /\ ~(0 <= b /\ b <= 0)
    BY SfsAssumption
  <2>3. \A b \in Lo..Hi : \A i \in Slots :
           (index'[i].start_block <= b /\ b <= index'[i].end_block) <=>
           (index[i].start_block <= b /\ b <= index[i].end_block)
    BY <2>1, <2>2
  <2>4. QED BY <2>3, LostAre DEF LostOf
<1>3. \A i \in C : AbsEnt'[i] \in {SP!Unused, SP!Other, SP!Empty}
  BY Bridge
<1>4. SP!IInv'
  BY <1>1, <1>2, <1>3, AreaOK, SP!Renaming
<1>5. QED BY <1>2, <1>4

(* The n continuation entries of a name whose head is at i *)
Follow(i, n) == (i + 1)..(i + n)

(* What e2 is after a name was entered in e: its head is of the type t. *)
EntersName(e, e2, new, C, t) ==
    /\ C \subseteq Slots /\ new \notin C
    /\ \A i \in C \cup {new} : e[i].type = "unused"
    /\ e2 = [i \in Slots |-> IF i = new THEN t ELSE IF i \in C THEN Space!Other ELSE e[i]]

(* The entries of a name that is entered *)
LEMMA NamedEntries ==
  ASSUME NEW jx, NEW ix, NEW new \in Slots, NEW x, Named(jx, ix, new, x),
         x.start_block = 0, x.end_block = 0
  PROVE  EntersName(AbsOf(ix), AbsOf(jx), new, Follow(new, x.cont_entries),
                    IF x.entry_type = "FILE_ENTRY" THEN Space!Empty ELSE Space!Other)
<1> DEFINE C == Follow(new, x.cont_entries)
           T == IF x.entry_type = "FILE_ENTRY" THEN Space!Empty ELSE Space!Other
<1> USE DEF Follow
<1>1. /\ x.cont_entries \in Nat /\ new \in Int /\ new >= 1
      /\ new + x.cont_entries \in Int /\ new + x.cont_entries <= N
  BY DEF Named, Slots
<1>2. C \subseteq Slots /\ new \notin C /\ C \cup {new} \subseteq new..(new + x.cont_entries)
  BY <1>1, SfsAssumption DEF Slots
<1>3. ASSUME NEW i \in C \cup {new}
      PROVE  AbsOf(ix)[i].type = "unused"
  <2>1. i \in Slots /\ ix[i].entry_type = "UNUSED_ENTRY"
    BY <1>2 DEF Named
  <2>2. AbsType(ix[i]) = "unused"
    BY <2>1, AbsTypes
  <2>3. QED BY <2>1, <2>2, AbsFields
<1>4. AbsType(x) = IF x.entry_type = "FILE_ENTRY" THEN "file" ELSE "other"
  BY DEF Named, IsSeen, AbsType, OwnsData, IsUnlinked, IsFree
<1>5. ASSUME NEW i \in Slots
      PROVE  AbsOf(jx)[i] = IF i = new THEN T ELSE IF i \in C THEN Space!Other ELSE AbsOf(ix)[i]
  <2>1. AbsOf(jx)[i] = [type |-> AbsType(jx[i]), start |-> jx[i].start_block, end |-> jx[i].end_block]
    BY AbsFields
  <2>2. CASE i = new
    <3>1. jx[i] = x
      BY <2>2 DEF Named
    <3>2. QED BY <1>4, <2>1, <2>2, <3>1 DEF Space!Empty, Space!Other
  <2>3. CASE i # new /\ i \in C
    <3>1. jx[i] = ContEntry(x.name, i - new)
      BY <2>3 DEF Named
    <3>2. /\ jx[i].entry_type = "CONT" /\ ~IsFree(jx[i])
          /\ jx[i].start_block = 0 /\ jx[i].end_block = 0
      BY <3>1, ContFields DEF EntryOK
    <3>3. AbsType(jx[i]) = "other"
      BY <3>2 DEF AbsType, OwnsData, IsUnlinked, IsFree
    <3>4. QED BY <2>1, <2>3, <3>2, <3>3 DEF Space!Other
  <2>4. CASE i # new /\ i \notin C
    <3>1. jx[i] = ix[i]
      BY <2>4 DEF Named
    <3>2. QED BY <2>1, <2>4, <3>1, AbsFields
  <2>5. QED BY <2>2, <2>3, <2>4
<1> HIDE DEF C, T
<1>6. AbsOf(jx) = [i \in Slots |-> IF i = new THEN T
                                  ELSE IF i \in C THEN Space!Other ELSE AbsOf(ix)[i]]
  BY <1>5 DEF AbsOf
<1>7. EntersName(AbsOf(ix), AbsOf(jx), new, C, T)
  BY <1>2, <1>3, <1>6 DEF EntersName
<1>8. QED BY <1>7 DEF C, T

(* What e2 is after a name was freed in e: the head f and its entries C. *)
FreesName(e, e2, f, C) ==
    /\ C \subseteq Slots \ {1, 3} /\ f \notin C \cup {1, 3}
    /\ \A i \in C : e[i] = Space!Other
    /\ e2 = Space!Clear(e, C \cup {f})

(* The entries of a name that is freed *)
LEMMA UnnamedEntries ==
  ASSUME NEW tidy, NEW u, InOrder(tidy, u), NEW jx, NEW f \in Slots, f # 3, Unnamed(jx, u.index, f)
  PROVE  /\ FreesName(AbsOf(u.index), AbsOf(jx), f, Follow(f, Conts(u.index, f)))
         /\ u.index[f].entry_type = "DIR_ENTRY" => AbsOf(u.index)[f] = Space!Other
<1> DEFINE ix == u.index
           C  == Follow(f, Conts(ix, f))
<1> USE DEF Follow
<1>1. HeadsWhole(ix) /\ Entered(ix) /\ Conts(ix, f) \in Nat /\ IsHead(ix[f])
  BY OrderShaped DEF InOrder, NamesOK, Unnamed
<1>2. /\ f..(f + Conts(ix, f)) \subseteq Slots
      /\ \A i \in f..(f + Conts(ix, f)) : i # f => ix[i] = ContEntry(ix[f].name, i - f)
  BY <1>1, RangeOfName
<1>3. C \cup {f} = f..(f + Conts(ix, f)) /\ f \notin C
  BY <1>1 DEF Slots
<1>4. \A i \in C : i # f /\ i \in f..(f + Conts(ix, f))
  BY <1>3
<1>5. ASSUME NEW i \in C
      PROVE  i \in Slots /\ i # 1 /\ i # 3 /\ AbsOf(ix)[i] = Space!Other
  <2>1. i \in Slots /\ ix[i] = ContEntry(ix[f].name, i - f)
    BY <1>2, <1>4
  <2>2. /\ ix[i].entry_type = "CONT" /\ ix[i].start_block = 0 /\ ix[i].end_block = 0
    BY <2>1, ContFields DEF EntryOK
  <2>3. AbsType(ix[i]) = "other"
    BY <2>2 DEF AbsType, OwnsData, IsUnlinked, IsFree
  <2>4. AbsOf(ix)[i] = Space!Other
    <3>1. AbsOf(ix)[i] = [type |-> AbsType(ix[i]), start |-> ix[i].start_block,
                          end |-> ix[i].end_block]
      BY <2>1, AbsFields
    <3>2. QED BY <2>2, <2>3, <3>1 DEF Space!Other
  <2>5. i # 1 /\ i # 3
    BY <1>1, <2>2 DEF Entered
  <2>6. QED BY <2>1, <2>4, <2>5
<1>6. f # 1
  BY <1>1, Kinds DEF Entered
<1>7. ix[f].entry_type = "DIR_ENTRY" => AbsOf(ix)[f] = Space!Other
  <2> SUFFICES ASSUME ix[f].entry_type = "DIR_ENTRY" PROVE AbsOf(ix)[f] = Space!Other
    OBVIOUS
  <2>1. ix[f].start_block = 0 /\ ix[f].end_block = 0
    BY <1>1 DEF Entered, EntryOK
  <2>2. AbsType(ix[f]) = "other"
    BY DEF AbsType, OwnsData, IsUnlinked, IsFree
  <2>3. QED BY <2>1, <2>2, AbsFields DEF Space!Other
<1>8. ASSUME NEW i \in Slots
      PROVE  AbsOf(jx)[i] = IF i \in C \cup {f} THEN Space!Unused ELSE AbsOf(ix)[i]
  <2>1. AbsOf(jx)[i] = [type |-> AbsType(jx[i]), start |-> jx[i].start_block, end |-> jx[i].end_block]
    BY AbsFields
  <2>2. CASE i \in C \cup {f}
    <3>1. jx[i] = UnusedEntry
      BY <1>3, <2>2 DEF Unnamed
    <3>2. AbsType(jx[i]) = "unused" /\ jx[i].start_block = 0 /\ jx[i].end_block = 0
      BY <3>1, UnusedFields, AbsTypes
    <3>3. QED BY <2>1, <2>2, <3>2 DEF Space!Unused
  <2>3. CASE i \notin C \cup {f}
    <3>1. jx[i] = ix[i]
      BY <1>3, <2>3 DEF Unnamed
    <3>2. QED BY <2>1, <2>3, <3>1, AbsFields
  <2>4. QED BY <2>2, <2>3
<1>9. AbsOf(jx) = Space!Clear(AbsOf(ix), C \cup {f})
  BY <1>8 DEF AbsOf, Space!Clear
<1> HIDE DEF C
<1>10. FreesName(AbsOf(ix), AbsOf(jx), f, C)
  BY <1>3, <1>5, <1>6, <1>9 DEF FreesName
<1>11. QED BY <1>7, <1>10 DEF C

-----------------------------------------------------------------------------
(* The steps.  What they change of the index of SfsSpace is in the lemmas   *)
(* about the calls; what is left is that the action of SfsSpace does that.  *)
LEMMA CreatStep ==
  ASSUME NEW tidy, IInv(tidy), SP!IInv, NEW p \in FilePaths, Creat(p)
  PROVE  SP!IInv' /\ \E f \in Space!UnusedIn(AbsEnt), C \in SUBSET Space!UnusedIn(AbsEnt) : Space!Create(f, C)
<1>1. PICK new \in Slots : \E x : /\ Named(index', index, new, x)
                                  /\ x.entry_type = "FILE_ENTRY"
                                  /\ x.start_block = 0 /\ x.end_block = 0
  BY CreatOrder DEF IInv
<1>2. PICK x : /\ Named(index', index, new, x) /\ x.entry_type = "FILE_ENTRY"
               /\ x.start_block = 0 /\ x.end_block = 0
  BY <1>1
<1> DEFINE C == Follow(new, x.cont_entries)
<1>3. /\ C \subseteq Slots /\ new \notin C
      /\ \A i \in C \cup {new} : AbsEnt[i].type = "unused"
      /\ AbsEnt' = [i \in Slots |-> IF i = new THEN Space!Empty
                                    ELSE IF i \in C THEN Space!Other ELSE AbsEnt[i]]
  <2>1. EntersName(AbsOf(index), AbsOf(index'), new, C, Space!Empty)
    BY <1>2, NamedEntries
  <2>2. QED BY <2>1, LostAre DEF EntersName
<1> HIDE DEF C
<1>4. SP!IInv' /\ AbsLost' = AbsLost
  <2>1. \A i \in C \cup {new} : ~SP!Holds(AbsEnt[i])
    BY <1>3 DEF SP!Holds
  <2>2. C \cup {new} \in SUBSET Slots
    BY <1>3
  <2>3. \A i \in C \cup {new} : AbsEnt'[i] \in {Space!Unused, Space!Other, Space!Empty}
    BY <1>3
  <2>4. \A i \in Slots \ (C \cup {new}) : AbsEnt'[i] = AbsEnt[i]
    BY <1>3
  <2>5. QED BY <2>1, <2>2, <2>3, <2>4, Renamed
<1>5. new \in Space!UnusedIn(AbsEnt) /\ C \in SUBSET Space!UnusedIn(AbsEnt)
  BY <1>3 DEF Space!UnusedIn
<1>6. Space!Create(new, C)
  BY <1>3, <1>4, <1>5 DEF Space!Create
<1>7. QED BY <1>4, <1>5, <1>6

(* sfs_mkdir() is Mkdir of SfsSpace. *)
LEMMA MkdirStep ==
  ASSUME NEW tidy, IInv(tidy), SP!IInv, NEW p \in DirPaths, Mkdir(p)
  PROVE  SP!IInv' /\ \E C \in SUBSET Space!UnusedIn(AbsEnt) : Space!Mkdir(C)
<1>1. PICK new \in Slots : \E x : /\ Named(index', index, new, x)
                                  /\ x.entry_type = "DIR_ENTRY"
                                  /\ x.start_block = 0 /\ x.end_block = 0
  BY MkdirOrder DEF IInv
<1>2. PICK x : /\ Named(index', index, new, x) /\ x.entry_type = "DIR_ENTRY"
               /\ x.start_block = 0 /\ x.end_block = 0
  BY <1>1
<1> DEFINE D == Follow(new, x.cont_entries)
           C == D \cup {new}
<1>3. /\ D \subseteq Slots /\ new \notin D
      /\ \A i \in D \cup {new} : AbsEnt[i].type = "unused"
      /\ AbsEnt' = [i \in Slots |-> IF i = new THEN Space!Other
                                    ELSE IF i \in D THEN Space!Other ELSE AbsEnt[i]]
  <2>1. EntersName(AbsOf(index), AbsOf(index'), new, D, Space!Other)
    BY <1>2, NamedEntries
  <2>2. QED BY <2>1, LostAre DEF EntersName
<1> HIDE DEF D
<1>4. /\ C \in SUBSET Slots /\ C # {} /\ \A i \in C : AbsEnt[i].type = "unused"
      /\ AbsEnt' = [i \in Slots |-> IF i \in C THEN Space!Other ELSE AbsEnt[i]]
  BY <1>3
<1> HIDE DEF C
<1>5. SP!IInv' /\ AbsLost' = AbsLost
  <2>1. \A i \in C : ~SP!Holds(AbsEnt[i])
    BY <1>4 DEF SP!Holds
  <2>2. \A i \in C : AbsEnt'[i] \in {Space!Unused, Space!Other, Space!Empty}
    BY <1>4
  <2>3. \A i \in Slots \ C : AbsEnt'[i] = AbsEnt[i]
    BY <1>4
  <2>4. QED BY <1>4, <2>1, <2>2, <2>3, Renamed
<1>6. C \in SUBSET Space!UnusedIn(AbsEnt)
  BY <1>4 DEF Space!UnusedIn
<1>7. Space!Mkdir(C)
  BY <1>4, <1>5, <1>6 DEF Space!Mkdir
<1>8. QED BY <1>5, <1>6, <1>7

(* sfs_rmdir() is Rmdir of SfsSpace. *)
LEMMA RmdirStep ==
  ASSUME NEW tidy, IInv(tidy), SP!IInv, NEW p \in DirPaths, Rmdir(p)
  PROVE  SP!IInv' /\ \E C \in SUBSET Space!Others : Space!Rmdir(C)
<1>1. PICK f \in Slots : f # 3 /\ index[f].entry_type = "DIR_ENTRY" /\ Unnamed(index', index, f)
  BY RmdirOrder DEF IInv
<1> DEFINE D == Follow(f, Conts(index, f))
           C == D \cup {f}
<1>2. /\ D \subseteq Slots \ {1, 3} /\ f # 1 /\ AbsEnt[f] = Space!Other
      /\ \A i \in D : AbsEnt[i] = Space!Other
      /\ AbsEnt' = Space!Clear(AbsEnt, C)
  <2>1. InOrder(tidy, fs) /\ index = fs.index
    BY DEF IInv, fs
  <2>2. /\ FreesName(AbsOf(index), AbsOf(index'), f, D)
        /\ AbsOf(index)[f] = Space!Other
    BY <1>1, <2>1, UnnamedEntries
  <2>3. QED BY <2>2, LostAre DEF FreesName
<1>3. /\ C \in SUBSET Slots /\ C # {} /\ C \subseteq Slots \ {1, 3}
      /\ \A i \in C : AbsEnt[i] = Space!Other
  BY <1>1, <1>2
<1> HIDE DEF C
<1>4. SP!IInv' /\ AbsLost' = AbsLost
  <2>1. \A i \in C : ~SP!Holds(AbsEnt[i])
    BY <1>3, Bridge, SP!Constructors, AreaOK
  <2>2. \A i \in C : AbsEnt'[i] \in {Space!Unused, Space!Other, Space!Empty}
    BY <1>2, <1>3 DEF Space!Clear
  <2>3. \A i \in Slots \ C : AbsEnt'[i] = AbsEnt[i]
    BY <1>2 DEF Space!Clear
  <2>4. QED BY <1>3, <2>1, <2>2, <2>3, Renamed
<1>5. C \in SUBSET Space!Others
  BY <1>3 DEF Space!Others, Space!Other
<1>6. Space!Rmdir(C)
  BY <1>2, <1>3, <1>4, <1>5 DEF Space!Rmdir
<1>7. QED BY <1>4, <1>5, <1>6

(* A file of the library in the index of SfsSpace: its extent can be        *)
(* released.                                                                *)
LEMMA FileEntry ==
  ASSUME NEW tidy, IInv(tidy), SP!IInv, NEW f \in Slots, IsFile(index[f])
  PROVE  /\ AbsEnt[f].type = "file" /\ f \in Space!FileSlots
         /\ AbsEnt[f].start = index[f].start_block /\ AbsEnt[f].end = index[f].end_block
         /\ AbsEnt \in [Slots -> SP!Entry] /\ SP!Shaped(AbsEnt)
         /\ SP!Holds(AbsEnt[f]) <=> AbsEnt[f].start # 0
         /\ IF SP!Holds(AbsEnt[f])
            THEN AbsEnt[f].start \in Lo..Hi /\ AbsEnt[f].end \in Lo..Hi /\ AbsEnt[f].start <= AbsEnt[f].end
            ELSE AbsEnt[f].start = 0
<1>1. AbsEnt[f].type = "file"
  BY LostAre, AbsFields, AbsTypes DEF IsFile
<1>2. AbsEnt[f].start = index[f].start_block /\ AbsEnt[f].end = index[f].end_block
  BY LostAre, AbsFields
<1>3. /\ AbsEnt \in [Slots -> SP!Entry] /\ SP!Shaped(AbsEnt)
      /\ IF SP!Holds(AbsEnt[f])
         THEN AbsEnt[f].start \in Lo..Hi /\ AbsEnt[f].end \in Lo..Hi /\ AbsEnt[f].start <= AbsEnt[f].end
         ELSE AbsEnt[f].start = 0
  BY <1>1, AreaOK, Bridge, SP!Releasable
<1>4. SP!Holds(AbsEnt[f]) <=> AbsEnt[f].start # 0
  BY <1>1 DEF SP!Holds
<1>5. f \in Space!FileSlots
  BY <1>1 DEF Space!FileSlots
<1>6. QED BY <1>1, <1>2, <1>3, <1>4, <1>5

(* The entries of a file are freed and its extent is released: u is the     *)
(* library before that, whose index SfsSpace does not tell from index.      *)
LEMMA ExtentReleased ==
  ASSUME NEW tidy, IInv(tidy), SP!IInv, NEW u, InOrder(tidy, u), AbsOf(u.index) = AbsEnt,
         NEW f \in Slots, f # 3, IsFile(index[f]), NEW jx, Unnamed(jx, u.index, f), NEW ok,
         Freed(AbsOf(jx), AbsEnt', ok, AbsEnt[f].start, AbsEnt[f].end)
  PROVE  SP!IInv' /\ \E C \in SUBSET Space!Others : f \in Space!FileSlots /\ Space!Delete(f, C)
<1> DEFINE C == Follow(f, Conts(u.index, f))
           e == Space!Clear(AbsEnt, C \cup {f})
<1>1. /\ C \subseteq Slots \ {1, 3} /\ f \notin C
      /\ \A i \in C : AbsEnt[i] = Space!Other
      /\ AbsOf(jx) = e
  <2>1. FreesName(AbsEnt, AbsOf(jx), f, C)
    BY UnnamedEntries
  <2>2. QED BY <2>1 DEF FreesName
<1> HIDE DEF C
<1>2. C \in SUBSET Space!Others
  BY <1>1 DEF Space!Others, Space!Other
<1>3. SP!Part(e, AbsLost, SP!Extent(AbsEnt[f]))
  <2>1. \A i \in C \cup {f} : e[i] = SP!Unused
    BY <1>1, Bridge DEF Space!Clear
  <2>2. \A i \in Slots \ (C \cup {f}) : e[i] = AbsEnt[i]
    BY DEF Space!Clear
  <2>3. e = [i \in Slots |-> e[i]]
    BY DEF Space!Clear
  <2> HIDE DEF e
  <2>4. AbsEnt \in [Slots -> SP!Entry] /\ SP!Shaped(AbsEnt) /\ AbsEnt[f].type = "file"
    BY FileEntry
  <2>5. /\ SP!Unused \in SP!Entry /\ ~SP!Holds(SP!Unused) /\ SP!Unused.start = 0 /\ SP!Unused.end = 0
        /\ ~SP!Holds(SP!Other) /\ SP!Other = Space!Other
    BY Bridge, AreaOK, SP!Constructors
  <2>6. e \in [Slots -> SP!Entry]
    <3>1. \A i \in Slots : e[i] \in SP!Entry
      BY <2>1, <2>2, <2>4, <2>5
    <3>2. QED BY <2>3, <3>1
  <2>7. SP!Shaped(e)
    BY <2>1, <2>2, <2>4, <2>5 DEF SP!Shaped
  <2>8. \A i \in Slots : i # f => /\ SP!Holds(e[i]) <=> SP!Holds(AbsEnt[i])
                                  /\ SP!Holds(AbsEnt[i]) => e[i] = AbsEnt[i]
    BY <1>1, <2>1, <2>2, <2>5
  <2>9. ~SP!Holds(e[f]) /\ SP!Part(AbsEnt, AbsLost, {})
    BY <2>1, <2>5 DEF SP!IInv
  <2>10. QED BY <2>4, <2>6, <2>7, <2>8, <2>9, AreaOK, SP!Vacate
<1>4. Space!Release(e, AbsEnt[f]) /\ SP!IInv'
  <2>1. Freed(e, AbsEnt', ok, AbsEnt[f].start, AbsEnt[f].end)
    BY <1>1
  <2> HIDE DEF e
  <2>2. QED BY <1>3, <2>1, FileEntry, Released
<1>5. f \in Space!FileSlots
  BY FileEntry
<1>6. Space!Delete(f, C)
  BY <1>2, <1>4, <1>5 DEF Space!Delete
<1>7. QED BY <1>2, <1>4, <1>5, <1>6

(* sfs_delete() is Delete of SfsSpace. *)
LEMMA DeleteStep ==
  ASSUME NEW tidy, IInv(tidy), SP!IInv, NEW f \in Slots, Delete(f)
  PROVE  SP!IInv' /\ \E C \in SUBSET Space!Others : f \in Space!FileSlots /\ Space!Delete(f, C)
<1>1. PICK jx : /\ IsUnlinked(index[f]) /\ Unnamed(jx, index, f)
                /\ \E ok : Freed(AbsOf(jx), AbsOf(index'), ok,
                                 index[f].start_block, index[f].end_block)
  BY DeleteOrder DEF IInv
<1>2. PICK ok : Freed(AbsOf(jx), AbsOf(index'), ok, index[f].start_block, index[f].end_block)
  BY <1>1
<1>3. IsFile(index[f]) /\ f # 3
  BY <1>1, Kinds DEF IInv, InOrder, Entered, fs
<1>4. Freed(AbsOf(jx), AbsEnt', ok, AbsEnt[f].start, AbsEnt[f].end)
  BY <1>2, <1>3, LostAre, FileEntry
<1>5. InOrder(tidy, fs) /\ fs.index = index /\ AbsOf(fs.index) = AbsEnt
  BY LostAre DEF IInv, fs
<1>6. QED BY <1>1, <1>3, <1>4, <1>5, ExtentReleased

(* A release does not look at the entry of a file, and so commutes with a   *)
(* change of it.                                                            *)
LEMMA PutCommutes ==
  ASSUME NEW e, NEW f \in Slots, e[f].type = "file", NEW x, x.type = "file",
         NEW i \in Slots, i # f, NEW y
  PROVE  Space!Put(Space!Put(e, i, y), f, x) = Space!Put(Space!Put(e, f, x), i, y)
  BY DEF Space!Put

(* The neighbours of an extent do not depend on what a file's entry holds, *)
LEMMA SameNeighbours ==
  ASSUME NEW e, NEW f \in Slots, e[f].type = "file", NEW x, x.type = "file", NEW s
  PROVE  LET e1 == Space!Put(e, f, x)
         IN  /\ Space!PrevOf(e1, s) = Space!PrevOf(e, s)
             /\ Space!NextOf(e1, s) = Space!NextOf(e, s)
             /\ Space!UnusedIn(e1) = Space!UnusedIn(e)
             /\ \A i \in Slots : i # f => e1[i] = e[i]
             /\ f \notin Space!PrevOf(e, s) \cup Space!NextOf(e, s) \cup Space!UnusedIn(e)
  BY DEF Space!Put, Space!PrevOf, Space!NextOf, Space!UnusedIn

(* so that freeing blocks commutes with writing the file's entry back. *)
LEMMA FreedCommutes ==
  ASSUME NEW e, NEW e2, NEW ok, NEW st, NEW en, NEW f \in Slots, e[f].type = "file",
         NEW x, x.type = "file", Freed(e, e2, ok, st, en)
  PROVE  Freed(Space!Put(e, f, x), Space!Put(e2, f, x), ok, st, en)
<1> DEFINE d  == Space!Put(e, f, x)
           d2 == Space!Put(e2, f, x)
<1>1. CASE st = 0
  BY <1>1 DEF Freed
<1>2. CASE st # 0
  <2>1. SUFFICES Added(d, d2, ok, st, en)
    BY <1>2 DEF Freed
  <2>2. Added(e, e2, ok, st, en)
    BY <1>2 DEF Freed
  <2>3. /\ Space!PrevOf(d, st) = Space!PrevOf(e, st) /\ Space!NextOf(d, en) = Space!NextOf(e, en)
        /\ Space!UnusedIn(d) = Space!UnusedIn(e)
        /\ \A i \in Slots : i # f => d[i] = e[i]
        /\ f \notin Space!PrevOf(e, st) /\ f \notin Space!NextOf(e, en) /\ f \notin Space!UnusedIn(e)
    BY SameNeighbours
  <2>4. /\ Space!PrevOf(e, st) \subseteq Slots /\ Space!NextOf(e, en) \subseteq Slots
        /\ Space!UnusedIn(e) \subseteq Slots
    BY DEF Space!PrevOf, Space!NextOf, Space!UnusedIn
  <2>5. ASSUME NEW i \in Slots, i # f, NEW y
        PROVE  Space!Put(Space!Put(e, i, y), f, x) = Space!Put(d, i, y)
    BY <2>5, PutCommutes
  <2>6. ASSUME NEW p \in Space!PrevOf(e, st), NEW q \in Space!NextOf(e, en), ok,
               e2 = Space!Put(Space!Put(e, p, Space!Unused), q, Space!Free(e[p].start, e[q].end))
        PROVE  Added(d, d2, ok, st, en)
    <3> DEFINE a == Space!Put(e, p, Space!Unused)
               y == Space!Free(e[p].start, e[q].end)
    <3>1. p \in Slots /\ q \in Slots /\ p # f /\ q # f
      BY <2>3, <2>4
    <3>2. a[f].type = "file"
      BY <3>1 DEF Space!Put
    <3> HIDE DEF y
    <3>3. d2 = Space!Put(Space!Put(a, f, x), q, y)
      <4> HIDE DEF a
      <4>1. QED BY <2>6, <3>1, <3>2, PutCommutes DEF a, y
    <3>4. Space!Put(a, f, x) = Space!Put(d, p, Space!Unused)
      BY <2>5, <3>1
    <3>5. y = Space!Free(d[p].start, d[q].end)
      BY <2>3, <3>1 DEF y
    <3>6. d2 = Space!Put(Space!Put(d, p, Space!Unused), q, Space!Free(d[p].start, d[q].end))
      BY <3>3, <3>4, <3>5
    <3> HIDE DEF d, d2
    <3>7. QED BY <2>3, <2>6, <3>6 DEF Added
  <2>7. ASSUME Space!PrevOf(e, st) = {}, NEW q \in Space!NextOf(e, en), ok,
               e2 = Space!Put(e, q, Space!Free(st, e[q].end))
        PROVE  Added(d, d2, ok, st, en)
    <3>1. q \in Slots /\ q # f /\ d[q] = e[q]
      BY <2>3, <2>4
    <3>2. d2 = Space!Put(d, q, Space!Free(st, d[q].end))
      BY <2>5, <2>7, <3>1
    <3> HIDE DEF d, d2
    <3>3. QED BY <2>3, <2>7, <3>2 DEF Added
  <2>8. ASSUME Space!NextOf(e, en) = {}, NEW p \in Space!PrevOf(e, st), ok,
               e2 = Space!Put(e, p, Space!Free(e[p].start, en))
        PROVE  Added(d, d2, ok, st, en)
    <3>1. p \in Slots /\ p # f /\ d[p] = e[p]
      BY <2>3, <2>4
    <3>2. d2 = Space!Put(d, p, Space!Free(d[p].start, en))
      BY <2>5, <2>8, <3>1
    <3> HIDE DEF d, d2
    <3>3. QED BY <2>3, <2>8, <3>2 DEF Added
  <2>9. ASSUME Space!PrevOf(e, st) = {}, Space!NextOf(e, en) = {}, NEW n \in Space!UnusedIn(e), ok,
               e2 = Space!Put(e, n, Space!Free(st, en))
        PROVE  Added(d, d2, ok, st, en)
    <3>1. n \in Slots /\ n # f
      BY <2>3, <2>4
    <3>2. d2 = Space!Put(d, n, Space!Free(st, en))
      BY <2>5, <2>9, <3>1
    <3> HIDE DEF d, d2
    <3>3. QED BY <2>3, <2>9, <3>2 DEF Added
  <2>10. ASSUME ~ok, e2 = e, Space!UnusedIn(e) = {}, Space!PrevOf(e, st) = {}, Space!NextOf(e, en) = {}
         PROVE  Added(d, d2, ok, st, en)
    <3>1. d2 = d
      BY <2>10
    <3> HIDE DEF d, d2
    <3>2. QED BY <2>3, <2>10, <3>1 DEF Added
  <2> HIDE DEF d, d2
  <2>11. QED BY <2>2, <2>6, <2>7, <2>8, <2>9, <2>10 DEF Added
<1>3. QED BY <1>1, <1>2

(* The blocks of a file that is made empty, or moves *)
LEMMA FileEmptied ==
  ASSUME NEW tidy, IInv(tidy), SP!IInv, NEW f \in Slots, IsFile(index[f])
  PROVE  SP!Part(Space!Put(AbsEnt, f, Space!Empty), AbsLost, SP!Extent(AbsEnt[f]))
<1>1. AbsEnt[f].type = "file"
  BY FileEntry
<1>2. SP!Part(SP!Put(AbsEnt, f, SP!Empty), AbsLost, SP!Extent(AbsEnt[f]))
  BY <1>1, AreaOK, SP!Emptied
<1>3. QED BY <1>2, Bridge, PutBridge

(* sfs_truncate() to 0 is Truncate0 of SfsSpace. *)
LEMMA Truncate0Step ==
  ASSUME NEW tidy, IInv(tidy), SP!IInv, NEW f \in Slots, IsFile(index[f]), Emptied(AbsEnt, AbsEnt', f)
  PROVE  SP!IInv' /\ f \in Space!FileSlots /\ Space!Truncate0(f)
<1> DEFINE e == Space!Put(AbsEnt, f, Space!Empty)
<1>1. PICK ok, e1 : /\ Freed(AbsEnt, e1, ok, AbsEnt[f].start, AbsEnt[f].end)
                    /\ AbsEnt' = Space!Put(e1, f, Space!Empty)
  BY DEF Emptied
<1>2. AbsEnt[f].type = "file" /\ f \in Space!FileSlots
  BY FileEntry
<1>3. Freed(e, AbsEnt', ok, AbsEnt[f].start, AbsEnt[f].end)
  <2>1. Space!Empty.type = "file"
    BY DEF Space!Empty
  <2>2. QED BY <1>1, <1>2, <2>1, FreedCommutes
<1>4. SP!Part(e, AbsLost, SP!Extent(AbsEnt[f]))
  BY FileEmptied
<1> HIDE DEF e
<1>5. Space!Release(e, AbsEnt[f]) /\ SP!IInv'
  BY <1>3, <1>4, FileEntry, Released
<1>6. QED BY <1>2, <1>5 DEF Space!Truncate0, e

(* The blocks a file has, and those a free extent behind it can give it *)
LEMMA OldBlocks ==
  ASSUME NEW tidy, IInv(tidy), SP!IInv, NEW f \in Slots, IsFile(index[f])
  PROVE  /\ OldCount(AbsEnt, f) \in Nat /\ Space!OldSize(f) = OldCount(AbsEnt, f)
         /\ AbsEnt[f].start # 0 => OldCount(AbsEnt, f) = AbsEnt[f].end - AbsEnt[f].start + 1
         /\ \A n : Space!Donors(f, n) = Behind(AbsEnt, f, n)
<1>1. /\ SP!Holds(AbsEnt[f]) <=> AbsEnt[f].start # 0
      /\ SP!Holds(AbsEnt[f]) => AbsEnt[f].start \in Lo..Hi /\ AbsEnt[f].end \in Lo..Hi
                                /\ AbsEnt[f].start <= AbsEnt[f].end
  BY FileEntry
<1>2. Space!OldSize(f) = OldCount(AbsEnt, f)
  BY DEF Space!OldSize, OldCount
<1>3. AbsEnt[f].start # 0 => OldCount(AbsEnt, f) = AbsEnt[f].end - AbsEnt[f].start + 1
  BY DEF OldCount, Space!Size
<1>4. OldCount(AbsEnt, f) \in Nat
  <2>1. CASE AbsEnt[f].start = 0
    BY <2>1 DEF OldCount
  <2>2. CASE AbsEnt[f].start # 0
    <3>1. /\ Lo \in Int /\ Hi \in Int
      BY SfsAssumption
    <3>2. QED BY <1>1, <1>3, <2>2, <3>1
  <2>3. QED BY <2>1, <2>2
<1>5. \A n : Space!Donors(f, n) = Behind(AbsEnt, f, n)
  BY DEF Space!Donors, Space!FreeSlots, Behind
<1>6. QED BY <1>2, <1>3, <1>4, <1>5

(* sfs_write() and sfs_truncate() beyond the last block are Expand or       *)
(* Relocate of SfsSpace.                                                    *)
LEMMA RegrownStep ==
  ASSUME NEW tidy, IInv(tidy), SP!IInv, NEW f \in Slots, IsFile(index[f]), Regrown(AbsEnt, AbsEnt', f)
  PROVE  SP!IInv' /\ \E n \in Space!Sizes : f \in Space!FileSlots
                                           /\ (Space!Expand(f, n) \/ Space!Relocate(f, n))
<1> DEFINE old == OldCount(AbsEnt, f)
<1>0. PICK n \in 1..(Hi - Lo + 1) : \E st, e1 :
         /\ old < n /\ Grown(AbsEnt, e1, f, n, st)
         /\ AbsEnt' = Space!Put(e1, f, Space!File(st, st + n - 1))
  BY DEF Regrown
<1>1. PICK st, e1 : /\ old < n /\ Grown(AbsEnt, e1, f, n, st)
                    /\ AbsEnt' = Space!Put(e1, f, Space!File(st, st + n - 1))
  BY <1>0
<1>2. AbsEnt[f].type = "file" /\ f \in Space!FileSlots
  BY FileEntry
<1>3. old \in Nat /\ n \in Nat \ {0} /\ n - old \in Nat \ {0} /\ n - old \in Space!Sizes /\ n \in Space!Sizes
  <2>1. old \in Nat
    BY OldBlocks
  <2>2. Hi - Lo + 1 \in Int
    BY SfsAssumption
  <2> HIDE DEF old
  <2>3. QED BY <1>1, <2>1, <2>2 DEF Space!Sizes
<1>4. \/ /\ AbsEnt[f].start # 0 /\ st = AbsEnt[f].start
         /\ \E d \in Behind(AbsEnt, f, n - old) : e1 = Space!TakeFront(AbsEnt, d, n - old)
      \/ /\ AbsEnt[f].start = 0 \/ Behind(AbsEnt, f, n - old) = {}
         /\ \E d \in Slots : /\ AbsEnt[d].type = "free" /\ n <= Space!Size(AbsEnt[d])
                             /\ \A c \in Slots : AbsEnt[c].type = "free" =>
                                   Space!Size(AbsEnt[c]) <= Space!Size(AbsEnt[d])
                             /\ st = AbsEnt[d].start
                             /\ \E ok : Freed(Space!TakeFront(AbsEnt, d, n), e1, ok,
                                              AbsEnt[f].start, AbsEnt[f].end)
  BY <1>1 DEF Grown
<1>5. ASSUME AbsEnt[f].start # 0, st = AbsEnt[f].start, NEW d \in Behind(AbsEnt, f, n - old),
             e1 = Space!TakeFront(AbsEnt, d, n - old)
      PROVE  SP!IInv' /\ Space!Expand(f, n - old)
  <2> DEFINE k == n - old
             x == Space!File(AbsEnt[f].start, AbsEnt[f].end + k)
  <2>1. /\ d \in Slots /\ AbsEnt[d].type = "free" /\ AbsEnt[d].start = AbsEnt[f].end + 1
        /\ k <= Space!Size(AbsEnt[d]) /\ d # f
    BY <1>2 DEF Behind
  <2>2. /\ AbsEnt[f].start \in Int /\ AbsEnt[f].end \in Int
        /\ old = AbsEnt[f].end - AbsEnt[f].start + 1
    <3>1. AbsEnt[f].start \in Lo..Hi /\ AbsEnt[f].end \in Lo..Hi
      BY <1>5, FileEntry
    <3>2. old = AbsEnt[f].end - AbsEnt[f].start + 1
      BY <1>5, OldBlocks
    <3>3. QED BY <3>1, <3>2
  <2>3. /\ st + n - 1 = AbsEnt[f].end + k /\ AbsEnt[d].start + k - 1 = AbsEnt[f].end + k
    <3> HIDE DEF old
    <3>1. QED BY <1>3, <1>5, <2>1, <2>2
  <2>4. AbsEnt' = Space!TakeFront(Space!Put(AbsEnt, f, x), d, k)
    <3>1. AbsEnt' = Space!Put(Space!TakeFront(AbsEnt, d, k), f, x)
      BY <1>1, <1>5, <2>3
    <3>2. x.type = "file"
      BY DEF Space!File
    <3>3. Space!Put(AbsEnt, f, x)[d] = AbsEnt[d]
      BY <2>1 DEF Space!Put
    <3> HIDE DEF x, k
    <3>4. QED BY <1>2, <2>1, <3>1, <3>2, <3>3, PutCommutes DEF Space!TakeFront
  <2>5. SP!Part(AbsEnt', AbsLost, {})
    <3>1. /\ SP!Part(AbsEnt, AbsLost, {}) /\ AbsEnt[f].type # "free"
          /\ SP!Holds(AbsEnt[f]) /\ k \in Nat \ {0} /\ k <= SP!Size(AbsEnt[d])
      BY <1>2, <1>3, <1>5, <2>1, FileEntry, Bridge DEF SP!IInv
    <3> HIDE DEF k
    <3>2. SP!Part(SP!TakeFront(SP!Put(AbsEnt, f, SP!File(AbsEnt[f].start, AbsEnt[d].start + k - 1)),
                               d, k), AbsLost, {})
      BY <2>1, <3>1, AreaOK, SP!Shift
    <3>3. QED BY <2>3, <2>4, <3>2, Bridge, PutBridge, TakeBridge
  <2>6. AbsLost' = AbsLost /\ SP!IInv'
    BY <2>5, NowLost
  <2>7. d \in Space!Donors(f, k)
    BY <1>5, OldBlocks
  <2> HIDE DEF k
  <2>8. Space!Expand(f, k)
    BY <1>2, <1>5, <2>4, <2>6, <2>7 DEF Space!Expand
  <2>9. QED BY <2>6, <2>8 DEF k
<1>6. ASSUME AbsEnt[f].start = 0 \/ Behind(AbsEnt, f, n - old) = {}, NEW d \in Slots,
             AbsEnt[d].type = "free", n <= Space!Size(AbsEnt[d]),
             \A c \in Slots : AbsEnt[c].type = "free" => Space!Size(AbsEnt[c]) <= Space!Size(AbsEnt[d]),
             st = AbsEnt[d].start, NEW ok,
             Freed(Space!TakeFront(AbsEnt, d, n), e1, ok, AbsEnt[f].start, AbsEnt[f].end)
      PROVE  SP!IInv' /\ Space!Relocate(f, n)
  <2> DEFINE x == Space!File(st, st + n - 1)
             t == Space!TakeFront(AbsEnt, d, n)
             e == Space!Put(AbsEnt, f, Space!Empty)
             r == Space!Relocated(f, d, n)
  <2>1. d # f /\ x.type = "file" /\ t[f] = AbsEnt[f]
    BY <1>2, <1>6 DEF Space!File, Space!TakeFront, Space!Put
  <2>2. r = Space!Put(t, f, x)
    <3>1. Space!Put(AbsEnt, f, x)[d] = AbsEnt[d]
      BY <2>1 DEF Space!Put
    <3>2. r = Space!TakeFront(Space!Put(AbsEnt, f, x), d, n)
      BY <1>6 DEF Space!Relocated
    <3> HIDE DEF x, r
    <3>3. QED BY <1>2, <1>6, <2>1, <3>1, <3>2, PutCommutes DEF Space!TakeFront
  <2>3. Freed(r, AbsEnt', ok, AbsEnt[f].start, AbsEnt[f].end)
    <3>1. Freed(t, e1, ok, AbsEnt[f].start, AbsEnt[f].end) /\ t[f].type = "file"
      BY <1>2, <1>6, <2>1
    <3>2. AbsEnt' = Space!Put(e1, f, x)
      BY <1>1
    <3> HIDE DEF x, r, t
    <3>3. QED BY <2>1, <2>2, <3>1, <3>2, FreedCommutes
  <2>4. SP!Part(r, AbsLost, SP!Extent(AbsEnt[f]))
    <3>1. SP!Part(e, AbsLost, SP!Extent(AbsEnt[f]))
      BY FileEmptied
    <3>2. e[d] = AbsEnt[d] /\ e[f] = Space!Empty /\ Space!Put(e, f, x) = Space!Put(AbsEnt, f, x)
      BY <2>1 DEF Space!Put
    <3>3. ~SP!Holds(e[f]) /\ e[f].type # "free"
      BY <3>2, Bridge, AreaOK, SP!Constructors DEF Space!Empty
    <3>4. e[d].type = "free" /\ n <= SP!Size(e[d]) /\ st = e[d].start
      BY <1>6, <3>2, Bridge
    <3> HIDE DEF e
    <3>5. SP!Part(SP!TakeFront(SP!Put(e, f, SP!File(st, e[d].start + n - 1)), d, n),
                  AbsLost, SP!Extent(AbsEnt[f]))
      BY <1>3, <3>1, <3>3, <3>4, AreaOK, SP!Shift
    <3>6. r = SP!TakeFront(SP!Put(e, f, SP!File(st, e[d].start + n - 1)), d, n)
      <4>1. SP!Put(e, f, SP!File(st, e[d].start + n - 1)) = Space!Put(AbsEnt, f, x)
        BY <1>6, <3>2, Bridge, PutBridge
      <4>2. r = Space!TakeFront(Space!Put(AbsEnt, f, x), d, n)
        BY <1>6 DEF Space!Relocated
      <4> HIDE DEF x, r
      <4>3. QED BY <4>1, <4>2, TakeBridge
    <3>7. QED BY <3>5, <3>6
  <2> HIDE DEF r
  <2>5. Space!Release(r, AbsEnt[f]) /\ SP!IInv'
    BY <2>3, <2>4, FileEntry, Released
  <2>6. Space!OldSize(f) < n
    BY <1>1, OldBlocks
  <2>7. AbsEnt[f].start = 0 \/ Space!Donors(f, n - Space!OldSize(f)) = {}
    BY <1>6, OldBlocks
  <2>8. d \in Space!FreeSlots /\ Space!Largest(d)
    BY <1>6 DEF Space!FreeSlots, Space!Largest
  <2>9. QED BY <1>2, <1>6, <2>5, <2>6, <2>7, <2>8 DEF Space!Relocate, r
<1> HIDE DEF old
<1>7. QED BY <1>2, <1>3, <1>4, <1>5, <1>6

(* sfs_rename() of a file without blocks is RenameEmpty of SfsSpace. *)
LEMMA RenameStep ==
  ASSUME NEW tidy, IInv(tidy), SP!IInv, NEW f \in Slots, NEW p \in FilePaths \cup DirPaths, SafeRename(f, p)
  PROVE  /\ SP!IInv' /\ f \in Space!FileSlots
         /\ \E g \in Space!UnusedIn(AbsEnt) :
               \E C \in SUBSET Space!Others, D \in SUBSET Space!UnusedIn(AbsEnt) :
                  Space!RenameEmpty(f, C, g, D)
<1>1. PICK jx, x : \E new \in Slots :
         /\ Unnamed(jx, index, f) /\ Named(index', jx, new, x)
         /\ x.entry_type = "FILE_ENTRY" /\ x.start_block = 0 /\ x.end_block = 0
         /\ \A i \in new..(new + x.cont_entries) : index[i].entry_type = "UNUSED_ENTRY"
  BY RenameOrder DEF IInv
<1>2. PICK g \in Slots :
         /\ Unnamed(jx, index, f) /\ Named(index', jx, g, x)
         /\ x.entry_type = "FILE_ENTRY" /\ x.start_block = 0 /\ x.end_block = 0
         /\ \A i \in g..(g + x.cont_entries) : index[i].entry_type = "UNUSED_ENTRY"
  BY <1>1
<1>3. index[f].entry_type = "FILE_ENTRY" /\ index[f].start_block = 0 /\ IsFile(index[f]) /\ f # 3
  <2>1. index[f].entry_type = "FILE_ENTRY" /\ index[f].start_block = 0
    BY RenameOrder DEF IInv
  <2>2. QED BY <2>1, Kinds DEF IInv, InOrder, Entered, fs
<1> DEFINE C == Follow(f, Conts(index, f))
           D == Follow(g, x.cont_entries)
           B == C \cup D \cup {f, g}
<1>4. FreesName(AbsEnt, AbsOf(jx), f, C)
  <2>1. InOrder(tidy, fs) /\ index = fs.index
    BY DEF IInv, fs
  <2>2. QED BY <1>2, <1>3, <2>1, UnnamedEntries, LostAre
<1>5. EntersName(AbsOf(jx), AbsEnt', g, D, Space!Empty)
  BY <1>2, NamedEntries, LostAre
<1>6. \A i \in D \cup {g} : i \in Slots /\ AbsEnt[i].type = "unused"
  <2>1. ASSUME NEW i \in D \cup {g} PROVE i \in g..(g + x.cont_entries) /\ i \in Slots
    <3>1. x.cont_entries \in Nat /\ g \in Nat
      BY <1>2 DEF Named, Slots
    <3>2. D \subseteq Slots
      BY <1>5 DEF EntersName
    <3>3. QED BY <3>1, <3>2 DEF Follow
  <2>2. ASSUME NEW i \in D \cup {g} PROVE AbsEnt[i].type = "unused"
    <3>1. AbsType(index[i]) = "unused"
      BY <1>2, <2>1, AbsTypes
    <3>2. QED BY <2>1, <3>1, LostAre, AbsFields
  <2>3. QED BY <2>1, <2>2
<1> HIDE DEF C, D
<1>7. /\ C \subseteq Slots \ {1, 3} /\ f \notin C /\ \A i \in C : AbsEnt[i] = Space!Other
      /\ g \notin D
      /\ AbsEnt' = [i \in Slots |-> IF i = g THEN Space!Empty
                                    ELSE IF i \in D THEN Space!Other
                                    ELSE IF i \in C \cup {f} THEN Space!Unused ELSE AbsEnt[i]]
  BY <1>4, <1>5 DEF FreesName, EntersName, Space!Clear
<1>8. SP!IInv' /\ AbsLost' = AbsLost
  <2>1. \A i \in B : ~SP!Holds(AbsEnt[i])
    <3>1. ~SP!Holds(AbsEnt[f])
      BY <1>3, FileEntry
    <3>2. \A i \in C : ~SP!Holds(AbsEnt[i])
      BY <1>7, Bridge, AreaOK, SP!Constructors
    <3>3. \A i \in D \cup {g} : ~SP!Holds(AbsEnt[i])
      BY <1>6 DEF SP!Holds
    <3>4. QED BY <3>1, <3>2, <3>3
  <2>2. B \in SUBSET Slots
    BY <1>6, <1>7
  <2>3. \A i \in B : AbsEnt'[i] \in {Space!Unused, Space!Other, Space!Empty}
    BY <1>7, <2>2
  <2>4. \A i \in Slots \ B : AbsEnt'[i] = AbsEnt[i]
    BY <1>7
  <2> HIDE DEF B
  <2>5. QED BY <2>1, <2>2, <2>3, <2>4, Renamed
<1>9. f \in Space!FileSlots /\ AbsEnt[f].start = 0
  BY <1>3, FileEntry
<1>10. C \in SUBSET Space!Others
  BY <1>7 DEF Space!Others, Space!Other
<1>11. g \in Space!UnusedIn(AbsEnt) /\ D \in SUBSET Space!UnusedIn(AbsEnt)
  BY <1>6 DEF Space!UnusedIn
<1>12. Space!RenameEmpty(f, C, g, D)
  BY <1>7, <1>8, <1>9, <1>10, <1>11 DEF Space!RenameEmpty
<1>13. QED BY <1>8, <1>9, <1>10, <1>11, <1>12

-----------------------------------------------------------------------------
(* image_create() makes the first state of SfsSpace. *)
LEMMA InitStep == ASSUME Init PROVE Space!Init /\ SP!IInv
<1>1. /\ index[1] = NoEntry("START_ENTRY") /\ index[2] = FreeEntry(Lo, Hi, 0, 0)
      /\ index[3] = NoEntry("DIR_ENTRY") /\ 1 \in Slots /\ 2 \in Slots /\ 3 \in Slots
      /\ \A i \in Slots \ 1..3 : index[i] = NoEntry("UNUSED_ENTRY")
  BY SfsAssumption DEF Init, Slots, Offsets, UnusedEntry
<1>2. /\ IsFree(index[2]) /\ index[2].start_block = Lo /\ index[2].end_block = Hi
  <2>1. Lo \in Extents /\ Hi \in Extents /\ 0 \in Offsets
    BY SfsAssumption DEF Extents, Offsets
  <2>2. QED BY <1>1, <2>1, FreeEntryFields
<1>3. \A i \in Slots : i # 2 =>
         /\ index[i].start_block = 0 /\ index[i].end_block = 0 /\ ~IsFree(index[i])
         /\ index[i].entry_type = IF i = 1 THEN "START_ENTRY" ELSE IF i = 3 THEN "DIR_ENTRY"
                                  ELSE "UNUSED_ENTRY"
  <2>1. ASSUME NEW i \in Slots, i # 2
        PROVE  \/ i = 1 /\ index[i] = NoEntry("START_ENTRY")
               \/ i = 3 /\ index[i] = NoEntry("DIR_ENTRY")
               \/ i \notin {1, 3} /\ index[i] = NoEntry("UNUSED_ENTRY")
    BY <1>1, <2>1, SfsAssumption DEF Slots
  <2>2. QED BY <2>1, EmptyFields DEF EntryTypes
<1>4. ASSUME NEW i \in Slots
      PROVE  AbsEnt[i] = IF i = 2 THEN Space!Free(Lo, Hi)
                         ELSE IF i \in {1, 3} THEN Space!Other ELSE Space!Unused
  <2>1. AbsEnt[i] = [type |-> AbsType(index[i]), start |-> index[i].start_block,
                     end |-> index[i].end_block]
    BY LostAre, AbsFields
  <2>2. CASE i = 2
    <3>1. AbsType(index[i]) = "free"
      BY <1>2, <2>2, AbsTypes
    <3>2. QED BY <1>2, <2>1, <2>2, <3>1 DEF Space!Free
  <2>3. CASE i \in {1, 3}
    <3>1. AbsType(index[i]) = "other"
      BY <1>3, <2>3 DEF AbsType, OwnsData, IsUnlinked
    <3>2. QED BY <1>3, <2>1, <2>3, <3>1 DEF Space!Other
  <2>4. CASE i \notin {1, 2, 3}
    <3>1. AbsType(index[i]) = "unused"
      BY <1>3, <2>4, AbsTypes
    <3>2. QED BY <1>3, <2>1, <2>4, <3>1 DEF Space!Unused
  <2>5. QED BY <2>2, <2>3, <2>4
<1>5. AbsEnt = [i \in Slots |-> CASE i = 2 -> Space!Free(Lo, Hi)
                                  [] i \in {1, 3} -> Space!Other
                                  [] OTHER -> Space!Unused]
  BY <1>4 DEF AbsEnt
<1>6. AbsLost = {}
  BY <1>1, <1>2, LostAre, SfsAssumption DEF LostOf
<1>7. Space!Init
  BY <1>5, <1>6 DEF Space!Init
<1>8. SP!Init
  BY <1>5, <1>6, Bridge DEF SP!Init
<1>9. QED BY <1>7, <1>8, AreaOK, SP!InitOK

(* Every step of the library is a step of SfsSpace, or leaves its state     *)
(* alone.                                                                   *)
LEMMA NextStep ==
  ASSUME NEW tidy, IInv(tidy), SP!IInv, [SafeNext]_vars
  PROVE  SP!IInv' /\ [Space!Next]_(Space!vars)
<1>1. ASSUME AbsEnt' = AbsEnt
      PROVE  SP!IInv' /\ [Space!Next]_(Space!vars)
  <2>1. SP!Part(AbsEnt', AbsLost, {})
    BY <1>1 DEF SP!IInv
  <2>2. AbsLost' = AbsLost /\ SP!IInv'
    BY <2>1, NowLost
  <2>3. QED BY <1>1, <2>2 DEF Space!vars
<1>2. ASSUME NEW p \in FilePaths, Creat(p) PROVE SP!IInv' /\ [Space!Next]_(Space!vars)
  BY <1>2, CreatStep DEF Space!Next
<1>3. ASSUME NEW p \in FilePaths, Unlink(p) PROVE SP!IInv' /\ [Space!Next]_(Space!vars)
  BY <1>1, <1>3, UnlinkOrder DEF IInv
<1>4. ASSUME NEW p \in DirPaths, Mkdir(p) PROVE SP!IInv' /\ [Space!Next]_(Space!vars)
  BY <1>4, MkdirStep DEF Space!Next
<1>5. ASSUME NEW p \in DirPaths, Rmdir(p) PROVE SP!IInv' /\ [Space!Next]_(Space!vars)
  BY <1>5, RmdirStep DEF Space!Next
<1>6. ASSUME NEW f \in Slots, Delete(f) PROVE SP!IInv' /\ [Space!Next]_(Space!vars)
  BY <1>6, DeleteStep DEF Space!Next
<1>7. ASSUME NEW f \in Slots, IsFile(index[f]), Regrown(AbsEnt, AbsEnt', f)
      PROVE  SP!IInv' /\ [Space!Next]_(Space!vars)
  BY <1>7, RegrownStep DEF Space!Next
<1>8. ASSUME NEW f \in Slots, IsFile(index[f]), Emptied(AbsEnt, AbsEnt', f)
      PROVE  SP!IInv' /\ [Space!Next]_(Space!vars)
  BY <1>8, Truncate0Step DEF Space!Next
<1>9. InOrder(tidy, fs) /\ data \in Contents
  BY DEF IInv, Contents
<1>10. ASSUME NEW f \in Slots, NEW s \in Spans, NEW t \in Tokens, Write(f, s[1], s[2], t)
       PROVE  SP!IInv' /\ [Space!Next]_(Space!vars)
  <2>1. IsFile(index[f]) /\ (AbsEnt' = AbsEnt \/ Regrown(AbsEnt, AbsEnt', f))
    BY <1>9, <1>10, WriteOrder
  <2>2. QED BY <1>1, <1>7, <2>1
<1>11. ASSUME NEW f \in Slots, NEW new \in Lengths, SafeTruncate(f, new)
       PROVE  SP!IInv' /\ [Space!Next]_(Space!vars)
  <2>1. /\ IsFile(index[f])
        /\ \/ AbsEnt' = AbsEnt
           \/ Regrown(AbsEnt, AbsEnt', f)
           \/ Emptied(AbsEnt, AbsEnt', f)
    BY <1>9, <1>11, TruncateOrder
  <2>2. QED BY <1>1, <1>7, <1>8, <2>1
<1>12. ASSUME NEW f \in Slots, NEW p \in FilePaths, SafeRename(f, p)
       PROVE  SP!IInv' /\ [Space!Next]_(Space!vars)
  BY <1>12, RenameStep DEF Space!Next
<1>13. CASE UNCHANGED vars
  <2>1. AbsEnt' = AbsEnt
    BY <1>13 DEF vars, AbsEnt
  <2>2. QED BY <1>1, <2>1
<1>14. QED BY <1>2, <1>3, <1>4, <1>5, <1>6, <1>10, <1>11, <1>12, <1>13
           DEF SafeNext, FileCalls, DirCalls, DeleteCalls, WriteCalls

(* Creating, deleting, writing, truncating and renaming files, and making   *)
(* and removing directories, account for every block the way module         *)
(* SfsSpace says: ImplementsSpace.                                          *)
THEOREM AccountsForSpace == SafeSpec => ImplementsSpace
<1>1. Init => Space!Init /\ SP!IInv
  BY InitStep
<1>2. IInv(Tidy) /\ SP!IInv /\ [SafeNext]_vars => SP!IInv' /\ [Space!Next]_(Space!vars)
  BY NextStep
<1>3. QED BY <1>1, <1>2, StaysInOrder, PTL DEF SafeSpec, ImplementsSpace, Space!Spec

(* What SfsSpace promises, of the index itself: no two files or free        *)
(* extents share a block, whatever sequence of calls made them; a block is  *)
(* lost only when nothing holds it; and no two free extents are adjacent.   *)
THEOREM BlocksHaveOneOwner == SafeSpec => [](Space!Disjoint /\ Space!Covered /\ Space!Coalesced)
<1>1. Init => SP!IInv
  BY InitStep
<1>2. IInv(Tidy) /\ SP!IInv /\ [SafeNext]_vars => SP!IInv'
  BY NextStep
<1>3. SP!IInv => Space!Disjoint /\ Space!Covered /\ Space!Coalesced
  <2> SUFFICES ASSUME SP!IInv PROVE Space!Disjoint /\ Space!Covered /\ Space!Coalesced
    OBVIOUS
  <2>1. SP!Shaped(AbsEnt) /\ SP!Separate(AbsEnt) /\ SP!Gapped(AbsEnt) /\ SP!Accounted(AbsEnt, AbsLost \cup {})
    BY DEF SP!IInv, SP!Part
  <2>2. Space!Shaped(AbsEnt)
    BY <2>1, Bridge DEF SP!Shaped, Space!Shaped
  <2>3. Space!Separate(AbsEnt)
    BY <2>1, Bridge DEF SP!Separate, Space!Separate, SP!Apart, Space!Apart
  <2>4. Space!Gapped(AbsEnt)
    BY <2>1 DEF SP!Gapped, Space!Gapped
  <2>5. \A b, x : SP!InExt(b, x) <=> Space!InExt(b, x)
    BY Bridge DEF SP!InExt, Space!InExt
  <2>6. Space!Accounted(AbsEnt, AbsLost)
    BY <2>1, <2>5, Bridge DEF SP!Accounted, Space!Accounted
  <2>7. QED BY <2>2, <2>3, <2>4, <2>6 DEF Space!Disjoint, Space!Covered, Space!Coalesced
<1>4. QED BY <1>1, <1>2, <1>3, StaysInOrder, PTL DEF SafeSpec

-----------------------------------------------------------------------------
(* The blocks that an entry holds *)
Held(i) == IF index[i].start_block = 0 THEN {} ELSE index[i].start_block..index[i].end_block
HeldBy(S) == UNION {Held(i) : i \in S}

(* are in the data area, and no other entry holds them. *)
LEMMA HeldApart ==
  ASSUME NEW tidy, NEW u, u.index = index, InOrder(tidy, u), SP!IInv
  PROVE  /\ \A i \in Frees(u) \cup Handles :
               /\ i \in Slots /\ IsFiniteSet(Held(i)) /\ Held(i) \subseteq Lo..Hi
               /\ index[i].start_block # 0 =>
                     /\ index[i].start_block \in Lo..Hi /\ index[i].end_block \in Lo..Hi
                     /\ index[i].start_block <= index[i].end_block
                     /\ Cardinality(Held(i)) = index[i].end_block - index[i].start_block + 1
         /\ \A i, j \in Frees(u) \cup Handles : i # j => Held(i) \cap Held(j) = {}
         /\ \A i \in Frees(u) : index[i].start_block # 0
         /\ \A i \in Slots : index[i].start_block # 0 => i \in Frees(u) \cup Handles
         /\ \A i \in Slots : index[i].start_block = 0 => index[i].end_block = 0
<1>1. /\ AbsEnt \in [Slots -> SP!Entry] /\ SP!Shaped(AbsEnt) /\ SP!Separate(AbsEnt)
  BY DEF SP!IInv, SP!Part, SP!Typed
<1>2. ASSUME NEW i \in Slots
      PROVE  /\ AbsEnt[i].start = index[i].start_block /\ AbsEnt[i].end = index[i].end_block
             /\ AbsEnt[i].type = "free" <=> i \in Frees(u)
             /\ AbsEnt[i].type = "file" <=> i \in Handles
             /\ i \in Frees(u) => index[i].start_block \in Lo..Hi
  <2>1. /\ AbsEnt[i].start = index[i].start_block /\ AbsEnt[i].end = index[i].end_block
        /\ AbsEnt[i].type = AbsType(index[i])
    BY LostAre, AbsFields
  <2>2. u.index = index /\ FreeShaped(u)
    BY DEF InOrder
  <2>3. AbsEnt[i].type = "free" <=> i \in Frees(u)
    BY <2>1, <2>2, AbsTypes DEF Frees
  <2>4. AbsEnt[i].type = "file" <=> i \in Handles
    BY <2>1, AbsTypes DEF Handles
  <2>5. i \in Frees(u) => index[i].start_block \in Lo..Hi
    BY <2>2 DEF FreeShaped
  <2>6. QED BY <2>1, <2>3, <2>4, <2>5
<1>3. ASSUME NEW i \in Slots
      PROVE  SP!Holds(AbsEnt[i]) <=> index[i].start_block # 0
  <2>1. 0 \notin Lo..Hi
    BY SfsAssumption
  <2>2. CASE SP!Holds(AbsEnt[i])
    BY <1>2, <2>1, <2>2 DEF SP!Holds
  <2>3. CASE ~SP!Holds(AbsEnt[i])
    BY <1>1, <1>2, <2>3 DEF SP!Shaped
  <2>4. QED BY <2>2, <2>3
<1>4. Frees(u) \cup Handles \subseteq Slots
  BY DEF Frees, Handles
<1>5. ASSUME NEW i \in Slots, index[i].start_block # 0
      PROVE  /\ index[i].start_block \in Lo..Hi /\ index[i].end_block \in Lo..Hi
             /\ index[i].start_block <= index[i].end_block
             /\ Held(i) = index[i].start_block..index[i].end_block
  <2>1. /\ index[i].start_block \in {0} \cup Lo..Hi /\ index[i].end_block \in {0} \cup Lo..Hi
    BY <1>1, <1>2, Bridge DEF SP!Entry
  <2>2. /\ Lo <= index[i].start_block /\ index[i].start_block <= index[i].end_block
        /\ index[i].end_block <= Hi
    BY <1>1, <1>2, <1>3, <1>5 DEF SP!Shaped
  <2>3. 0 \notin Lo..Hi /\ Lo \in Int /\ Hi \in Int /\ 0 < Lo
    BY SfsAssumption
  <2>4. QED BY <1>5, <2>1, <2>2, <2>3 DEF Held
<1>6. ASSUME NEW i \in Frees(u) \cup Handles
      PROVE  /\ IsFiniteSet(Held(i)) /\ Held(i) \subseteq Lo..Hi
             /\ index[i].start_block # 0 =>
                   Cardinality(Held(i)) = index[i].end_block - index[i].start_block + 1
  <2>1. CASE index[i].start_block = 0
    BY <2>1, FS_EmptySet DEF Held
  <2>2. CASE index[i].start_block # 0
    <3> DEFINE s == index[i].start_block
               t == index[i].end_block
    <3>1. s \in Lo..Hi /\ t \in Lo..Hi /\ s <= t /\ Held(i) = s..t
      BY <1>4, <1>5, <2>2
    <3> HIDE DEF s, t
    <3>2. s \in Int /\ t \in Int /\ s..t \subseteq Lo..Hi /\ ~(s > t)
      BY <3>1, SfsAssumption
    <3>3. IsFiniteSet(s..t) /\ Cardinality(s..t) = t - s + 1
      BY <3>2, FS_Interval
    <3>4. QED BY <3>1, <3>2, <3>3 DEF s, t
  <2>3. QED BY <2>1, <2>2
<1>7. ASSUME NEW i \in Frees(u) \cup Handles, NEW j \in Frees(u) \cup Handles, i # j
      PROVE  Held(i) \cap Held(j) = {}
  <2>1. CASE index[i].start_block = 0 \/ index[j].start_block = 0
    BY <2>1 DEF Held
  <2>2. CASE index[i].start_block # 0 /\ index[j].start_block # 0
    <3>1. SP!Apart(AbsEnt[i], AbsEnt[j])
      BY <1>1, <1>3, <1>4, <1>7, <2>2 DEF SP!Separate
    <3>2. index[i].end_block < index[j].start_block \/ index[j].end_block < index[i].start_block
      BY <1>2, <1>4, <3>1 DEF SP!Apart
    <3>3. /\ index[i].start_block \in Int /\ index[i].end_block \in Int
          /\ index[j].start_block \in Int /\ index[j].end_block \in Int
      BY <1>4, <1>5, <2>2, SfsAssumption
    <3>4. /\ Held(i) = index[i].start_block..index[i].end_block
          /\ Held(j) = index[j].start_block..index[j].end_block
      BY <1>4, <1>5, <2>2
    <3>5. QED BY <3>2, <3>3, <3>4
  <2>3. QED BY <2>1, <2>2
<1>8. \A i \in Frees(u) : index[i].start_block # 0
  BY <1>2, <1>4, SfsAssumption
<1>9. \A i \in Slots : index[i].start_block # 0 => i \in Frees(u) \cup Handles
  BY <1>2, <1>3 DEF SP!Holds
<1>10. \A i \in Slots : index[i].start_block = 0 => index[i].end_block = 0
  BY <1>1, <1>2, <1>3 DEF SP!Shaped
<1>11. QED BY <1>4, <1>5, <1>6, <1>7, <1>8, <1>9, <1>10

(* The sizes of the free extents add up to the blocks that they hold: the   *)
(* walk visits each of them once.                                           *)
LEMMA ListSum ==
  ASSUME NEW tidy, NEW u, u.index = index, InOrder(tidy, u), SP!IInv
  PROVE  /\ scan_del_file_list(u) = BlockSize * Cardinality(HeldBy(Frees(u)))
         /\ IsFiniteSet(HeldBy(Frees(u)))
<1> DEFINE w == Walk(u)
           S == {k \in 0..N : w[k] # 0}
           g == [k \in S |-> get_size(u.index[w[k]])]
           c == [T \in SUBSET S |-> CHOOSE x \in T : TRUE]
           E == [k \in S |-> Held(w[k])]
           It(f, T) == IF T = {} THEN 0 ELSE LET x == CHOOSE y \in T : TRUE
                                             IN  get_size(u.index[w[x]]) + f[T \ {x}]
           it == CHOOSE f : f = [T \in SUBSET S |-> It(f, T)]
<1>1. scan_del_file_list(u) = it[S]
  BY DEF scan_del_file_list, SumOverList, Steps, MapThenSumSet, MapThenFoldSet
<1>2. /\ \A k \in S : w[k] \in Frees(u)
      /\ \A i \in Frees(u) : \E k \in S : w[k] = i
      /\ \A k, l \in S : k # l => w[k] # w[l]
  <2>1. IsList(u) /\ Linked(u) /\ N \in Nat
    BY SfsAssumption DEF InOrder, IsList
  <2>2. \A k \in 0..(N + 1) : w[k] # 0 => w[k] \in Frees(u)
    BY <2>1, WalkStays
  <2>3. \A k, l \in 0..N : w[k] # 0 /\ w[k] = w[l] => k = l
    BY <2>1, WalkEnds
  <2>4. \A i \in Frees(u) : i # 0 /\ \E k \in 0..N : w[k] = i
    BY <2>1, WalkFinds DEF Frees, Slots
  <2> HIDE DEF w
  <2>5. \A k \in S : k \in 0..(N + 1) /\ w[k] # 0
    BY <2>1
  <2>6. QED BY <2>2, <2>3, <2>4, <2>5
<1>3. IsFiniteSet(S)
  <2>1. 0 \in Int /\ N \in Int
    BY SfsAssumption
  <2>2. IsFiniteSet(0..N)
    BY <2>1, FS_Interval
  <2> HIDE DEF w
  <2>3. QED BY <2>2, FS_Subset
<1>4. ASSUME NEW k \in S
      PROVE  /\ IsFiniteSet(E[k]) /\ g[k] = BlockSize * Cardinality(E[k]) /\ g[k] \in Nat
             /\ E[k] = Held(w[k]) /\ g[k] = get_size(u.index[w[k]])
  <2> DEFINE i == w[k]
  <2>1. i \in Frees(u) /\ u.index = index
    BY <1>2
  <2>2. E[k] = Held(i) /\ g[k] = get_size(index[i])
    BY <2>1
  <2> HIDE DEF i, w, S, E, g
  <2>3. /\ IsFiniteSet(Held(i)) /\ index[i].start_block \in Lo..Hi /\ index[i].end_block \in Lo..Hi
        /\ index[i].start_block <= index[i].end_block
        /\ Cardinality(Held(i)) = index[i].end_block - index[i].start_block + 1
    BY <2>1, HeldApart
  <2>4. get_size(index[i]) = BlockSize * Cardinality(Held(i))
    BY <2>3, SizeOf
  <2>5. get_size(index[i]) \in Nat
    <3>1. get_size(index[i]) \in 0..(BlockSize * (Hi + 1))
      BY <2>3, SizeOf
    <3>2. QED BY <3>1
  <2>6. QED BY <2>1, <2>2, <2>3, <2>4, <2>5 DEF i
<1>5. Measures(g, BlockSize, S, E)
  <2>1. ASSUME NEW j \in S, NEW k \in S, j # k PROVE E[j] \cap E[k] = {}
    <3>1. w[j] \in Frees(u) /\ w[k] \in Frees(u) /\ w[j] # w[k]
      BY <1>2, <2>1
    <3>2. E[j] = Held(w[j]) /\ E[k] = Held(w[k])
      BY <1>4
    <3> HIDE DEF E, w
    <3>3. QED BY <3>1, <3>2, HeldApart
  <2> HIDE DEF S, E, g, w
  <2>2. QED BY <1>4, <2>1 DEF Measures
<1>6. \A T \in SUBSET S : T # {} => c[T] \in T /\ c[T] = CHOOSE y \in T : TRUE
  OBVIOUS
<1>7. g \in [S -> Nat]
  <2> HIDE DEF w
  <2>1. \A k \in S : g[k] \in Nat
    BY <1>4
  <2>2. QED BY <2>1
<1> HIDE DEF S, c, g, E, w
<1>8. \E f : f = [T \in SUBSET S |-> It(f, T)]
  <2>1. PICK f \in [SUBSET S -> Nat] : Sums(f, S, g, c)
    BY <1>3, <1>6, <1>7, SumExists
  <2>2. ASSUME NEW T \in SUBSET S PROVE f[T] = It(f, T)
    <3>1. f[T] = IF T = {} THEN 0 ELSE g[c[T]] + f[T \ {c[T]}]
      BY <2>1 DEF Sums
    <3>2. CASE T = {}
      BY <3>1, <3>2
    <3>3. CASE T # {}
      <4>1. c[T] \in S /\ c[T] = CHOOSE y \in T : TRUE
        BY <1>6, <3>3
      <4>2. g[c[T]] = get_size(u.index[w[c[T]]])
        BY <1>4, <4>1
      <4>3. QED BY <3>1, <3>3, <4>1, <4>2
    <3>4. QED BY <3>2, <3>3
  <2> HIDE DEF It
  <2>3. f = [T \in SUBSET S |-> It(f, T)]
    BY <2>2
  <2>4. QED BY <2>3
<1>9. it = [T \in SUBSET S |-> It(it, T)]
  <2> HIDE DEF It
  <2>1. QED BY <1>8
<1> HIDE DEF it
<1>10. Sums(it, S, g, c)
  <2>1. ASSUME NEW T \in SUBSET S PROVE it[T] = IF T = {} THEN 0 ELSE g[c[T]] + it[T \ {c[T]}]
    <3>1. it[T] = It(it, T)
      <4> HIDE DEF It
      <4>1. QED BY <1>9
    <3>2. CASE T = {}
      BY <3>1, <3>2
    <3>3. CASE T # {}
      <4>1. c[T] \in S /\ c[T] = CHOOSE y \in T : TRUE
        BY <1>6, <3>3
      <4>2. g[c[T]] = get_size(u.index[w[c[T]]])
        BY <1>4, <4>1
      <4>3. QED BY <3>1, <3>3, <4>1, <4>2
    <3>4. QED BY <3>2, <3>3
  <2>2. QED BY <2>1 DEF Sums
<1>11. UNION {E[k] : k \in S} = HeldBy(Frees(u))
  <2>1. {E[k] : k \in S} = {Held(i) : i \in Frees(u)}
    BY <1>2, <1>4
  <2>2. QED BY <2>1 DEF HeldBy
<1>12. /\ IsFiniteSet(UNION {E[k] : k \in S})
       /\ it[S] = BlockSize * Cardinality(UNION {E[k] : k \in S})
  <2>1. BlockSize \in Nat
    BY SfsAssumption
  <2>2. \A T \in SUBSET S : T # {} => c[T] \in T
    BY <1>6
  <2>3. SumsUp(it, S, BlockSize, E)
    BY <1>3, <1>5, <1>10, <2>1, <2>2, SumIs
  <2>4. QED BY <2>3 DEF SumsUp
<1>13. QED BY <1>1, <1>11, <1>12

(* The sizes of the files, each rounded up to blocks, add up to the blocks  *)
(* that the files hold.                                                     *)
LEMMA FilesSum ==
  ASSUME NEW tidy, NEW u, u.index = index, InOrder(tidy, u), SP!IInv
  PROVE  /\ UsedSize = BlockSize * Cardinality(HeldBy(Handles))
         /\ IsFiniteSet(HeldBy(Handles))
<1> DEFINE S == Handles
           g == [f \in S |-> BlockSize * BlockCount(index[f].size)]
           c == [T \in SUBSET S |-> CHOOSE x \in T : TRUE]
           E == [f \in S |-> Held(f)]
           It(r, T) == IF T = {} THEN 0 ELSE LET x == CHOOSE y \in T : TRUE
                                             IN  BlockSize * BlockCount(index[x].size) + r[T \ {x}]
           it == CHOOSE r : r = [T \in SUBSET S |-> It(r, T)]
<1>1. UsedSize = it[S]
  BY DEF UsedSize, MapThenSumSet, MapThenFoldSet
<1>2. IsFiniteSet(S)
  <2>1. 1 \in Int /\ N \in Int
    BY SfsAssumption
  <2>2. IsFiniteSet(1..N)
    BY <2>1, FS_Interval
  <2>3. QED BY <2>2, FS_Subset DEF Handles, Slots
<1>3. ASSUME NEW f \in S
      PROVE  /\ IsFiniteSet(E[f]) /\ g[f] = BlockSize * Cardinality(E[f]) /\ g[f] \in Nat
             /\ E[f] = Held(f) /\ g[f] = BlockSize * BlockCount(index[f].size)
  <2>1. E[f] = Held(f) /\ g[f] = BlockSize * BlockCount(index[f].size) /\ f \in Handles
    OBVIOUS
  <2> HIDE DEF E, g
  <2>2. IsFiniteSet(Held(f))
    BY <2>1, HeldApart
  <2>3. BlockCount(index[f].size) = Cardinality(Held(f))
    <3>1. CASE index[f].size = 0
      <4>1. Held(f) = {}
        BY <2>1, <3>1, ExtentsFit DEF ExtentFitsSize, Held
      <4>2. BlockCount(0) = 0
        BY BlockCounts
      <4>3. QED BY <3>1, <4>1, <4>2, FS_EmptySet
    <3>2. CASE index[f].size # 0
      <4>1. /\ index[f].start_block # 0
            /\ index[f].end_block - index[f].start_block + 1 = BlockCount(index[f].size)
        BY <2>1, <3>2, ExtentsFit DEF ExtentFitsSize
      <4>2. QED BY <2>1, <4>1, HeldApart
    <3>3. QED BY <3>1, <3>2
  <2>4. BlockSize * Cardinality(Held(f)) \in Nat
    <3> DEFINE n == Cardinality(Held(f))
    <3>1. n \in Nat
      BY <2>2, FS_CardinalityType
    <3> HIDE DEF n
    <3>2. BlockSize * n \in Nat
      BY <3>1, SfsAssumption
    <3>3. QED BY <3>2 DEF n
  <2>5. QED BY <2>1, <2>2, <2>3, <2>4
<1>4. Measures(g, BlockSize, S, E)
  <2>1. ASSUME NEW i \in S, NEW j \in S, i # j PROVE E[i] \cap E[j] = {}
    <3>1. E[i] = Held(i) /\ E[j] = Held(j)
      BY <1>3
    <3> HIDE DEF E
    <3>2. QED BY <2>1, <3>1, HeldApart
  <2> HIDE DEF S, E, g
  <2>2. QED BY <1>3, <2>1 DEF Measures
<1>5. \A T \in SUBSET S : T # {} => c[T] \in T /\ c[T] = CHOOSE y \in T : TRUE
  OBVIOUS
<1>6. g \in [S -> Nat]
  <2>1. \A f \in S : g[f] \in Nat
    BY <1>3
  <2>2. QED BY <2>1
<1> HIDE DEF S, c, g, E
<1>7. \E r : r = [T \in SUBSET S |-> It(r, T)]
  <2>1. PICK r \in [SUBSET S -> Nat] : Sums(r, S, g, c)
    BY <1>2, <1>5, <1>6, SumExists
  <2>2. ASSUME NEW T \in SUBSET S PROVE r[T] = It(r, T)
    <3>1. r[T] = IF T = {} THEN 0 ELSE g[c[T]] + r[T \ {c[T]}]
      BY <2>1 DEF Sums
    <3>2. CASE T = {}
      BY <3>1, <3>2
    <3>3. CASE T # {}
      <4>1. c[T] \in S /\ c[T] = CHOOSE y \in T : TRUE
        BY <1>5, <3>3
      <4>2. g[c[T]] = BlockSize * BlockCount(index[c[T]].size)
        BY <1>3, <4>1
      <4>3. QED BY <3>1, <3>3, <4>1, <4>2
    <3>4. QED BY <3>2, <3>3
  <2> HIDE DEF It
  <2>3. r = [T \in SUBSET S |-> It(r, T)]
    BY <2>2
  <2>4. QED BY <2>3
<1>8. it = [T \in SUBSET S |-> It(it, T)]
  <2> HIDE DEF It
  <2>1. QED BY <1>7
<1> HIDE DEF it
<1>9. Sums(it, S, g, c)
  <2>1. ASSUME NEW T \in SUBSET S PROVE it[T] = IF T = {} THEN 0 ELSE g[c[T]] + it[T \ {c[T]}]
    <3>1. it[T] = It(it, T)
      <4> HIDE DEF It
      <4>1. QED BY <1>8
    <3>2. CASE T = {}
      BY <3>1, <3>2
    <3>3. CASE T # {}
      <4>1. c[T] \in S /\ c[T] = CHOOSE y \in T : TRUE
        BY <1>5, <3>3
      <4>2. g[c[T]] = BlockSize * BlockCount(index[c[T]].size)
        BY <1>3, <4>1
      <4>3. QED BY <3>1, <3>3, <4>1, <4>2
    <3>4. QED BY <3>2, <3>3
  <2>2. QED BY <2>1 DEF Sums
<1>10. UNION {E[f] : f \in S} = HeldBy(Handles)
  <2>1. {E[f] : f \in S} = {Held(f) : f \in Handles}
    BY <1>3 DEF S
  <2>2. QED BY <2>1 DEF HeldBy
<1>11. /\ IsFiniteSet(UNION {E[f] : f \in S})
       /\ it[S] = BlockSize * Cardinality(UNION {E[f] : f \in S})
  <2>1. BlockSize \in Nat
    BY SfsAssumption
  <2>2. \A T \in SUBSET S : T # {} => c[T] \in T
    BY <1>5
  <2>3. SumsUp(it, S, BlockSize, E)
    BY <1>2, <1>4, <1>9, <2>1, <2>2, SumIs
  <2>4. QED BY <2>3 DEF SumsUp
<1>12. QED BY <1>1, <1>10, <1>11

(* The list, the files and the lost blocks make up the data area. *)
LEMMA AreaDivided ==
  ASSUME NEW tidy, NEW u, u.index = index, InOrder(tidy, u), SP!IInv
  PROVE  LET F == HeldBy(Frees(u))  H == HeldBy(Handles)
         IN  /\ Lo..Hi = (F \cup H) \cup AbsLost
             /\ F \cap H = {} /\ (F \cup H) \cap AbsLost = {}
<1> DEFINE F == HeldBy(Frees(u))
           H == HeldBy(Handles)
<1>1. F \subseteq Lo..Hi /\ H \subseteq Lo..Hi /\ AbsLost \subseteq Lo..Hi
  BY HeldApart DEF HeldBy, AbsLost
<1>2. F \cap H = {}
  <2>1. \A i \in Frees(u), j \in Handles : i # j
    BY DEF Frees, Handles, IsFree, OwnsData, IsUnlinked
  <2>2. \A i \in Frees(u), j \in Handles : Held(i) \cap Held(j) = {}
    BY <2>1, HeldApart
  <2>3. QED BY <2>2 DEF HeldBy
<1>3. ASSUME NEW b \in Lo..Hi PROVE b \in AbsLost <=> b \notin F \cup H
  <2>1. ASSUME NEW i \in Slots, index[i].start_block <= b, b <= index[i].end_block
        PROVE  b \in F \cup H
    <3>1. index[i].start_block # 0
      <4>1. ~(0 <= b /\ b <= 0)
        BY SfsAssumption
      <4>2. QED BY <2>1, <4>1, HeldApart
    <3>2. i \in Frees(u) \cup Handles
      BY <3>1, HeldApart
    <3>3. b \in Held(i)
      <4>1. index[i].start_block \in Lo..Hi /\ index[i].end_block \in Lo..Hi
        BY <3>1, <3>2, HeldApart
      <4>2. QED BY <2>1, <3>1, <4>1, SfsAssumption DEF Held
    <3>4. QED BY <3>2, <3>3 DEF HeldBy
  <2>2. ASSUME b \in F \cup H
        PROVE  \E i \in Slots : index[i].start_block <= b /\ b <= index[i].end_block
    <3>1. PICK i \in Frees(u) \cup Handles : b \in Held(i)
      BY <2>2 DEF HeldBy
    <3>2. i \in Slots /\ index[i].start_block # 0
      BY <3>1, HeldApart DEF Held
    <3>3. index[i].start_block \in Lo..Hi /\ index[i].end_block \in Lo..Hi
      BY <3>1, <3>2, HeldApart
    <3>4. QED BY <3>1, <3>2, <3>3, SfsAssumption DEF Held
  <2>3. QED BY <2>1, <2>2 DEF AbsLost
<1>4. QED BY <1>1, <1>2, <1>3

(* The sizes of the three add up. *)
LEMMA SpaceAdds ==
  ASSUME NEW tidy, NEW u, u.index = index, InOrder(tidy, u), SP!IInv
  PROVE  /\ scan_del_file_list(u) + UsedSize + (BlockSize * Cardinality(AbsLost)) = data_size
         /\ AbsLost = {} => scan_del_file_list(u) + UsedSize = data_size
<1> DEFINE F == HeldBy(Frees(u))
           H == HeldBy(Handles)
           f == Cardinality(F)
           h == Cardinality(H)
           l == Cardinality(AbsLost)
<1>1. /\ scan_del_file_list(u) = BlockSize * f /\ IsFiniteSet(F)
      /\ UsedSize = BlockSize * h /\ IsFiniteSet(H)
  BY ListSum, FilesSum
<1>2. /\ Lo..Hi = (F \cup H) \cup AbsLost
      /\ F \cap H = {} /\ (F \cup H) \cap AbsLost = {}
  BY AreaDivided
<1>3. IsFiniteSet(Lo..Hi) /\ Cardinality(Lo..Hi) = Hi - Lo + 1
  <2>1. Lo \in Int /\ Hi \in Int /\ ~(Lo > Hi)
    BY SfsAssumption
  <2>2. QED BY <2>1, FS_Interval
<1> HIDE DEF F, H
<1>4. IsFiniteSet(AbsLost)
  <2>1. AbsLost \subseteq Lo..Hi
    BY DEF AbsLost
  <2>2. QED BY <1>3, <2>1, FS_Subset
<1>5. Cardinality({}) = 0
  BY FS_EmptySet
<1>6. f \in Nat /\ h \in Nat /\ l \in Nat
  BY <1>1, <1>4, FS_CardinalityType
<1>7. IsFiniteSet(F \cup H) /\ Cardinality(F \cup H) = f + h - Cardinality({})
  <2>1. IsFiniteSet(F) /\ IsFiniteSet(H) /\ F \cap H = {}
    BY <1>1, <1>2
  <2>2. /\ IsFiniteSet(F \cup H)
        /\ Cardinality(F \cup H) = Cardinality(F) + Cardinality(H) - Cardinality(F \cap H)
    BY <2>1, FS_Union
  <2>3. QED BY <2>1, <2>2
<1> DEFINE m == Cardinality(F \cup H)
           n == Cardinality((F \cup H) \cup AbsLost)
<1>8. n = m + l - Cardinality({})
  BY <1>2, <1>4, <1>7, FS_Union
<1>9. n = Hi - Lo + 1 /\ m = f + h - 0 /\ n = m + l - 0
  BY <1>2, <1>3, <1>5, <1>7, <1>8
<1>10. AbsLost = {} => l = 0
  BY <1>5
<1> HIDE DEF f, h, l, m, n
<1>11. f + h + l = Hi - Lo + 1
  BY <1>6, <1>9
<1>12. (BlockSize * f) + (BlockSize * h) + (BlockSize * l) = BlockSize * (f + h + l)
  BY <1>6, SfsAssumption
<1>13. scan_del_file_list(u) + UsedSize + (BlockSize * l) = data_size
  BY <1>1, <1>11, <1>12 DEF data_size
<1>14. AbsLost = {} => scan_del_file_list(u) + UsedSize = data_size
  <2>1. BlockSize * 0 = 0 /\ BlockSize * f \in Int /\ BlockSize * h \in Int
    BY <1>6, SfsAssumption
  <2>2. QED BY <1>1, <1>10, <1>13, <2>1
<1>15. QED BY <1>13, <1>14 DEF l

(* Free space, the files' blocks and the lost blocks make up the data area, *)
(* to the byte, after every sequence of the calls of SafeSpec: what         *)
(* fuse_sfs_init() compares differs by the leaked blocks and nothing else.  *)
THEOREM SpaceAddsUp ==
  SafeSpec => []( /\ scan_del_file_list(fs) + UsedSize + (BlockSize * Cardinality(AbsLost)) = data_size
                  /\ AbsLost = {} => SpaceConserved )
<1>1. Init => SP!IInv
  BY InitStep
<1>2. IInv(Tidy) /\ SP!IInv /\ [SafeNext]_vars => SP!IInv'
  BY NextStep
<1>3. IInv(Tidy) /\ SP!IInv =>
        /\ scan_del_file_list(fs) + UsedSize + (BlockSize * Cardinality(AbsLost)) = data_size
        /\ AbsLost = {} => SpaceConserved
  <2> SUFFICES ASSUME IInv(Tidy), SP!IInv
               PROVE  /\ scan_del_file_list(fs) + UsedSize + (BlockSize * Cardinality(AbsLost)) = data_size
                      /\ AbsLost = {} => SpaceConserved
    OBVIOUS
  <2>1. InOrder(Tidy, fs) /\ fs.index = index
    BY DEF IInv, fs
  <2>2. QED BY <2>1, SpaceAdds DEF SpaceConserved
<1>4. QED BY <1>1, <1>2, <1>3, StaysInOrder, PTL DEF SafeSpec

-----------------------------------------------------------------------------
(* The bytes of files.  BytesOf: those of the blocks s..e; Spot: where byte *)
(* k of a file is.                                                          *)
BytesOf(s, e) == (BlockSize * s)..(BlockSize * (e + 1) - 1)
Spot(x, k) == x.start_block * BlockSize + k - 1

(* The file has as many blocks as its bytes need. *)
LEMMA CountHolds ==
  ASSUME NEW b \in Nat
  PROVE  b <= BlockSize * BlockCount(b) /\ BlockSize * BlockCount(b) \in Nat
<1>1. ASSUME NEW x \in Nat
      PROVE  x < BlockSize * ((x \div BlockSize) + 1) /\ x \div BlockSize \in Nat
  BY SfsAssumption
<1>2. b + BlockSize - 1 \in Nat /\ BlockSize \in Nat \ {0}
  BY SfsAssumption
<1> DEFINE n == (b + BlockSize - 1) \div BlockSize
<1>3. n \in Nat /\ b + BlockSize - 1 < BlockSize * (n + 1)
  BY <1>1, <1>2
<1> HIDE DEF n
<1>4. /\ BlockSize * (n + 1) = BlockSize * n + BlockSize
      /\ BlockSize * n \in Nat
  BY <1>2, <1>3
<1>5. b <= BlockSize * n /\ BlockSize * n \in Nat
  BY <1>2, <1>3, <1>4
<1>6. QED BY <1>5 DEF n, BlockCount

(* Blocks apart have no byte in common, and those of the area are in it. *)
LEMMA BytesApart ==
  ASSUME NEW s \in Int, NEW e \in Int, NEW s2 \in Int, NEW e2 \in Int
  PROVE  /\ e < s2 => \A a \in BytesOf(s, e), b \in BytesOf(s2, e2) : a # b
         /\ s2 <= s /\ e <= e2 => BytesOf(s, e) \subseteq BytesOf(s2, e2)
         /\ \A b \in BytesOf(s, e) : b \in Int
<1> DEFINE a1 == BlockSize * s
           b1 == BlockSize * (e + 1)
           a2 == BlockSize * s2
           b2 == BlockSize * (e2 + 1)
<1>1. a1 \in Int /\ b1 \in Int /\ a2 \in Int /\ b2 \in Int
  BY Times
<1>2. /\ e < s2 => b1 <= a2
      /\ s2 <= s => a2 <= a1
      /\ e <= e2 => b1 <= b2
  <2>1. /\ b1 <= a2 <=> e + 1 <= s2
        /\ a2 <= a1 <=> s2 <= s
        /\ b1 <= b2 <=> e + 1 <= e2 + 1
    BY Times
  <2> HIDE DEF a1, b1, a2, b2
  <2>2. QED BY <2>1
<1>3. BytesOf(s, e) = a1..(b1 - 1) /\ BytesOf(s2, e2) = a2..(b2 - 1)
  BY DEF BytesOf
<1> HIDE DEF a1, b1, a2, b2
<1>4. QED BY <1>1, <1>2, <1>3

(* Every byte of a file is in its blocks. *)
LEMMA SpotOf ==
  ASSUME NEW s \in Lo..Hi, NEW n \in Nat, s + n - 1 <= Hi, NEW b \in Nat, b <= BlockSize * n,
         NEW k \in 1..b
  PROVE  /\ s * BlockSize + k - 1 \in BytesOf(s, s + n - 1)
         /\ s * BlockSize + k - 1 \in Bytes
         /\ s * BlockSize = BlockSize * s /\ BlockSize * s \in Int
<1>1. Lo \in Int /\ Hi \in Int /\ s \in Int /\ s + n - 1 \in Int /\ Lo <= s
  BY SfsAssumption
<1>2. /\ s * BlockSize = BlockSize * s /\ BlockSize * s \in Int
      /\ BlockSize * ((s + n - 1) + 1) = BlockSize * s + BlockSize * n
      /\ BlockSize * n \in Int
  <2>1. BlockSize * (s + n) - BlockSize * s = BlockSize * ((s + n) - s)
    BY <1>1, Times
  <2>2. (s + n) - s = n /\ (s + n - 1) + 1 = s + n
    BY <1>1
  <2>3. BlockSize * (s + n) \in Int /\ BlockSize * n \in Int /\ BlockSize * s \in Int
    <3>1. ASSUME NEW i \in Int PROVE BlockSize * i \in Int
      BY Times
    <3>2. s + n \in Int /\ n \in Int
      BY <1>1
    <3>3. QED BY <1>1, <3>1, <3>2
  <2>4. s * BlockSize = BlockSize * s
    BY <1>1, SfsAssumption
  <2>5. QED BY <2>1, <2>2, <2>3, <2>4
<1>3. s * BlockSize + k - 1 \in BytesOf(s, s + n - 1)
  <2>1. k \in Int /\ 1 <= k /\ k <= BlockSize * n
    BY <1>2
  <2> DEFINE p == BlockSize * s
             q == BlockSize * n
             r == BlockSize * ((s + n - 1) + 1)
  <2>2. p \in Int /\ q \in Int /\ r = p + q /\ s * BlockSize = p /\ k <= q
        /\ BytesOf(s, s + n - 1) = p..(r - 1)
    BY <1>2, <2>1 DEF BytesOf
  <2> HIDE DEF p, q, r
  <2>3. p + k - 1 \in p..(r - 1)
    BY <2>1, <2>2
  <2>4. QED BY <2>2, <2>3
<1>4. BytesOf(s, s + n - 1) \subseteq BytesOf(Lo, Hi)
  BY <1>1, BytesApart
<1>5. BytesOf(Lo, Hi) = Bytes
  <2>1. Lo * BlockSize = BlockSize * Lo /\ (Hi + 1) * BlockSize = BlockSize * (Hi + 1)
    BY <1>1, SfsAssumption
  <2>2. QED BY <2>1 DEF BytesOf, Bytes
<1>6. QED BY <1>2, <1>3, <1>4, <1>5

(* So it is in the data area. *)
LEMMA SpotIn ==
  ASSUME NEW x, Sized(x), x.size \in Nat, NEW k \in 1..x.size
  PROVE  /\ x.start_block # 0 /\ x.start_block \in Lo..Hi /\ x.end_block \in Lo..Hi
         /\ Spot(x, k) \in BytesOf(x.start_block, x.end_block)
         /\ Spot(x, k) \in Bytes
<1> DEFINE n == BlockCount(x.size)
<1>1. x.size # 0
  OBVIOUS
<1>2. /\ x.start_block # 0 /\ x.start_block \in Lo..Hi /\ x.end_block \in Lo..Hi
      /\ x.end_block - x.start_block + 1 = n
  BY <1>1, FitsBlocks
<1>3. n \in Nat /\ x.size <= BlockSize * n
  BY BlockCounts, CountHolds
<1> HIDE DEF n
<1>4. x.end_block = x.start_block + n - 1 /\ x.start_block + n - 1 <= Hi
  <2>1. Lo \in Int /\ Hi \in Int
    BY SfsAssumption
  <2>2. QED BY <1>2, <1>3, <2>1
<1>5. /\ x.start_block * BlockSize + k - 1 \in BytesOf(x.start_block, x.start_block + n - 1)
      /\ x.start_block * BlockSize + k - 1 \in Bytes
  BY <1>2, <1>3, <1>4, SpotOf
<1>6. QED BY <1>2, <1>4, <1>5 DEF Spot

(* The blocks that a file grows into are nobody else's, and if it moves,    *)
(* not its own old ones either.                                             *)
LEMMA Room ==
  ASSUME NEW tidy, InOrder(tidy, fs), data \in Contents, SP!IInv, NEW f \in Slots, IsFile(index[f]),
         NEW new \in Nat, BlockCount(new) > BlockCount(index[f].size),
         NEW g, g = Grow(f, new), g.ok,
         NEW h \in Slots, IsFile(index[h]), index[h].start_block # 0,
         h = f => g.start # index[f].start_block
  PROVE  index[h].end_block < g.start \/ g.end < index[h].start_block
<1> DEFINE ab == AbsEnt
           n  == BlockCount(new)
           st == g.start
           en == g.end
<1>1. AbsOf(index) = ab /\ fs.index = index
  BY LostAre DEF fs
<1>2. /\ st \in Lo..Hi /\ en \in Lo..Hi /\ en - st + 1 = n /\ n \in Nat
      /\ \E e2 : Grown(ab, e2, f, n, st)
  BY <1>1, GrowOrder, BlockCounts
<1>3. ab \in [Slots -> SP!Entry] /\ SP!Shaped(ab) /\ SP!Separate(ab)
  BY DEF SP!IInv, SP!Part, SP!Typed
<1>4. ASSUME NEW i \in Slots
      PROVE  /\ ab[i].start \in Int /\ ab[i].end \in Int
             /\ Space!Holds(ab[i]) => ab[i].start <= ab[i].end
  BY <1>3, AreaOK, Bridge, SP!Bounds
<1>5. ASSUME NEW i \in Slots, NEW j \in Slots, i # j, Space!Holds(ab[i]), Space!Holds(ab[j])
      PROVE  ab[i].end < ab[j].start \/ ab[j].end < ab[i].start
  BY <1>3, <1>5, Bridge DEF SP!Separate, SP!Apart
<1>6. ASSUME NEW i \in Slots, IsFile(index[i])
      PROVE  /\ ab[i].type = "file" /\ ab[i].start = index[i].start_block /\ ab[i].end = index[i].end_block
             /\ index[i].start_block # 0 => Space!Holds(ab[i])
  <2>1. AbsType(index[i]) = "file"
    BY <1>6, AbsTypes DEF IsFile
  <2>2. ab[i].type = "file" /\ ab[i].start = index[i].start_block /\ ab[i].end = index[i].end_block
    BY <1>1, <2>1, AbsFields
  <2>3. QED BY <2>2 DEF Space!Holds
<1>7. ASSUME NEW d \in Slots, ab[d].type = "free" PROVE Space!Holds(ab[d]) /\ d # h /\ d # f
  <2>1. ab[h].type = "file" /\ ab[f].type = "file"
    BY <1>6
  <2>2. Space!Holds(ab[d])
    BY <1>7 DEF Space!Holds
  <2>3. QED BY <1>7, <2>1, <2>2
<1>8. Lo \in Int /\ Hi \in Int
  BY SfsAssumption
<1> HIDE DEF ab, n, st, en
<1>9. CASE /\ ab[f].start # 0 /\ st = ab[f].start
           /\ \E d \in Slots : /\ ab[d].type = "free" /\ ab[d].start = ab[f].end + 1
                               /\ n - OldCount(ab, f) <= Space!Size(ab[d])
  <2>1. PICK d \in Slots : /\ ab[d].type = "free" /\ ab[d].start = ab[f].end + 1
                           /\ n - OldCount(ab, f) <= Space!Size(ab[d])
    BY <1>9
  <2>2. h # f
    BY <1>6, <1>9 DEF st
  <2>3. Space!Holds(ab[h]) /\ Space!Holds(ab[f]) /\ Space!Holds(ab[d])
    BY <1>6, <1>7, <1>9, <2>1
  <2>4. /\ ab[h].end < ab[f].start \/ ab[f].end < ab[h].start
        /\ ab[h].end < ab[d].start \/ ab[d].end < ab[h].start
    BY <1>5, <1>7, <2>1, <2>2, <2>3
  <2>5. OldCount(ab, f) = ab[f].end - ab[f].start + 1 /\ Space!Size(ab[d]) = ab[d].end - ab[d].start + 1
    BY <1>9 DEF OldCount, Space!Size
  <2>6. ab[h].end < st \/ en < ab[h].start
    BY <1>2, <1>4, <1>8, <1>9, <2>1, <2>3, <2>4, <2>5
  <2>7. QED BY <1>6, <2>6 DEF st, en
<1>10. CASE \E d \in Slots : ab[d].type = "free" /\ n <= Space!Size(ab[d]) /\ st = ab[d].start
  <2>1. PICK d \in Slots : ab[d].type = "free" /\ n <= Space!Size(ab[d]) /\ st = ab[d].start
    BY <1>10
  <2>2. Space!Holds(ab[h]) /\ Space!Holds(ab[d]) /\ d # h
    BY <1>6, <1>7, <2>1
  <2>3. ab[h].end < ab[d].start \/ ab[d].end < ab[h].start
    BY <1>5, <2>2
  <2>4. Space!Size(ab[d]) = ab[d].end - ab[d].start + 1
    BY DEF Space!Size
  <2>5. ab[h].end < st \/ en < ab[h].start
    BY <1>2, <1>4, <1>8, <2>1, <2>3, <2>4
  <2>6. QED BY <1>6, <2>5 DEF st, en
<1>11. QED BY <1>2, <1>9, <1>10 DEF Grown, Behind

(* Two files have no block in common. *)
LEMMA ExtentsApart ==
  ASSUME SP!IInv, NEW f \in Slots, IsFile(index[f]), index[f].start_block # 0,
         NEW h \in Slots, h # f, IsFile(index[h]), index[h].start_block # 0
  PROVE  index[h].end_block < index[f].start_block \/ index[f].end_block < index[h].start_block
<1>1. SP!Separate(AbsEnt) /\ AbsOf(index) = AbsEnt
  BY LostAre DEF SP!IInv, SP!Part
<1>2. ASSUME NEW i \in Slots, IsFile(index[i]), index[i].start_block # 0
      PROVE  /\ AbsEnt[i].start = index[i].start_block /\ AbsEnt[i].end = index[i].end_block
             /\ SP!Holds(AbsEnt[i])
  <2>1. AbsEnt[i].start = index[i].start_block /\ AbsEnt[i].end = index[i].end_block /\ AbsEnt[i].type = "file"
    BY <1>1, <1>2, AbsFields, AbsTypes DEF IsFile
  <2>2. QED BY <1>2, <2>1 DEF SP!Holds
<1>3. QED BY <1>1, <1>2 DEF SP!Separate, SP!Apart

(* What an image keeps of the bytes of the files: of all but f, and of f    *)
(* outside span, as far as it has these bytes before and after.             *)
OthersKept(d, f) == \A h \in Slots : h # f /\ IsFile(index[h]) =>
    \A k \in 1..index[h].size : d[Spot(index[h], k)] = data[Spot(index[h], k)]

OwnKept(ix, d, f, span) == IsFile(index[f]) =>
    \A k \in (1..index[f].size) \cap (1..ix[f].size) :
        k \notin span => d[Spot(ix[f], k)] = data[Spot(index[f], k)]

Saved(ix, d, f, span) == OthersKept(d, f) /\ OwnKept(ix, d, f, span)

(* Data that did not change is saved. *)
LEMMA SavedSame ==
  ASSUME NEW ix, NEW f, NEW span, ix[f].start_block = index[f].start_block
  PROVE  Saved(ix, data, f, span)
  BY DEF Saved, OthersKept, OwnKept, Spot

(* copy_block() changes only the blocks it copies to. *)
LEMMA CopyKeeps ==
  ASSUME NEW d, NEW src, NEW dst \in Int, NEW n \in Int, NEW e \in Int, dst + n - 1 <= e,
         NEW a \in Bytes, a \notin BytesOf(dst, e)
  PROVE  copy_block(d, src, dst, n)[a] = d[a]
<1>1. a \notin BytesOf(dst, dst + n - 1)
  BY BytesApart
<1>2. /\ dst * BlockSize = BlockSize * dst
      /\ (dst + n) * BlockSize = BlockSize * ((dst + n - 1) + 1)
  <2>1. (dst + n - 1) + 1 = dst + n /\ dst + n \in Int
    OBVIOUS
  <2>2. ASSUME NEW i \in Int PROVE i * BlockSize = BlockSize * i
    BY SfsAssumption
  <2>3. QED BY <2>1, <2>2
<1>3. a \notin (dst * BlockSize)..((dst + n) * BlockSize - 1)
  BY <1>1, <1>2 DEF BytesOf
<1>4. QED BY <1>3 DEF copy_block

(* It copies the bytes in order. *)
InTurn(d, src, dst, n) == \A k \in 1..(BlockSize * n) :
    copy_block(d, src, dst, n)[dst * BlockSize + k - 1] = d[src * BlockSize + k - 1]

(* copy_block moves the bytes in order.                                     *)
LEMMA CopyMoves ==
  ASSUME NEW d, NEW src \in Int, NEW dst \in Lo..Hi, NEW n \in Nat, dst + n - 1 <= Hi
  PROVE  InTurn(d, src, dst, n)
<1> SUFFICES ASSUME NEW k \in 1..(BlockSize * n)
             PROVE  copy_block(d, src, dst, n)[dst * BlockSize + k - 1] = d[src * BlockSize + k - 1]
  BY DEF InTurn
<1> DEFINE p == dst * BlockSize
           q == src * BlockSize
           a == p + k - 1
<1>1. BlockSize * n \in Nat /\ BlockSize * n <= BlockSize * n
  BY SfsAssumption
<1>2. /\ a \in BytesOf(dst, dst + n - 1) /\ a \in Bytes
      /\ p = BlockSize * dst /\ BlockSize * dst \in Int
  BY <1>1, SpotOf
<1>3. (dst + n) * BlockSize = BlockSize * ((dst + n - 1) + 1)
  <2>1. dst \in Int
    BY SfsAssumption
  <2>2. (dst + n - 1) + 1 = dst + n /\ dst + n \in Int
    BY <2>1
  <2>3. QED BY <2>2, SfsAssumption
<1>4. a \in p..((dst + n) * BlockSize - 1)
  BY <1>2, <1>3 DEF BytesOf
<1>5. copy_block(d, src, dst, n)[a] = d[a - p + q]
  BY <1>2, <1>4 DEF copy_block
<1>6. p \in Int /\ q \in Int /\ k \in Int
  BY <1>1, <1>2, SfsAssumption
<1>7. a - p + q = q + k - 1
  <2> HIDE DEF p, q
  <2>1. QED BY <1>6
<1>8. copy_block(d, src, dst, n)[a] = d[q + k - 1]
  BY <1>5, <1>7
<1>9. QED BY <1>8

(* The data while a file grows *)
LEMMA GrowData ==
  ASSUME NEW f, NEW new, NEW g, g = Grow(f, new)
  PROVE  \/ g.data = data /\ (index[f].start_block = 0 \/ g.start = index[f].start_block)
         \/ /\ index[f].start_block # 0
            /\ g.data = copy_block(data, index[f].start_block, g.start,
                                   index[f].end_block - index[f].start_block + 1)
  BY DEF Grow

(* A file is not where its blocks are not. *)
LEMMA SpotAway ==
  ASSUME NEW s \in Int, NEW e \in Int, NEW x, Sized(x), x.size \in Nat, NEW k \in 1..x.size,
         x.start_block = 0 \/ x.end_block < s \/ e < x.start_block
  PROVE  Spot(x, k) \notin BytesOf(s, e)
<1>1. /\ x.start_block # 0 /\ x.start_block \in Lo..Hi /\ x.end_block \in Lo..Hi
      /\ Spot(x, k) \in BytesOf(x.start_block, x.end_block)
  BY SpotIn
<1>2. x.start_block \in Int /\ x.end_block \in Int
  BY <1>1, SfsAssumption
<1>3. CASE x.end_block < s
  BY <1>1, <1>2, <1>3, BytesApart
<1>4. CASE e < x.start_block
  BY <1>1, <1>2, <1>4, BytesApart
<1>5. QED BY <1>1, <1>3, <1>4

(* Where the data of sfs_write() and sfs_truncate() goes *)
LEMMA GoesTo ==
  ASSUME NEW tidy, InOrder(tidy, fs), data \in Contents, SP!IInv, NEW f \in Slots, IsFile(index[f]),
         NEW new \in Nat \ {0}, BlockCount(index[f].size) <= BlockCount(new),
         NEW g, g.ok,
         g = IF BlockCount(new) > BlockCount(index[f].size) THEN Grow(f, new) ELSE InPlace(f)
  PROVE  /\ g.start \in Lo..Hi /\ g.end \in Lo..Hi /\ g.end - g.start + 1 = BlockCount(new)
         /\ g.u \in State /\ g.u.index[f] = index[f]
         /\ \A h \in Slots : h # f /\ IsFile(index[h]) /\ index[h].start_block # 0 =>
               index[h].end_block < g.start \/ g.end < index[h].start_block
         /\ \/ g.data = data /\ (index[f].start_block = 0 \/ g.start = index[f].start_block)
            \/ /\ index[f].start_block # 0
               /\ g.data = copy_block(data, index[f].start_block, g.start,
                                      index[f].end_block - index[f].start_block + 1)
<1> DEFINE e == index[f]
           n == BlockCount(new)
<1>1. fs.index = index /\ e.size \in Nat /\ Sized(e) /\ fs \in State
  BY OrderShaped DEF fs, InOrder, Entered, EntryOK
<1>2. BlockCount(e.size) \in Nat /\ n \in Nat /\ n # 0
  BY <1>1, BlockCounts
<1>3. CASE n > BlockCount(e.size)
  <2>1. g = Grow(f, new) /\ new \in Nat
    BY <1>3
  <2>2. /\ InOrder(tidy, g.u) /\ g.u.index[f] = e
        /\ g.start \in Lo..Hi /\ g.end \in Lo..Hi /\ g.end - g.start + 1 = n
    BY <1>3, <2>1, GrowOrder
  <2>3. g.u \in State
    BY <2>2, OrderShaped
  <2>4. ASSUME NEW h \in Slots, h # f, IsFile(index[h]), index[h].start_block # 0
        PROVE  index[h].end_block < g.start \/ g.end < index[h].start_block
    BY <1>3, <2>1, <2>4, Room
  <2>5. QED BY <2>1, <2>2, <2>3, <2>4, GrowData
<1>4. CASE ~(n > BlockCount(e.size))
  <2>1. g = InPlace(f) /\ n = BlockCount(e.size)
    BY <1>2, <1>4
  <2>2. g.u = fs /\ g.start = e.start_block /\ g.end = e.end_block /\ g.data = data
    BY <2>1 DEF InPlace
  <2>3. e.size # 0
    BY <1>1, <1>2, <2>1, BlockCounts
  <2>4. /\ g.start \in Lo..Hi /\ g.end \in Lo..Hi /\ g.end - g.start + 1 = n /\ e.start_block # 0
    BY <1>1, <2>1, <2>2, <2>3, FitsBlocks
  <2>5. ASSUME NEW h \in Slots, h # f, IsFile(index[h]), index[h].start_block # 0
        PROVE  index[h].end_block < g.start \/ g.end < index[h].start_block
    BY <2>2, <2>4, <2>5, ExtentsApart
  <2>6. QED BY <1>1, <2>2, <2>4, <2>5
<1>5. QED BY <1>3, <1>4

(* The entry, when it is written back *)
LEMMA PouredEntry ==
  ASSUME NEW f \in Slots, IsFile(index[f]), NEW g, g.u \in State, g.u.index[f] = index[f],
         g.start \in Lo..Hi, g.end \in Lo..Hi, NEW new \in (0..N) \cup FileSizes,
         NEW ix, ix = Repointed(f, g, new).index
  PROVE  ix[f].start_block = g.start /\ ix[f].size = new
<1> DEFINE e == index[f]
<1>1. f \in Offsets
  BY Numbers
<1>2. ix[f] = Rewritten(e, g, new)
  BY <1>1 DEF Repointed, State
<1>3. e \in Entries /\ g.start \in Extents /\ g.end \in Extents /\ IsFile(e)
  BY <1>1 DEF State, Extents
<1> HIDE DEF e
<1>4. QED BY <1>2, <1>3, RewrittenFields

(* The entry is written back, and z of the size bytes t. *)
Pours(f, g, new, off, size, t, z, ix, d) ==
    /\ z \in 0..size
    /\ ix = Repointed(f, g, new).index
    /\ d = write_data(g.data, g.start * BlockSize + off, z, t)

(* The bytes are written to the new place, and the rest of the file is      *)
(* there before.                                                            *)
LEMMA DataSaves ==
  ASSUME NEW tidy, InOrder(tidy, fs), data \in Contents, SP!IInv, NEW f \in Slots, IsFile(index[f]),
         NEW new \in (0..N) \cup FileSizes, new \in Nat \ {0},
         BlockCount(index[f].size) <= BlockCount(new),
         NEW g, g.ok,
         g = IF BlockCount(new) > BlockCount(index[f].size) THEN Grow(f, new) ELSE InPlace(f),
         NEW off \in Nat, NEW size \in Nat, size = 0 \/ off + size <= new, NEW t,
         NEW z, NEW ix, NEW d, Pours(f, g, new, off, size, t, z, ix, d)
  PROVE  Saved(ix, d, f, (off + 1)..(off + size))
<1> DEFINE e == index[f]
           n == BlockCount(new)
           m == e.end_block - e.start_block + 1
           p == g.start * BlockSize
<1>1. /\ g.start \in Lo..Hi /\ g.end \in Lo..Hi /\ g.end - g.start + 1 = n
      /\ g.u \in State /\ g.u.index[f] = e
      /\ \A h \in Slots : h # f /\ IsFile(index[h]) /\ index[h].start_block # 0 =>
            index[h].end_block < g.start \/ g.end < index[h].start_block
  BY GoesTo
<1>2. \/ g.data = data /\ (e.start_block = 0 \/ g.start = e.start_block)
      \/ e.start_block # 0 /\ g.data = copy_block(data, e.start_block, g.start, m)
  BY GoesTo
<1>3. \A h \in Slots : IsFile(index[h]) => Sized(index[h]) /\ index[h].size \in Nat
  BY DEF InOrder, Entered, EntryOK, fs
<1>4. d = write_data(g.data, p + off, z, t) /\ ix = Repointed(f, g, new).index /\ z \in 0..size
  BY DEF Pours
<1>5. ix[f].start_block = g.start /\ ix[f].size = new
  BY <1>1, <1>4, PouredEntry
<1>6. /\ Lo \in Int /\ Hi \in Int /\ g.start \in Int /\ g.end \in Int /\ n \in Nat /\ e.size \in Nat
      /\ BlockCount(e.size) \in Nat /\ BlockCount(e.size) <= n
      /\ new <= BlockSize * n /\ BlockSize * n \in Nat
      /\ e.start_block # 0 => /\ m = BlockCount(e.size) /\ e.start_block \in Int
                              /\ e.size <= BlockSize * m
      /\ g.end = g.start + n - 1
  <2>1. Lo \in Int /\ Hi \in Int
    BY SfsAssumption
  <2>2. e.size \in Nat /\ Sized(e)
    BY <1>3
  <2>3. n \in Nat /\ new <= BlockSize * n /\ BlockSize * n \in Nat
    BY BlockCounts, CountHolds
  <2>4. BlockCount(e.size) \in Nat /\ e.size <= BlockSize * BlockCount(e.size)
    BY <2>2, BlockCounts, CountHolds
  <2>5. e.start_block # 0 => m = BlockCount(e.size) /\ e.start_block \in Int
    BY <2>1, <2>2, FitsBlocks
  <2>6. BlockCount(e.size) <= n
    OBVIOUS
  <2>7. g.end = g.start + n - 1
    <3> HIDE DEF n
    <3>1. QED BY <1>1, <2>1, <2>3
  <2> HIDE DEF m, n, e
  <2>8. QED BY <1>1, <2>1, <2>2, <2>3, <2>4, <2>5, <2>6, <2>7
<1>7. ASSUME NEW b \in Nat, b <= BlockSize * n, NEW k \in 1..b
      PROVE  /\ p + k - 1 \in BytesOf(g.start, g.end) /\ p + k - 1 \in Bytes
             /\ p \in Int
  <2>1. /\ g.start * BlockSize + k - 1 \in BytesOf(g.start, g.start + n - 1)
        /\ g.start * BlockSize + k - 1 \in Bytes
        /\ g.start * BlockSize = BlockSize * g.start /\ BlockSize * g.start \in Int
    <3> HIDE DEF n
    <3>1. g.start + n - 1 <= Hi
      BY <1>1, <1>6
    <3>2. QED BY <1>1, <1>6, <1>7, <3>1, SpotOf
  <2>2. QED BY <1>6, <2>1
<1>8. p \in Int /\ z \in Nat /\ z <= size
  BY <1>4, <1>6, SfsAssumption
<1> HIDE DEF p, n, m
<1>9. ASSUME NEW a \in Bytes, a \notin (p + off)..(p + off + z - 1)
      PROVE  d[a] = g.data[a]
  <2>1. d = write_data(g.data, p + off, z, t)
    BY <1>4
  <2>2. d[a] = IF a \in (p + off)..(p + off + z - 1) THEN t ELSE g.data[a]
    BY <2>1 DEF write_data
  <2>3. QED BY <1>9, <2>2
<1>10. \A a \in (p + off)..(p + off + z - 1) : a \in BytesOf(g.start, g.end)
  <2>1. SUFFICES ASSUME NEW a \in (p + off)..(p + off + z - 1) PROVE a \in BytesOf(g.start, g.end)
    OBVIOUS
  <2>2. a \in Int /\ p + off <= a /\ a <= p + off + z - 1
    BY <1>8
  <2>3. z # 0 /\ z <= size /\ off + size <= new
    BY <1>8, <2>2
  <2>4. a - p + 1 \in 1..new
    BY <1>8, <2>2, <2>3
  <2>5. p + (a - p + 1) - 1 \in BytesOf(g.start, g.end)
    BY <1>6, <1>7, <2>4
  <2>6. p + (a - p + 1) - 1 = a
    BY <1>8, <2>2
  <2>7. QED BY <2>5, <2>6
<1>11. OthersKept(d, f)
  <2> SUFFICES ASSUME NEW h \in Slots, h # f, IsFile(index[h]), NEW k \in 1..index[h].size
               PROVE  d[Spot(index[h], k)] = data[Spot(index[h], k)]
    BY DEF OthersKept
  <2>1. Sized(index[h]) /\ index[h].size \in Nat
    BY <1>3
  <2>2. Spot(index[h], k) \in Bytes
    BY <2>1, SpotIn
  <2>3. index[h].start_block = 0 \/ index[h].end_block < g.start \/ g.end < index[h].start_block
    BY <1>1
  <2>4. Spot(index[h], k) \notin BytesOf(g.start, g.end)
    BY <1>6, <2>1, <2>3, SpotAway
  <2>5. d[Spot(index[h], k)] = g.data[Spot(index[h], k)]
    BY <1>9, <1>10, <2>2, <2>4
  <2>6. g.data[Spot(index[h], k)] = data[Spot(index[h], k)]
    <3>1. CASE e.start_block # 0 /\ g.data = copy_block(data, e.start_block, g.start, m)
      <4>1. m \in Int /\ g.start + m - 1 <= g.end
        BY <1>6, <3>1
      <4>2. QED BY <1>6, <2>2, <2>4, <3>1, <4>1, CopyKeeps
    <3>2. QED BY <1>2, <3>1
  <2>7. QED BY <2>5, <2>6
<1>12. OwnKept(ix, d, f, (off + 1)..(off + size))
  <2> SUFFICES ASSUME NEW k \in 1..e.size, k \in 1..new, k \notin (off + 1)..(off + size)
               PROVE  d[p + k - 1] = data[e.start_block * BlockSize + k - 1]
    BY <1>5 DEF OwnKept, Spot, p, e
  <2>1. p + k - 1 \in Bytes /\ k \in Int
    BY <1>6, <1>7
  <2>2. p + k - 1 \notin (p + off)..(p + off + z - 1)
    BY <1>8, <2>1
  <2>3. d[p + k - 1] = g.data[p + k - 1]
    BY <1>9, <2>1, <2>2
  <2>4. e.start_block # 0
    <3>1. e.size # 0
      BY <1>6
    <3>2. QED BY <1>3, <3>1, FitsBlocks DEF e
  <2>5. CASE g.data = data /\ g.start = e.start_block
    BY <2>3, <2>5 DEF p
  <2>6. CASE g.data = copy_block(data, e.start_block, g.start, m)
    <3>1. m \in Nat /\ g.start + m - 1 <= Hi /\ e.start_block \in Int /\ g.start \in Lo..Hi
      BY <1>1, <1>6, <2>4
    <3>2. k \in 1..(BlockSize * m)
      <4>1. BlockSize * m \in Int
        BY <3>1, Times
      <4>2. QED BY <1>6, <2>1, <2>4, <4>1
    <3>3. copy_block(data, e.start_block, g.start, m)[g.start * BlockSize + k - 1]
            = data[e.start_block * BlockSize + k - 1]
      <4>1. InTurn(data, e.start_block, g.start, m)
        <5> HIDE DEF e
        <5>1. QED BY <3>1, CopyMoves
      <4>2. QED BY <3>2, <4>1 DEF InTurn
    <3>4. QED BY <2>3, <2>6, <3>3 DEF p
  <2>7. QED BY <1>2, <2>4, <2>5, <2>6
<1>13. QED BY <1>11, <1>12 DEF Saved

-----------------------------------------------------------------------------
(* The file store *)

(* The parts of the refinement mapping, of any index and data. *)
HasFile(ix, i, p) == ix[i].entry_type = "FILE_ENTRY" /\ ix[i].name = p
FilesIn(ix) ==
    [p \in {ix[i].name : i \in {j \in Slots : ix[j].entry_type = "FILE_ENTRY"}} |-> search_file(ix, p)]
DirsIn(ix) == {ix[i].name : i \in {j \in Slots : ix[j].entry_type = "DIR_ENTRY"}}
BytesIn(ix, d, f) == [k \in 1..ix[f].size |-> d[Spot(ix[f], k)]]
BodyIn(ix, d) == [f \in {i \in Slots : OwnsData(ix[i])} |-> BytesIn(ix, d, f)]

(* The mapping of the refinement, in terms of the index and the data alone. *)
LEMMA StoreIs ==
  /\ StoreFiles = FilesIn(index) /\ StoreFiles' = FilesIn(index')
  /\ StoreDirs = DirsIn(index) /\ StoreDirs' = DirsIn(index')
  /\ StoreBody = BodyIn(index, data) /\ StoreBody' = BodyIn(index', data')
<1>1. StoreFiles = FilesIn(index) /\ StoreFiles' = FilesIn(index')
  BY DEF StoreFiles, FilesIn, PathsOf
<1>2. StoreDirs = DirsIn(index) /\ StoreDirs' = DirsIn(index')
  BY DEF StoreDirs, DirsIn, PathsOf
<1>3. \A f : /\ Content(f) = BytesIn(index, data, f)
            /\ Content(f)' = BytesIn(index', data', f)
  BY DEF Content, BytesIn, Spot
<1>4. StoreBody = BodyIn(index, data)
  BY <1>3 DEF StoreBody, BodyIn
<1>5. StoreBody' = BodyIn(index', data')
  BY <1>3 DEF StoreBody, BodyIn, OwnsData, IsUnlinked
<1>6. QED BY <1>1, <1>2, <1>4, <1>5

(* When names are unique, the paths lead to the files with their names. *)
LEMMA FileOn ==
  ASSUME NEW ix, NamesOK(Tidy, ix)
  PROVE  /\ \A i \in Slots : \A p : HasFile(ix, i, p) => p \in DOMAIN FilesIn(ix) /\ FilesIn(ix)[p] = i
         /\ \A p \in DOMAIN FilesIn(ix) : FilesIn(ix)[p] \in Slots /\ HasFile(ix, FilesIn(ix)[p], p)
<1>1. HeadsWhole(ix) /\ Once(ix)
  BY DEF NamesOK, Tidy
<1>2. ASSUME NEW i \in Slots, NEW p, HasFile(ix, i, p)
      PROVE  p \in DOMAIN FilesIn(ix) /\ FilesIn(ix)[p] = i
  <2>1. p \in DOMAIN FilesIn(ix) /\ FilesIn(ix)[p] = search_file(ix, p)
    BY <1>2 DEF FilesIn, HasFile
  <2>2. /\ search_file(ix, p) \in Slots
        /\ HasFile(ix, search_file(ix, p), p)
    BY <1>1, <1>2, SearchFile DEF HasFile
  <2>3. search_file(ix, p) = i
    BY <1>1, <1>2, <2>2 DEF Once, HasFile, IsSeen
  <2>4. QED BY <2>1, <2>3
<1>3. ASSUME NEW p \in DOMAIN FilesIn(ix)
      PROVE  FilesIn(ix)[p] \in Slots /\ HasFile(ix, FilesIn(ix)[p], p)
  <2>1. PICK i \in Slots : HasFile(ix, i, p)
    BY <1>3 DEF FilesIn, HasFile
  <2>2. QED BY <1>2, <2>1
<1>4. QED BY <1>2, <1>3

(* The files of an index are a function of their paths.                     *)
LEMMA FilesFun == ASSUME NEW ix PROVE FilesIn(ix) = [p \in DOMAIN FilesIn(ix) |-> FilesIn(ix)[p]]
  BY DEF FilesIn

(* A file is created, *)
LEMMA FilesPut ==
  ASSUME NEW ix, NamesOK(Tidy, ix), NEW jx, NamesOK(Tidy, jx), NEW n \in Slots, NEW p,
         HasFile(jx, n, p), \A i \in Slots : ~HasFile(ix, i, p), ix[n].entry_type # "FILE_ENTRY",
         \A i \in Slots \ {n} : \A q : HasFile(ix, i, q) <=> HasFile(jx, i, q)
  PROVE  FilesIn(jx) = Store!Put(FilesIn(ix), p, n)
<1> DEFINE F == FilesIn(ix)
           G == FilesIn(jx)
<1>1. /\ \A i \in Slots : \A q : HasFile(ix, i, q) => q \in DOMAIN F /\ F[q] = i
      /\ \A q \in DOMAIN F : F[q] \in Slots /\ HasFile(ix, F[q], q)
  BY FileOn
<1>2. /\ \A i \in Slots : \A q : HasFile(jx, i, q) => q \in DOMAIN G /\ G[q] = i
      /\ \A q \in DOMAIN G : G[q] \in Slots /\ HasFile(jx, G[q], q)
  BY FileOn
<1>3. G = [q \in DOMAIN G |-> G[q]]
  BY FilesFun
<1> HIDE DEF F, G
<1>4. p \in DOMAIN G /\ G[p] = n
  BY <1>2
<1>5. ASSUME NEW q, q # p PROVE q \in DOMAIN G <=> q \in DOMAIN F
  <2>1. ASSUME q \in DOMAIN G PROVE q \in DOMAIN F
    <3>1. G[q] # n
      BY <1>2, <1>5, <2>1 DEF HasFile
    <3>2. QED BY <1>1, <1>2, <2>1, <3>1
  <2>2. ASSUME q \in DOMAIN F PROVE q \in DOMAIN G
    <3>1. F[q] # n
      BY <1>1, <2>2 DEF HasFile
    <3>2. QED BY <1>1, <1>2, <2>2, <3>1
  <2>3. QED BY <2>1, <2>2
<1>6. ASSUME NEW q \in DOMAIN F PROVE G[q] = F[q]
  <2>1. F[q] # n /\ HasFile(ix, F[q], q) /\ F[q] \in Slots
    BY <1>1 DEF HasFile
  <2>2. QED BY <1>2, <2>1
<1>7. DOMAIN G = DOMAIN F \cup {p} /\ p \notin DOMAIN F
  BY <1>1, <1>4, <1>5
<1>8. G = [q \in DOMAIN F \cup {p} |-> IF q = p THEN n ELSE F[q]]
  BY <1>3, <1>4, <1>6, <1>7
<1>9. QED BY <1>8 DEF Store!Put, F, G

(* is removed, *)
LEMMA FilesDrop ==
  ASSUME NEW ix, NamesOK(Tidy, ix), NEW jx, NamesOK(Tidy, jx), NEW n \in Slots, NEW p,
         HasFile(ix, n, p), jx[n].entry_type # "FILE_ENTRY",
         \A i \in Slots \ {n} : \A q : HasFile(ix, i, q) <=> HasFile(jx, i, q)
  PROVE  FilesIn(jx) = Store!Drop(FilesIn(ix), p)
<1> DEFINE F == FilesIn(ix)
           G == FilesIn(jx)
<1>1. /\ \A i \in Slots : \A q : HasFile(ix, i, q) => q \in DOMAIN F /\ F[q] = i
      /\ \A q \in DOMAIN F : F[q] \in Slots /\ HasFile(ix, F[q], q)
  BY FileOn
<1>2. /\ \A i \in Slots : \A q : HasFile(jx, i, q) => q \in DOMAIN G /\ G[q] = i
      /\ \A q \in DOMAIN G : G[q] \in Slots /\ HasFile(jx, G[q], q)
  BY FileOn
<1>3. G = [q \in DOMAIN G |-> G[q]]
  BY FilesFun
<1> HIDE DEF F, G
<1>4. p \in DOMAIN F /\ F[p] = n
  BY <1>1
<1>5. ASSUME NEW q \in DOMAIN G PROVE q # p /\ q \in DOMAIN F /\ F[q] = G[q]
  <2>1. G[q] # n /\ G[q] \in Slots /\ HasFile(jx, G[q], q)
    BY <1>2 DEF HasFile
  <2>2. HasFile(ix, G[q], q)
    BY <2>1
  <2>3. q \in DOMAIN F /\ F[q] = G[q]
    BY <1>1, <2>1, <2>2
  <2>4. QED BY <1>4, <2>1, <2>3
<1>6. ASSUME NEW q \in DOMAIN F, q # p PROVE q \in DOMAIN G
  <2>1. F[q] # n /\ F[q] \in Slots /\ HasFile(ix, F[q], q)
    BY <1>1, <1>6 DEF HasFile
  <2>2. QED BY <1>2, <2>1
<1>7. DOMAIN G = DOMAIN F \ {p}
  BY <1>5, <1>6
<1>8. G = [q \in DOMAIN F \ {p} |-> F[q]]
  BY <1>3, <1>5, <1>7
<1>9. QED BY <1>8 DEF Store!Drop, F, G

(* or neither. *)
LEMMA FilesSame ==
  ASSUME NEW ix, NamesOK(Tidy, ix), NEW jx, NamesOK(Tidy, jx),
         \A i \in Slots : \A q : HasFile(ix, i, q) <=> HasFile(jx, i, q)
  PROVE  FilesIn(jx) = FilesIn(ix)
<1> DEFINE F == FilesIn(ix)
           G == FilesIn(jx)
<1>1. /\ \A i \in Slots : \A q : HasFile(ix, i, q) => q \in DOMAIN F /\ F[q] = i
      /\ \A q \in DOMAIN F : F[q] \in Slots /\ HasFile(ix, F[q], q)
  BY FileOn
<1>2. /\ \A i \in Slots : \A q : HasFile(jx, i, q) => q \in DOMAIN G /\ G[q] = i
      /\ \A q \in DOMAIN G : G[q] \in Slots /\ HasFile(jx, G[q], q)
  BY FileOn
<1>3. G = [q \in DOMAIN G |-> G[q]] /\ F = [q \in DOMAIN F |-> F[q]]
  BY FilesFun
<1> HIDE DEF F, G
<1>4. DOMAIN F = DOMAIN G /\ \A q \in DOMAIN G : G[q] = F[q]
  BY <1>1, <1>2
<1>5. F = G
  BY <1>3, <1>4
<1>6. QED BY <1>5 DEF F, G

(* The bytes of a file are where they were, or it has none. *)
LEMMA BytesSame ==
  ASSUME NEW ix, NEW jx, NEW d, NEW f, jx[f].size = ix[f].size, jx[f].start_block = ix[f].start_block
  PROVE  BytesIn(jx, d, f) = BytesIn(ix, d, f)
  BY DEF BytesIn, Spot

(* An empty file has no bytes.                                              *)
LEMMA NoBytes ==
  ASSUME NEW ix, NEW d, NEW f, ix[f].size = 0
  PROVE  BytesIn(ix, d, f) = <<>>
<1>1. BytesIn(ix, d, f) = [k \in 1..0 |-> d[Spot(ix[f], k)]]
  BY DEF BytesIn
<1>2. 1..0 = {} /\ <<>> = [k \in {} |-> d[Spot(ix[f], k)]]
  OBVIOUS
<1>3. QED BY <1>1, <1>2

(* The files that are there before and after are the same. *)
LEMMA BodySame ==
  ASSUME NEW ix, NEW jx, NEW d,
         \A i \in Slots : /\ OwnsData(jx[i]) <=> OwnsData(ix[i])
                          /\ OwnsData(ix[i]) => jx[i].size = ix[i].size /\ jx[i].start_block = ix[i].start_block
  PROVE  BodyIn(jx, d) = BodyIn(ix, d)
<1>1. {i \in Slots : OwnsData(jx[i])} = {i \in Slots : OwnsData(ix[i])}
  OBVIOUS
<1>2. \A f \in {i \in Slots : OwnsData(ix[i])} : BytesIn(jx, d, f) = BytesIn(ix, d, f)
  BY BytesSame
<1>3. QED BY <1>1, <1>2 DEF BodyIn

(* A file comes, *)
LEMMA BodyPut ==
  ASSUME NEW ix, NEW jx, NEW d, NEW n \in Slots, ~OwnsData(ix[n]), OwnsData(jx[n]),
         \A i \in Slots \ {n} : OwnsData(jx[i]) \/ OwnsData(ix[i]) => jx[i] = ix[i]
  PROVE  BodyIn(jx, d) = Store!Put(BodyIn(ix, d), n, BytesIn(jx, d, n))
<1> DEFINE H == {i \in Slots : OwnsData(ix[i])}
           G == {i \in Slots : OwnsData(jx[i])}
           B == BodyIn(ix, d)
<1>1. G = H \cup {n} /\ n \notin H
  OBVIOUS
<1>2. \A f \in H : BytesIn(jx, d, f) = BytesIn(ix, d, f)
  BY BytesSame
<1>3. DOMAIN B = H /\ \A f \in H : B[f] = BytesIn(ix, d, f)
  BY DEF BodyIn
<1>4. BodyIn(jx, d) = [f \in G |-> BytesIn(jx, d, f)]
  BY DEF BodyIn
<1> HIDE DEF H, G, B
<1>5. BodyIn(jx, d) = [f \in DOMAIN B \cup {n} |-> IF f = n THEN BytesIn(jx, d, n) ELSE B[f]]
  BY <1>1, <1>2, <1>3, <1>4
<1>6. QED BY <1>5 DEF Store!Put, B

(* or goes. *)
LEMMA BodyDrop ==
  ASSUME NEW ix, NEW jx, NEW d, NEW n \in Slots, OwnsData(ix[n]), ~OwnsData(jx[n]),
         \A i \in Slots \ {n} : OwnsData(jx[i]) \/ OwnsData(ix[i]) => jx[i] = ix[i]
  PROVE  BodyIn(jx, d) = Store!Drop(BodyIn(ix, d), n)
<1> DEFINE H == {i \in Slots : OwnsData(ix[i])}
           G == {i \in Slots : OwnsData(jx[i])}
           B == BodyIn(ix, d)
<1>1. G = H \ {n}
  OBVIOUS
<1>2. \A f \in G : BytesIn(jx, d, f) = BytesIn(ix, d, f)
  BY BytesSame
<1>3. DOMAIN B = H /\ \A f \in H : B[f] = BytesIn(ix, d, f)
  BY DEF BodyIn
<1>4. BodyIn(jx, d) = [f \in G |-> BytesIn(jx, d, f)]
  BY DEF BodyIn
<1> HIDE DEF H, G, B
<1>5. BodyIn(jx, d) = [f \in DOMAIN B \ {n} |-> B[f]]
  BY <1>1, <1>2, <1>3, <1>4
<1>6. QED BY <1>5 DEF Store!Drop, B

(* The directories of an index, when they are named otherwise. *)
LEMMA DirOn ==
  ASSUME NEW ix
  PROVE  \A p : p \in DirsIn(ix) <=> DirNamed(ix, p)
  BY DEF DirsIn, DirNamed

(* The same directories under other entries are the same set of paths.      *)
LEMMA DirsKept ==
  ASSUME NEW ix, NEW jx, SameDirs(jx, ix)
  PROVE  DirsIn(jx) = DirsIn(ix)
  BY DEF DirsIn, SameDirs

(* The names of files are paths of files. *)
FilesNamed(ix) == \A i \in Slots : ix[i].entry_type = "FILE_ENTRY" => ix[i].name \in FilePaths

(* A new name: its entries hold nothing before, and one head after. *)
LEMMA NamedHeads ==
  ASSUME NEW jx, NEW ix, NEW new \in Slots, NEW x, Named(jx, ix, new, x)
  PROVE  /\ jx[new] = x /\ ix[new].entry_type = "UNUSED_ENTRY"
         /\ ~IsFile(ix[new]) /\ ~IsHead(ix[new])
         /\ \A i \in Slots \ {new} : IsHead(ix[i]) \/ IsHead(jx[i]) \/ IsFile(ix[i]) \/ IsFile(jx[i]) => jx[i] = ix[i]
<1>1. new \in new..(new + x.cont_entries)
  BY SfsAssumption DEF Named, Slots
<1>2. ix[new].entry_type = "UNUSED_ENTRY" /\ jx[new] = x
  BY <1>1 DEF Named
<1>3. \A e : e.entry_type \in {"UNUSED_ENTRY", "CONT"} => ~IsHead(e) /\ ~IsFile(e)
  BY DEF IsHead, IsFile, OwnsData, IsUnlinked
<1>4. ASSUME NEW i \in Slots \ {new}, jx[i] # ix[i]
      PROVE  ~IsHead(ix[i]) /\ ~IsHead(jx[i]) /\ ~IsFile(ix[i]) /\ ~IsFile(jx[i])
  <2>1. i \in (new + 1)..(new + x.cont_entries) /\ jx[i] = ContEntry(x.name, i - new)
    BY <1>4 DEF Named
  <2>2. i \in new..(new + x.cont_entries)
    BY <2>1, SfsAssumption DEF Slots
  <2>3. ix[i].entry_type = "UNUSED_ENTRY"
    BY <2>2 DEF Named
  <2>4. QED BY <1>3, <2>1, <2>3, ContFields
<1>5. QED BY <1>2, <1>3, <1>4

(* A freed name: one head before, none after. *)
LEMMA UnnamedHeads ==
  ASSUME NEW tidy, NEW u, InOrder(tidy, u), NEW f \in Slots, NEW jx, Unnamed(jx, u.index, f)
  PROVE  /\ ~IsFile(jx[f]) /\ ~IsHead(jx[f])
         /\ \A i \in Slots \ {f} : LET e == u.index[i]
                                   IN  IsHead(e) \/ IsHead(jx[i]) \/ IsFile(e) \/ IsFile(jx[i]) => jx[i] = e
<1> DEFINE ix == u.index
           R  == f..(f + Conts(ix, f))
<1>1. HeadsWhole(ix) /\ IsHead(ix[f]) /\ Conts(ix, f) \in Nat
  BY OrderShaped DEF InOrder, NamesOK, Unnamed
<1>2. f \in R /\ \A i \in R : i # f => ix[i] = ContEntry(ix[f].name, i - f)
  BY <1>1, RangeOfName
<1>3. \A i \in Slots : jx[i] = IF i \in R THEN UnusedEntry ELSE ix[i]
  BY DEF Unnamed
<1> HIDE DEF R
<1>4. \A e : e.entry_type \in {"UNUSED_ENTRY", "CONT"} => ~IsHead(e) /\ ~IsFile(e)
  BY DEF IsHead, IsFile, OwnsData, IsUnlinked
<1>5. ~IsHead(UnusedEntry) /\ ~IsFile(UnusedEntry)
  BY <1>4, UnusedFields
<1>6. \A i \in R : i # f => ~IsHead(ix[i]) /\ ~IsFile(ix[i])
  BY <1>2, <1>4, ContFields
<1>7. QED BY <1>2, <1>3, <1>5, <1>6

(* What the steps of the store start from. *)
StoreInv == IInv(Tidy) /\ SP!IInv /\ FilesNamed(index)

(* What the invariant says of the index before and after a call.            *)
LEMMA StoreParts ==
  /\ fs.index = index /\ fs' = [index |-> index', del_begin |-> del_begin']
  /\ IInv(Tidy) => InOrder(Tidy, fs) /\ data \in Contents /\ NamesOK(Tidy, index)
  /\ IInv(Tidy)' => NamesOK(Tidy, index')
<1>1. fs.index = index /\ fs' = [index |-> index', del_begin |-> del_begin']
  BY DEF fs
<1>2. IInv(Tidy) => InOrder(Tidy, fs) /\ data \in Contents /\ NamesOK(Tidy, index)
  BY <1>1 DEF IInv, InOrder, Contents
<1>3. IInv(Tidy)' => NamesOK(Tidy, index')
  <2>1. IInv(Tidy)' => InOrder(Tidy, fs')
    BY DEF IInv
  <2>2. fs'.index = index'
    BY <1>1
  <2>3. QED BY <2>1, <2>2 DEF InOrder
<1>4. QED BY <1>1, <1>2, <1>3

(* Files and heads are told apart by their types. *)
LEMMA TypesOfHeads ==
  ASSUME NEW e
  PROVE  /\ e.entry_type = "FILE_ENTRY" => IsHead(e) /\ IsFile(e) /\ OwnsData(e) /\ ~IsUnlinked(e)
         /\ e.entry_type = "DIR_ENTRY" => IsHead(e) /\ ~IsFile(e)
         /\ OwnsData(e) => IsFile(e)
         /\ IsUnlinked(e) => e.entry_type \notin {"FILE_ENTRY", "DIR_ENTRY"} /\ OwnsData(e)
  BY Kinds DEF IsHead, IsFile, OwnsData, IsUnlinked

(* sfs_creat() *)
LEMMA CreatStored ==
  ASSUME StoreInv, IInv(Tidy)', NEW p \in FilePaths, Creat(p)
  PROVE  (\E i \in Slots : Store!Creat(p, i)) /\ FilesNamed(index')
<1>1. InOrder(Tidy, fs) /\ NamesOK(Tidy, index) /\ NamesOK(Tidy, index') /\ fs.index = index
  BY StoreParts DEF StoreInv
<1>2. PICK n \in Slots : \E x : /\ Named(index', index, n, x) /\ x.entry_type = "FILE_ENTRY"
                                /\ x.name = p /\ x.size = 0
  BY <1>1, CreatOrder
<1>3. PICK x : /\ Named(index', index, n, x) /\ x.entry_type = "FILE_ENTRY" /\ x.name = p /\ x.size = 0
  BY <1>2
<1>4. search_dir(index, p) = 0 /\ data' = data
  BY DEF Creat, sfs_creat
<1>5. /\ index'[n] = x /\ index[n].entry_type = "UNUSED_ENTRY" /\ ~IsFile(index[n]) /\ ~IsHead(index[n])
      /\ \A i \in Slots \ {n} :
            IsHead(index[i]) \/ IsHead(index'[i]) \/ IsFile(index[i]) \/ IsFile(index'[i]) => index'[i] = index[i]
  <2>1. Named(index', index, n, x)
    BY <1>3
  <2>2. QED BY <2>1, NamedHeads
<1>6. p \notin DOMAIN FilesIn(index) /\ \A i \in Slots : ~HasFile(index, i, p)
  <2>1. \A i \in Slots : ~HasFile(index, i, p)
    BY <1>3 DEF Named, HasFile
  <2>2. QED BY <1>1, <2>1, FileOn
<1>7. p \notin DirsIn(index)
  <2>1. ~DirNamed(index, p)
    BY <1>1, <1>4, SearchDir DEF NamesOK
  <2>2. QED BY <2>1, DirOn
<1>8. Ancestors(p) \subseteq DirsIn(index)
  BY <1>3, DirOn DEF Named
<1>9. DirsIn(index') = DirsIn(index)
  <2>1. SameDirs(index', index)
    BY <1>3, <1>5, TypesOfHeads DEF SameDirs
  <2>2. QED BY <2>1, DirsKept
<1>10. FilesIn(index') = Store!Put(FilesIn(index), p, n)
  <2>1. HasFile(index', n, p) /\ index[n].entry_type # "FILE_ENTRY"
    BY <1>3, <1>5 DEF HasFile
  <2>2. \A i \in Slots \ {n} : \A q : HasFile(index, i, q) <=> HasFile(index', i, q)
    BY <1>5, TypesOfHeads DEF HasFile
  <2>3. QED BY <1>1, <1>6, <2>1, <2>2, FilesPut
<1>11. BodyIn(index', data') = Store!Put(BodyIn(index, data), n, <<>>)
  <2>1. OwnsData(index'[n]) /\ ~OwnsData(index[n])
    BY <1>3, <1>5, TypesOfHeads
  <2>2. BytesIn(index', data, n) = <<>>
    BY <1>3, <1>5, NoBytes
  <2>3. \A i \in Slots \ {n} : OwnsData(index'[i]) \/ OwnsData(index[i]) => index'[i] = index[i]
    BY <1>5, TypesOfHeads
  <2>4. QED BY <1>4, <2>1, <2>2, <2>3, BodyPut
<1>12. n \notin DOMAIN BodyIn(index, data)
  BY <1>5, TypesOfHeads DEF BodyIn
<1>13. Store!Creat(p, n)
  BY <1>6, <1>7, <1>8, <1>9, <1>10, <1>11, <1>12, StoreIs DEF Store!Creat, Store!HasParents
<1>14. FilesNamed(index')
  <2>1. ASSUME NEW i \in Slots, index'[i].entry_type = "FILE_ENTRY" PROVE index'[i].name \in FilePaths
    BY <1>3, <1>5, <2>1, TypesOfHeads DEF StoreInv, FilesNamed
  <2>2. QED BY <2>1 DEF FilesNamed
<1>15. QED BY <1>13, <1>14

(* sfs_mkdir() *)
LEMMA MkdirStored ==
  ASSUME StoreInv, IInv(Tidy)', NEW p \in DirPaths, Mkdir(p)
  PROVE  Store!Mkdir(p) /\ FilesNamed(index')
<1>1. InOrder(Tidy, fs) /\ NamesOK(Tidy, index) /\ NamesOK(Tidy, index') /\ fs.index = index
  BY StoreParts DEF StoreInv
<1>2. PICK n \in Slots : \E x : Named(index', index, n, x) /\ x.entry_type = "DIR_ENTRY" /\ x.name = p
  BY <1>1, MkdirOrder
<1>3. PICK x : Named(index', index, n, x) /\ x.entry_type = "DIR_ENTRY" /\ x.name = p
  BY <1>2
<1>4. data' = data
  BY DEF Mkdir
<1>5. /\ index'[n] = x /\ index[n].entry_type = "UNUSED_ENTRY" /\ ~IsFile(index[n]) /\ ~IsHead(index[n])
      /\ \A i \in Slots \ {n} :
            IsHead(index[i]) \/ IsHead(index'[i]) \/ IsFile(index[i]) \/ IsFile(index'[i]) => index'[i] = index[i]
  BY <1>3, NamedHeads
<1>6. p \notin DirsIn(index)
  <2>1. ~DirNamed(index, p)
    BY <1>3 DEF Named, DirNamed
  <2>2. QED BY <2>1, DirOn
<1>7. Ancestors(p) \subseteq DirsIn(index)
  BY <1>3, DirOn DEF Named
<1>8. DirsIn(index') = DirsIn(index) \cup {p}
  <2>1. \A q : DirNamed(index', q) <=> DirNamed(index, q) \/ q = p
    BY <1>3, <1>5, TypesOfHeads DEF DirNamed
  <2>2. \A q : q \in DirsIn(index') <=> q \in DirsIn(index) \/ q = p
    BY <2>1, DirOn
  <2>3. QED BY <2>2
<1>9. /\ ~IsFile(index'[n]) /\ index'[n].entry_type # "FILE_ENTRY"
  BY <1>3, <1>5, TypesOfHeads
<1>10. FilesIn(index') = FilesIn(index)
  <2>1. \A i \in Slots : \A q : HasFile(index, i, q) <=> HasFile(index', i, q)
    BY <1>5, <1>9, TypesOfHeads DEF HasFile
  <2>2. QED BY <1>1, <2>1, FilesSame
<1>11. BodyIn(index', data') = BodyIn(index, data)
  <2>1. \A i \in Slots : /\ OwnsData(index'[i]) <=> OwnsData(index[i])
                         /\ OwnsData(index[i]) => index'[i] = index[i]
    BY <1>5, <1>9, TypesOfHeads
  <2>2. QED BY <1>4, <2>1, BodySame
<1>12. Store!Mkdir(p)
  BY <1>6, <1>7, <1>8, <1>10, <1>11, StoreIs DEF Store!Mkdir, Store!HasParents
<1>13. FilesNamed(index')
  <2>1. ASSUME NEW i \in Slots, index'[i].entry_type = "FILE_ENTRY" PROVE index'[i].name \in FilePaths
    BY <1>5, <1>9, <2>1, TypesOfHeads DEF StoreInv, FilesNamed
  <2>2. QED BY <2>1 DEF FilesNamed
<1>14. QED BY <1>12, <1>13

(* sfs_rmdir() *)
LEMMA RmdirStored ==
  ASSUME StoreInv, IInv(Tidy)', NEW p \in DirPaths, Rmdir(p)
  PROVE  Store!Rmdir(p) /\ FilesNamed(index')
<1>1. InOrder(Tidy, fs) /\ NamesOK(Tidy, index) /\ NamesOK(Tidy, index') /\ fs.index = index
  BY StoreParts DEF StoreInv
<1>2. PICK f \in Slots : index[f].entry_type = "DIR_ENTRY" /\ Unnamed(index', index, f) /\ index[f].name = p
  BY <1>1, RmdirOrder
<1>3. data' = data
  BY DEF Rmdir
<1>4. /\ ~IsFile(index'[f]) /\ ~IsHead(index'[f])
      /\ \A i \in Slots \ {f} :
            IsHead(index[i]) \/ IsHead(index'[i]) \/ IsFile(index[i]) \/ IsFile(index'[i]) => index'[i] = index[i]
  BY <1>1, <1>2, UnnamedHeads
<1>5. ~IsFile(index[f]) /\ index'[f].entry_type \notin {"FILE_ENTRY", "DIR_ENTRY"}
  BY <1>2, <1>4, TypesOfHeads
<1>6. p \in DirsIn(index)
  BY <1>2, DirOn DEF DirNamed
<1>7. ASSUME NEW q \in DOMAIN FilesIn(index) \cup DirsIn(index) PROVE p \notin Ancestors(q)
  <2>1. PICK i \in Slots : IsSeen(index[i]) /\ index[i].name = q
    <3>1. CASE q \in DOMAIN FilesIn(index)
      BY <1>1, <3>1, FileOn DEF HasFile, IsSeen
    <3>2. CASE q \in DirsIn(index)
      BY <3>2, DirOn DEF DirNamed, IsSeen
    <3>3. QED BY <1>7, <3>1, <3>2
  <2>2. QED BY <1>2, <2>1 DEF Unnamed
<1>8. DirsIn(index') = DirsIn(index) \ {p}
  <2>1. ASSUME NEW q PROVE DirNamed(index', q) <=> DirNamed(index, q) /\ q # p
    <3>1. ASSUME NEW i \in Slots, index'[i].entry_type = "DIR_ENTRY" PROVE index'[i] = index[i] /\ index[i].name # p
      <4>1. i # f /\ index'[i] = index[i]
        BY <1>4, <1>5, <3>1, TypesOfHeads
      <4>2. index[i].name # p
        BY <1>1, <1>2, <3>1, <4>1 DEF NamesOK, Tidy, Once, IsSeen
      <4>3. QED BY <4>1, <4>2
    <3>2. ASSUME NEW i \in Slots, index[i].entry_type = "DIR_ENTRY", index[i].name # p PROVE index'[i] = index[i]
      BY <1>2, <1>4, <3>2, TypesOfHeads
    <3>3. QED BY <3>1, <3>2 DEF DirNamed
  <2>2. \A q : q \in DirsIn(index') <=> q \in DirsIn(index) /\ q # p
    BY <2>1, DirOn
  <2>3. QED BY <2>2
<1>9. FilesIn(index') = FilesIn(index)
  <2>1. \A i \in Slots : \A q : HasFile(index, i, q) <=> HasFile(index', i, q)
    BY <1>2, <1>4, <1>5, TypesOfHeads DEF HasFile
  <2>2. QED BY <1>1, <2>1, FilesSame
<1>10. BodyIn(index', data') = BodyIn(index, data)
  <2>1. \A i \in Slots : /\ OwnsData(index'[i]) <=> OwnsData(index[i])
                         /\ OwnsData(index[i]) => index'[i] = index[i]
    BY <1>4, <1>5, TypesOfHeads
  <2>2. QED BY <1>3, <2>1, BodySame
<1>11. Store!Rmdir(p)
  BY <1>6, <1>7, <1>8, <1>9, <1>10, StoreIs DEF Store!Rmdir
<1>12. FilesNamed(index')
  <2>1. ASSUME NEW i \in Slots, index'[i].entry_type = "FILE_ENTRY" PROVE index'[i].name \in FilePaths
    BY <1>4, <1>5, <2>1, TypesOfHeads DEF StoreInv, FilesNamed
  <2>2. QED BY <2>1 DEF FilesNamed
<1>13. QED BY <1>11, <1>12

(* sfs_unlink() *)
LEMMA UnlinkStored ==
  ASSUME StoreInv, IInv(Tidy)', NEW p \in FilePaths, Unlink(p)
  PROVE  Store!Unlink(p) /\ FilesNamed(index')
<1>1. /\ InOrder(Tidy, fs) /\ NamesOK(Tidy, index) /\ NamesOK(Tidy, index') /\ fs.index = index
      /\ fs.del_begin = del_begin
  BY StoreParts DEF StoreInv, fs
<1> DEFINE f == search_file(index, p)
<1>2. f # 0 /\ index' = sfs_unlink(index, p) /\ data' = data
  BY DEF Unlink
<1>3. f \in Slots /\ HasFile(index, f, p)
  BY <1>1, <1>2, SearchFile DEF NamesOK, HasFile
<1>4. /\ index'[f] = [index[f] EXCEPT !.entry_type = "DEL_FILE_ENTRY"]
      /\ \A i \in Slots : i # f => index'[i] = index[i]
  <2>1. index = [i \in Offsets |-> index[i]] /\ Slots \subseteq Offsets
    BY <1>1, OrderShaped, SfsAssumption DEF State, Slots, Offsets
  <2> HIDE DEF f
  <2>2. sfs_unlink(index, p) = [index EXCEPT ![f].entry_type = "DEL_FILE_ENTRY"]
    BY DEF sfs_unlink, f
  <2>3. QED BY <1>2, <1>3, <2>1, <2>2
<1>5. IsUnlinked(index'[f])
  <2> DEFINE v == Reindexed(fs, sfs_unlink(fs.index, p))
  <2>1. v.index = index' /\ IsUnlinked(v.index[f])
    BY <1>1, <1>2, UnlinkedFile
  <2>2. QED BY <2>1
<1>6. index[f] \in Entries
  BY <1>1, <1>3, OrderShaped, SfsAssumption DEF State, Slots, Offsets
<1> HIDE DEF f
<1>7. index'[f].size = index[f].size /\ index'[f].start_block = index[f].start_block
  BY <1>4, <1>6 DEF Entries
<1>8. OwnsData(index[f]) /\ OwnsData(index'[f])
  BY <1>3, <1>5, TypesOfHeads DEF HasFile
<1>9. p \in DOMAIN FilesIn(index)
  BY <1>1, <1>3, FileOn
<1>10. FilesIn(index') = Store!Drop(FilesIn(index), p)
  <2>1. index'[f].entry_type # "FILE_ENTRY"
    BY <1>5, TypesOfHeads
  <2>2. \A i \in Slots \ {f} : \A q : HasFile(index, i, q) <=> HasFile(index', i, q)
    BY <1>4 DEF HasFile
  <2>3. QED BY <1>1, <1>3, <2>1, <2>2, FilesDrop
<1>11. DirsIn(index') = DirsIn(index)
  <2>1. index[f].entry_type # "DIR_ENTRY" /\ index'[f].entry_type # "DIR_ENTRY"
    BY <1>3, <1>5, TypesOfHeads DEF HasFile
  <2>2. SameDirs(index', index)
    BY <1>4, <2>1 DEF SameDirs
  <2>3. QED BY <2>2, DirsKept
<1>12. BodyIn(index', data') = BodyIn(index, data)
  <2>1. \A i \in Slots : /\ OwnsData(index'[i]) <=> OwnsData(index[i])
                         /\ index'[i].size = index[i].size /\ index'[i].start_block = index[i].start_block
    BY <1>4, <1>7, <1>8
  <2>2. QED BY <1>2, <2>1, BodySame
<1>13. Store!Unlink(p)
  BY <1>9, <1>10, <1>11, <1>12, StoreIs DEF Store!Unlink
<1>14. FilesNamed(index')
  <2>1. ASSUME NEW i \in Slots, index'[i].entry_type = "FILE_ENTRY" PROVE index'[i].name \in FilePaths
    BY <1>4, <1>5, <2>1, TypesOfHeads DEF StoreInv, FilesNamed
  <2>2. QED BY <2>1 DEF FilesNamed
<1>15. QED BY <1>13, <1>14

(* sfs_delete() *)
LEMMA DeleteStored ==
  ASSUME StoreInv, IInv(Tidy)', NEW f \in Slots, Delete(f)
  PROVE  Store!Delete(f) /\ FilesNamed(index')
<1>1. InOrder(Tidy, fs) /\ NamesOK(Tidy, index) /\ NamesOK(Tidy, index')
  BY StoreParts DEF StoreInv
<1>2. Spared(index', index, {f}) /\ ~OwnsData(index'[f]) /\ SameDirs(index', index)
  BY <1>1, DeleteOrder
<1>3. IsUnlinked(index[f]) /\ data' = data
  BY DEF Delete
<1>4. /\ index[f].entry_type # "FILE_ENTRY" /\ index'[f].entry_type # "FILE_ENTRY"
      /\ OwnsData(index[f])
  BY <1>2, <1>3, TypesOfHeads, Kinds
<1>5. \A i \in Slots : index[i].entry_type = "FILE_ENTRY" \/ index'[i].entry_type = "FILE_ENTRY" => index'[i] = index[i]
  BY <1>2, <1>4, TypesOfHeads DEF Spared
<1>6. FilesIn(index') = FilesIn(index)
  <2>1. \A i \in Slots : \A q : HasFile(index, i, q) <=> HasFile(index', i, q)
    BY <1>5 DEF HasFile
  <2>2. QED BY <1>1, <2>1, FilesSame
<1>7. DirsIn(index') = DirsIn(index)
  BY <1>2, DirsKept
<1>8. BodyIn(index', data') = Store!Drop(BodyIn(index, data), f)
  <2>1. \A i \in Slots \ {f} : OwnsData(index'[i]) \/ OwnsData(index[i]) => index'[i] = index[i]
    BY <1>2 DEF Spared
  <2>2. QED BY <1>2, <1>3, <1>4, <2>1, BodyDrop
<1>9. f \in DOMAIN BodyIn(index, data)
  BY <1>4 DEF BodyIn
<1>10. \A p \in DOMAIN FilesIn(index) : FilesIn(index)[p] # f
  BY <1>1, <1>4, FileOn DEF HasFile
<1>11. Store!Delete(f)
  BY <1>6, <1>7, <1>8, <1>9, <1>10, StoreIs DEF Store!Delete, Store!Named
<1>12. FilesNamed(index')
  BY <1>5 DEF StoreInv, FilesNamed
<1>13. QED BY <1>11, <1>12

(* sfs_rename(): the file moves to another entry. *)
LEMMA RenameStored ==
  ASSUME StoreInv, IInv(Tidy)', NEW f \in Slots, NEW q \in FilePaths, SafeRename(f, q)
  PROVE  (\E p \in FilePaths, j \in Slots : Store!Rename(p, q, j)) /\ FilesNamed(index')
<1>1. /\ InOrder(Tidy, fs) /\ NamesOK(Tidy, index) /\ NamesOK(Tidy, index') /\ fs.index = index
  BY StoreParts DEF StoreInv
<1>2. /\ index[f].entry_type = "FILE_ENTRY" /\ index[f].start_block = 0
      /\ \E jx, x : \E new \in Slots :
               /\ Unnamed(jx, index, f) /\ Named(index', jx, new, x) /\ NamesOK(Tidy, jx)
               /\ x.entry_type = "FILE_ENTRY" /\ x.name = q /\ x.size = 0
               /\ \A i \in new..(new + x.cont_entries) : index[i].entry_type = "UNUSED_ENTRY"
  BY <1>1, RenameOrder
<1>3. PICK jx, x : \E new \in Slots :
               /\ Unnamed(jx, index, f) /\ Named(index', jx, new, x) /\ NamesOK(Tidy, jx)
               /\ x.entry_type = "FILE_ENTRY" /\ x.name = q /\ x.size = 0
               /\ \A i \in new..(new + x.cont_entries) : index[i].entry_type = "UNUSED_ENTRY"
  BY <1>2
<1>4. PICK new \in Slots :
               /\ Unnamed(jx, index, f) /\ Named(index', jx, new, x) /\ NamesOK(Tidy, jx)
               /\ x.entry_type = "FILE_ENTRY" /\ x.name = q /\ x.size = 0
               /\ \A i \in new..(new + x.cont_entries) : index[i].entry_type = "UNUSED_ENTRY"
  BY <1>3
<1>5. /\ search_dir(index, q) = 0 /\ search_file(index, q) = 0 /\ data' = data
      /\ check_dirs(index, q)
  <2>1. sfs_rename(fs, f, q).off # 0 /\ data' = data
    BY DEF SafeRename, Rename
  <2>2. search_dir(index, q) = 0 /\ search_file(index, q) = 0 /\ check_dirs(index, q)
    BY <1>1, <2>1 DEF sfs_rename
  <2>3. QED BY <2>1, <2>2
<1> DEFINE p == index[f].name
<1>6. p \in FilePaths /\ HasFile(index, f, p)
  BY <1>2 DEF StoreInv, FilesNamed, HasFile
<1>7. /\ ~IsFile(jx[f]) /\ ~IsHead(jx[f])
      /\ \A i \in Slots \ {f} :
            IsHead(index[i]) \/ IsHead(jx[i]) \/ IsFile(index[i]) \/ IsFile(jx[i]) => jx[i] = index[i]
  <2>1. Unnamed(jx, fs.index, f)
    BY <1>1, <1>4
  <2>2. QED BY <1>1, <2>1, UnnamedHeads
<1>8. /\ index'[new] = x /\ jx[new].entry_type = "UNUSED_ENTRY" /\ ~IsFile(jx[new]) /\ ~IsHead(jx[new])
      /\ \A i \in Slots \ {new} :
            IsHead(jx[i]) \/ IsHead(index'[i]) \/ IsFile(jx[i]) \/ IsFile(index'[i]) => index'[i] = jx[i]
  <2>1. Named(index', jx, new, x)
    BY <1>4
  <2>2. QED BY <2>1, NamedHeads
<1>9. index[new].entry_type = "UNUSED_ENTRY" /\ new # f
  <2>1. new \in new..(new + x.cont_entries)
    <3>1. Named(index', jx, new, x)
      BY <1>4
    <3>2. QED BY <3>1, SfsAssumption DEF Named, Slots
  <2>2. QED BY <1>2, <1>4, <2>1
<1>10. IsFile(index[f]) /\ ~IsFile(index[new]) /\ IsFile(index'[new]) /\ ~IsFile(index'[f]) /\ ~IsHead(index'[f])
  <2>1. IsFile(index[f]) /\ IsFile(x)
    BY <1>2, <1>4, TypesOfHeads
  <2>2. ~IsFile(index[new])
    BY <1>9 DEF IsFile, OwnsData, IsUnlinked
  <2>3. QED BY <1>7, <1>8, <1>9, <2>1, <2>2
<1>11. index[f].size = 0
  <2>1. EntryOK(index[f])
    BY <1>1, <1>2 DEF InOrder, Entered
  <2>2. Sized(index[f]) /\ index[f].size \in Nat
    BY <1>10, <2>1 DEF EntryOK
  <2>3. QED BY <1>2, <2>2, FitsBlocks
<1> HIDE DEF p
<1>12. q \notin DOMAIN FilesIn(index) /\ \A i \in Slots : ~HasFile(index, i, q)
  <2>1. \A i \in Slots : ~HasFile(index, i, q)
    BY <1>1, <1>5, SearchFile DEF NamesOK, HasFile
  <2>2. QED BY <1>1, <2>1, FileOn
<1>13. q \notin DirsIn(index) /\ Ancestors(q) \subseteq DirsIn(index)
  <2>1. ~DirNamed(index, q) /\ \A d \in Ancestors(q) : DirNamed(index, d)
    BY <1>1, <1>5, SearchDir, CheckedDirs DEF NamesOK
  <2>2. QED BY <2>1, DirOn
<1>14. FilesIn(jx) = Store!Drop(FilesIn(index), p)
  <2>1. \A i \in Slots \ {f} : \A a : HasFile(index, i, a) <=> HasFile(jx, i, a)
    BY <1>7, TypesOfHeads DEF HasFile
  <2>2. jx[f].entry_type # "FILE_ENTRY"
    BY <1>7, TypesOfHeads
  <2>3. QED BY <1>1, <1>4, <1>6, <2>1, <2>2, FilesDrop
<1>15. FilesIn(index') = Store!Put(FilesIn(jx), q, new)
  <2>1. HasFile(index', new, q) /\ jx[new].entry_type # "FILE_ENTRY"
    BY <1>4, <1>8 DEF HasFile
  <2>2. \A i \in Slots \ {new} : \A a : HasFile(jx, i, a) <=> HasFile(index', i, a)
    BY <1>8, TypesOfHeads DEF HasFile
  <2>3. \A i \in Slots : ~HasFile(jx, i, q)
    BY <1>7, <1>12, TypesOfHeads DEF HasFile
  <2>4. QED BY <1>1, <1>4, <2>1, <2>2, <2>3, FilesPut
<1>16. DirsIn(index') = DirsIn(index)
  <2>1. SameDirs(jx, index)
    BY <1>2, <1>7, TypesOfHeads DEF SameDirs
  <2>2. SameDirs(index', jx)
    BY <1>4, <1>8, TypesOfHeads DEF SameDirs
  <2>3. DirsIn(index') = DirsIn(jx)
    BY <2>2, DirsKept
  <2>4. DirsIn(jx) = DirsIn(index)
    BY <2>1, DirsKept
  <2>5. QED BY <2>3, <2>4
<1>17. BodyIn(jx, data) = Store!Drop(BodyIn(index, data), f)
  <2>1. OwnsData(index[f]) /\ ~OwnsData(jx[f])
    BY <1>2, <1>7, TypesOfHeads
  <2>2. \A i \in Slots \ {f} : OwnsData(jx[i]) \/ OwnsData(index[i]) => jx[i] = index[i]
    BY <1>7, TypesOfHeads
  <2>3. QED BY <2>1, <2>2, BodyDrop
<1>18. BodyIn(index', data') = Store!Put(BodyIn(jx, data), new, <<>>)
  <2>1. OwnsData(index'[new]) /\ ~OwnsData(jx[new])
    BY <1>4, <1>8, TypesOfHeads
  <2>2. \A i \in Slots \ {new} : OwnsData(index'[i]) \/ OwnsData(jx[i]) => index'[i] = jx[i]
    BY <1>8, TypesOfHeads
  <2>3. BytesIn(index', data, new) = <<>>
    BY <1>4, <1>8, NoBytes
  <2>4. QED BY <1>5, <2>1, <2>2, <2>3, BodyPut
<1>19. /\ p \in DOMAIN FilesIn(index) /\ FilesIn(index)[p] = f
       /\ BodyIn(index, data)[f] = <<>> /\ new \notin DOMAIN BodyIn(index, data)
  <2>1. p \in DOMAIN FilesIn(index) /\ FilesIn(index)[p] = f
    BY <1>1, <1>6, FileOn
  <2>2. BodyIn(index, data)[f] = BytesIn(index, data, f)
    BY <1>2, TypesOfHeads DEF BodyIn
  <2>3. BytesIn(index, data, f) = <<>>
    BY <1>11, NoBytes
  <2>4. new \notin DOMAIN BodyIn(index, data)
    BY <1>10, TypesOfHeads DEF BodyIn
  <2>5. QED BY <2>1, <2>2, <2>3, <2>4
<1>20. Store!Rename(p, q, new)
  BY <1>12, <1>13, <1>14, <1>15, <1>16, <1>17, <1>18, <1>19, StoreIs DEF Store!Rename, Store!HasParents
<1>21. FilesNamed(index')
  <2>1. ASSUME NEW i \in Slots, index'[i].entry_type = "FILE_ENTRY" PROVE index'[i].name \in FilePaths
    <3>1. CASE i = new
      BY <1>4, <1>8, <3>1
    <3>2. CASE i # new
      <4>1. index'[i] = jx[i] /\ IsHead(jx[i])
        BY <1>8, <2>1, <3>2, TypesOfHeads
      <4>2. jx[i] = index[i]
        BY <1>7, <4>1
      <4>3. QED BY <2>1, <4>1, <4>2 DEF StoreInv, FilesNamed
    <3>3. QED BY <3>1, <3>2
  <2>2. QED BY <2>1 DEF FilesNamed
<1>22. QED BY <1>6, <1>20, <1>21

(* The bytes of a file are a sequence. *)
LEMMA BytesLength ==
  ASSUME NEW ix, NEW d \in Contents, NEW f, ix[f].size \in Nat,
         \A k \in 1..ix[f].size : Spot(ix[f], k) \in Bytes
  PROVE  Len(BytesIn(ix, d, f)) = ix[f].size
<1> DEFINE n == ix[f].size
           T == Tokens \cup {Fresh}
<1>1. \A k \in 1..n : d[Spot(ix[f], k)] \in T
  BY DEF Contents
<1>2. BytesIn(ix, d, f) \in [1..n -> T]
  BY <1>1 DEF BytesIn
<1>3. BytesIn(ix, d, f) \in Seq(T) /\ DOMAIN BytesIn(ix, d, f) = 1..n
  BY <1>2
<1> HIDE DEF n
<1>4. QED BY <1>3 DEF n

(* An entry that is written back has the path it had. *)
LEMMA NamesRewritten ==
  ASSUME NEW ix, NEW jx, NEW f \in Slots, IsFile(ix[f]), RewritesOnly(jx, ix, f), jx[f].entry_type # "CLOBBERED",
         NamesOK(Tidy, ix), NamesOK(Tidy, jx)
  PROVE  /\ FilesIn(jx) = FilesIn(ix) /\ IsFile(jx[f])
         /\ FilesNamed(ix) => FilesNamed(jx)
<1>1. /\ jx[f].entry_type = ix[f].entry_type /\ jx[f].name = ix[f].name
      /\ \A i \in Slots \ {f} : OwnsData(ix[i]) \/ OwnsData(jx[i]) => jx[i] = ix[i]
  BY DEF RewritesOnly, Rewrote, SameName, Spared
<1>2. \A i \in Slots : ix[i].entry_type = "FILE_ENTRY" \/ jx[i].entry_type = "FILE_ENTRY" =>
         jx[i].entry_type = ix[i].entry_type /\ jx[i].name = ix[i].name
  BY <1>1, TypesOfHeads
<1>3. FilesIn(jx) = FilesIn(ix)
  <2>1. \A i \in Slots : \A q : HasFile(ix, i, q) <=> HasFile(jx, i, q)
    BY <1>2 DEF HasFile
  <2>2. QED BY <2>1, FilesSame
<1>4. IsFile(jx[f])
  BY <1>1 DEF IsFile, OwnsData, IsUnlinked
<1>5. FilesNamed(ix) => FilesNamed(jx)
  BY <1>2 DEF FilesNamed
<1>6. QED BY <1>3, <1>4, <1>5

(* The bytes of the other files are where they were. *)
LEMMA OthersSame ==
  ASSUME NEW f \in Slots, RewritesOnly(index', index, f), OthersKept(data', f),
         NEW j \in Slots \ {f}, OwnsData(index[j]) \/ OwnsData(index'[j])
  PROVE  index'[j] = index[j] /\ BytesIn(index', data', j) = BytesIn(index, data, j)
<1>1. index'[j] = index[j] /\ IsFile(index[j])
  BY TypesOfHeads DEF RewritesOnly, Spared
<1>2. \A k \in 1..index[j].size : data'[Spot(index[j], k)] = data[Spot(index[j], k)]
  BY <1>1 DEF OthersKept
<1>3. QED BY <1>1, <1>2 DEF BytesIn

(* A file whose entry was overwritten before is not in the store.           *)
LEMMA LostAlready ==
  ASSUME StoreInv, IInv(Tidy)', NEW f \in Slots, index[f].entry_type = "CLOBBERED",
         RewritesOnly(index', index, f), SameDirs(index', index), OthersKept(data', f)
  PROVE  UNCHANGED Store!vars /\ FilesNamed(index')
<1>1. NamesOK(Tidy, index) /\ NamesOK(Tidy, index') /\ FilesNamed(index)
  BY StoreParts DEF StoreInv
<1>2. index'[f].entry_type = "CLOBBERED"
  BY DEF RewritesOnly, Rewrote, SameName
<1>3. ~OwnsData(index[f]) /\ ~OwnsData(index'[f])
  BY <1>2 DEF OwnsData, IsUnlinked
<1>4. \A i \in Slots : OwnsData(index[i]) \/ OwnsData(index'[i]) =>
         index'[i] = index[i] /\ BytesIn(index', data', i) = BytesIn(index, data, i)
  BY <1>3, OthersSame
<1>5. \A i \in Slots : index[i].entry_type = "FILE_ENTRY" \/ index'[i].entry_type = "FILE_ENTRY" =>
         index'[i] = index[i]
  BY <1>4, TypesOfHeads
<1>6. FilesIn(index') = FilesIn(index)
  <2>1. \A i \in Slots : \A q : HasFile(index, i, q) <=> HasFile(index', i, q)
    BY <1>5 DEF HasFile
  <2>2. QED BY <1>1, <2>1, FilesSame
<1>7. DirsIn(index') = DirsIn(index)
  BY DirsKept
<1>8. BodyIn(index', data') = BodyIn(index, data)
  <2>1. {i \in Slots : OwnsData(index'[i])} = {i \in Slots : OwnsData(index[i])}
    BY <1>4
  <2>2. \A i \in {j \in Slots : OwnsData(index[j])} : BytesIn(index', data', i) = BytesIn(index, data, i)
    BY <1>4
  <2>3. QED BY <2>1, <2>2 DEF BodyIn
<1>9. FilesNamed(index')
  BY <1>1, <1>5 DEF FilesNamed
<1>10. QED BY <1>6, <1>7, <1>8, <1>9, StoreIs DEF Store!vars

(* A file whose entry is overwritten leaves the store, and no other file. *)
LEMMA LostNow ==
  ASSUME StoreInv, IInv(Tidy)', NEW f \in Slots, OwnsData(index[f]), index'[f].entry_type = "CLOBBERED",
         RewritesOnly(index', index, f), SameDirs(index', index), OthersKept(data', f),
         alloc_entry(index, 1) = 0, f \in (N - PerBlock + 2)..N, index[f].size # 0
  PROVE  Store!Lose(f) /\ FilesNamed(index')
<1>1. /\ InOrder(Tidy, fs) /\ fs.index = index /\ data \in Contents
      /\ NamesOK(Tidy, index) /\ NamesOK(Tidy, index') /\ FilesNamed(index)
  BY StoreParts DEF StoreInv
<1>2. ~OwnsData(index'[f]) /\ IsFile(index[f])
  BY TypesOfHeads DEF OwnsData, IsUnlinked
<1>3. \A i \in Slots \ {f} : OwnsData(index[i]) \/ OwnsData(index'[i]) =>
         index'[i] = index[i] /\ BytesIn(index', data', i) = BytesIn(index, data, i)
  BY OthersSame
<1>4. \A i \in Slots : \A q : HasFile(index', i, q) <=> HasFile(index, i, q) /\ i # f
  BY <1>2, <1>3, TypesOfHeads DEF HasFile
<1> DEFINE F == FilesIn(index)
           G == FilesIn(index')
           B == BodyIn(index, data)
           C == BodyIn(index', data')
<1>5. G = [p \in {q \in DOMAIN F : F[q] # f} |-> F[p]]
  <2>1. /\ \A i \in Slots : \A q : HasFile(index, i, q) => q \in DOMAIN F /\ F[q] = i
        /\ \A q \in DOMAIN F : F[q] \in Slots /\ HasFile(index, F[q], q)
    BY <1>1, FileOn
  <2>2. /\ \A i \in Slots : \A q : HasFile(index', i, q) => q \in DOMAIN G /\ G[q] = i
        /\ \A q \in DOMAIN G : G[q] \in Slots /\ HasFile(index', G[q], q)
    BY <1>1, FileOn
  <2>3. G = [q \in DOMAIN G |-> G[q]]
    BY FilesFun
  <2> HIDE DEF F, G
  <2>4. ASSUME NEW q \in DOMAIN G PROVE q \in DOMAIN F /\ F[q] = G[q] /\ F[q] # f
    BY <1>4, <2>1, <2>2
  <2>5. ASSUME NEW q \in DOMAIN F, F[q] # f PROVE q \in DOMAIN G
    BY <1>4, <2>1, <2>2, <2>5
  <2>6. DOMAIN G = {q \in DOMAIN F : F[q] # f} /\ \A q \in DOMAIN G : G[q] = F[q]
    BY <2>4, <2>5
  <2>7. QED BY <2>3, <2>6
<1>6. C = Store!Drop(B, f) /\ f \in DOMAIN B
  <2>1. {i \in Slots : OwnsData(index'[i])} = {i \in Slots : OwnsData(index[i])} \ {f}
    BY <1>2, <1>3
  <2>2. \A i \in {j \in Slots : OwnsData(index'[j])} : BytesIn(index', data', i) = BytesIn(index, data, i)
    BY <1>2, <1>3
  <2>3. DOMAIN B = {i \in Slots : OwnsData(index[i])} /\ \A i \in DOMAIN B : B[i] = BytesIn(index, data, i)
    BY DEF BodyIn
  <2>4. C = [i \in DOMAIN B \ {f} |-> BytesIn(index', data', i)]
    BY <2>1, <2>3 DEF BodyIn
  <2>5. \A i \in DOMAIN B \ {f} : BytesIn(index', data', i) = B[i]
    BY <2>1, <2>2, <2>3
  <2> HIDE DEF B, C
  <2>6. QED BY <2>3, <2>4, <2>5 DEF Store!Drop
<1>7. B[f] # <<>>
  <2>1. Sized(index[f]) /\ index[f].size \in Nat
    BY <1>1, <1>2 DEF InOrder, Entered, EntryOK
  <2>2. Len(BytesIn(index, data, f)) = index[f].size
    BY <1>1, <2>1, SpotIn, BytesLength
  <2>3. BytesIn(index, data, f) # <<>>
    BY <2>2
  <2>4. QED BY <2>3 DEF BodyIn
<1>8. DirsIn(index') = DirsIn(index)
  BY DirsKept
<1>9. Store!Lose(f)
  BY <1>5, <1>6, <1>7, <1>8, StoreIs DEF Store!Lose
<1>10. FilesNamed(index')
  <2>1. \A i \in Slots : index'[i].entry_type = "FILE_ENTRY" => index[i] = index'[i]
    BY <1>2, <1>3, TypesOfHeads
  <2>2. QED BY <1>1, <2>1 DEF FilesNamed
<1>11. QED BY <1>9, <1>10

(* When Grow() overwrites the entry, del_file_list_add() has failed. *)
LEMMA NotIntact ==
  ASSUME NEW f, NEW new, Grow(f, new).ok, ~Grow(f, new).intact
  PROVE  LET al == del_file_list_alloc(fs, new)
             ad == del_file_list_add(al.u, index[f].start_block, index[f].end_block)
         IN  al.start # 0 /\ ~ad.ok /\ ~(f < N - PerBlock + 2)
<1> DEFINE e  == index[f]
           x  == try_expand(fs, f, new)
           al == del_file_list_alloc(fs, new)
           ad == del_file_list_add(al.u, e.start_block, e.end_block)
<1>1. ~(e.start_block # 0 /\ x.ok)
  BY DEF Grow
<1>2. Grow(f, new).ok <=> al.start # 0
  BY <1>1 DEF Grow
<1>3. Grow(f, new).intact <=> ad.ok \/ f < N - PerBlock + 2
  BY <1>1 DEF Grow
<1>4. QED BY <1>2, <1>3

(* The entry of a file that moves is overwritten only when the index is     *)
(* full and the entry is in its last block: del_file_list_alloc() makes no  *)
(* entry unused that del_file_list_add() would not find.                    *)
LEMMA LostWhenFull ==
  ASSUME NEW tidy, InOrder(tidy, fs), NEW f \in Slots, IsFile(index[f]),
         NEW new \in Nat \ {0},
         NEW g, g.ok, ~g.intact,
         g = IF BlockCount(new) > BlockCount(index[f].size) THEN Grow(f, new) ELSE InPlace(f)
  PROVE  alloc_entry(index, 1) = 0 /\ f \in (N - PerBlock + 2)..N /\ index[f].size # 0
<1> DEFINE e  == index[f]
           n  == BlockCount(new)
           al == del_file_list_alloc(fs, new)
           ad == del_file_list_add(al.u, e.start_block, e.end_block)
           ab == AbsOf(index)
<1>1. fs.index = index /\ ShapedList(fs) /\ Sized(e) /\ e.size \in Nat
  BY OrderShaped DEF fs, InOrder, Entered, EntryOK
<1>2. g = Grow(f, new)
  BY DEF InPlace
<1>3. al.start # 0 /\ ~ad.ok /\ ~(f < N - PerBlock + 2)
  BY <1>2, NotIntact
<1>4. f \in (N - PerBlock + 2)..N
  BY <1>3, SfsAssumption DEF Slots
<1>5. PICK d \in Frees(fs) : ShapedList(al.u) /\ Kept(al.u, fs) /\ AbsOf(al.u.index) = Space!TakeFront(ab, d, n)
  BY <1>1, <1>3, AllocShaped
<1>6. InOrder(tidy, al.u)
  BY <1>5, KeptOrder
<1>7. Freed(AbsOf(al.u.index), AbsOf(ad.u.index), ad.ok, e.start_block, e.end_block)
  BY <1>1, <1>6, FreedOrder
<1>8. e.start_block # 0 /\ Space!UnusedIn(AbsOf(al.u.index)) = {}
  BY <1>3, <1>7 DEF Freed, Added
<1>9. e.size # 0
  BY <1>1, <1>8 DEF Sized
<1> HIDE DEF al, ad, n
<1>10. ASSUME NEW i \in Slots, index[i].entry_type = "UNUSED_ENTRY" PROVE FALSE
  <2>1. ab[i].type = "unused"
    BY <1>10, AbsFields DEF AbsType, OwnsData, IsUnlinked, IsFree
  <2>2. i # d
    BY <1>1, <1>10 DEF Frees, IsFree
  <2>3. Space!TakeFront(ab, d, n)[i] = ab[i]
    BY <2>2 DEF Space!TakeFront, Space!Put, AbsOf
  <2>4. QED BY <1>5, <1>8, <2>1, <2>3 DEF Space!UnusedIn
<1>11. alloc_entry(index, 1) = 0
  <2>1. PICK s : s = alloc_entry(index, 1)
    OBVIOUS
  <2>2. ASSUME s # 0 PROVE FALSE
    <3>1. s \in Slots /\ \A k \in s..(s + 1 - 1) : index[k].entry_type = "UNUSED_ENTRY"
      BY <2>1, <2>2, AllocEntry
    <3>2. s \in s..(s + 1 - 1)
      BY <3>1, SfsAssumption DEF Slots
    <3>3. QED BY <1>10, <3>1, <3>2
  <2>3. QED BY <2>1, <2>2
<1>12. QED BY <1>4, <1>9, <1>11

(* The bytes of one file change, and the store stays what it is else. *)
LEMMA Resized ==
  ASSUME StoreInv, IInv(Tidy)', NEW f \in Slots, OwnsData(index[f]), index'[f].entry_type # "CLOBBERED",
         RewritesOnly(index', index, f), SameDirs(index', index),
         NEW new \in Nat, index'[f].size = new,
         NEW span, Saved(index', data', f, span)
  PROVE  /\ Store!Resize(f, new, span) /\ UNCHANGED <<StoreFiles, StoreDirs>> /\ FilesNamed(index')
         /\ f \in DOMAIN StoreBody /\ Len(StoreBody[f]) = index[f].size
         /\ StoreBody'[f] = BytesIn(index', data', f)
<1>1. /\ InOrder(Tidy, fs) /\ NamesOK(Tidy, index) /\ NamesOK(Tidy, index') /\ fs.index = index
      /\ data \in Contents /\ FilesNamed(index) /\ IsFile(index[f])
  BY StoreParts, TypesOfHeads DEF StoreInv
<1>2. FilesIn(index') = FilesIn(index) /\ IsFile(index'[f]) /\ FilesNamed(index')
  BY <1>1, NamesRewritten
<1>3. DirsIn(index') = DirsIn(index)
  BY DirsKept
<1>4. \A i \in Slots : /\ OwnsData(index'[i]) <=> OwnsData(index[i])
                       /\ i # f /\ OwnsData(index[i]) => index'[i] = index[i]
  BY DEF RewritesOnly, Rewrote, SameName, Spared, OwnsData, IsUnlinked
<1> DEFINE B  == BodyIn(index, data)
           C  == BodyIn(index', data')
<1>5. /\ f \in DOMAIN B /\ DOMAIN C = DOMAIN B /\ DOMAIN B \subseteq Slots
      /\ \A j \in DOMAIN B : OwnsData(index[j])
      /\ \A j \in DOMAIN B : B[j] = BytesIn(index, data, j) /\ C[j] = BytesIn(index', data', j)
  <2>1. {i \in Slots : OwnsData(index'[i])} = {i \in Slots : OwnsData(index[i])}
    BY <1>4
  <2>2. QED BY <2>1 DEF BodyIn
<1> HIDE DEF B, C
<1>6. \A j \in DOMAIN B \ {f} : C[j] = B[j]
  <2>1. \A j \in DOMAIN B \ {f} : BytesIn(index', data', j) = BytesIn(index, data, j)
    BY <1>5, OthersSame DEF Saved
  <2>2. QED BY <1>5, <2>1
<1>7. /\ index[f].size \in Nat /\ \A k \in 1..index[f].size : Spot(index[f], k) \in Bytes
  <2>1. Sized(index[f]) /\ index[f].size \in Nat
    BY <1>1 DEF InOrder, Entered, EntryOK
  <2>2. QED BY <2>1, SpotIn
<1>8. /\ data' \in Contents /\ \A k \in 1..new : Spot(index'[f], k) \in Bytes
  <2>1. data' \in Contents /\ InOrder(Tidy, fs') /\ fs'.index = index'
    <3>1. data' \in Contents /\ InOrder(Tidy, fs')
      BY DEF IInv, Contents
    <3>2. fs'.index = index'
      BY StoreParts
    <3>3. QED BY <3>1, <3>2
  <2>2. EntryOK(index'[f])
    BY <1>2, <2>1 DEF InOrder, Entered
  <2>3. Sized(index'[f])
    BY <1>2, <2>2 DEF EntryOK
  <2>4. QED BY <2>1, <2>3, SpotIn
<1>9. Len(B[f]) = index[f].size
  BY <1>1, <1>5, <1>7, BytesLength
<1>10. Len(C[f]) = new
  BY <1>5, <1>8, BytesLength
<1>11. ASSUME NEW k \in (1..new) \ span, k <= Len(B[f])
       PROVE  C[f][k] = B[f][k]
  <2>1. k \in 1..index[f].size /\ k \in 1..index'[f].size /\ k \notin span
    BY <1>7, <1>9, <1>11
  <2>2. data'[Spot(index'[f], k)] = data[Spot(index[f], k)]
    BY <1>1, <2>1 DEF Saved, OwnKept
  <2>3. C[f][k] = data'[Spot(index'[f], k)] /\ B[f][k] = data[Spot(index[f], k)]
    <3>1. C[f] = BytesIn(index', data', f) /\ B[f] = BytesIn(index, data, f)
      BY <1>5
    <3>2. \A ix, d : k \in 1..ix[f].size => BytesIn(ix, d, f)[k] = d[Spot(ix[f], k)]
      BY DEF BytesIn
    <3>3. QED BY <2>1, <3>1, <3>2
  <2>4. QED BY <2>2, <2>3
<1>12. StoreBody = B /\ StoreBody' = C
  BY StoreIs DEF B, C
<1>13. Store!Resize(f, new, span)
  BY <1>5, <1>6, <1>10, <1>11, <1>12 DEF Store!Resize
<1>14. UNCHANGED <<StoreFiles, StoreDirs>>
  BY <1>2, <1>3, StoreIs
<1>15. QED BY <1>2, <1>5, <1>9, <1>12, <1>13, <1>14

(* Blocks are taken and given back without a directory being touched. *)
LEMMA RepointedDirs ==
  ASSUME NEW u \in State, NEW f \in Slots, NEW g, g.u = u, NEW new,
         NEW jx, jx = Repointed(f, g, new).index, IsFile(jx[f]),
         NEW ix, SameDirs(u.index, ix), IsFile(u.index[f])
  PROVE  SameDirs(jx, ix)
<1>1. \A i \in Slots : i # f => jx[i] = u.index[i]
  BY SfsAssumption DEF Repointed, State, Slots, Offsets
<1>2. jx[f].entry_type # "DIR_ENTRY" /\ u.index[f].entry_type # "DIR_ENTRY"
  BY TypesOfHeads
<1>3. QED BY <1>1, <1>2 DEF SameDirs

(* Room for more bytes is found without touching a name.                    *)
LEMMA GrownDirs ==
  ASSUME NEW tidy, InOrder(tidy, fs), data \in Contents, NEW f \in Slots, IsFile(index[f]),
         NEW new \in Nat, NEW g, g.ok,
         g = IF BlockCount(new) > BlockCount(index[f].size) THEN Grow(f, new) ELSE InPlace(f)
  PROVE  g.u \in State /\ SameDirs(g.u.index, index) /\ g.u.index[f] = index[f]
<1>1. fs.index = index /\ fs \in State
  BY OrderShaped DEF fs
<1>2. CASE BlockCount(new) > BlockCount(index[f].size)
  <2>1. g = Grow(f, new)
    BY <1>2
  <2>2. InOrder(tidy, g.u) /\ Kept(g.u, fs) /\ g.u.index[f] = index[f]
    BY <1>2, <2>1, GrowOrder
  <2>3. SameDirs(g.u.index, fs.index)
    BY <2>2, KeptDirs
  <2>4. QED BY <1>1, <2>2, <2>3, OrderShaped
<1>3. CASE ~(BlockCount(new) > BlockCount(index[f].size))
  <2>1. g.u = fs
    BY <1>3 DEF InPlace
  <2>2. QED BY <1>1, <2>1 DEF SameDirs
<1>4. QED BY <1>2, <1>3

(* A file gets the size new, and size bytes t behind off. *)
Stored(f, new, off, size, t) ==
    /\ Store!Resize(f, new, (off + 1)..(off + size))
    /\ UNCHANGED <<StoreFiles, StoreDirs>> /\ FilesNamed(index')
    /\ f \in DOMAIN StoreBody /\ Len(StoreBody[f]) = index[f].size
    /\ \A k \in (off + 1)..(off + size) : StoreBody'[f][k] = t

(* Or its entry is overwritten now, or was before. *)
LostNowOrBefore(f) ==
    /\ index'[f].entry_type = "CLOBBERED" /\ FilesNamed(index')
    /\ UNCHANGED Store!vars \/ Store!Lose(f)

(* The entry of a file stays the entry of a file. *)
LEMMA StaysFile ==
  ASSUME NEW ix, NEW jx, NEW f, IsFile(ix[f]), RewritesOnly(jx, ix, f)
  PROVE  IsFile(jx[f])
  BY DEF RewritesOnly, Rewrote, SameName, IsFile, OwnsData, IsUnlinked

(* A file that is rewritten in place or moved, and then written, has the    *)
(* bytes that the store says, or is lost; so write and truncate share this  *)
(* step.                                                                    *)
LEMMA RepointStored ==
  ASSUME StoreInv, IInv(Tidy)', NEW f \in Slots, IsFile(index[f]),
         RewritesOnly(index', index, f),
         NEW new \in (0..N) \cup FileSizes, new \in Nat \ {0},
         BlockCount(index[f].size) <= BlockCount(new),
         NEW g, g.ok,
         g = IF BlockCount(new) > BlockCount(index[f].size) THEN Grow(f, new) ELSE InPlace(f),
         NEW off \in Nat, NEW size \in Nat, size = 0 \/ off + size <= new, NEW t,
         Pours(f, g, new, off, size, t, size, index', data')
  PROVE  Stored(f, new, off, size, t) \/ LostNowOrBefore(f)
<1> DEFINE span == (off + 1)..(off + size)
<1>1. InOrder(Tidy, fs) /\ data \in Contents /\ SP!IInv
  BY StoreParts DEF StoreInv
<1>2. /\ Saved(index', data', f, span)
      /\ index'[f].start_block = g.start /\ index'[f].size = new
      /\ index' = Repointed(f, g, new).index
      /\ g.u \in State /\ g.u.index[f] = index[f] /\ g.start \in Lo..Hi
  <2>1. Saved(index', data', f, span)
    BY <1>1, DataSaves
  <2>2. /\ g.start \in Lo..Hi /\ g.end \in Lo..Hi /\ g.u \in State /\ g.u.index[f] = index[f]
        /\ index' = Repointed(f, g, new).index
    BY <1>1, GoesTo DEF Pours
  <2>3. index'[f].start_block = g.start /\ index'[f].size = new
    BY <2>2, PouredEntry
  <2>4. QED BY <2>1, <2>2, <2>3
<1>3. SameDirs(index', index) /\ IsFile(index'[f])
  <2>1. g.u \in State /\ SameDirs(g.u.index, index) /\ g.u.index[f] = index[f]
    BY <1>1, GrownDirs
  <2>2. IsFile(index'[f])
    BY StaysFile
  <2>3. index' = Repointed(f, g, new).index
    BY DEF Pours
  <2>4. SameDirs(index', index)
    BY <2>1, <2>2, <2>3, RepointedDirs
  <2>5. QED BY <2>2, <2>4
<1> HIDE DEF span
<1>4. CASE index[f].entry_type = "CLOBBERED"
  <2>1. index'[f].entry_type = "CLOBBERED"
    BY <1>4 DEF RewritesOnly, Rewrote, SameName
  <2>2. UNCHANGED Store!vars /\ FilesNamed(index')
    BY <1>2, <1>3, <1>4, LostAlready DEF Saved
  <2>3. QED BY <2>1, <2>2 DEF LostNowOrBefore
<1>5. CASE OwnsData(index[f]) /\ index'[f].entry_type = "CLOBBERED"
  <2>1. ~g.intact
    <3>1. f \in Offsets /\ index[f] \in Entries /\ index[f].entry_type # "CLOBBERED"
      BY <1>1, <1>5, OrderShaped DEF OwnsData, IsUnlinked, fs
    <3>2. index'[f] = Rewritten(index[f], g, new)
      BY <1>2, <3>1 DEF Repointed, State
    <3>3. \A e \in Entries : \A a, b, c, d :
            [e EXCEPT !.start_block = a, !.end_block = b, !.size = c, !.time_stamp = d].entry_type = e.entry_type
      BY DEF Entries
    <3>4. g.intact => index'[f].entry_type = index[f].entry_type
      BY <3>1, <3>2, <3>3 DEF Rewritten
    <3>5. QED BY <1>5, <3>1, <3>4
  <2>2. alloc_entry(index, 1) = 0 /\ f \in (N - PerBlock + 2)..N /\ index[f].size # 0
    BY <1>1, <2>1, LostWhenFull
  <2>3. Store!Lose(f) /\ FilesNamed(index')
    BY <1>2, <1>3, <1>5, <2>2, LostNow DEF Saved
  <2>4. QED BY <1>5, <2>3 DEF LostNowOrBefore
<1>6. CASE OwnsData(index[f]) /\ index'[f].entry_type # "CLOBBERED"
  <2>1. /\ Store!Resize(f, new, span) /\ UNCHANGED <<StoreFiles, StoreDirs>> /\ FilesNamed(index')
        /\ f \in DOMAIN StoreBody /\ Len(StoreBody[f]) = index[f].size
        /\ StoreBody'[f] = BytesIn(index', data', f)
    BY <1>2, <1>3, <1>6, Resized
  <2>2. ASSUME NEW k \in (off + 1)..(off + size)
        PROVE  BytesIn(index', data', f)[k] = t
    <3>1. k \in 1..new /\ k \in Int /\ off + 1 <= k /\ k <= off + size
      OBVIOUS
    <3> DEFINE p == g.start * BlockSize
    <3>2. BytesIn(index', data', f)[k] = data'[p + k - 1]
      BY <1>2, <3>1 DEF BytesIn, Spot
    <3>3. p + k - 1 \in Bytes
      <4>1. InOrder(Tidy, fs') /\ fs'.index = index'
        <5>1. InOrder(Tidy, fs')
          BY DEF IInv
        <5>2. QED BY <5>1, StoreParts
      <4>2. EntryOK(index'[f])
        BY <4>1 DEF InOrder, Entered
      <4>3. Sized(index'[f])
        BY <1>3, <4>2 DEF EntryOK
      <4>4. Spot(index'[f], k) \in Bytes
        BY <1>2, <3>1, <4>3, SpotIn
      <4>5. QED BY <1>2, <4>4 DEF Spot
    <3>4. p \in Int
      BY <1>2, SfsAssumption
    <3> HIDE DEF p
    <3>5. p + k - 1 \in (p + off)..(p + off + size - 1)
      BY <3>1, <3>4
    <3>6. data' = write_data(g.data, p + off, size, t)
      BY DEF p, Pours
    <3>7. data'[p + k - 1] = t
      BY <3>3, <3>5, <3>6 DEF write_data
    <3>8. QED BY <3>2, <3>7
  <2>3. QED BY <2>1, <2>2 DEF span, Stored
<1>7. QED BY <1>4, <1>5, <1>6 DEF IsFile

(* sfs_write() *)
LEMMA WriteStored ==
  ASSUME StoreInv, IInv(Tidy)', NEW f \in Slots, NEW s \in Spans, NEW t \in Tokens,
         Write(f, s[1], s[2], t)
  PROVE  (Store!Write(f, s[1], s[2], t) /\ FilesNamed(index')) \/ LostNowOrBefore(f)
<1> DEFINE old == index[f].size
           new == Max({s[1] + s[2], old})
           g   == IF BlockCount(new) > BlockCount(old) THEN Grow(f, new) ELSE InPlace(f)
<1>1. /\ g.ok /\ index' = Repointed(f, g, new).index
      /\ data' = write_data(g.data, g.start * BlockSize + s[1], s[2], t)
  BY DEF Write, Becomes
<1>2. InOrder(Tidy, fs) /\ data \in Contents /\ fs.index = index
  BY StoreParts DEF StoreInv
<1>3. IsFile(index[f]) /\ RewritesOnly(index', index, f)
  BY <1>2, WriteOrder
<1>4. old \in Nat /\ old \in (0..N) \cup FileSizes
  <2>1. index[f] \in Entries /\ EntryOK(index[f])
    BY <1>2, <1>3, OrderShaped DEF InOrder, Entered
  <2>2. old \in Nat
    BY <1>3, <2>1 DEF EntryOK
  <2>3. old \in (0..N) \cup FileSizes
    BY <2>1 DEF Entries
  <2>4. QED BY <2>2, <2>3
<1>5. s[1] \in Nat /\ s[2] \in Nat /\ s[2] # 0
  BY SfsAssumption
<1>6. s[1] + s[2] \in Nat /\ s[1] + s[2] # 0 /\ s[1] + s[2] \in FileSizes
  BY <1>5 DEF FileSizes
<1>7. new \in {s[1] + s[2], old} /\ s[1] + s[2] <= new /\ old <= new
  BY <1>4, <1>6, MaxOfTwo
<1> HIDE DEF old, new
<1>8. new \in (0..N) \cup FileSizes /\ new \in Nat \ {0}
  BY <1>4, <1>6, <1>7
<1>9. BlockCount(old) <= BlockCount(new)
  BY <1>4, <1>7, <1>8, CountClimbs
<1>10. Pours(f, g, new, s[1], s[2], t, s[2], index', data')
  BY <1>1, <1>5 DEF Pours
<1>11. Stored(f, new, s[1], s[2], t) \/ LostNowOrBefore(f)
  BY <1>1, <1>3, <1>5, <1>7, <1>8, <1>9, <1>10, RepointStored DEF old
<1>12. new = IF s[1] + s[2] > old THEN s[1] + s[2] ELSE old
  BY <1>4, <1>6, <1>7
<1>13. QED BY <1>11, <1>12 DEF Stored, Store!Write, old

(* sfs_truncate(), also to nothing *)
LEMMA TruncateStored ==
  ASSUME StoreInv, IInv(Tidy)', NEW f \in Slots, NEW new \in Lengths, SafeTruncate(f, new)
  PROVE  (Store!Truncate(f, new) /\ FilesNamed(index')) \/ LostNowOrBefore(f)
<1> DEFINE e == index[f]
<1>1. /\ InOrder(Tidy, fs) /\ data \in Contents /\ fs.index = index
      /\ NamesOK(Tidy, index) /\ NamesOK(Tidy, index')
  BY StoreParts DEF StoreInv
<1>2. IsFile(e) /\ RewritesOnly(index', index, f) /\ data' \in Contents
  BY <1>1, TruncateOrder
<1>3. e.size \in Nat /\ Sized(e) /\ e \in Entries
  <2>1. e \in Entries /\ EntryOK(e)
    BY <1>1, <1>2, OrderShaped DEF InOrder, Entered
  <2>2. QED BY <1>2, <2>1 DEF EntryOK
<1>4. new \in Nat /\ new \in (0..N) \cup FileSizes
  BY SfsAssumption DEF FileSizes
<1>5. BlockCount(new) \in Nat /\ BlockCount(e.size) \in Nat /\ (new = 0 <=> BlockCount(new) = 0)
  BY <1>3, <1>4, BlockCounts
<1>6. new # 0 => BlockCount(e.size) <= BlockCount(new)
  BY <1>5 DEF SafeTruncate, Shrinks
<1>7. CASE new # 0
  <2> DEFINE g == IF BlockCount(new) > BlockCount(e.size) THEN Grow(f, new) ELSE InPlace(f)
  <2>1. g.ok /\ index' = Repointed(f, g, new).index /\ data' = g.data
    <3>1. CASE BlockCount(new) > BlockCount(e.size)
      BY <1>5, <1>7, <3>1 DEF SafeTruncate, Truncate, Becomes
    <3>2. CASE ~(BlockCount(new) > BlockCount(e.size))
      BY <1>5, <1>6, <1>7, <3>2 DEF SafeTruncate, Truncate, Becomes
    <3>3. QED BY <3>1, <3>2
  <2>2. data' = write_data(g.data, g.start * BlockSize + 0, 0, Fresh)
    <3>1. (g.start * BlockSize + 0)..(g.start * BlockSize + 0 + 0 - 1) = {}
      <4>1. PICK c \in Int : c = g.start * BlockSize + 0
        <5>1. g.start \in Lo..Hi
          BY <1>1, <1>2, <1>4, <1>6, <1>7, <2>1, GoesTo DEF StoreInv
        <5> HIDE DEF g
        <5>2. QED BY <5>1, SfsAssumption
      <4>2. c..(c + 0 - 1) = {}
        OBVIOUS
      <4>3. QED BY <4>1, <4>2
    <3>2. data' = [a \in Bytes |-> data'[a]]
      BY <1>2 DEF Contents
    <3> HIDE DEF g
    <3>3. QED BY <2>1, <3>1, <3>2 DEF write_data
  <2>3. Stored(f, new, 0, 0, Fresh) \/ LostNowOrBefore(f)
    <3>1. 0 \in Nat
      OBVIOUS
    <3> HIDE DEF e
    <3>2. Pours(f, g, new, 0, 0, Fresh, 0, index', data')
      BY <2>1, <2>2 DEF Pours
    <3>3. QED BY <1>2, <1>4, <1>6, <1>7, <2>1, <3>1, <3>2, RepointStored DEF e
  <2>4. (0 + 1)..(0 + 0) = {}
    OBVIOUS
  <2>5. QED BY <2>3, <2>4 DEF Stored, Store!Truncate
<1>8. CASE new = 0
  <2> DEFINE a == del_file_list_add(fs, e.start_block, e.end_block)
             g == [InPlace(f) EXCEPT !.start = 0, !.end = 0, !.u = a.u]
  <2>1. index' = Repointed(f, g, 0).index /\ data' = g.data /\ g.u = a.u /\ g.data = data
    <3>1. g.u = a.u /\ g.data = data
      BY DEF InPlace
    <3>2. index' = Repointed(f, g, 0).index /\ data' = g.data
      <4>1. ~(BlockCount(new) > BlockCount(e.size))
        BY <1>5, <1>8
      <4>2. QED BY <1>8, <4>1 DEF SafeTruncate, Truncate, Becomes
    <3>3. QED BY <3>1, <3>2
  <2> HIDE DEF g
  <2>2. InOrder(Tidy, a.u) /\ Kept(a.u, fs)
    BY <1>1, <1>3, FreedOrder
  <2>3. SameDirs(a.u.index, index)
    BY <1>1, <2>2, KeptDirs
  <2>4. a.u.index[f] = e
    <3>1. f \in Offsets \ Pool(fs)
      BY <1>1, <1>2, SfsAssumption, Kinds
         DEF Pool, Slots, Offsets, IsFile, OwnsData, IsUnlinked, IsFree
    <3>2. QED BY <1>1, <2>2, <3>1 DEF Kept
  <2> HIDE DEF a
  <2>5. a.u \in State /\ f \in Offsets
    BY <2>2, OrderShaped
  <2>6. IsFile(index'[f])
    BY <1>2, StaysFile
  <2>7. SameDirs(index', index)
    BY <1>2, <2>1, <2>3, <2>4, <2>5, <2>6, RepointedDirs
  <2>8. index'[f].size = 0
    <3>1. index'[f] = Rewritten(e, g, 0)
      BY <2>1, <2>4, <2>5 DEF Repointed, State
    <3>2. "CLOBBERED" \in EntryTypes
      BY DEF EntryTypes
    <3>3. ASSUME NEW b \in Entries, NEW s, NEW t2, NEW t3
          PROVE  [b EXCEPT !.start_block = s, !.end_block = t2, !.size = 0, !.time_stamp = t3].size = 0
      BY DEF Entries
    <3>4. QED BY <1>3, <3>1, <3>2, <3>3, EmptyFields DEF Rewritten
  <2>9. Saved(index', data', f, {})
    BY <2>1, <2>8 DEF Saved, OthersKept, OwnKept
  <2>10. index'[f].entry_type = e.entry_type
    <3>1. index'[f] = Rewritten(e, g, 0) /\ g.intact
      BY <2>1, <2>4, <2>5 DEF Repointed, State, InPlace, g
    <3>2. \A b \in Entries : \A a1, a2, a3, a4 :
            [b EXCEPT !.start_block = a1, !.end_block = a2, !.size = a3, !.time_stamp = a4].entry_type = b.entry_type
      BY DEF Entries
    <3>3. QED BY <1>3, <3>1, <3>2 DEF Rewritten
  <2>11. CASE e.entry_type = "CLOBBERED"
    <3>1. UNCHANGED Store!vars /\ FilesNamed(index')
      BY <1>2, <2>7, <2>9, <2>11, LostAlready DEF Saved
    <3>2. QED BY <2>10, <2>11, <3>1 DEF LostNowOrBefore
  <2>12. CASE OwnsData(e)
    <3>1. index'[f].entry_type # "CLOBBERED"
      BY <2>10, <2>12 DEF OwnsData, IsUnlinked
    <3>2. Store!Resize(f, 0, {}) /\ UNCHANGED <<StoreFiles, StoreDirs>> /\ FilesNamed(index')
      BY <1>2, <2>7, <2>8, <2>9, <2>12, <3>1, Resized
    <3>3. QED BY <1>8, <3>2 DEF Store!Truncate
  <2>13. QED BY <1>2, <2>11, <2>12 DEF IsFile
<1>9. QED BY <1>7, <1>8

(* A new image is an empty store. *)
LEMMA InitStored ==
  ASSUME Init
  PROVE  Store!Init /\ StoreInv
<1>1. /\ IInv(Tidy) /\ 3 \in Slots /\ index[3].entry_type = "DIR_ENTRY" /\ index[3].name = <<>>
      /\ \A i \in Slots : ~IsFile(index[i]) /\ (index[i].entry_type = "DIR_ENTRY" => i = 3)
  BY InitOrder
<1>2. \A i \in Slots : index[i].entry_type # "FILE_ENTRY"
  BY <1>1, TypesOfHeads
<1>3. StoreFiles = <<>>
  <2>1. {index[i].name : i \in {j \in Slots : index[j].entry_type = "FILE_ENTRY"}} = {}
    BY <1>2
  <2>2. FilesIn(index) = [p \in {} |-> search_file(index, p)]
    BY <2>1 DEF FilesIn
  <2>3. <<>> = [p \in {} |-> search_file(index, p)]
    OBVIOUS
  <2>4. QED BY <2>2, <2>3, StoreIs
<1>4. StoreDirs = {<<>>}
  <2>1. {j \in Slots : index[j].entry_type = "DIR_ENTRY"} = {3}
    BY <1>1
  <2>2. DirsIn(index) = {<<>>}
    BY <1>1, <2>1 DEF DirsIn
  <2>3. QED BY <2>2, StoreIs
<1>5. StoreBody = <<>>
  <2>1. {i \in Slots : OwnsData(index[i])} = {}
    BY <1>1, TypesOfHeads
  <2>2. BodyIn(index, data) = [f \in {} |-> BytesIn(index, data, f)]
    BY <2>1 DEF BodyIn
  <2>3. <<>> = [f \in {} |-> BytesIn(index, data, f)]
    OBVIOUS
  <2>4. QED BY <2>2, <2>3, StoreIs
<1>6. FilesNamed(index)
  BY <1>2 DEF FilesNamed
<1>7. SP!IInv
  BY InitStep
<1>8. QED BY <1>1, <1>3, <1>4, <1>5, <1>6, <1>7 DEF Store!Init, StoreInv

(* Every call is a step of the store, and only the one that overwrites an   *)
(* entry loses a file.                                                      *)
LEMMA StepStored ==
  ASSUME StoreInv, [SafeNext]_vars
  PROVE  StoreInv' /\ ([Store!Calls]_(Store!vars) \/ (~Unclobbered' /\ \E i \in Slots : Store!Lose(i)))
<1> DEFINE Good == /\ FilesNamed(index')
                   /\ [Store!Calls]_(Store!vars) \/ (~Unclobbered' /\ \E i \in Slots : Store!Lose(i))
<1>1. IInv(Tidy)' /\ SP!IInv'
  BY StepOrder, NextStep DEF StoreInv
<1>2. ASSUME NEW p \in FilePaths, Creat(p) PROVE Good
  BY <1>1, <1>2, CreatStored DEF Store!Calls
<1>3. ASSUME NEW p \in FilePaths, Unlink(p) PROVE Good
  BY <1>1, <1>3, UnlinkStored DEF Store!Calls
<1>4. ASSUME NEW p \in DirPaths, Mkdir(p) PROVE Good
  BY <1>1, <1>4, MkdirStored DEF Store!Calls
<1>5. ASSUME NEW p \in DirPaths, Rmdir(p) PROVE Good
  BY <1>1, <1>5, RmdirStored DEF Store!Calls
<1>6. ASSUME NEW f \in Slots, Delete(f) PROVE Good
  BY <1>1, <1>6, DeleteStored DEF Store!Calls
<1>7. ASSUME NEW f \in Slots, LostNowOrBefore(f) PROVE Good
  <2>1. ~Unclobbered'
    BY <1>7 DEF Unclobbered, LostNowOrBefore
  <2>2. QED BY <1>7, <2>1 DEF LostNowOrBefore
<1>8. ASSUME NEW f \in Slots, NEW s \in Spans, NEW t \in Tokens, Write(f, s[1], s[2], t) PROVE Good
  <2>1. (Store!Write(f, s[1], s[2], t) /\ FilesNamed(index')) \/ LostNowOrBefore(f)
    BY <1>1, <1>8, WriteStored
  <2>2. QED BY <1>7, <2>1 DEF Store!Calls
<1>9. ASSUME NEW f \in Slots, NEW new \in Lengths, SafeTruncate(f, new) PROVE Good
  <2>1. (Store!Truncate(f, new) /\ FilesNamed(index')) \/ LostNowOrBefore(f)
    BY <1>1, <1>9, TruncateStored
  <2>2. QED BY <1>7, <2>1 DEF Store!Calls
<1>10. ASSUME NEW f \in Slots, NEW p \in FilePaths, SafeRename(f, p) PROVE Good
  BY <1>1, <1>10, RenameStored DEF Store!Calls
<1>11. ASSUME UNCHANGED vars PROVE Good
  <2>1. index' = index /\ data' = data
    BY <1>11 DEF vars
  <2>2. StoreFiles' = StoreFiles /\ StoreDirs' = StoreDirs /\ StoreBody' = StoreBody
    BY <2>1, StoreIs
  <2>3. QED BY <2>1, <2>2 DEF StoreInv, Store!vars
<1>12. Good
  <2> HIDE DEF Good
  <2>1. QED BY <1>2, <1>3, <1>4, <1>5, <1>6, <1>8, <1>9, <1>10, <1>11
            DEF SafeNext, FileCalls, DirCalls, DeleteCalls, WriteCalls
<1>13. StoreInv'
  <2>1. FilesNamed(index)'
    BY <1>12 DEF FilesNamed
  <2>2. QED BY <1>1, <2>1 DEF StoreInv
<1>14. QED BY <1>12, <1>13

(* The library is the file store, ImplementsStore: files that grow, move,   *)
(* are freed and reuse each other's blocks keep the bytes that were written *)
(* to them, under their names and, once unlinked, through their handles; a  *)
(* file is lost only when the index is full, when its entry is in the last  *)
(* block of the index, and alone.                                           *)
THEOREM StoresFiles == SafeSpec => ImplementsStore
<1>1. Init => Store!Init /\ StoreInv
  BY InitStored
<1>2. StoreInv /\ [SafeNext]_vars => StoreInv' /\ [Store!Next]_(Store!vars)
  BY StepStored DEF Store!Next
<1>3. QED BY <1>1, <1>2, PTL DEF SafeSpec, ImplementsStore, Store!Spec

(* As long as no index entry is overwritten with data, no file is lost.     *)
THEOREM KeepsFiles == SafeSpec /\ []Unclobbered => Store!LosslessSpec
<1>1. Init => Store!Init /\ StoreInv
  BY InitStored
<1>2. StoreInv /\ Unclobbered' /\ [SafeNext]_vars => StoreInv' /\ [Store!Calls]_(Store!vars)
  BY StepStored
<1>3. QED BY <1>1, <1>2, PTL DEF SafeSpec, Store!LosslessSpec

=============================================================================
