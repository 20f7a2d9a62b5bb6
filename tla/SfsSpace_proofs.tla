-------------------------- MODULE SfsSpace_proofs --------------------------
(***************************************************************************)
(* Proofs that SfsSpace keeps its accounts, for every number of entries    *)
(* and blocks.  The inductive invariant is Part(ent, lost, {}): types,     *)
(* well-formed and separate extents, no adjacent free extents, and every   *)
(* block either held or lost.  Inside a step some blocks P are on their    *)
(* way from a file to the list: Part(e, l, P).                             *)
(***************************************************************************)
EXTENDS SfsSpace, TLAPS

Part(e, l, P) ==
    /\ Typed(e, l) /\ P \in SUBSET Blocks
    /\ \A b \in P : b \notin l
    /\ Shaped(e) /\ Separate(e) /\ Gapped(e)
    /\ Accounted(e, l \cup P)

IInv == Part(ent, lost, {})

Extent(x) == IF Holds(x) THEN x.start .. x.end ELSE {}

(* A block that is held, and the blocks of an extent. *)
LEMMA Bounds ==
  ASSUME NEW e \in [Slots -> Entry], Shaped(e), NEW i \in Slots
  PROVE  /\ e[i].type \in Types
         /\ e[i].start \in Int /\ e[i].end \in Int
         /\ Holds(e[i]) => /\ Lo <= e[i].start /\ e[i].start <= e[i].end /\ e[i].end <= Hi
                           /\ e[i].start \in Blocks /\ e[i].end \in Blocks
         /\ ~Holds(e[i]) => e[i].start = 0 /\ e[i].end = 0
  BY AreaAssumption DEF Entry, Shaped, Blocks, Types

(* Blocks that nothing holds are apart from every extent. *)
LEMMA HoleApart ==
  ASSUME NEW e, NEW l, NEW st \in Blocks, NEW en \in Blocks, st <= en,
         Part(e, l, st .. en), NEW i \in Slots, Holds(e[i])
  PROVE  e[i].end < st \/ en < e[i].start
<1>1. e \in [Slots -> Entry] /\ Shaped(e) /\ Accounted(e, l \cup (st .. en))
  BY DEF Part, Typed
<1>2. /\ e[i].start \in Int /\ e[i].end \in Int /\ e[i].start <= e[i].end
      /\ e[i].start \in Blocks /\ e[i].end \in Blocks
  BY <1>1, Bounds
<1>3. st \in Int /\ en \in Int
  BY AreaAssumption DEF Blocks
<1>4. CASE e[i].start \in st .. en
  <2>1. ~InExt(e[i].start, e[i])
    BY <1>1, <1>2, <1>4 DEF Accounted
  <2>2. QED BY <2>1, <1>2 DEF InExt
<1>5. CASE st \in e[i].start .. e[i].end
  <2>1. ~InExt(st, e[i])
    BY <1>1, <1>3 DEF Accounted
  <2>2. QED BY <2>1, <1>2, <1>3, <1>5 DEF InExt
<1>6. QED BY <1>2, <1>3, <1>4, <1>5

(* An entry gives up its extent and nothing else changes hands: its blocks  *)
(* are then pending.  (Used for f that holds nothing as well.)              *)
LEMMA Vacate ==
  ASSUME NEW e, NEW l, Part(e, l, {}), NEW f \in Slots,
         NEW e2 \in [Slots -> Entry], Shaped(e2), ~Holds(e2[f]), e[f].type # "free",
         \A i \in Slots : i # f => /\ Holds(e2[i]) <=> Holds(e[i])
                                   /\ Holds(e[i]) => e2[i] = e[i]
  PROVE  Part(e2, l, Extent(e[f]))
<1>1. e \in [Slots -> Entry] /\ Shaped(e) /\ Separate(e) /\ Gapped(e) /\ l \in SUBSET Blocks
      /\ Accounted(e, l)
  BY DEF Part, Typed
<1>2. Extent(e[f]) \in SUBSET Blocks
  BY <1>1, Bounds, AreaAssumption DEF Extent, Blocks
<1>3. \A b \in Extent(e[f]) : InExt(b, e[f])
  BY <1>1, Bounds DEF Extent, InExt
<1>4. \A b \in Extent(e[f]) : b \notin l
  BY <1>1, <1>2, <1>3 DEF Accounted
<1>5. Separate(e2)
  BY <1>1 DEF Separate
<1>6. Gapped(e2)
  BY <1>1 DEF Gapped, Holds
<1>7. Accounted(e2, l \cup Extent(e[f]))
  <2> SUFFICES ASSUME NEW b \in Blocks
               PROVE  b \in l \cup Extent(e[f]) <=> \A i \in Slots : ~InExt(b, e2[i])
    BY DEF Accounted
  <2>1. b \in l <=> \A i \in Slots : ~InExt(b, e[i])
    BY <1>1 DEF Accounted
  <2>2. b \in Extent(e[f]) <=> InExt(b, e[f])
    BY <1>1, Bounds, AreaAssumption DEF Extent, InExt, Blocks
  <2>3. \A i \in Slots : i # f => (InExt(b, e2[i]) <=> InExt(b, e[i]))
    BY DEF InExt
  <2>4. ~InExt(b, e2[f])
    BY DEF InExt
  <2>5. ASSUME NEW i \in Slots, i # f, InExt(b, e[i]), InExt(b, e[f]) PROVE FALSE
    BY <1>1, <2>5, Bounds, AreaAssumption DEF Separate, Apart, InExt, Blocks
  <2>6. QED BY <2>1, <2>2, <2>3, <2>4, <2>5
<1>8. QED BY <1>1, <1>2, <1>4, <1>5, <1>6, <1>7 DEF Part, Typed

-----------------------------------------------------------------------------
(* del_file_list_add, one lemma for each outcome *)

(* What the outcomes have in common: e2 gives the pending blocks to the     *)
(* entry q, which holds x in e2; an entry that changes otherwise gave its   *)
(* blocks to q and is unused.                                               *)
Absorbs(e, st, en, q, x, e2) ==
    /\ q \in Slots /\ x = Free(x.start, x.end)
    /\ x.start \in Blocks /\ x.end \in Blocks /\ x.start <= x.end
    /\ e2 \in [Slots -> Entry] /\ e2[q] = x
    /\ \A i \in Slots : i # q => e2[i] \in {e[i], Unused}
    /\ \A b \in Blocks : InExt(b, x) <=>
          \/ st <= b /\ b <= en
          \/ \E i \in Slots : InExt(b, e[i]) /\ (i = q \/ e2[i] # e[i])
    /\ \A i \in Slots : i # q /\ Holds(e2[i]) => Apart(x, e2[i])
    /\ \A i \in Slots : i # q /\ e2[i].type = "free" =>
          x.end + 1 # e2[i].start /\ e2[i].end + 1 # x.start

(* A free entry that takes over a released extent: no block is lost by it. *)
LEMMA Absorb ==
  ASSUME NEW e, NEW l, NEW st \in Blocks, NEW en \in Blocks, st <= en,
         Part(e, l, st .. en), NEW q, NEW x, NEW e2, Absorbs(e, st, en, q, x, e2)
  PROVE  Part(e2, l, {})
<1> USE DEF Absorbs
<1>0. ~Holds(Unused)
  BY DEF Holds, Unused
<1>1. e \in [Slots -> Entry] /\ Shaped(e) /\ Separate(e) /\ Gapped(e) /\ l \in SUBSET Blocks
      /\ Accounted(e, l \cup (st .. en)) /\ \A b \in st .. en : b \notin l
  BY DEF Part, Typed
<1>2. Holds(x) /\ x.type = "free" /\ x.start \in Int /\ x.end \in Int
      /\ Lo <= x.start /\ x.end <= Hi
  BY AreaAssumption DEF Holds, Free, Blocks
<1>3. Shaped(e2)
  <2> SUFFICES ASSUME NEW i \in Slots
               PROVE IF Holds(e2[i]) THEN Lo <= e2[i].start /\ e2[i].start <= e2[i].end
                                          /\ e2[i].end <= Hi
                     ELSE e2[i].start = 0 /\ e2[i].end = 0
    BY DEF Shaped
  <2>1. CASE i = q  BY <2>1, <1>2
  <2>2. CASE i # q /\ e2[i] = e[i]  BY <2>2, <1>1 DEF Shaped
  <2>3. CASE i # q /\ e2[i] = Unused  BY <2>3 DEF Unused, Holds
  <2>4. QED BY <2>1, <2>2, <2>3
<1>4. Separate(e2)
  <2> SUFFICES ASSUME NEW i \in Slots, NEW j \in Slots, i # j, Holds(e2[i]), Holds(e2[j])
               PROVE Apart(e2[i], e2[j])
    BY DEF Separate
  <2>1. CASE i = q  BY <2>1
  <2>2. CASE j = q  BY <2>2 DEF Apart
  <2>3. CASE i # q /\ j # q
    <3>1. e2[i] = e[i] /\ e2[j] = e[j]  BY <1>0, <2>3
    <3>2. QED BY <3>1, <1>1 DEF Separate
  <2>4. QED BY <2>1, <2>2, <2>3
<1>5. Gapped(e2)
  <2> SUFFICES ASSUME NEW i \in Slots, NEW j \in Slots,
                      e2[i].type = "free", e2[j].type = "free"
               PROVE e2[i].end + 1 # e2[j].start
    BY DEF Gapped
  <2>1. CASE i = q /\ j = q  BY <2>1, <1>2
  <2>2. CASE i = q /\ j # q  BY <2>2
  <2>3. CASE i # q /\ j = q  BY <2>3
  <2>4. CASE i # q /\ j # q
    <3>1. e2[i] = e[i] /\ e2[j] = e[j]  BY <1>0, <2>4 DEF Holds
    <3>2. QED BY <3>1, <1>1 DEF Gapped
  <2>5. QED BY <2>1, <2>2, <2>3, <2>4
<1>6. Accounted(e2, l \cup {})
  <2> SUFFICES ASSUME NEW b \in Blocks PROVE b \in l <=> \A i \in Slots : ~InExt(b, e2[i])
    BY DEF Accounted
  <2>1. b \in l \cup (st .. en) <=> \A i \in Slots : ~InExt(b, e[i])
    BY <1>1 DEF Accounted
  <2>2. b \in st .. en <=> st <= b /\ b <= en
    BY AreaAssumption DEF Blocks
  <2>3. \A i \in Slots : i # q /\ e2[i] # e[i] => ~InExt(b, e2[i])
    BY <1>0 DEF InExt
  <2>4. CASE st <= b /\ b <= en
    BY <2>4, <2>2, <1>1
  <2>5. CASE ~(st <= b /\ b <= en)
    <3>1. b \in l <=> \A i \in Slots : ~InExt(b, e[i])  BY <2>1, <2>2, <2>5
    <3>2. ASSUME NEW i \in Slots, InExt(b, e2[i]) PROVE \E j \in Slots : InExt(b, e[j])
      BY <2>3, <2>5, <3>2
    <3>3. ASSUME NEW i \in Slots, InExt(b, e[i]) PROVE \E j \in Slots : InExt(b, e2[j])
      BY <3>3
    <3>4. QED BY <3>1, <3>2, <3>3
  <2>6. QED BY <2>4, <2>5
<1>7. QED BY <1>1, <1>3, <1>4, <1>5, <1>6 DEF Part, Typed

(* The arithmetic of an index with the pending blocks st .. en. *)
Around(e, st, en) ==
    /\ e \in [Slots -> Entry]
    /\ st \in Int /\ en \in Int /\ st <= en
    /\ Lo <= st /\ en <= Hi /\ Lo \in Int /\ Hi \in Int /\ 0 < Lo
    /\ \A i \in Slots : Holds(e[i]) => /\ e[i].start \in Int /\ e[i].end \in Int
                                       /\ Lo <= e[i].start /\ e[i].start <= e[i].end
                                       /\ e[i].end <= Hi
                                       /\ e[i].end < st \/ en < e[i].start
    /\ \A i, j \in Slots : i # j /\ Holds(e[i]) /\ Holds(e[j]) =>
           e[i].end < e[j].start \/ e[j].end < e[i].start
    /\ \A i, j \in Slots : e[i].type = "free" /\ e[j].type = "free" =>
           e[i].end + 1 # e[j].start
    /\ \A i \in Slots : e[i].type = "free" => Holds(e[i])
    /\ \A p \in PrevOf(e, st) : p \in Slots /\ e[p].type = "free" /\ e[p].end = st - 1
    /\ \A q \in NextOf(e, en) : q \in Slots /\ e[q].type = "free" /\ e[q].start = en + 1

(* What add_free_space finds: free extents that end or start next to the released one. *)
LEMMA Neighbours ==
  ASSUME NEW e, NEW l, NEW st \in Blocks, NEW en \in Blocks, st <= en,
         Part(e, l, st .. en)
  PROVE  Around(e, st, en)
<1>1. e \in [Slots -> Entry] /\ Shaped(e) /\ Separate(e) /\ Gapped(e)
  BY DEF Part, Typed
<1>2. st \in Int /\ en \in Int /\ Lo <= st /\ en <= Hi /\ Lo \in Int /\ Hi \in Int /\ 0 < Lo
  BY AreaAssumption DEF Blocks
<1>3. \A i \in Slots : Holds(e[i]) => e[i].end < st \/ en < e[i].start
  BY HoleApart
<1>4. \A i \in Slots : Holds(e[i]) => /\ e[i].start \in Int /\ e[i].end \in Int
                                      /\ Lo <= e[i].start /\ e[i].start <= e[i].end
                                      /\ e[i].end <= Hi
  BY <1>1, Bounds
<1>5. \A i, j \in Slots : i # j /\ Holds(e[i]) /\ Holds(e[j]) =>
                e[i].end < e[j].start \/ e[j].end < e[i].start
  BY <1>1 DEF Separate, Apart
<1>6. \A i \in Slots : e[i].type = "free" => Holds(e[i])
  BY DEF Holds
<1>7. \A p \in PrevOf(e, st) : p \in Slots /\ e[p].type = "free" /\ e[p].end = st - 1
  BY <1>2, <1>4, <1>6 DEF PrevOf
<1>8. \A q \in NextOf(e, en) : q \in Slots /\ e[q].type = "free" /\ e[q].start = en + 1
  BY DEF NextOf
<1>9. QED BY <1>1, <1>2, <1>3, <1>4, <1>5, <1>6, <1>7, <1>8 DEF Gapped, Around

(* add_free_space with a free extent right behind: that entry grows down. *)
LEMMA MergeNextOK ==
  ASSUME NEW e, NEW l, NEW st \in Blocks, NEW en \in Blocks, st <= en,
         Part(e, l, st .. en), PrevOf(e, st) = {}, NEW q \in NextOf(e, en)
  PROVE  Part(Put(e, q, Free(st, e[q].end)), l, {})
<1> DEFINE x == Free(st, e[q].end)
           e2 == Put(e, q, x)
<1>A. Around(e, st, en)  BY Neighbours
<1>0. q \in Slots /\ e[q].type = "free" /\ e[q].start = en + 1 /\ Holds(e[q])
      /\ e[q].end \in Int /\ e[q].start <= e[q].end /\ e[q].end <= Hi
  BY <1>A DEF Around
<1>1. x = Free(x.start, x.end) /\ x.start = st /\ x.end = e[q].end /\ Holds(x) /\ x \in Entry
      /\ x.start \in Blocks /\ x.end \in Blocks /\ x.start <= x.end
  BY <1>0, <1>A DEF Free, Entry, Types, Blocks, Holds, Around
<1>2. e2 \in [Slots -> Entry] /\ e2[q] = x /\ \A i \in Slots : i # q => e2[i] = e[i]
  BY <1>0, <1>1, <1>A DEF Put, Around
<1>3. ASSUME NEW b \in Blocks
      PROVE  InExt(b, x) <=> \/ st <= b /\ b <= en
                             \/ \E i \in Slots : InExt(b, e[i]) /\ (i = q \/ e2[i] # e[i])
  <2>1. b \in Int  BY AreaAssumption DEF Blocks
  <2>2. InExt(b, x) <=> (st <= b /\ b <= en) \/ InExt(b, e[q])
    BY <1>0, <1>1, <2>1, <1>A DEF InExt, Around
  <2>3. QED BY <2>2, <1>0, <1>2
<1>4. ASSUME NEW i \in Slots, i # q, Holds(e2[i]) PROVE Apart(x, e2[i])
  BY <1>4, <1>0, <1>1, <1>2, <1>A DEF Apart, Around
<1>5. ASSUME NEW i \in Slots, i # q, e2[i].type = "free"
      PROVE  x.end + 1 # e2[i].start /\ e2[i].end + 1 # x.start
  <2>1. e2[i] = e[i]  BY <1>2, <1>5
  <2>2. e[i].end + 1 # st  BY <2>1, <1>5 DEF PrevOf
  <2>3. QED BY <2>1, <2>2, <1>5, <1>0, <1>1, <1>A DEF Around
<1> HIDE DEF x, e2
<1>6. Absorbs(e, st, en, q, x, e2)
  BY <1>0, <1>1, <1>2, <1>3, <1>4, <1>5 DEF Absorbs
<1>7. Part(e2, l, {})
  BY <1>6, Absorb
<1>8. QED BY <1>7 DEF x, e2

(* add_free_space with a free extent right before: that entry grows up. *)
LEMMA MergePrevOK ==
  ASSUME NEW e, NEW l, NEW st \in Blocks, NEW en \in Blocks, st <= en,
         Part(e, l, st .. en), NextOf(e, en) = {}, NEW p \in PrevOf(e, st)
  PROVE  Part(Put(e, p, Free(e[p].start, en)), l, {})
<1> DEFINE x == Free(e[p].start, en)
           e2 == Put(e, p, x)
<1>A. Around(e, st, en)  BY Neighbours
<1>0. p \in Slots /\ e[p].type = "free" /\ e[p].end = st - 1 /\ Holds(e[p])
      /\ e[p].start \in Int /\ e[p].start <= e[p].end /\ Lo <= e[p].start
  BY <1>A DEF Around
<1>1. x = Free(x.start, x.end) /\ x.start = e[p].start /\ x.end = en /\ Holds(x) /\ x \in Entry
      /\ x.start \in Blocks /\ x.end \in Blocks /\ x.start <= x.end
  BY <1>0, <1>A DEF Free, Entry, Types, Blocks, Holds, Around
<1>2. e2 \in [Slots -> Entry] /\ e2[p] = x /\ \A i \in Slots : i # p => e2[i] = e[i]
  BY <1>0, <1>1, <1>A DEF Put, Around
<1>3. ASSUME NEW b \in Blocks
      PROVE  InExt(b, x) <=> \/ st <= b /\ b <= en
                             \/ \E i \in Slots : InExt(b, e[i]) /\ (i = p \/ e2[i] # e[i])
  <2>1. b \in Int  BY AreaAssumption DEF Blocks
  <2>2. InExt(b, x) <=> (st <= b /\ b <= en) \/ InExt(b, e[p])
    BY <1>0, <1>1, <2>1, <1>A DEF InExt, Around
  <2>3. QED BY <2>2, <1>0, <1>2
<1>4. ASSUME NEW i \in Slots, i # p, Holds(e2[i]) PROVE Apart(x, e2[i])
  BY <1>4, <1>0, <1>1, <1>2, <1>A DEF Apart, Around
<1>5. ASSUME NEW i \in Slots, i # p, e2[i].type = "free"
      PROVE  x.end + 1 # e2[i].start /\ e2[i].end + 1 # x.start
  <2>1. e2[i] = e[i]  BY <1>2, <1>5
  <2>2. e[i].start # en + 1  BY <2>1, <1>5 DEF NextOf
  <2>3. QED BY <2>1, <2>2, <1>5, <1>0, <1>1, <1>A DEF Around
<1> HIDE DEF x, e2
<1>6. Absorbs(e, st, en, p, x, e2)
  BY <1>0, <1>1, <1>2, <1>3, <1>4, <1>5 DEF Absorbs
<1>7. Part(e2, l, {})
  BY <1>6, Absorb
<1>8. QED BY <1>7 DEF x, e2

(* add_free_space with no free neighbour: an unused entry takes the extent. *)
LEMMA AddNewOK ==
  ASSUME NEW e, NEW l, NEW st \in Blocks, NEW en \in Blocks, st <= en,
         Part(e, l, st .. en), PrevOf(e, st) = {}, NextOf(e, en) = {}, NEW n \in UnusedIn(e)
  PROVE  Part(Put(e, n, Free(st, en)), l, {})
<1> DEFINE x == Free(st, en)
           e2 == Put(e, n, x)
<1>A. Around(e, st, en)  BY Neighbours
<1>0. n \in Slots /\ ~Holds(e[n])
  BY DEF UnusedIn, Holds
<1>1. x = Free(x.start, x.end) /\ x.start = st /\ x.end = en /\ Holds(x) /\ x \in Entry
      /\ x.start \in Blocks /\ x.end \in Blocks /\ x.start <= x.end
  BY <1>0, <1>A DEF Free, Entry, Types, Blocks, Holds, Around
<1>2. e2 \in [Slots -> Entry] /\ e2[n] = x /\ \A i \in Slots : i # n => e2[i] = e[i]
  BY <1>0, <1>1, <1>A DEF Put, Around
<1>3. ASSUME NEW b \in Blocks
      PROVE  InExt(b, x) <=> \/ st <= b /\ b <= en
                             \/ \E i \in Slots : InExt(b, e[i]) /\ (i = n \/ e2[i] # e[i])
  BY <1>0, <1>1, <1>2 DEF InExt
<1>4. ASSUME NEW i \in Slots, i # n, Holds(e2[i]) PROVE Apart(x, e2[i])
  BY <1>4, <1>0, <1>1, <1>2, <1>A DEF Apart, Around
<1>5. ASSUME NEW i \in Slots, i # n, e2[i].type = "free"
      PROVE  x.end + 1 # e2[i].start /\ e2[i].end + 1 # x.start
  <2>1. e2[i] = e[i]  BY <1>2, <1>5
  <2>2. e[i].start # en + 1 /\ e[i].end + 1 # st  BY <2>1, <1>5 DEF NextOf, PrevOf
  <2>3. QED BY <2>1, <2>2, <1>1
<1> HIDE DEF x, e2
<1>6. Absorbs(e, st, en, n, x, e2)
  BY <1>0, <1>1, <1>2, <1>3, <1>4, <1>5 DEF Absorbs
<1>7. Part(e2, l, {})
  BY <1>6, Absorb
<1>8. QED BY <1>7 DEF x, e2

(* add_free_space between two free extents: one entry takes all, the other is unused. *)
LEMMA MergeBothOK ==
  ASSUME NEW e, NEW l, NEW st \in Blocks, NEW en \in Blocks, st <= en,
         Part(e, l, st .. en), NEW p \in PrevOf(e, st), NEW q \in NextOf(e, en)
  PROVE  Part(Put(Put(e, p, Unused), q, Free(e[p].start, e[q].end)), l, {})
<1> DEFINE x == Free(e[p].start, e[q].end)
           e2 == Put(Put(e, p, Unused), q, x)
<1>A. Around(e, st, en)  BY Neighbours
<1>0. /\ p \in Slots /\ e[p].type = "free" /\ e[p].end = st - 1 /\ Holds(e[p])
      /\ e[p].start \in Int /\ e[p].start <= e[p].end /\ Lo <= e[p].start
      /\ q \in Slots /\ e[q].type = "free" /\ e[q].start = en + 1 /\ Holds(e[q])
      /\ e[q].end \in Int /\ e[q].start <= e[q].end /\ e[q].end <= Hi
      /\ st \in Int /\ en \in Int
  BY <1>A DEF Around
<1>a. p # q
  BY <1>0
<1>1. x = Free(x.start, x.end) /\ x.start = e[p].start /\ x.end = e[q].end /\ Holds(x)
      /\ x \in Entry /\ x.start \in Blocks /\ x.end \in Blocks /\ x.start <= x.end
  BY <1>0, <1>A DEF Free, Entry, Types, Blocks, Holds, Around
<1>b. Unused \in Entry /\ ~Holds(Unused)
  BY DEF Unused, Entry, Types, Holds
<1>2. /\ e2 \in [Slots -> Entry] /\ e2[q] = x /\ e2[p] = Unused
      /\ \A i \in Slots : i # q /\ i # p => e2[i] = e[i]
  BY <1>0, <1>a, <1>1, <1>b, <1>A DEF Put, Around
<1>3. ASSUME NEW b \in Blocks
      PROVE  InExt(b, x) <=> \/ st <= b /\ b <= en
                             \/ \E i \in Slots : InExt(b, e[i]) /\ (i = q \/ e2[i] # e[i])
  <2>1. b \in Int  BY AreaAssumption DEF Blocks
  <2>2. InExt(b, x) <=> (st <= b /\ b <= en) \/ InExt(b, e[p]) \/ InExt(b, e[q])
    BY <1>0, <1>1, <2>1 DEF InExt
  <2>3. e2[p] # e[p]
    BY <1>0, <1>2, <1>b
  <2>4. QED BY <2>2, <2>3, <1>0, <1>2
<1>4. ASSUME NEW i \in Slots, i # q, Holds(e2[i]) PROVE Apart(x, e2[i])
  <2>1. i # p /\ e2[i] = e[i]  BY <1>2, <1>b, <1>4
  <2>2. QED BY <2>1, <1>4, <1>0, <1>1, <1>A DEF Apart, Around
<1>5. ASSUME NEW i \in Slots, i # q, e2[i].type = "free"
      PROVE  x.end + 1 # e2[i].start /\ e2[i].end + 1 # x.start
  <2>1. i # p /\ e2[i] = e[i]  BY <1>2, <1>b, <1>5 DEF Holds
  <2>2. QED BY <2>1, <1>5, <1>0, <1>1, <1>A DEF Around
<1> HIDE DEF x, e2
<1>6. Absorbs(e, st, en, q, x, e2)
  BY <1>0, <1>1, <1>2, <1>b, <1>3, <1>4, <1>5 DEF Absorbs
<1>7. Part(e2, l, {})
  BY <1>6, Absorb
<1>8. QED BY <1>7 DEF x, e2

(* Giving an extent back keeps the accounts. *)
LEMMA ReleaseOK ==
  ASSUME NEW e, NEW x \in Entry, Part(e, lost, Extent(x)),
         IF Holds(x) THEN x.start \in Blocks /\ x.end \in Blocks /\ x.start <= x.end
                     ELSE x.start = 0,
         Release(e, x)
  PROVE  Part(ent, lost, {})'
<1>1. CASE ~Holds(x)
  <2>1. ent' = e /\ lost' = lost /\ Extent(x) = {}  BY <1>1 DEF Release, Extent
  <2>2. QED BY <2>1 DEF Part, Typed, Accounted
<1>2. CASE Holds(x)
  <2> DEFINE st == x.start
             en == x.end
  <2>1. st \in Blocks /\ en \in Blocks /\ st <= en /\ Part(e, lost, st .. en) /\ st # 0
    BY <1>2, AreaAssumption DEF Extent, Blocks
  <2>2. AddExtent(e, st, en)  BY <2>1 DEF Release
  <2> HIDE DEF st, en
  <2>3. CASE MergeBoth(e, st, en)
    BY <2>1, <2>3, MergeBothOK DEF MergeBoth
  <2>4. CASE MergeNext(e, st, en)
    BY <2>1, <2>4, MergeNextOK DEF MergeNext
  <2>5. CASE MergePrev(e, st, en)
    BY <2>1, <2>5, MergePrevOK DEF MergePrev
  <2>6. CASE AddNew(e, st, en)
    BY <2>1, <2>6, AddNewOK DEF AddNew
  <2>7. CASE Leak(e, st, en)
    <3>1. ent' = e /\ lost' = lost \cup (st .. en)  BY <2>7 DEF Leak
    <3>2. Typed(e, lost') BY <2>1, <3>1 DEF Part, Typed
    <3>3. QED BY <2>1, <3>1, <3>2 DEF Part
  <2>8. QED BY <2>2, <2>3, <2>4, <2>5, <2>6, <2>7 DEF AddExtent
<1>3. QED BY <1>1, <1>2

-----------------------------------------------------------------------------
(* del_file_list_alloc and try_expand: the first n blocks of the free       *)
(* extent d become the file's, which held nothing or ended just before d.   *)
LEMMA Shift ==
  ASSUME NEW e, NEW l, NEW P, Part(e, l, P), NEW f \in Slots, NEW d \in Slots,
         e[d].type = "free", e[f].type # "free", NEW n \in Nat \ {0}, n <= Size(e[d]),
         NEW s, IF Holds(e[f]) THEN s = e[f].start /\ e[d].start = e[f].end + 1
                               ELSE s = e[d].start
  PROVE  Part(TakeFront(Put(e, f, File(s, e[d].start + n - 1)), d, n), l, P)
<1> DEFINE x  == File(s, e[d].start + n - 1)
           e1 == Put(e, f, x)
           y  == IF n = Size(e[d]) THEN Unused ELSE Free(e[d].start + n, e[d].end)
           e2 == TakeFront(e1, d, n)
<1>1. e \in [Slots -> Entry] /\ Shaped(e) /\ Separate(e) /\ Gapped(e)
      /\ l \in SUBSET Blocks /\ P \in SUBSET Blocks /\ Accounted(e, l \cup P)
      /\ \A b \in P : b \notin l
  BY DEF Part, Typed
<1>2. f # d
  OBVIOUS
<1>3. /\ Holds(e[d]) /\ e[d].start \in Int /\ e[d].end \in Int
      /\ Lo <= e[d].start /\ e[d].start <= e[d].end /\ e[d].end <= Hi
  BY <1>1, Bounds DEF Holds
<1>4. /\ Holds(e[f]) => e[f].start \in Int /\ e[f].end \in Int
                        /\ Lo <= e[f].start /\ e[f].start <= e[f].end
      /\ Lo \in Int /\ Hi \in Int /\ 0 < Lo
  BY <1>1, Bounds, AreaAssumption
<1>5. s \in Int /\ Lo <= s /\ s <= e[d].start /\ e[d].start + n - 1 <= e[d].end
  BY <1>3, <1>4 DEF Size
<1>6. /\ x \in Entry /\ Holds(x) /\ x.type = "file"
      /\ x.start = s /\ x.end = e[d].start + n - 1
  BY <1>3, <1>4, <1>5 DEF File, Entry, Types, Blocks, Holds
<1>7. /\ y \in Entry
      /\ Holds(y) => /\ y.type = "free" /\ y.start = e[d].start + n /\ y.end = e[d].end
                     /\ y.start <= y.end
      /\ ~Holds(y) => y = Unused /\ n = e[d].end - e[d].start + 1
  <2>1. CASE n = Size(e[d])
    BY <2>1 DEF Unused, Entry, Types, Holds, Size
  <2>2. CASE n # Size(e[d])
    BY <2>2, <1>3, <1>4, <1>5 DEF Free, Entry, Types, Blocks, Holds, Size
  <2>3. QED BY <2>1, <2>2
<1>8. /\ e2 \in [Slots -> Entry] /\ e2[f] = x /\ e2[d] = y
      /\ \A i \in Slots : i # f /\ i # d => e2[i] = e[i]
  <2>1. e1[d] = e[d]  BY <1>2 DEF Put
  <2>2. e2 = Put(e1, d, y)  BY <2>1 DEF TakeFront
  <2>3. QED BY <2>2, <1>1, <1>2, <1>6, <1>7 DEF Put
<1>9. Holds(e[f]) => s = e[f].start /\ e[d].start = e[f].end + 1
  OBVIOUS
<1>10. ~Holds(e[f]) => s = e[d].start
  OBVIOUS
<1> HIDE DEF x, y, e1, e2
<1>11. Shaped(e2)
  <2> SUFFICES ASSUME NEW i \in Slots
               PROVE IF Holds(e2[i]) THEN Lo <= e2[i].start /\ e2[i].start <= e2[i].end
                                          /\ e2[i].end <= Hi
                     ELSE e2[i].start = 0 /\ e2[i].end = 0
    BY DEF Shaped
  <2>1. CASE i = f  BY <2>1, <1>3, <1>4, <1>5, <1>6, <1>8
  <2>2. CASE i = d  BY <2>2, <1>3, <1>4, <1>5, <1>7, <1>8 DEF Unused
  <2>3. CASE i # f /\ i # d  BY <2>3, <1>1, <1>8 DEF Shaped
  <2>4. QED BY <2>1, <2>2, <2>3
<1>12. ASSUME NEW j \in Slots, j # f, j # d, Holds(e[j])
       PROVE  Apart(x, e[j]) /\ (Holds(y) => Apart(y, e[j]))
  <2>1. e[j].start \in Int /\ e[j].end \in Int /\ e[j].start <= e[j].end
    BY <1>1, <1>12, Bounds
  <2>2. e[j].end < e[d].start \/ e[d].end < e[j].start
    BY <1>1, <1>3, <1>12 DEF Separate, Apart
  <2>3. Holds(e[f]) => e[j].end < e[f].start \/ e[f].end < e[j].start
    BY <1>1, <1>12 DEF Separate, Apart
  <2>4. QED BY <2>1, <2>2, <2>3, <1>3, <1>4, <1>5, <1>6, <1>7, <1>9, <1>10 DEF Apart
<1>13. Holds(y) => Apart(x, y)
  BY <1>3, <1>5, <1>6, <1>7 DEF Apart
<1>14. Separate(e2)
  <2> SUFFICES ASSUME NEW i \in Slots, NEW j \in Slots, i # j, Holds(e2[i]), Holds(e2[j])
               PROVE Apart(e2[i], e2[j])
    BY DEF Separate
  <2>1. CASE i \in {f, d} /\ j \in {f, d}
    BY <2>1, <1>8, <1>13 DEF Apart
  <2>2. CASE i \in {f, d} /\ j \notin {f, d}
    BY <2>2, <1>8, <1>12
  <2>3. CASE i \notin {f, d} /\ j \in {f, d}
    BY <2>3, <1>8, <1>12 DEF Apart
  <2>4. CASE i \notin {f, d} /\ j \notin {f, d}
    BY <2>4, <1>1, <1>8 DEF Separate
  <2>5. QED BY <2>1, <2>2, <2>3, <2>4
<1>15. Gapped(e2)
  <2> SUFFICES ASSUME NEW i \in Slots, NEW j \in Slots,
                      e2[i].type = "free", e2[j].type = "free"
               PROVE e2[i].end + 1 # e2[j].start
    BY DEF Gapped
  <2>1. i # f /\ j # f  BY <1>6, <1>8
  <2>2. Holds(e2[i]) /\ Holds(e2[j])  BY DEF Holds
  <2>3. CASE i = d /\ j = d
    BY <2>2, <2>3, <1>3, <1>5, <1>7, <1>8
  <2>4. CASE i = d /\ j # d
    BY <2>1, <2>2, <2>4, <1>1, <1>7, <1>8 DEF Gapped
  <2>5. CASE i # d /\ j = d
    <3>1. e2[i] = e[i] /\ Holds(e[i])  BY <2>1, <2>2, <2>5, <1>8
    <3>2. e[i].start \in Int /\ e[i].end \in Int /\ e[i].start <= e[i].end
      BY <3>1, <1>1, Bounds
    <3>3. e[i].end < e[d].start \/ e[d].end < e[i].start
      BY <3>1, <2>5, <1>1, <1>3 DEF Separate, Apart
    <3>4. e2[j].start = e[d].start + n /\ e[d].start + n <= e[d].end
      BY <2>2, <2>5, <1>7, <1>8
    <3>5. QED BY <3>1, <3>2, <3>3, <3>4, <1>3
  <2>6. CASE i # d /\ j # d
    BY <2>1, <2>6, <1>1, <1>8 DEF Gapped
  <2>7. QED BY <2>3, <2>4, <2>5, <2>6
<1>16. Accounted(e2, l \cup P)
  <2> SUFFICES ASSUME NEW b \in Blocks
               PROVE  b \in l \cup P <=> \A i \in Slots : ~InExt(b, e2[i])
    BY DEF Accounted
  <2>1. b \in l \cup P <=> \A i \in Slots : ~InExt(b, e[i])
    BY <1>1 DEF Accounted
  <2>2. b \in Int  BY AreaAssumption DEF Blocks
  <2>3. InExt(b, x) \/ InExt(b, y) <=> InExt(b, e[f]) \/ InExt(b, e[d])
    BY <2>2, <1>3, <1>4, <1>5, <1>6, <1>7, <1>9, <1>10 DEF InExt
  <2>4. \A i \in Slots : i # f /\ i # d => (InExt(b, e2[i]) <=> InExt(b, e[i]))
    BY <1>8
  <2>5. QED BY <2>1, <2>3, <2>4, <1>8
<1>17. Part(e2, l, P)
  BY <1>1, <1>8, <1>11, <1>14, <1>15, <1>16 DEF Part, Typed
<1>18. QED BY <1>17 DEF e2, e1, x

-----------------------------------------------------------------------------
(* The steps *)

(* The entries that hold no block. *)
LEMMA Constructors ==
  /\ Unused \in Entry /\ ~Holds(Unused) /\ Unused.start = 0 /\ Unused.end = 0
  /\ Other \in Entry /\ ~Holds(Other) /\ Other.start = 0 /\ Other.end = 0
  /\ Empty \in Entry /\ ~Holds(Empty) /\ Empty.start = 0 /\ Empty.end = 0
  BY DEF Unused, Other, Empty, Entry, Types, Holds

(* An index that differs from ent only in entries that hold nothing, before *)
(* and after, is as good as ent.                                            *)
LEMMA Renaming ==
  ASSUME IInv, NEW C \in SUBSET Slots, \A i \in C : ~Holds(ent[i]),
         ent' \in [Slots -> Entry],
         \A i \in C : ent'[i] \in {Unused, Other, Empty},
         \A i \in Slots \ C : ent'[i] = ent[i], lost' = lost
  PROVE  IInv'
<1>1. ent \in [Slots -> Entry] /\ Shaped(ent) /\ Separate(ent) /\ Gapped(ent)
      /\ lost \in SUBSET Blocks /\ Accounted(ent, lost)
  BY DEF IInv, Part, Typed
<1>2. \A i \in Slots : /\ Holds(ent'[i]) <=> Holds(ent[i])
                       /\ Holds(ent[i]) => ent'[i] = ent[i]
  BY Constructors
<1>3. Shaped(ent')
  BY <1>1, <1>2, Constructors DEF Shaped
<1>4. Separate(ent')
  BY <1>1, <1>2 DEF Separate
<1>5. Gapped(ent')
  BY <1>1, <1>2 DEF Gapped, Holds
<1>6. Accounted(ent', lost \cup {})
  <2>1. \A i \in Slots, b \in Blocks : InExt(b, ent'[i]) <=> InExt(b, ent[i])
    BY <1>2 DEF InExt
  <2>2. QED BY <1>1, <2>1 DEF Accounted
<1>7. QED BY <1>1, <1>3, <1>4, <1>5, <1>6 DEF IInv, Part, Typed

(* sfs_creat: a new file of no blocks and its continuations. *)
LEMMA CreateStep ==
  ASSUME IInv, NEW f \in Slots, NEW C \in SUBSET Slots, Create(f, C)
  PROVE  IInv'
<1>1. \A i \in C \cup {f} : ~Holds(ent[i])
  BY DEF Create, UnusedIn, Holds
<1>2. ent \in [Slots -> Entry]
  BY DEF IInv, Part, Typed
<1>3. ent' \in [Slots -> Entry]
  BY <1>2, Constructors DEF Create
<1>4. /\ \A i \in C \cup {f} : ent'[i] \in {Unused, Other, Empty}
      /\ \A i \in Slots \ (C \cup {f}) : ent'[i] = ent[i]
      /\ lost' = lost
  BY DEF Create
<1>5. QED BY <1>1, <1>3, <1>4, Renaming

(* sfs_mkdir: entries that hold no block. *)
LEMMA MkdirStep ==
  ASSUME IInv, NEW C \in SUBSET Slots, Mkdir(C)
  PROVE  IInv'
<1>1. \A i \in C : ~Holds(ent[i])
  BY DEF Mkdir, UnusedIn, Holds
<1>2. ent \in [Slots -> Entry]
  BY DEF IInv, Part, Typed
<1>3. ent' \in [Slots -> Entry]
  BY <1>2, Constructors DEF Mkdir
<1>4. /\ \A i \in C : ent'[i] \in {Unused, Other, Empty}
      /\ \A i \in Slots \ C : ent'[i] = ent[i]
      /\ lost' = lost
  BY DEF Mkdir
<1>5. QED BY <1>1, <1>3, <1>4, Renaming

(* sfs_rmdir: entries that hold no block become unused. *)
LEMMA RmdirStep ==
  ASSUME IInv, NEW C \in SUBSET Slots, Rmdir(C)
  PROVE  IInv'
<1>1. \A i \in C : ~Holds(ent[i])
  BY DEF Rmdir, Others, Holds
<1>2. ent \in [Slots -> Entry]
  BY DEF IInv, Part, Typed
<1>3. ent' \in [Slots -> Entry]
  BY <1>2, Constructors DEF Rmdir, Clear
<1>4. /\ \A i \in C : ent'[i] \in {Unused, Other, Empty}
      /\ \A i \in Slots \ C : ent'[i] = ent[i]
      /\ lost' = lost
  BY DEF Rmdir, Clear
<1>5. QED BY <1>1, <1>3, <1>4, Renaming

(* sfs_rename of an empty file or of a directory: no block moves. *)
LEMMA RenameEmptyStep ==
  ASSUME IInv, NEW f \in Slots, NEW g \in Slots, NEW C \in SUBSET Slots,
         NEW D \in SUBSET Slots, RenameEmpty(f, C, g, D)
  PROVE  IInv'
<1> DEFINE A == C \cup {f} \cup D \cup {g}
<1>1. \A i \in A : ~Holds(ent[i])
  BY DEF RenameEmpty, Others, UnusedIn, FileSlots, Holds
<1>2. ent \in [Slots -> Entry]
  BY DEF IInv, Part, Typed
<1>3. ent' \in [Slots -> Entry]
  BY <1>2, Constructors DEF RenameEmpty
<1>4. /\ \A i \in A : ent'[i] \in {Unused, Other, Empty}
      /\ \A i \in Slots \ A : ent'[i] = ent[i]
      /\ lost' = lost
  BY DEF RenameEmpty
<1>5. A \in SUBSET Slots
  OBVIOUS
<1> HIDE DEF A
<1>6. QED BY <1>1, <1>3, <1>4, <1>5, Renaming

(* An extent that a file holds is one that Release takes. *)
LEMMA Releasable ==
  ASSUME IInv, NEW f \in Slots, ent[f].type = "file"
  PROVE  /\ ent[f] \in Entry /\ ent \in [Slots -> Entry] /\ Shaped(ent)
         /\ IF Holds(ent[f]) THEN ent[f].start \in Blocks /\ ent[f].end \in Blocks
                                  /\ ent[f].start <= ent[f].end
                             ELSE ent[f].start = 0
<1>1. ent \in [Slots -> Entry] /\ Shaped(ent)
  BY DEF IInv, Part, Typed
<1>2. QED BY <1>1, Bounds

(* delete_file: the file's blocks become its entry's, as a deleted file's. *)
LEMMA DeleteStep ==
  ASSUME IInv, NEW f \in Slots, NEW C \in SUBSET Slots, Delete(f, C)
  PROVE  IInv'
<1> DEFINE e2 == Clear(ent, C \cup {f})
<1>1. ent[f].type = "file" /\ \A i \in C : ~Holds(ent[i])
  BY DEF Delete, FileSlots, Others, Holds
<1>2. ent[f] \in Entry /\ ent \in [Slots -> Entry] /\ Shaped(ent)
      /\ IF Holds(ent[f]) THEN ent[f].start \in Blocks /\ ent[f].end \in Blocks
                               /\ ent[f].start <= ent[f].end
                          ELSE ent[f].start = 0
  BY <1>1, Releasable
<1>3. /\ e2 \in [Slots -> Entry]
      /\ \A i \in Slots : e2[i] = IF i \in C \cup {f} THEN Unused ELSE ent[i]
  BY <1>2, Constructors DEF Clear
<1>4. Release(e2, ent[f])
  BY DEF Delete
<1> HIDE DEF e2
<1>5. Shaped(e2)
  BY <1>2, <1>3, Constructors DEF Shaped
<1>6. /\ ~Holds(e2[f])
      /\ \A i \in Slots : i # f => /\ Holds(e2[i]) <=> Holds(ent[i])
                                   /\ Holds(ent[i]) => e2[i] = ent[i]
  BY <1>1, <1>3, Constructors
<1>7. Part(e2, lost, Extent(ent[f]))
  BY <1>1, <1>3, <1>5, <1>6, Vacate DEF IInv
<1>8. QED BY <1>2, <1>4, <1>7, ReleaseOK DEF IInv

(* Taking its extent from a file leaves the extent pending. *)
LEMMA Emptied ==
  ASSUME IInv, NEW f \in Slots, ent[f].type = "file"
  PROVE  Part(Put(ent, f, Empty), lost, Extent(ent[f]))
<1> DEFINE e2 == Put(ent, f, Empty)
<1>1. ent[f] \in Entry /\ ent \in [Slots -> Entry] /\ Shaped(ent)
  BY Releasable
<1>2. /\ e2 \in [Slots -> Entry] /\ e2[f] = Empty
      /\ \A i \in Slots : i # f => e2[i] = ent[i]
  BY <1>1, Constructors DEF Put
<1> HIDE DEF e2
<1>3. Shaped(e2)
  BY <1>1, <1>2, Constructors DEF Shaped
<1>4. /\ ~Holds(e2[f])
      /\ \A i \in Slots : i # f => /\ Holds(e2[i]) <=> Holds(ent[i])
                                   /\ Holds(ent[i]) => e2[i] = ent[i]
  BY <1>2, Constructors
<1>5. Part(e2, lost, Extent(ent[f]))
  BY <1>2, <1>3, <1>4, Vacate DEF IInv
<1>6. QED BY <1>5 DEF e2

(* sfs_truncate to 0 releases all of the file's blocks. *)
LEMMA Truncate0Step ==
  ASSUME IInv, NEW f \in Slots, Truncate0(f)
  PROVE  IInv'
<1>1. ent[f].type = "file" /\ Release(Put(ent, f, Empty), ent[f])
  BY DEF Truncate0, FileSlots
<1>2. Part(Put(ent, f, Empty), lost, Extent(ent[f]))
  BY <1>1, Emptied
<1>3. QED BY <1>1, <1>2, Releasable, ReleaseOK DEF IInv

(* Growth in place: the file takes the first blocks of the free extent behind it. *)
LEMMA ExpandStep ==
  ASSUME IInv, NEW f \in Slots, NEW n \in Nat \ {0}, Expand(f, n)
  PROVE  IInv'
<1>1. ent[f].type = "file" /\ Holds(ent[f])
  BY DEF Expand, FileSlots, Holds
<1>2. PICK d \in Slots : /\ ent[d].type = "free" /\ ent[d].start = ent[f].end + 1
                         /\ n <= Size(ent[d])
                         /\ ent' = TakeFront(Put(ent, f, File(ent[f].start, ent[f].end + n)), d, n)
  BY DEF Expand, Donors, FreeSlots
<1>3. ent[f].end + n = ent[d].start + n - 1
  <2>1. ent[f].end \in Int  BY <1>1, Releasable, AreaAssumption DEF Blocks
  <2>2. QED BY <2>1, <1>2
<1>4. Part(TakeFront(Put(ent, f, File(ent[f].start, ent[d].start + n - 1)), d, n), lost, {})
  BY <1>1, <1>2, Shift DEF IInv
<1>5. ent' = TakeFront(Put(ent, f, File(ent[f].start, ent[d].start + n - 1)), d, n)
  BY <1>2, <1>3
<1>6. lost' = lost
  BY DEF Expand
<1>7. QED BY <1>4, <1>5, <1>6 DEF IInv

(* Growth elsewhere: the file takes a free extent and releases its old one. *)
LEMMA RelocateStep ==
  ASSUME IInv, NEW f \in Slots, NEW n \in Nat \ {0}, Relocate(f, n)
  PROVE  IInv'
<1>1. ent[f].type = "file"
  BY DEF Relocate, FileSlots
<1>2. PICK d \in Slots : /\ ent[d].type = "free" /\ n <= Size(ent[d])
                         /\ Release(Relocated(f, d, n), ent[f])
  BY DEF Relocate, FreeSlots
<1> DEFINE e == Put(ent, f, Empty)
           x == File(ent[d].start, ent[d].start + n - 1)
<1>3. Part(e, lost, Extent(ent[f]))
  BY <1>1, Emptied
<1>4. e[d] = ent[d] /\ e[f] = Empty
  BY <1>1, <1>2 DEF Put
<1>5. Put(e, f, x) = Put(ent, f, x)
  BY DEF Put
<1>6. ~Holds(e[f]) /\ e[f].type # "free"
  BY <1>4, Constructors DEF Holds
<1> HIDE DEF e
<1>7. Part(TakeFront(Put(e, f, File(e[d].start, e[d].start + n - 1)), d, n), lost, Extent(ent[f]))
  BY <1>2, <1>3, <1>4, <1>6, Shift
<1>8. Part(Relocated(f, d, n), lost, Extent(ent[f]))
  BY <1>4, <1>5, <1>7 DEF Relocated
<1>9. QED BY <1>1, <1>2, <1>8, Releasable, ReleaseOK DEF IInv

-----------------------------------------------------------------------------
(* mksfs leaves the whole data area to one free extent. *)
LEMMA InitOK == ASSUME Init PROVE IInv
<1>1. /\ ent \in [Slots -> Entry] /\ ent[FreeSlot] = Free(Lo, Hi)
      /\ \A i \in Slots : i # FreeSlot => ent[i] \in {Other, Unused}
  <2>1. Free(Lo, Hi) \in Entry
    BY AreaAssumption DEF Free, Entry, Types, Blocks
  <2>2. QED BY <2>1, SlotAssumption, Constructors DEF Init
<1>2. Free(Lo, Hi).type = "free" /\ Free(Lo, Hi).start = Lo /\ Free(Lo, Hi).end = Hi
  BY DEF Free
<1>3. /\ ent[FreeSlot].type = "free" /\ ent[FreeSlot].start = Lo /\ ent[FreeSlot].end = Hi
      /\ Holds(ent[FreeSlot])
  BY <1>1, <1>2 DEF Holds
<1>4. \A i \in Slots : i # FreeSlot => ~Holds(ent[i])
  BY <1>1, Constructors
<1>5. Shaped(ent)
  BY <1>1, <1>3, <1>4, Constructors, AreaAssumption DEF Shaped
<1>6. Separate(ent)
  BY <1>4 DEF Separate
<1>7. Gapped(ent)
  BY <1>3, <1>4, AreaAssumption DEF Gapped, Holds
<1>8. Accounted(ent, {})
  BY <1>3, SlotAssumption, AreaAssumption DEF Accounted, InExt, Blocks
<1>9. lost = {}
  BY DEF Init
<1>10. QED BY <1>1, <1>5, <1>6, <1>7, <1>8, <1>9 DEF IInv, Part, Typed

(* Every call of the library, by the lemma of its case. *)
LEMMA NextOK == ASSUME IInv, [Next]_vars PROVE IInv'
<1>1. ASSUME NEW f \in UnusedIn(ent), NEW C \in SUBSET UnusedIn(ent), Create(f, C) PROVE IInv'
  BY <1>1, CreateStep DEF UnusedIn
<1>2. ASSUME NEW C \in SUBSET UnusedIn(ent), Mkdir(C) PROVE IInv'
  BY <1>2, MkdirStep DEF UnusedIn
<1>3. ASSUME NEW C \in SUBSET Others, Rmdir(C) PROVE IInv'
  BY <1>3, RmdirStep DEF Others
<1>4. ASSUME NEW f \in FileSlots, NEW C \in SUBSET Others, Delete(f, C) PROVE IInv'
  BY <1>4, DeleteStep DEF FileSlots, Others
<1>5. ASSUME NEW f \in FileSlots, Truncate0(f) PROVE IInv'
  BY <1>5, Truncate0Step DEF FileSlots
<1>6. Sizes \subseteq Nat \ {0} /\ FileSlots \subseteq Slots
  BY AreaAssumption DEF Sizes, FileSlots
<1>7. ASSUME NEW f \in FileSlots, NEW n \in Sizes, Expand(f, n) PROVE IInv'
  BY <1>6, <1>7, ExpandStep
<1>8. ASSUME NEW f \in FileSlots, NEW n \in Sizes, Relocate(f, n) PROVE IInv'
  BY <1>6, <1>8, RelocateStep
<1>9. ASSUME NEW f \in FileSlots, NEW g \in UnusedIn(ent), NEW C \in SUBSET Others,
             NEW D \in SUBSET UnusedIn(ent), RenameEmpty(f, C, g, D) PROVE IInv'
  BY <1>9, RenameEmptyStep DEF FileSlots, UnusedIn, Others
<1>10. CASE UNCHANGED vars
  BY <1>10 DEF vars, IInv
<1>11. QED BY <1>1, <1>2, <1>3, <1>4, <1>5, <1>7, <1>8, <1>9, <1>10 DEF Next

(* The accounts are kept: the inductive invariant holds in every reachable  *)
(* state, whatever the number of entries of the index and of data blocks.   *)
THEOREM Accounts == Spec => []IInv
<1>1. Init => IInv  BY InitOK
<1>2. IInv /\ [Next]_vars => IInv'  BY NextOK
<1>3. QED BY <1>1, <1>2, PTL DEF Spec

(* Every entry of the index always has a type and an extent in the data area. *)
THEOREM TypeCorrect == Spec => []TypeOK
<1>1. IInv => TypeOK  BY DEF IInv, Part, TypeOK
<1>2. QED BY <1>1, Accounts, PTL

(* del_file_list_add, del_file_list_alloc and try_expand never give a block *)
(* to two entries.                                                          *)
THEOREM OneOwner == Spec => []Disjoint
<1>1. IInv => Disjoint  BY DEF IInv, Part, Disjoint
<1>2. QED BY <1>1, Accounts, PTL

(* A block is held by an entry unless a failed del_file_list_add leaked it. *)
THEOREM NothingForgotten == Spec => []Covered
<1>1. lost \cup {} = lost  OBVIOUS
<1>2. IInv => Covered  BY <1>1 DEF IInv, Part, Covered
<1>3. QED BY <1>2, Accounts, PTL

(* The deleted-file list never has two adjacent extents. *)
THEOREM AlwaysCoalesced == Spec => []Coalesced
<1>1. IInv => Coalesced  BY DEF IInv, Part, Coalesced
<1>2. QED BY <1>1, Accounts, PTL

(* A release changes lost only by a leak, which finds no unused entry. *)
LEMMA LeakStep ==
  ASSUME NEW e, NEW x, Release(e, x), lost' # lost
  PROVE  ent' = e /\ UnusedIn(e) = {}
  BY DEF Release, AddExtent, MergeBoth, MergeNext, MergePrev, AddNew, Leak

(* del_file_list_add loses blocks only when the index has no unused entry,  *)
(* before and after the step; sfs_delete never loses any.                   *)
THEOREM LeaksAreRare == Spec => LeakOnlyWhenIndexFull
<1> DEFINE Full == UnusedIn(ent) = {} /\ UnusedIn(ent)' = {}
<1>1. ASSUME NEW f \in FileSlots, NEW C \in SUBSET Others, Delete(f, C) PROVE lost' = lost
  <2>1. f \in UnusedIn(Clear(ent, C \cup {f}))
    BY DEF FileSlots, UnusedIn, Clear, Unused
  <2>2. Release(Clear(ent, C \cup {f}), ent[f])  BY <1>1 DEF Delete
  <2>3. QED BY <2>1, <2>2, LeakStep
<1>2. ASSUME NEW f \in FileSlots, Truncate0(f), lost' # lost PROVE Full
  <2>1. Release(Put(ent, f, Empty), ent[f])  BY <1>2 DEF Truncate0
  <2>2. ent' = Put(ent, f, Empty) /\ UnusedIn(Put(ent, f, Empty)) = {}
    BY <2>1, <1>2, LeakStep
  <2>3. UnusedIn(ent) = {}
    BY <2>2 DEF UnusedIn, Put, FileSlots
  <2>4. UnusedIn(ent') = {}
    BY <2>2
  <2>5. QED BY <2>3, <2>4 DEF UnusedIn
<1>3. ASSUME NEW f \in FileSlots, NEW n \in Sizes, Relocate(f, n), lost' # lost PROVE Full
  <2>1. PICK d \in FreeSlots : Release(Relocated(f, d, n), ent[f])
    BY <1>3 DEF Relocate
  <2>2. ent' = Relocated(f, d, n) /\ UnusedIn(Relocated(f, d, n)) = {}
    BY <2>1, <1>3, LeakStep
  <2>3. \A i \in Slots : i # f /\ i # d => ent'[i] = ent[i]
    BY <2>2 DEF Relocated, TakeFront, Put
  <2>4. UnusedIn(ent') = {}
    BY <2>2
  <2>5. UnusedIn(ent) = {}
    BY <2>3, <2>4 DEF UnusedIn, FileSlots, FreeSlots
  <2>6. QED BY <2>4, <2>5 DEF UnusedIn
<1>4. [Next]_vars => [lost' # lost => Full]_vars
  BY <1>1, <1>2, <1>3 DEF Next, Create, Mkdir, Rmdir, Expand, RenameEmpty, vars
<1>5. QED BY <1>4, PTL DEF Spec, LeakOnlyWhenIndexFull
=============================================================================
