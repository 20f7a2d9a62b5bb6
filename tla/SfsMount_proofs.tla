---------------------------- MODULE SfsMount_proofs ----------------------------
(***************************************************************************)
(* Mounts of an image, for every size of it and any number of them: that a *)
(* crash is seen at the next mount, what a mount finds and repairs after   *)
(* sessions that ended with a release, and what the first crash leaves,    *)
(* wherever in a call it comes.                                            *)
(***************************************************************************)
EXTENDS SfsMount, SfsCorrect_proofs

(* An image that is not mounted, and was not released, has no time stamp:   *)
(* sfs_init() takes it away and only sfs_release() puts it back.            *)
Stamped ==
    /\ mounted => stamp = 0
    /\ ~mounted /\ torn.call # "release" => stamp = 0

(* The death of a process, wherever in a call, leaves the time stamp alone. *)
LEMMA DeathsKeepStamp == ASSUME Crash PROVE mounted /\ ~mounted' /\ crashed' /\ stamp' = stamp
<1> DEFINE Died == mounted /\ ~mounted' /\ crashed' /\ stamp' = stamp
<1>1. ASSUME NEW images, NEW in, Dies(images, in) PROVE Died
  BY <1>1 DEF Dies
<1>2. ASSUME NEW call, NEW ok, NEW iy, NEW f, DieInName(call, ok, iy, f) PROVE Died
  <2> DEFINE im == Images(Between(index, iy, SetToSortSeq({i \in Slots : index[i] # iy[i]}, <)), data)
  <2>1. Dies(im, InCall(call, f))
    BY <1>2 DEF DieInName
  <2> HIDE DEF im
  <2>2. QED BY <1>1, <2>1
<1> SUFFICES Died
  OBVIOUS
<1> HIDE DEF Died
<1>3. CASE DieInFileCalls
  BY <1>2, <1>3 DEF DieInFileCalls
<1>4. CASE DieInDirCalls
  BY <1>2, <1>4 DEF DieInDirCalls
<1>5. CASE \E f \in Slots : DieInDelete(f)
  BY <1>1, <1>5 DEF DieInDelete
<1>6. CASE \E f \in Slots, p \in FilePaths : DieInRename(f, p)
  BY <1>1, <1>6 DEF DieInRename
<1>7. CASE \E f \in Slots, s \in Spans, t \in Tokens : DieInWrite(f, s[1], s[2], t)
  BY <1>1, <1>7 DEF DieInWrite
<1>8. CASE \E f \in Slots, new \in Lengths : DieInTruncate(f, new)
  BY <1>1, <1>8 DEF DieInTruncate
<1>9. QED BY <1>3, <1>4, <1>5, <1>6, <1>7, <1>8 DEF Crash

(* After a crash the image has no time stamp, CrashWarns, so that           *)
(* fuse_sfs_init() warns, however often a mount was declined in between.    *)
THEOREM CrashIsSeen == MountSpec => []CrashWarns
<1>1. MountInit => Stamped
  BY DEF MountInit, Stamped, InCall
<1>2. Stamped /\ [MountNext]_mvars => Stamped'
  <2> SUFFICES ASSUME Stamped, [MountNext]_mvars PROVE Stamped'
    OBVIOUS
  <2>1. CASE UNCHANGED mvars
    BY <2>1 DEF Stamped, mvars
  <2>2. CASE Session
    BY <2>2 DEF Stamped, Session
  <2>3. CASE Crash
    BY <2>3, DeathsKeepStamp DEF Stamped
  <2>4. CASE Mount
    BY <2>4 DEF Stamped, Mount, sfs_init
  <2>5. CASE Decline
    BY <2>5 DEF Stamped, Decline, sfs_init
  <2>6. CASE sfs_release
    BY <2>6 DEF Stamped, sfs_release, InCall
  <2>7. CASE DieInMount
    BY <2>7 DEF Stamped, DieInMount, sfs_init
  <2>8. QED BY <2>1, <2>2, <2>3, <2>4, <2>5, <2>6, <2>7 DEF MountNext
<1>3. Stamped => CrashWarns
  BY DEF Stamped, CrashWarns
<1>4. QED BY <1>1, <1>2, <1>3, PTL DEF MountSpec

-----------------------------------------------------------------------------
(* What fix_non_del_file() leaves alone *)

(* A mount changes nothing of an entry but the type of an unlinked file. *)
Fixed(x, e) ==
    /\ \/ x = e
       \/ IsUnlinked(e) /\ x = [e EXCEPT !.entry_type = "FILE_ENTRY"]
    /\ x \in Entries

(* Fixed, fix_non_del_file: a list entry has the name of list entries. *)
LEMMA FixedEntry ==
  ASSUME NEW e \in Entries
  PROVE  /\ Fixed(fix_del_file(e), e)
         /\ IsUnlinked(e) /\ ~strcmp_equal(e.name, <<"f", "r", "e", "e">>)
              /\ ~strcmp_equal(e.name, FreeName) => fix_del_file(e).entry_type = "FILE_ENTRY"
<1>1. strcmp_equal(FreeName, FreeName)
  <2>1. Len(FreeName) = 1 /\ FreeName = SubSeq(FreeName, 1, 1)
    BY DEF FreeName
  <2>2. QED BY <2>1 DEF strcmp_equal, IsPrefix
<1>2. [e EXCEPT !.entry_type = "FILE_ENTRY"] \in Entries
  <2>1. "FILE_ENTRY" \in EntryTypes
    BY DEF EntryTypes
  <2>2. QED BY <2>1 DEF Entries
<1>3. CASE fix_del_file(e) = e
  <2>1. ASSUME IsUnlinked(e), ~strcmp_equal(e.name, <<"f", "r", "e", "e">>),
               ~strcmp_equal(e.name, FreeName)
        PROVE  FALSE
    <3>1. e.entry_type = "DEL_FILE_ENTRY"
      BY <2>1 DEF IsUnlinked
    <3>2. fix_del_file(e) = [e EXCEPT !.entry_type = "FILE_ENTRY"]
      BY <2>1, <3>1 DEF fix_del_file
    <3>3. [e EXCEPT !.entry_type = "FILE_ENTRY"].entry_type = "FILE_ENTRY"
      BY DEF Entries
    <3>4. QED BY <1>3, <3>1, <3>2, <3>3
  <2>2. QED BY <1>3, <2>1 DEF Fixed
<1>4. CASE fix_del_file(e) # e
  <2>1. /\ e.entry_type = "DEL_FILE_ENTRY" /\ ~strcmp_equal(e.name, FreeName)
        /\ fix_del_file(e) = [e EXCEPT !.entry_type = "FILE_ENTRY"]
    BY <1>4 DEF fix_del_file
  <2>2. e.name # FreeName
    BY <1>1, <2>1
  <2>3. fix_del_file(e).entry_type = "FILE_ENTRY"
    BY <2>1 DEF Entries
  <2>4. QED BY <1>2, <2>1, <2>2, <2>3 DEF Fixed, IsUnlinked
<1>5. QED BY <1>3, <1>4

(* A fixed entry has all its fields but the type, and is of the same kind   *)
(* as before.                                                               *)
LEMMA FixedKind ==
  ASSUME NEW e \in Entries, NEW x, Fixed(x, e)
  PROVE  /\ x.name = e.name /\ x.cont_entries = e.cont_entries /\ x.time_stamp = e.time_stamp
         /\ x.start_block = e.start_block /\ x.end_block = e.end_block /\ x.size = e.size
         /\ IsFree(e) <=> IsFree(x)
         /\ IsFree(e) => x = e
         /\ IsHead(e) <=> IsHead(x)
         /\ OwnsData(e) <=> OwnsData(x)
         /\ IsFile(e) <=> IsFile(x)
         /\ ~OwnsData(e) => x = e
         /\ x.entry_type # e.entry_type => x.entry_type = "FILE_ENTRY" /\ OwnsData(e)
         /\ AbsType(x) = AbsType(e)
<1>1. CASE x = e
  BY <1>1, Zenon
<1>2. CASE x # e
  <2>1. IsUnlinked(e) /\ x = [e EXCEPT !.entry_type = "FILE_ENTRY"]
    BY <1>2 DEF Fixed
  <2>2. /\ x.name = e.name /\ x.cont_entries = e.cont_entries /\ x.time_stamp = e.time_stamp
        /\ x.start_block = e.start_block /\ x.end_block = e.end_block /\ x.size = e.size
        /\ x.entry_type = "FILE_ENTRY"
    BY <2>1 DEF Entries
  <2>3. /\ ~IsFree(e) /\ ~IsFree(x) /\ IsHead(e) /\ IsHead(x) /\ OwnsData(e) /\ OwnsData(x)
        /\ IsFile(e) /\ IsFile(x)
    BY <2>1, <2>2, Kinds
  <2>4. AbsType(x) = "file" /\ AbsType(e) = "file"
    BY <2>3, AbsTypes
  <2>5. QED BY <2>2, <2>3, <2>4
<1>3. QED BY <1>1, <1>2

(* An index that had been mounted before. *)
Untidy == FALSE

(* The index as the mount leaves it *)
Remounted(u) == [index |-> fix_non_del_file(u.index), del_begin |-> u.del_begin]

(* differs in the types of files. *)
LEMMA RemountedEntries ==
  ASSUME NEW u \in State, NEW v, v = Remounted(u)
  PROVE  /\ v \in State /\ v.del_begin = u.del_begin
         /\ \A i \in Slots : i \in Offsets /\ u.index[i] \in Entries /\ Fixed(v.index[i], u.index[i])
         /\ \A i \in Slots : v.index[i] = fix_del_file(u.index[i])
<1> DEFINE ix == u.index
           jx == fix_non_del_file(ix)
<1>1. v.index = jx /\ v.del_begin = u.del_begin /\ u.del_begin \in Offsets
  BY DEF Remounted, State
<1>2. \A i \in Offsets : ix[i] \in Entries
  BY DEF State
<1>3. \A i \in Offsets : jx[i] = IF i = 0 THEN ix[0] ELSE fix_del_file(ix[i])
  BY DEF fix_non_del_file
<1>4. \A i \in Offsets : i # 0 => Fixed(fix_del_file(ix[i]), ix[i])
  BY <1>2, FixedEntry
<1>5. \A i \in Offsets : jx[i] \in Entries
  BY <1>2, <1>3, <1>4 DEF Fixed
<1>6. jx \in [Offsets -> Entries]
  <2>1. jx = [i \in Offsets |-> IF i = 0 THEN ix[0] ELSE fix_del_file(ix[i])]
    BY DEF fix_non_del_file
  <2> HIDE DEF jx
  <2>2. jx = [i \in Offsets |-> jx[i]]
    BY <2>1
  <2>3. QED BY <1>5, <2>2
<1>7. v \in State
  <2> HIDE DEF jx
  <2>1. v = [index |-> jx, del_begin |-> u.del_begin]
    BY DEF Remounted, jx
  <2>2. QED BY <1>1, <1>6, <2>1 DEF State
<1>8. \A i \in Slots : i \in Offsets /\ i # 0
  BY Numbers
<1> HIDE DEF jx
<1>9. QED BY <1>1, <1>2, <1>3, <1>4, <1>7, <1>8

(* The list is as it was. *)
LEMMA RemountedList ==
  ASSUME NEW u, IsList(u), FreeShaped(u), NEW v, v = Remounted(u)
  PROVE  IsList(v) /\ FreeShaped(v) /\ Frees(v) = Frees(u)
<1>1. Linked(u) /\ u \in State
  BY DEF IsList, Linked
<1>2. /\ v \in State /\ v.del_begin = u.del_begin
      /\ \A i \in Slots : u.index[i] \in Entries /\ Fixed(v.index[i], u.index[i])
  BY <1>1, RemountedEntries
<1>3. \A i \in Slots : /\ IsFree(u.index[i]) <=> IsFree(v.index[i])
                       /\ IsFree(u.index[i]) => v.index[i] = u.index[i]
  BY <1>2, FixedKind
<1>4. Frees(v) = Frees(u) /\ \A i \in Frees(u) : v.index[i] = u.index[i]
  BY <1>3 DEF Frees
<1>5. Linked(v)
  <2>1. \A i \in Frees(u) : /\ PREV_DEL(u.index[i]) # 0 => PREV_DEL(u.index[i]) \in Frees(u)
                            /\ NEXT_DEL(u.index[i]) # 0 => NEXT_DEL(u.index[i]) \in Frees(u)
    BY <1>1 DEF Linked
  <2>2. v.del_begin # 0 => v.del_begin \in Frees(v) /\ PREV_DEL(v.index[v.del_begin]) = 0
    BY <1>1, <1>2, <1>4 DEF Linked
  <2>3. ASSUME NEW i \in Frees(v)
        PROVE  /\ PREV_DEL(v.index[i]) = 0 => i = v.del_begin
               /\ PREV_DEL(v.index[i]) # 0 => /\ PREV_DEL(v.index[i]) \in Frees(v)
                                              /\ NEXT_DEL(v.index[PREV_DEL(v.index[i])]) = i
               /\ NEXT_DEL(v.index[i]) # 0 => /\ NEXT_DEL(v.index[i]) \in Frees(v)
                                              /\ PREV_DEL(v.index[NEXT_DEL(v.index[i])]) = i
    <3>1. i \in Frees(u) /\ v.index[i] = u.index[i]
      BY <1>4
    <3>2. PREV_DEL(u.index[i]) = 0 => i = v.del_begin
      BY <1>1, <1>2, <3>1 DEF Linked
    <3>3. ASSUME PREV_DEL(u.index[i]) # 0
          PROVE  LET p == PREV_DEL(u.index[i]) IN p \in Frees(v) /\ NEXT_DEL(v.index[p]) = i
      BY <1>1, <1>4, <2>1, <3>1, <3>3 DEF Linked
    <3>4. ASSUME NEXT_DEL(u.index[i]) # 0
          PROVE  LET n == NEXT_DEL(u.index[i]) IN n \in Frees(v) /\ PREV_DEL(v.index[n]) = i
      BY <1>1, <1>4, <2>1, <3>1, <3>4 DEF Linked
    <3>5. QED BY <3>1, <3>2, <3>3, <3>4
  <2>4. QED BY <1>2, <2>2, <2>3 DEF Linked
<1>6. PICK r : Ranked(u, r)
  BY DEF IsList
<1>7. Ranked(v, r)
  BY <1>4, <1>6 DEF Ranked
<1>8. FreeShaped(v)
  BY <1>4 DEF FreeShaped
<1>9. QED BY <1>4, <1>5, <1>7, <1>8 DEF IsList

(* So are the names, and the blocks that files and list entries hold.       *)
LEMMA RemountedOrder ==
  ASSUME NEW u, InOrder(Untidy, u), NEW v, v = Remounted(u)
  PROVE  InOrder(Untidy, v) /\ AbsOf(v.index) = AbsOf(u.index) /\ v.del_begin = u.del_begin
<1> DEFINE ix == u.index
           jx == v.index
<1>1. u \in State /\ IsList(u) /\ FreeShaped(u)
  BY OrderShaped DEF InOrder
<1>2. v.del_begin = u.del_begin /\ \A i \in Slots : ix[i] \in Entries /\ Fixed(jx[i], ix[i])
  BY <1>1, RemountedEntries
<1>3. IsList(v) /\ FreeShaped(v)
  BY <1>1, RemountedList
<1>4. Entered(ix) /\ HeadsWhole(ix) /\ ContsOwned(ix)
  BY DEF InOrder, NamesOK
<1> HIDE DEF ix, jx
<1>5. ASSUME NEW i \in Slots
      PROVE  /\ jx[i].name = ix[i].name /\ Conts(jx, i) = Conts(ix, i)
             /\ jx[i].start_block = ix[i].start_block /\ jx[i].end_block = ix[i].end_block
             /\ IsHead(jx[i]) <=> IsHead(ix[i])
             /\ ~OwnsData(ix[i]) => jx[i] = ix[i]
             /\ jx[i].entry_type # ix[i].entry_type => jx[i].entry_type = "FILE_ENTRY" /\ OwnsData(ix[i])
             /\ AbsType(jx[i]) = AbsType(ix[i])
  BY <1>2, FixedKind DEF Conts
<1>6. ASSUME NEW i \in Slots, ~OwnsData(ix[i]) PROVE jx[i] = ix[i]
  BY <1>5, <1>6
<1>7. Entered(jx)
  <2>1. ASSUME NEW i \in Slots PROVE EntryOK(jx[i])
    <3>1. EntryOK(ix[i])
      BY <1>4 DEF Entered
    <3>2. CASE jx[i] = ix[i]
      BY <3>1, <3>2
    <3>3. CASE jx[i] # ix[i]
      <4>1. /\ IsUnlinked(ix[i]) /\ jx[i].entry_type = "FILE_ENTRY" /\ OwnsData(ix[i]) /\ IsFile(ix[i])
            /\ jx[i].name = ix[i].name /\ jx[i].time_stamp = ix[i].time_stamp
            /\ jx[i].size = ix[i].size
            /\ jx[i].start_block = ix[i].start_block /\ jx[i].end_block = ix[i].end_block
        <5>1. ix[i] \in Entries /\ Fixed(jx[i], ix[i])
          BY <1>2
        <5>2. IsUnlinked(ix[i]) /\ jx[i] = [ix[i] EXCEPT !.entry_type = "FILE_ENTRY"]
          BY <3>3, <5>1 DEF Fixed
        <5>3. jx[i].entry_type = "FILE_ENTRY"
          BY <5>1, <5>2 DEF Entries
        <5>4. OwnsData(ix[i]) /\ IsFile(ix[i])
          BY <5>2, Kinds
        <5>5. QED BY <5>1, <5>2, <5>3, <5>4, FixedKind
      <4>2. /\ Sized(ix[i]) /\ ix[i].size \in Nat /\ ix[i].name \in FilePaths \cup DirPaths
            /\ ix[i].time_stamp # 0
        BY <3>1, <4>1 DEF EntryOK
      <4>3. Sized(jx[i])
        BY <4>1, <4>2 DEF Sized
      <4>4. QED BY <4>1, <4>2, <4>3 DEF EntryOK
    <3>4. QED BY <3>2, <3>3
  <2>2. /\ 1 \in Slots /\ 3 \in Slots /\ ix[1].entry_type = "START_ENTRY"
        /\ ix[3].entry_type = "DIR_ENTRY" /\ ix[3].name = <<>>
    BY <1>4, SfsAssumption DEF Entered, Slots
  <2>3. jx[1] = ix[1] /\ jx[3] = ix[3]
    BY <1>6, <2>2, Kinds DEF OwnsData, IsUnlinked
  <2>4. QED BY <2>1, <2>2, <2>3 DEF Entered
<1>8. HeadsWhole(jx)
  <2>1. ASSUME NEW i \in Slots, IsHead(jx[i]) PROVE NameMatches(jx, i, jx[i].name)
    <3>1. NameMatches(ix, i, ix[i].name) /\ jx[i].name = ix[i].name /\ Conts(jx, i) = Conts(ix, i)
      BY <1>4, <1>5, <2>1 DEF HeadsWhole
    <3>2. ASSUME NEW k \in 1..Conts(jx, i)
          PROVE  i + k \in Slots /\ jx[i + k] = ContEntry(jx[i].name, k)
      <4>1. i + k \in Slots /\ ix[i + k] = ContEntry(ix[i].name, k)
        BY <3>1, <3>2 DEF NameMatches
      <4>2. ~OwnsData(ix[i + k])
        BY <4>1 DEF ContEntry, NoEntry, OwnsData, IsUnlinked
      <4>3. jx[i + k] = ix[i + k]
        BY <1>6, <4>1, <4>2
      <4>4. QED BY <3>1, <4>1, <4>3
    <3>3. QED BY <3>2 DEF NameMatches
  <2>2. QED BY <2>1 DEF HeadsWhole
<1>9. ContsOwned(jx)
  <2>1. ASSUME NEW c \in Slots, jx[c].entry_type = "CONT"
        PROVE  \E i \in Slots : /\ c = i + Conts(jx, c) /\ Conts(jx, c) >= 1
                                /\ \/ jx[i].entry_type = "CLOBBERED"
                                   \/ IsHead(jx[i]) /\ Conts(jx, c) <= Conts(jx, i)
    <3>1. ix[c].entry_type = "CONT" /\ Conts(jx, c) = Conts(ix, c)
      BY <1>5, <2>1
    <3>2. PICK i \in Slots : /\ c = i + Conts(ix, c) /\ Conts(ix, c) >= 1
                             /\ \/ ix[i].entry_type = "CLOBBERED"
                                \/ IsHead(ix[i]) /\ Conts(ix, c) <= Conts(ix, i)
      BY <1>4, <3>1 DEF ContsOwned
    <3>3. CASE ix[i].entry_type = "CLOBBERED"
      <4>1. jx[i] = ix[i]
        BY <1>6, <3>3 DEF OwnsData, IsUnlinked
      <4>2. QED BY <3>1, <3>2, <3>3, <4>1
    <3>4. CASE IsHead(ix[i]) /\ Conts(ix, c) <= Conts(ix, i)
      BY <1>5, <3>1, <3>2, <3>4
    <3>5. QED BY <3>2, <3>3, <3>4
  <2>2. QED BY <2>1 DEF ContsOwned
<1>10. AbsOf(jx) = AbsOf(ix)
  <2>1. \A i \in Slots : /\ AbsType(jx[i]) = AbsType(ix[i]) /\ jx[i].start_block = ix[i].start_block
                         /\ jx[i].end_block = ix[i].end_block
    BY <1>5
  <2>2. QED BY <2>1 DEF AbsOf
<1>11. QED BY <1>2, <1>3, <1>7, <1>8, <1>9, <1>10 DEF InOrder, NamesOK, Untidy, ix, jx

-----------------------------------------------------------------------------
(* What a mount finds after sessions that ended with a release: the index   *)
(* in order, the list from its head on, and every block accounted for.      *)
MInv == ~crashed =>
    /\ InOrder(Untidy, Found) /\ data \in Contents /\ SP!IInv
    /\ mounted => fs = Found

(* A step that leaves the extents alone leaves them accounted for. *)
LEMMA ExtentsSame == ASSUME SP!IInv, AbsEnt' = AbsEnt PROVE SP!IInv'
<1>1. SP!Part(AbsEnt', AbsLost, {})
  BY DEF SP!IInv
<1>2. QED BY <1>1, NowLost

(* The index of a fresh image is in order. *)
LEMMA MountInitOrder == ASSUME MountInit PROVE MInv
<1>1. Init /\ ~mounted
  BY DEF MountInit
<1>2. IInv(Untidy) /\ SP!IInv
  BY <1>1, InitOrder, InitStep
<1>3. InOrder(Untidy, fs) /\ data \in Contents
  BY <1>2 DEF IInv, Contents
<1>4. search_begin(fs.index) = fs.del_begin
  BY <1>3, HeadIsFound
<1>5. Found = fs
  BY <1>4 DEF Found, fs
<1>6. QED BY <1>1, <1>2, <1>3, <1>5 DEF MInv

(* In a session the library keeps it in order, and the head findable. *)
LEMMA SessionOrder == ASSUME MInv, ~crashed, Session PROVE MInv'
<1>1. mounted /\ SafeNext /\ ~crashed'
  BY DEF Session
<1>2. IInv(Untidy) /\ SP!IInv
  <2>1. fs = Found /\ InOrder(Untidy, Found) /\ data \in Contents /\ SP!IInv
    BY <1>1 DEF MInv
  <2>2. QED BY <2>1 DEF IInv, Contents
<1>3. IInv(Untidy)' /\ SP!IInv'
  <2>1. [SafeNext]_vars
    BY <1>1
  <2>2. QED BY <1>2, <2>1, StepOrder, NextStep
<1>4. InOrder(Untidy, fs') /\ data' \in Contents
  BY <1>3 DEF IInv, Contents
<1>5. search_begin(fs'.index) = fs'.del_begin
  BY <1>4, HeadIsFound
<1>6. Found' = fs'
  BY <1>5 DEF Found, fs
<1>7. QED BY <1>3, <1>4, <1>6 DEF MInv

(* A mount keeps it in order, up to the uniqueness of names. *)
LEMMA MountOrder ==
  ASSUME MInv, ~crashed, Mount
  PROVE  MInv' /\ fs' = Remounted(Found) /\ index' = Remounted(Found).index
<1>1. /\ InOrder(Untidy, Found) /\ data \in Contents /\ SP!IInv
      /\ ~crashed' /\ data' = data
  BY DEF MInv, Mount, sfs_init
<1>2. index' = fix_non_del_file(index) /\ del_begin' = search_begin(index)
  BY DEF Mount
<1>3. Found.index = index /\ Found.del_begin = search_begin(index)
  BY DEF Found
<1>4. fs' = Remounted(Found) /\ index' = Remounted(Found).index
  BY <1>2, <1>3 DEF Remounted, fs
<1> DEFINE v == Remounted(Found)
<1>5. InOrder(Untidy, v) /\ AbsOf(v.index) = AbsOf(index) /\ v.del_begin = Found.del_begin
  <2> HIDE DEF v
  <2>1. v = Remounted(Found)
    BY DEF v
  <2>2. QED BY <1>1, <1>3, <2>1, RemountedOrder
<1>6. search_begin(v.index) = v.del_begin
  <2> HIDE DEF v
  <2>1. QED BY <1>5, HeadIsFound
<1>7. Found' = fs'
  BY <1>2, <1>3, <1>4, <1>5, <1>6 DEF Found, fs
<1>8. AbsEnt' = AbsEnt
  BY <1>4, <1>5, LostAre
<1>9. SP!IInv'
  BY <1>1, <1>8, ExtentsSame
<1>10. MInv'
  BY <1>1, <1>4, <1>5, <1>7, <1>9 DEF MInv
<1>11. QED BY <1>4, <1>10

(* Without a crash the image is in order, mounted or not. *)
LEMMA MountStepOrder == ASSUME MInv, [MountNext]_mvars PROVE MInv'
<1>1. CASE crashed
  <2>1. crashed'
    <3>1. CASE Crash
      BY <3>1, DeathsKeepStamp
    <3>2. CASE ~Crash
      BY <1>1, <3>2 DEF MountNext, mvars, Session, Mount, DieInMount, Decline, sfs_release
    <3>3. QED BY <3>1, <3>2
  <2>2. QED BY <2>1 DEF MInv
<1>2. CASE ~crashed
  <2>1. ASSUME index' = index, data' = data, mounted' => mounted /\ del_begin' = del_begin
        PROVE  MInv'
    <3>1. InOrder(Untidy, Found) /\ data \in Contents /\ SP!IInv /\ (mounted => fs = Found)
      BY <1>2 DEF MInv
    <3>2. Found' = Found /\ AbsEnt' = AbsEnt
      BY <2>1 DEF Found, AbsEnt
    <3>3. SP!IInv'
      BY <3>1, <3>2, ExtentsSame
    <3>4. mounted' => fs' = Found'
      BY <2>1, <3>1, <3>2 DEF fs
    <3>5. QED BY <2>1, <3>1, <3>2, <3>3, <3>4 DEF MInv
  <2>2. CASE UNCHANGED mvars
    BY <2>1, <2>2 DEF mvars
  <2>3. CASE Session
    BY <1>2, <2>3, SessionOrder
  <2>4. CASE Crash
    BY <2>4, DeathsKeepStamp DEF MInv
  <2>5. CASE Mount
    BY <1>2, <2>5, MountOrder
  <2>6. CASE Decline
    BY <2>1, <2>6 DEF Decline, sfs_init
  <2>7. CASE sfs_release
    BY <2>1, <2>7 DEF sfs_release
  <2>8. CASE DieInMount
    BY <2>8 DEF DieInMount, MInv
  <2>9. QED BY <2>2, <2>3, <2>4, <2>5, <2>6, <2>7, <2>8 DEF MountNext
<1>3. QED BY <1>1, <1>2

(* Every mount of an image whose sessions ended with a release finds it in  *)
(* order: the inductive invariant of MountSpec.                             *)
THEOREM MountsFindOrder == MountSpec => []MInv
<1>1. MountInit => MInv
  BY MountInitOrder
<1>2. MInv /\ [MountNext]_mvars => MInv'
  BY MountStepOrder
<1>3. QED BY <1>1, <1>2, PTL DEF MountSpec

(* strcmp() takes no path for a free entry's name or for "free", of which   *)
(* fix_non_del_file() leaves the entries alone: no path is "f", "fr", "fre" *)
(* or "free", or begins with "free".                                        *)
NoneCalledFree ==
    \A p \in FilePaths \cup DirPaths :
        ~strcmp_equal(p, <<"f", "r", "e", "e">>) /\ ~strcmp_equal(p, FreeName)

(* A mount after sessions that ended with a release finds the whole list of *)
(* free extents and makes every unlinked file a file with its bytes again,  *)
(* MountRepairs, unless file data has been written over an open file's      *)
(* entry: nothing unlinked stays behind to be lost.                         *)
THEOREM MountsRepair ==
  ASSUME NoneCalledFree
  PROVE  MountSpec /\ []Unclobbered => MountRepairs
<1>1. MInv => (mounted /\ ~crashed => ListWellFormed)
  <2> SUFFICES ASSUME MInv, mounted, ~crashed PROVE ListWellFormed
    OBVIOUS
  <2>1. IsList(fs)
    BY DEF MInv, InOrder
  <2>2. QED BY <2>1, ListIsWellFormed
<1>2. MInv /\ Unclobbered /\ [MountNext]_mvars =>
        (~mounted /\ mounted' /\ ~crashed =>
            /\ ~crashed'
            /\ \A f \in Handles : /\ index'[f].entry_type = "FILE_ENTRY"
                                  /\ Content(f)' = Content(f))
  <2> SUFFICES ASSUME MInv, Unclobbered, [MountNext]_mvars, ~mounted, mounted', ~crashed
               PROVE  /\ ~crashed'
                      /\ \A f \in Handles : /\ index'[f].entry_type = "FILE_ENTRY"
                                            /\ Content(f)' = Content(f)
    OBVIOUS
  <2>1. Mount
    BY DeathsKeepStamp DEF MountNext, mvars, Session, DieInMount, Decline, sfs_release
  <2>2. index' = Remounted(Found).index
    BY <2>1, MountOrder
  <2>3. ~crashed' /\ data' = data
    BY <2>1 DEF Mount, sfs_init
  <2>4. InOrder(Untidy, Found) /\ Found.index = index
    BY DEF MInv, Found
  <2>5. Found \in State
    BY <2>4, OrderShaped
  <2> DEFINE v == Remounted(Found)
  <2>6. /\ \A i \in Slots : index[i] \in Entries /\ Fixed(v.index[i], index[i])
        /\ \A i \in Slots : v.index[i] = fix_del_file(index[i])
    <3>1. v = Remounted(Found)
      OBVIOUS
    <3> HIDE DEF v
    <3>2. QED BY <2>4, <2>5, <3>1, RemountedEntries
  <2> HIDE DEF v
  <2>7. ASSUME NEW f \in Handles
        PROVE  v.index[f].entry_type = "FILE_ENTRY"
    <3>1. f \in Slots /\ OwnsData(index[f])
      BY DEF Handles, Unclobbered
    <3>2. index[f] \in Entries /\ v.index[f] = fix_del_file(index[f])
      BY <2>6, <3>1
    <3>3. index[f].name \in FilePaths \cup DirPaths
      BY <2>4, <3>1 DEF InOrder, Entered, EntryOK
    <3>4. CASE index[f].entry_type = "FILE_ENTRY"
      BY <3>2, <3>4 DEF fix_del_file
    <3>5. CASE IsUnlinked(index[f])
      BY <3>2, <3>3, <3>5, FixedEntry DEF NoneCalledFree
    <3>6. QED BY <3>1, <3>4, <3>5 DEF OwnsData
  <2>8. ASSUME NEW f \in Handles
        PROVE  Content(f)' = Content(f)
    <3>1. f \in Slots
      BY DEF Handles
    <3>2. index'[f].size = index[f].size /\ index'[f].start_block = index[f].start_block
      BY <2>2, <2>6, <3>1, FixedKind DEF v
    <3>3. QED BY <2>3, <3>2 DEF Content
  <2>9. QED BY <2>2, <2>3, <2>7, <2>8 DEF v
<1>3. QED BY <1>1, <1>2, MountsFindOrder, PTL DEF MountSpec, MountRepairs

-----------------------------------------------------------------------------
(* What the space check of a mount adds up *)

Shown  == {f \in Slots : index[f].entry_type = "FILE_ENTRY"}
Hidden == {f \in Handles : index[f].entry_type # "FILE_ENTRY"}
Empty  == {f \in Slots : index[f].entry_type = "FILE_ENTRY" /\ index[f].size = 0}

(* Files hold as many blocks as their sizes ask for.  Of an empty file      *)
(* scan_used_space() counts the blocks from 0 to 0, which is one.           *)
LEMMA FileHolds ==
  ASSUME NEW tidy, NEW u, u.index = index, InOrder(tidy, u), SP!IInv, NEW f \in Handles
  PROVE  /\ f \in Slots /\ IsFiniteSet(Held(f)) /\ Held(f) \subseteq Lo..Hi
         /\ Cardinality(Held(f)) = BlockCount(index[f].size)
         /\ index[f].size = 0 => get_size(index[f]) = BlockSize /\ Held(f) = {}
         /\ index[f].size # 0 => get_size(index[f]) = BlockSize * Cardinality(Held(f))
<1>1. f \in Slots /\ IsFiniteSet(Held(f)) /\ Held(f) \subseteq Lo..Hi
  BY HeldApart
<1>2. ExtentFitsSize
  BY ExtentsFit
<1>3. CASE index[f].size = 0
  <2>1. index[f].start_block = 0 /\ index[f].end_block = 0
    BY <1>2, <1>3 DEF ExtentFitsSize
  <2>2. Held(f) = {}
    BY <2>1 DEF Held
  <2>3. BlockCount(index[f].size) = 0 /\ Cardinality({}) = 0
    BY <1>3, BlockCounts, FS_EmptySet
  <2>4. get_size(index[f]) = BlockSize
    <3>1. 0 - 0 + 1 = 1 /\ 1 % Word = 1 /\ BlockSize * 1 = BlockSize
      BY SfsAssumption
    <3>2. QED BY <2>1, <3>1 DEF get_size
  <2>5. QED BY <1>1, <1>3, <2>2, <2>3, <2>4
<1>4. CASE index[f].size # 0
  <2>1. /\ index[f].start_block # 0
        /\ index[f].end_block - index[f].start_block + 1 = BlockCount(index[f].size)
    BY <1>2, <1>4 DEF ExtentFitsSize
  <2>2. /\ index[f].start_block \in Lo..Hi /\ index[f].end_block \in Lo..Hi
        /\ index[f].start_block <= index[f].end_block
        /\ Cardinality(Held(f)) = index[f].end_block - index[f].start_block + 1
    BY <2>1, HeldApart
  <2>3. get_size(index[f]) = BlockSize * (index[f].end_block - index[f].start_block + 1)
    BY <2>2, SizeOf
  <2>4. QED BY <1>1, <1>4, <2>1, <2>2, <2>3
<1>5. QED BY <1>3, <1>4

(* What scan_used_space() counts: the blocks of the files, and one that     *)
(* nobody has for each empty file.                                          *)
Counted(f) == IF index[f].size = 0 THEN {-f} ELSE Held(f)

(* scan_used_space adds up the blocks of the shown files, one for each empty one. *)
LEMMA ScanSum ==
  ASSUME NEW tidy, NEW u, u.index = index, InOrder(tidy, u), SP!IInv
  PROVE  LET C == UNION {Counted(f) : f \in Shown}
         IN  scan_used_space(index) = BlockSize * Cardinality(C) /\ IsFiniteSet(C)
<1> DEFINE S == Shown
           g == [f \in S |-> get_size(index[f])]
           c == [T \in SUBSET S |-> CHOOSE x \in T : TRUE]
           E == [f \in S |-> Counted(f)]
           It(r, T) == IF T = {} THEN 0 ELSE LET x == CHOOSE y \in T : TRUE
                                             IN  get_size(index[x]) + r[T \ {x}]
           it == CHOOSE r : r = [T \in SUBSET S |-> It(r, T)]
<1>1. scan_used_space(index) = it[S]
  BY DEF scan_used_space, Shown, MapThenSumSet, MapThenFoldSet
<1>2. IsFiniteSet(S)
  <2>1. 1 \in Int /\ N \in Int
    BY SfsAssumption
  <2>2. IsFiniteSet(1..N)
    BY <2>1, FS_Interval
  <2>3. QED BY <2>2, FS_Subset DEF Shown, Slots
<1>3. ASSUME NEW f \in S
      PROVE  /\ IsFiniteSet(E[f]) /\ g[f] = BlockSize * Cardinality(E[f]) /\ g[f] \in Nat
             /\ E[f] = Counted(f) /\ g[f] = get_size(index[f])
             /\ f \in Handles /\ f \in Slots
  <2>1. E[f] = Counted(f) /\ g[f] = get_size(index[f]) /\ f \in Handles /\ f \in Slots
    BY DEF Shown, Handles, OwnsData
  <2> HIDE DEF E, g
  <2>2. IsFiniteSet(Held(f))
    BY <2>1, FileHolds
  <2>3. IsFiniteSet(Counted(f)) /\ get_size(index[f]) = BlockSize * Cardinality(Counted(f))
    <3>1. CASE index[f].size = 0
      <4>1. Counted(f) = {-f} /\ get_size(index[f]) = BlockSize
        BY <2>1, <3>1, FileHolds DEF Counted
      <4>2. IsFiniteSet({-f}) /\ Cardinality({-f}) = 1
        BY FS_Singleton
      <4>3. BlockSize * 1 = BlockSize
        BY SfsAssumption
      <4>4. QED BY <4>1, <4>2, <4>3
    <3>2. CASE index[f].size # 0
      BY <2>1, <2>2, <3>2, FileHolds DEF Counted
    <3>3. QED BY <3>1, <3>2
  <2>4. BlockSize * Cardinality(Counted(f)) \in Nat
    <3> DEFINE n == Cardinality(Counted(f))
    <3>1. n \in Nat
      BY <2>3, FS_CardinalityType
    <3> HIDE DEF n
    <3>2. BlockSize * n \in Nat
      BY <3>1, SfsAssumption
    <3>3. QED BY <3>2 DEF n
  <2>5. QED BY <2>1, <2>3, <2>4
<1>4. Measures(g, BlockSize, S, E)
  <2>1. ASSUME NEW i \in S, NEW j \in S, i # j PROVE E[i] \cap E[j] = {}
    <3>1. E[i] = Counted(i) /\ E[j] = Counted(j) /\ i \in Handles /\ j \in Handles
      BY <1>3
    <3> HIDE DEF E
    <3>2. Held(i) \cap Held(j) = {} /\ Held(i) \subseteq Lo..Hi /\ Held(j) \subseteq Lo..Hi
      BY <2>1, <3>1, HeldApart
    <3>3. {-i} \cap {-j} = {} /\ -i \notin Lo..Hi /\ -j \notin Lo..Hi
      <4>1. i \in 1..N /\ j \in 1..N
        BY <3>1 DEF Handles, Slots
      <4>2. -i # -j /\ -i < 0 /\ -j < 0 /\ 0 < Lo /\ -i \in Int /\ -j \in Int
        BY <2>1, <4>1, SfsAssumption
      <4>3. QED BY <4>2, SfsAssumption
    <3>4. QED BY <3>1, <3>2, <3>3 DEF Counted
  <2> HIDE DEF S, E, g
  <2>2. QED BY <1>3, <2>1 DEF Measures
<1>5. \A T \in SUBSET S : T # {} => c[T] \in T /\ c[T] = CHOOSE y \in T : TRUE
  OBVIOUS
<1>6. g \in [S -> Nat]
  <2>1. \A f \in S : g[f] \in Nat
    BY <1>3
  <2>2. QED BY <2>1
<1> HIDE DEF S, c, g, E
<1>7. \E r : r = [T \in SUBSET S |-> It(r, T)]
  <2>1. PICK r \in [SUBSET S -> Nat] : Sums(r, S, g, c)
    BY <1>2, <1>5, <1>6, SumExists
  <2>2. ASSUME NEW T \in SUBSET S PROVE r[T] = It(r, T)
    <3>1. r[T] = IF T = {} THEN 0 ELSE g[c[T]] + r[T \ {c[T]}]
      BY <2>1 DEF Sums
    <3>2. CASE T = {}
      BY <3>1, <3>2
    <3>3. CASE T # {}
      <4>1. c[T] \in S /\ c[T] = CHOOSE y \in T : TRUE
        BY <1>5, <3>3
      <4>2. g[c[T]] = get_size(index[c[T]])
        BY <1>3, <4>1
      <4>3. QED BY <3>1, <3>3, <4>1, <4>2
    <3>4. QED BY <3>2, <3>3
  <2> HIDE DEF It
  <2>3. r = [T \in SUBSET S |-> It(r, T)]
    BY <2>2
  <2>4. QED BY <2>3
<1>8. it = [T \in SUBSET S |-> It(it, T)]
  <2> HIDE DEF It
  <2>1. QED BY <1>7
<1> HIDE DEF it
<1>9. Sums(it, S, g, c)
  <2>1. ASSUME NEW T \in SUBSET S PROVE it[T] = IF T = {} THEN 0 ELSE g[c[T]] + it[T \ {c[T]}]
    <3>1. it[T] = It(it, T)
      <4> HIDE DEF It
      <4>1. QED BY <1>8
    <3>2. CASE T = {}
      BY <3>1, <3>2
    <3>3. CASE T # {}
      <4>1. c[T] \in S /\ c[T] = CHOOSE y \in T : TRUE
        BY <1>5, <3>3
      <4>2. g[c[T]] = get_size(index[c[T]])
        BY <1>3, <4>1
      <4>3. QED BY <3>1, <3>3, <4>1, <4>2
    <3>4. QED BY <3>2, <3>3
  <2>2. QED BY <2>1 DEF Sums
<1>10. {E[f] : f \in S} = {Counted(f) : f \in Shown}
  BY <1>3 DEF S
<1>11. SumsUp(it, S, BlockSize, E)
  <2>1. BlockSize \in Nat
    BY SfsAssumption
  <2>2. \A T \in SUBSET S : T # {} => c[T] \in T
    BY <1>5
  <2>3. QED BY <1>2, <1>4, <1>9, <2>1, <2>2, SumIs
<1>12. QED BY <1>1, <1>10, <1>11 DEF SumsUp

(* The sizes of the files that scan_used_space() leaves out. *)
LEMMA HiddenSum ==
  ASSUME NEW tidy, NEW u, u.index = index, InOrder(tidy, u), SP!IInv
  PROVE  /\ MapThenSumSet(LAMBDA f : BlockCount(index[f].size), Hidden) = Cardinality(HeldBy(Hidden))
         /\ IsFiniteSet(HeldBy(Hidden))
<1> DEFINE S == Hidden
           g == [f \in S |-> BlockCount(index[f].size)]
           c == [T \in SUBSET S |-> CHOOSE x \in T : TRUE]
           E == [f \in S |-> Held(f)]
           It(r, T) == IF T = {} THEN 0 ELSE LET x == CHOOSE y \in T : TRUE
                                             IN  BlockCount(index[x].size) + r[T \ {x}]
           it == CHOOSE r : r = [T \in SUBSET S |-> It(r, T)]
<1>1. MapThenSumSet(LAMBDA f : BlockCount(index[f].size), Hidden) = it[S]
  BY DEF MapThenSumSet, MapThenFoldSet
<1>2. IsFiniteSet(S)
  <2>1. 1 \in Int /\ N \in Int
    BY SfsAssumption
  <2>2. IsFiniteSet(1..N)
    BY <2>1, FS_Interval
  <2>3. QED BY <2>2, FS_Subset DEF Hidden, Handles, Slots
<1>3. ASSUME NEW f \in S
      PROVE  /\ IsFiniteSet(E[f]) /\ g[f] = 1 * Cardinality(E[f]) /\ g[f] \in Nat
             /\ E[f] = Held(f) /\ g[f] = BlockCount(index[f].size)
             /\ f \in Handles
  <2>1. E[f] = Held(f) /\ g[f] = BlockCount(index[f].size) /\ f \in Handles
    BY DEF Hidden
  <2> HIDE DEF E, g
  <2>2. IsFiniteSet(Held(f)) /\ Cardinality(Held(f)) = BlockCount(index[f].size)
    BY <2>1, FileHolds
  <2>3. Cardinality(Held(f)) \in Nat /\ 1 * Cardinality(Held(f)) = Cardinality(Held(f))
    <3>1. Cardinality(Held(f)) \in Nat
      BY <2>2, FS_CardinalityType
    <3>2. QED BY <3>1
  <2>4. QED BY <2>1, <2>2, <2>3
<1>4. Measures(g, 1, S, E)
  <2>1. ASSUME NEW i \in S, NEW j \in S, i # j PROVE E[i] \cap E[j] = {}
    <3>1. E[i] = Held(i) /\ E[j] = Held(j) /\ i \in Handles /\ j \in Handles
      BY <1>3
    <3> HIDE DEF E
    <3>2. QED BY <2>1, <3>1, HeldApart
  <2> HIDE DEF S, E, g
  <2>2. QED BY <1>3, <2>1 DEF Measures
<1>5. \A T \in SUBSET S : T # {} => c[T] \in T /\ c[T] = CHOOSE y \in T : TRUE
  OBVIOUS
<1>6. g \in [S -> Nat]
  <2>1. \A f \in S : g[f] \in Nat
    BY <1>3
  <2>2. QED BY <2>1
<1> HIDE DEF S, c, g, E
<1>7. \E r : r = [T \in SUBSET S |-> It(r, T)]
  <2>1. PICK r \in [SUBSET S -> Nat] : Sums(r, S, g, c)
    BY <1>2, <1>5, <1>6, SumExists
  <2>2. ASSUME NEW T \in SUBSET S PROVE r[T] = It(r, T)
    <3>1. r[T] = IF T = {} THEN 0 ELSE g[c[T]] + r[T \ {c[T]}]
      BY <2>1 DEF Sums
    <3>2. CASE T = {}
      BY <3>1, <3>2
    <3>3. CASE T # {}
      <4>1. c[T] \in S /\ c[T] = CHOOSE y \in T : TRUE
        BY <1>5, <3>3
      <4>2. g[c[T]] = BlockCount(index[c[T]].size)
        BY <1>3, <4>1
      <4>3. QED BY <3>1, <3>3, <4>1, <4>2
    <3>4. QED BY <3>2, <3>3
  <2> HIDE DEF It
  <2>3. r = [T \in SUBSET S |-> It(r, T)]
    BY <2>2
  <2>4. QED BY <2>3
<1>8. it = [T \in SUBSET S |-> It(it, T)]
  <2> HIDE DEF It
  <2>1. QED BY <1>7
<1> HIDE DEF it
<1>9. Sums(it, S, g, c)
  <2>1. ASSUME NEW T \in SUBSET S PROVE it[T] = IF T = {} THEN 0 ELSE g[c[T]] + it[T \ {c[T]}]
    <3>1. it[T] = It(it, T)
      <4> HIDE DEF It
      <4>1. QED BY <1>8
    <3>2. CASE T = {}
      BY <3>1, <3>2
    <3>3. CASE T # {}
      <4>1. c[T] \in S /\ c[T] = CHOOSE y \in T : TRUE
        BY <1>5, <3>3
      <4>2. g[c[T]] = BlockCount(index[c[T]].size)
        BY <1>3, <4>1
      <4>3. QED BY <3>1, <3>3, <4>1, <4>2
    <3>4. QED BY <3>2, <3>3
  <2>2. QED BY <2>1 DEF Sums
<1>10. {E[f] : f \in S} = {Held(f) : f \in Hidden}
  BY <1>3 DEF S
<1>11. SumsUp(it, S, 1, E)
  <2>1. 1 \in Nat
    OBVIOUS
  <2>2. \A T \in SUBSET S : T # {} => c[T] \in T
    BY <1>5
  <2>3. QED BY <1>2, <1>4, <1>9, <2>1, <2>2, SumIs
<1>12. 1 * Cardinality(HeldBy(Hidden)) = Cardinality(HeldBy(Hidden))
  <2>1. Cardinality(HeldBy(Hidden)) \in Nat
    BY <1>10, <1>11, FS_CardinalityType DEF SumsUp, HeldBy
  <2>2. QED BY <2>1
<1>13. QED BY <1>1, <1>10, <1>11, <1>12 DEF SumsUp, HeldBy

(* What is counted is the files' blocks and one for each empty file. *)
LEMMA CountedIs ==
  ASSUME NEW tidy, NEW u, u.index = index, InOrder(tidy, u), SP!IInv
  PROVE  LET C == UNION {Counted(f) : f \in Shown}
             V == HeldBy(Shown)
             H == HeldBy(Hidden)
         IN  /\ IsFiniteSet(V) /\ IsFiniteSet(H) /\ IsFiniteSet(Empty)
             /\ Cardinality(C) = Cardinality(V) + Cardinality(Empty)
             /\ Cardinality(HeldBy(Handles)) = Cardinality(V) + Cardinality(H)
<1> DEFINE C == UNION {Counted(f) : f \in Shown}
           V == HeldBy(Shown)
           H == HeldBy(Hidden)
           M == {-f : f \in Empty}
<1>1. /\ Shown \subseteq Slots /\ Empty \subseteq Shown /\ Handles = Shown \cup Hidden
      /\ \A f \in Shown, h \in Hidden : f # h
  BY DEF Shown, Hidden, Empty, Handles, OwnsData
<1>2. IsFiniteSet(HeldBy(Handles)) /\ HeldBy(Handles) = V \cup H
  BY <1>1, FilesSum DEF HeldBy
<1>3. V \cap H = {}
  <2>1. \A f \in Shown, h \in Hidden : Held(f) \cap Held(h) = {}
    BY <1>1, HeldApart
  <2>2. QED BY <2>1 DEF HeldBy
<1>4. C = V \cup M
  <2>1. \A f \in Empty : Counted(f) = {-f}
    BY DEF Empty, Counted
  <2>2. \A f \in Shown \ Empty : Counted(f) = Held(f)
    BY DEF Empty, Shown, Counted
  <2>3. \A f \in Empty : Held(f) = {}
    BY <1>1, FileHolds DEF Empty
  <2>4. \A x : x \in C <=> x \in V \/ x \in M
    BY <1>1, <2>1, <2>2, <2>3 DEF HeldBy
  <2>5. QED BY <2>4
<1>5. V \cap M = {}
  <2>1. V \subseteq Lo..Hi
    BY <1>1, HeldApart DEF HeldBy
  <2>2. \A f \in Empty : -f \notin Lo..Hi
    <3>1. \A f \in 1..N : -f \in Int /\ -f < 0
      BY SfsAssumption
    <3>2. Empty \subseteq 1..N /\ 0 < Lo /\ Lo \in Int /\ Hi \in Int
      BY <1>1, SfsAssumption DEF Slots
    <3>3. QED BY <3>1, <3>2
  <2>3. QED BY <2>1, <2>2
<1>6. IsFiniteSet(Empty) /\ IsFiniteSet(M) /\ Cardinality(M) = Cardinality(Empty)
  <2>1. 1 \in Int /\ N \in Int
    BY SfsAssumption
  <2>2. IsFiniteSet(Empty)
    BY <1>1, <2>1, FS_Interval, FS_Subset DEF Slots
  <2> DEFINE m == [f \in Empty |-> -f]
  <2>3. m \in Bijection(Empty, M)
    <3>1. m \in [Empty -> M] /\ \A y \in M : \E f \in Empty : m[f] = y
      OBVIOUS
    <3>2. \A f, h \in Empty : m[f] = m[h] => f = h
      <4>1. \A f, h \in 1..N : -f = -h => f = h
        BY <2>1
      <4>2. Empty \subseteq 1..N
        BY <1>1 DEF Slots
      <4>3. QED BY <4>1, <4>2
    <3> HIDE DEF m, M
    <3>3. QED BY <3>1, <3>2 DEF Bijection, Injection, Surjection, IsInjective
  <2> HIDE DEF m, M
  <2>4. ExistsBijection(Empty, M)
    BY <2>3 DEF ExistsBijection
  <2>5. QED BY <2>2, <2>4, FS_Bijection
<1> HIDE DEF C, V, H, M
<1>7. IsFiniteSet(V) /\ IsFiniteSet(H)
  BY <1>2, FS_Subset
<1>8. Cardinality({}) = 0
  BY FS_EmptySet
<1>9. Cardinality(V \cup H) = Cardinality(V) + Cardinality(H) - Cardinality({})
  BY <1>3, <1>7, FS_Union
<1>10. Cardinality(V \cup M) = Cardinality(V) + Cardinality(M) - Cardinality({})
  BY <1>5, <1>6, <1>7, FS_Union
<1>11. Cardinality(V) \in Nat /\ Cardinality(H) \in Nat /\ Cardinality(M) \in Nat
  BY <1>6, <1>7, FS_CardinalityType
<1> DEFINE v == Cardinality(V)
           h == Cardinality(H)
           m == Cardinality(M)
<1>12. v + h - 0 = v + h /\ v + m - 0 = v + m
  BY <1>11
<1>13. Cardinality(C) = v + Cardinality(Empty) /\ Cardinality(HeldBy(Handles)) = v + h
  <2>1. Cardinality(C) = v + m - 0 /\ Cardinality(HeldBy(Handles)) = v + h - 0
    BY <1>2, <1>4, <1>8, <1>9, <1>10
  <2> HIDE DEF v, h
  <2>2. QED BY <1>6, <1>12, <2>1
<1>14. QED BY <1>6, <1>7, <1>13 DEF C, V, H

(* The sums of the list and of the files make up the data area, short of    *)
(* what unlinked files and lost blocks take, and over it by a block for     *)
(* each empty file.                                                         *)
LEMMA CheckAdds ==
  ASSUME NEW tidy, NEW u, u.index = index, InOrder(tidy, u), SP!IInv
  PROVE  scan_del_file_list(u) + scan_used_space(index)
           + BlockSize * (Cardinality(AbsLost)
                          + MapThenSumSet(LAMBDA f : BlockCount(index[f].size), Hidden))
             = data_size + BlockSize * Cardinality(Empty)
<1> DEFINE C == UNION {Counted(f) : f \in Shown}
           F == HeldBy(Frees(u))
           l == Cardinality(AbsLost)
           v == Cardinality(HeldBy(Shown))
           h == Cardinality(HeldBy(Hidden))
           e == Cardinality(Empty)
           a == scan_del_file_list(u)
           s == MapThenSumSet(LAMBDA f : BlockCount(index[f].size), Hidden)
<1>1. a = BlockSize * Cardinality(F) /\ IsFiniteSet(F)
  BY ListSum
<1>2. scan_used_space(index) = BlockSize * Cardinality(C)
  BY ScanSum
<1>3. s = h
  BY HiddenSum
<1>4. /\ IsFiniteSet(HeldBy(Shown)) /\ IsFiniteSet(HeldBy(Hidden)) /\ IsFiniteSet(Empty)
      /\ Cardinality(C) = v + e /\ Cardinality(HeldBy(Handles)) = v + h
  BY CountedIs
<1>5. UsedSize = BlockSize * Cardinality(HeldBy(Handles))
  BY FilesSum
<1>6. a + UsedSize + (BlockSize * l) = data_size
  BY SpaceAdds
<1>7. IsFiniteSet(AbsLost)
  <2>1. Lo \in Int /\ Hi \in Int
    BY SfsAssumption
  <2>2. IsFiniteSet(Lo..Hi)
    BY <2>1, FS_Interval
  <2>3. QED BY <2>2, FS_Subset DEF AbsLost
<1>8. v \in Nat /\ h \in Nat /\ e \in Nat /\ l \in Nat /\ Cardinality(F) \in Nat
  BY <1>1, <1>4, <1>7, FS_CardinalityType
<1> HIDE DEF C, F, l, v, h, e, s
<1>9. a \in Int /\ BlockSize \in Int
  BY <1>1, <1>8, SfsAssumption
<1>10. a + (BlockSize * (v + h)) + (BlockSize * l) = data_size
  BY <1>4, <1>5, <1>6
<1> HIDE DEF a
<1>11. a + (BlockSize * (v + e)) + (BlockSize * (l + h)) = data_size + (BlockSize * e)
  <2> DEFINE bv == BlockSize * v
             bh == BlockSize * h
             bl == BlockSize * l
             be == BlockSize * e
  <2>1. /\ BlockSize * (v + h) = bv + bh /\ BlockSize * (v + e) = bv + be
        /\ BlockSize * (l + h) = bl + bh
        /\ bv \in Int /\ bh \in Int /\ bl \in Int /\ be \in Int
    BY <1>8, <1>9
  <2> HIDE DEF bv, bh, bl, be
  <2>2. a + (bv + bh) + bl = data_size
    BY <1>10, <2>1 DEF bl
  <2>3. a + (bv + be) + (bl + bh) = data_size + be
    BY <1>9, <2>1, <2>2
  <2>4. QED BY <2>1, <2>3 DEF be
<1>12. QED BY <1>2, <1>3, <1>4, <1>11 DEF a, s, h, l, e, C

(* So the space check of a mount after sessions that ended with a release   *)
(* counts what CheckCounts says: it takes an image with an empty file and   *)
(* nothing lost for a broken one.                                           *)
THEOREM CheckCountsSo == MountSpec => []CheckCounts
<1>1. MInv => CheckCounts
  <2> SUFFICES ASSUME MInv, ~mounted, ~crashed
               PROVE  scan_del_file_list(Found) + scan_used_space(index)
                        + BlockSize * (Cardinality(AbsLost)
                                       + MapThenSumSet(LAMBDA f : BlockCount(index[f].size), Hidden))
                          = data_size + BlockSize * Cardinality(Empty)
    BY DEF CheckCounts, Hidden, Empty
  <2>1. InOrder(Untidy, Found) /\ SP!IInv /\ Found.index = index
    BY DEF MInv, Found
  <2>2. QED BY <2>1, CheckAdds
<1>2. QED BY <1>1, MountsFindOrder, PTL

-----------------------------------------------------------------------------
(* The images that a crash leaves.  A mount can walk an index from the head *)
(* that it finds if only free extents have no predecessor (Starts) and      *)
(* links lead from free extents to others, upwards in some ranks (Tied).    *)

Starts(ix) == \A i \in Slots :
    ix[i].entry_type = "DEL_FILE_ENTRY" /\ PREV_DEL(ix[i]) = 0 => IsFree(ix[i])

Tied(ix, r) ==
    /\ r \in [Slots -> Nat]
    /\ \A i \in Slots : IsFree(ix[i]) /\ NEXT_DEL(ix[i]) # 0 =>
          /\ NEXT_DEL(ix[i]) \in Slots /\ IsFree(ix[NEXT_DEL(ix[i])])
          /\ r[i] < r[NEXT_DEL(ix[i])]

Walkable(ix) == Starts(ix) /\ \E r : Tied(ix, r)

(* What MountFindsList says of a walkable index. *)
LEMMA WalkableIsWalked ==
  ASSUME NEW ix, Walkable(ix), NEW u, u = [index |-> ix, del_begin |-> search_begin(ix)]
  PROVE  /\ Walk(u)[N] = 0
         /\ \A k \in 0..N : Walk(u)[k] # 0 => IsFree(ix[Walk(u)[k]])
<1>1. PICK r : Tied(ix, r)
  BY DEF Walkable
<1> DEFINE S == {i \in Slots : ix[i].entry_type = "DEL_FILE_ENTRY" /\ PREV_DEL(ix[i]) = 0}
<1>2. search_begin(ix) # 0 => search_begin(ix) \in Frees(u)
  <2>1. search_begin(ix) = FirstOf(S) /\ S \in SUBSET Slots
    BY DEF search_begin
  <2>2. \A i \in S : i \in Frees(u)
    BY DEF Walkable, Starts, Frees
  <2> HIDE DEF S
  <2>3. CASE S = {}
    BY <2>1, <2>3 DEF FirstOf
  <2>4. CASE S # {}
    <3>1. FirstOf(S) \in S
      BY <2>1, <2>4, FirstOfSet
    <3>2. QED BY <2>1, <2>2, <3>1
  <2>5. QED BY <2>3, <2>4
<1>3. Leads(u) /\ Ranked(u, r)
  BY <1>1, <1>2 DEF Leads, Ranked, Frees, Tied
<1>4. Walk(u)[N] = 0
  BY <1>3, WalkEndsFree
<1>5. \A k \in 0..(N + 1) : Walk(u)[k] # 0 => Walk(u)[k] \in Frees(u)
  BY <1>3, WalkStaysFree
<1>6. \A k \in 0..N : k \in 0..(N + 1)
  BY SfsAssumption
<1>7. QED BY <1>4, <1>5, <1>6 DEF Frees

(* An index in order is walkable. *)
LEMMA OrderWalkable ==
  ASSUME NEW tidy, NEW u, InOrder(tidy, u)
  PROVE  Walkable(u.index)
<1>1. Starts(u.index)
  <2> SUFFICES ASSUME NEW i \in Slots, u.index[i].entry_type = "DEL_FILE_ENTRY",
                      PREV_DEL(u.index[i]) = 0
               PROVE  IsFree(u.index[i])
    BY DEF Starts
  <2>1. EntryOK(u.index[i])
    BY DEF InOrder, Entered
  <2>2. ~OwnsData(u.index[i])
    BY <2>1 DEF EntryOK, PREV_DEL
  <2>3. QED BY <2>2 DEF OwnsData, IsUnlinked, IsFree
<1>2. Linked(u) /\ \E r : Ranked(u, r)
  BY DEF InOrder, IsList
<1>3. PICK r : Ranked(u, r)
  BY <1>2
<1>4. Tied(u.index, r)
  BY <1>2, <1>3 DEF Linked, Ranked, Frees, Tied
<1>5. QED BY <1>1, <1>4 DEF Walkable

(* An index with the same links is as walkable. *)
LEMMA SameLinksWalkable ==
  ASSUME NEW ix, NEW jx, Walkable(ix), Starts(jx),
         \A i \in Slots : /\ IsFree(jx[i]) <=> IsFree(ix[i])
                          /\ IsFree(ix[i]) => NEXT_DEL(jx[i]) = NEXT_DEL(ix[i])
  PROVE  Walkable(jx)
<1>1. PICK r : Tied(ix, r)
  BY DEF Walkable
<1>2. Tied(jx, r)
  BY <1>1 DEF Tied
<1>3. QED BY <1>2 DEF Walkable

(* Every entry of an image between two indices is that of one of them. *)
Mixed(ix, x, y) == \A i \in Slots : ix[i] = x[i] \/ ix[i] = y[i]

(* Whatever the order, the entries are old or new. *)
LEMMA BetweenIsMixed ==
  ASSUME NEW x, NEW y, NEW order, NEW ix \in Between(x, y, order)
  PROVE  Mixed(ix, x, y)
<1>1. PICK k \in 0..Len(order) :
        ix = [i \in Offsets |-> IF \E j \in 1..k : order[j] = i THEN y[i] ELSE x[i]]
  BY DEF Between
<1>2. \A i \in Slots : i \in Offsets
  BY Numbers
<1>3. QED BY <1>1, <1>2 DEF Mixed

(* It has no start that neither of them has. *)
LEMMA MixedStarts ==
  ASSUME NEW ix, NEW x, NEW y, Mixed(ix, x, y), Starts(x), Starts(y)
  PROVE  Starts(ix)
  BY DEF Mixed, Starts

(* An image between the writes of a list operation that leads from u to v:  *)
(* it can be walked, only list entries and unused ones were written, and    *)
(* what it holds is less than u holds, or what v holds.                     *)
PoolEntry(e) == IsFree(e) \/ e.entry_type = "UNUSED_ENTRY"

OnlyPool(ix, jx) == \A i \in Slots :
    ix[i] = jx[i] \/ (PoolEntry(jx[i]) /\ PoolEntry(ix[i]))

Fewer(e2, e) == \A i \in Slots : e2[i] = e[i] \/ e2[i] = Space!Unused

Halfway(ix, u, v) ==
    /\ Walkable(ix) /\ OnlyPool(ix, u.index)
    /\ Fewer(AbsOf(ix), AbsOf(u.index)) \/ AbsOf(ix) = AbsOf(v.index)

(* A list operation writes only to the pool. *)
LEMMA KeptPool ==
  ASSUME NEW u, NEW v, Kept(v, u), NEW ix, Mixed(ix, u.index, v.index)
  PROVE  OnlyPool(ix, u.index)
<1> SUFFICES ASSUME NEW i \in Slots, ix[i] # u.index[i]
             PROVE  PoolEntry(u.index[i]) /\ PoolEntry(ix[i])
  BY DEF OnlyPool
<1>1. ix[i] = v.index[i] /\ i \in Offsets
  BY Numbers DEF Mixed
<1>2. i \in Pool(u) /\ i \in Pool(v)
  BY <1>1 DEF Kept
<1>3. QED BY <1>1, <1>2 DEF Pool, PoolEntry

(* Before and after the operation *)
LEMMA EndsHalfway ==
  ASSUME NEW tidy, NEW u, InOrder(tidy, u), NEW v, InOrder(tidy, v), Kept(v, u)
  PROVE  Halfway(u.index, u, v) /\ Halfway(v.index, u, v)
<1>1. Walkable(u.index) /\ Walkable(v.index)
  BY OrderWalkable
<1>2. Mixed(u.index, u.index, v.index) /\ Mixed(v.index, u.index, v.index)
  BY DEF Mixed
<1>3. OnlyPool(u.index, u.index) /\ OnlyPool(v.index, u.index)
  BY <1>2, KeptPool
<1>4. Fewer(AbsOf(u.index), AbsOf(u.index))
  BY DEF Fewer
<1>5. QED BY <1>1, <1>3, <1>4 DEF Halfway

(* del_file_list_remove() writes the entry before, the one behind and the   *)
(* entry itself: while the entry is there its links lead on.                *)
LEMMA RemoveHalves ==
  ASSUME NEW tidy, NEW u, InOrder(tidy, u), NEW off \in Frees(u),
         NEW v, v = del_file_list_remove(u, off), NEW ix \in during_remove(u, off)
  PROVE  Walkable(ix) /\ OnlyPool(ix, u.index) /\ Fewer(AbsOf(ix), AbsOf(u.index))
<1> DEFINE prev == PREV_DEL(u.index[off])
           next == NEXT_DEL(u.index[off])
<1>1. ShapedList(u) /\ IsList(u) /\ Linked(u)
  BY OrderShaped DEF InOrder, IsList
<1>2. /\ ShapedList(v) /\ Kept(v, u) /\ SameBut(v, u, {off})
      /\ AbsOf(v.index) = Space!Put(AbsOf(u.index), off, Space!Unused)
  BY <1>1, RemoveShaped
<1>3. /\ v.index[off] = UnusedEntry
      /\ \A j \in Frees(v) : NEXT_DEL(v.index[j]) = IF j = prev THEN next ELSE NEXT_DEL(u.index[j])
  BY <1>1, RemoveKeeps
<1>4. /\ off \in Slots /\ off # 0 /\ IsFree(u.index[off]) /\ ~IsFree(v.index[off])
      /\ \A i \in Slots : i \in Offsets /\ i # 0
  BY <1>3, Numbers, UnusedFields DEF Frees
<1>5. PICK k \in 0..3 :
        ix = [i \in Offsets |-> IF \E j \in 1..k : <<prev, next, off>>[j] = i
                                THEN v.index[i] ELSE u.index[i]]
  <2>1. Len(<<prev, next, off>>) = 3
    OBVIOUS
  <2>2. QED BY <2>1 DEF during_remove, Between
<1>6. Mixed(ix, u.index, v.index)
  BY <1>4, <1>5 DEF Mixed
<1>7. \A i \in Slots : i = prev => ix[off] = u.index[off] \/ ix[i] = v.index[i]
  <2> SUFFICES ASSUME prev \in Slots, ix[off] # u.index[off] PROVE ix[prev] = v.index[prev]
    OBVIOUS
  <2>1. PICK j \in 1..k : <<prev, next, off>>[j] = off
    BY <1>4, <1>5
  <2>2. 1 \in 1..k /\ <<prev, next, off>>[1] = prev
    BY <2>1
  <2>3. QED BY <1>4, <1>5, <2>2
<1> HIDE DEF prev, next
<1>8. \A i \in Slots : i # off => /\ IsFree(v.index[i]) <=> IsFree(u.index[i])
                                  /\ IsFree(ix[i]) <=> IsFree(u.index[i])
                                  /\ AbsOf(v.index)[i] = AbsOf(u.index)[i]
  <2> SUFFICES ASSUME NEW i \in Slots, i # off
               PROVE  /\ IsFree(v.index[i]) <=> IsFree(u.index[i])
                      /\ IsFree(ix[i]) <=> IsFree(u.index[i])
                      /\ AbsOf(v.index)[i] = AbsOf(u.index)[i]
    OBVIOUS
  <2>1. IsFree(v.index[i]) <=> IsFree(u.index[i])
    BY <1>2, <1>4 DEF SameBut, Frees
  <2>2. AbsOf(v.index)[i] = AbsOf(u.index)[i]
    BY <1>2, AbsSame
  <2>3. QED BY <1>6, <2>1, <2>2 DEF Mixed
<1>9. Starts(ix)
  <2>1. Starts(u.index) /\ Starts(v.index)
    <3>1. InOrder(tidy, v)
      BY <1>2, KeptOrder
    <3>2. QED BY <3>1, OrderWalkable DEF Walkable
  <2>2. QED BY <1>6, <2>1, MixedStarts
<1>10. PICK r : Ranked(u, r)
  BY <1>1 DEF IsList
<1>11. /\ prev # 0 => prev \in Frees(u) /\ r[prev] < r[off] /\ r[prev] \in Nat /\ r[off] \in Nat
       /\ next # 0 => next \in Frees(u) /\ r[off] < r[next] /\ r[next] \in Nat /\ r[off] \in Nat
  <2>1. /\ prev # 0 => prev \in Frees(u) /\ NEXT_DEL(u.index[prev]) = off
        /\ next # 0 => next \in Frees(u)
    BY <1>1 DEF Linked, prev, next
  <2>2. prev # 0 => r[prev] < r[off]
    BY <1>4, <1>10, <2>1 DEF Ranked
  <2>3. next # 0 => r[off] < r[next]
    BY <1>10 DEF Ranked, next
  <2>4. \A i \in Frees(u) : r[i] \in Nat
    BY <1>10 DEF Ranked, Frees
  <2>5. QED BY <2>1, <2>2, <2>3, <2>4
<1>12. Tied(ix, r)
  <2> SUFFICES ASSUME NEW i \in Slots, IsFree(ix[i]), NEXT_DEL(ix[i]) # 0
               PROVE  /\ NEXT_DEL(ix[i]) \in Slots /\ IsFree(ix[NEXT_DEL(ix[i])])
                      /\ r[i] < r[NEXT_DEL(ix[i])]
    BY <1>10 DEF Tied, Ranked
  <2> DEFINE n == NEXT_DEL(ix[i])
  <2>1. IsFree(u.index[i]) /\ i \in Frees(u)
    BY <1>4, <1>8 DEF Frees
  <2>2. NEXT_DEL(u.index[i]) # 0 =>
          /\ NEXT_DEL(u.index[i]) \in Frees(u) /\ r[i] < r[NEXT_DEL(u.index[i])]
          /\ PREV_DEL(u.index[NEXT_DEL(u.index[i])]) = i
    BY <1>1, <1>10, <2>1 DEF Linked, Ranked
  <2>3. CASE ix[i] = u.index[i]
    <3>1. n \in Slots /\ IsFree(u.index[n]) /\ r[i] < r[n]
      BY <2>2, <2>3 DEF Frees
    <3>2. CASE n # off
      BY <1>8, <3>1, <3>2
    <3>3. CASE n = off
      <4>1. i = prev /\ i # off
        BY <2>2, <2>3, <3>3, <1>10, <1>11, <1>4 DEF prev
      <4>2. CASE ix[off] = u.index[off]
        BY <1>4, <3>1, <3>3, <4>2
      <4>3. CASE ix[i] = v.index[i]
        <5>1. i \in Frees(v)
          BY <4>3 DEF Frees
        <5>2. n = next
          BY <1>3, <4>1, <4>3, <5>1
        <5>3. QED BY <1>4, <1>11, <3>3, <5>2
      <4>4. QED BY <1>7, <4>1, <4>2, <4>3
    <3>4. QED BY <3>2, <3>3
  <2>4. CASE ix[i] = v.index[i] /\ ix[i] # u.index[i]
    <3>1. i \in Frees(v) /\ i # off
      BY <1>4, <2>4 DEF Frees
    <3>2. n = IF i = prev THEN next ELSE NEXT_DEL(u.index[i])
      BY <1>3, <2>4, <3>1
    <3>3. CASE i = prev
      <4>1. n = next /\ n # 0 /\ i # 0
        BY <1>4, <3>2, <3>3
      <4>2. n \in Frees(u) /\ r[i] < r[n] /\ n # off
        BY <1>11, <3>3, <4>1
      <4>3. QED BY <1>8, <4>2 DEF Frees
    <3>4. CASE i # prev
      <4>1. n \in Frees(u) /\ r[i] < r[n] /\ PREV_DEL(u.index[n]) = i
        BY <2>2, <3>2, <3>4
      <4>2. n # off
        BY <3>4, <4>1 DEF prev
      <4>3. QED BY <1>8, <4>1, <4>2 DEF Frees
    <3>5. QED BY <3>3, <3>4
  <2>5. QED BY <1>6, <2>3, <2>4 DEF Mixed
<1>13. Fewer(AbsOf(ix), AbsOf(u.index))
  <2> SUFFICES ASSUME NEW i \in Slots
               PROVE  AbsOf(ix)[i] = AbsOf(u.index)[i] \/ AbsOf(ix)[i] = Space!Unused
    BY DEF Fewer
  <2>1. AbsOf(ix)[i] = AbsOf(u.index)[i] \/ AbsOf(ix)[i] = AbsOf(v.index)[i]
    <3>1. ASSUME NEW x, ix[i] = x[i] PROVE AbsOf(ix)[i] = AbsOf(x)[i]
      <4>1. \A y : AbsOf(y)[i] = [type |-> AbsType(y[i]), start |-> y[i].start_block,
                                  end |-> y[i].end_block]
        BY AbsFields
      <4>2. QED BY <3>1, <4>1
    <3>2. QED BY <1>6, <3>1 DEF Mixed
  <2>2. AbsOf(v.index)[i] = AbsOf(u.index)[i] \/ AbsOf(v.index)[i] = Space!Unused
    BY <1>2, <1>8 DEF Space!Put
  <2>3. QED BY <2>1, <2>2
<1>14. QED BY <1>2, <1>6, <1>9, <1>12, <1>13, KeptPool DEF Walkable

(* A new list entry is written before the old head points back to it.       *)
LEMMA PushHalves ==
  ASSUME NEW tidy, NEW u, InOrder(tidy, u), NEW new \in Slots,
         u.index[new].entry_type = "UNUSED_ENTRY",
         NEW st \in Lo..Hi, NEW en \in Lo..Hi, st <= en, NEW v, v = PushFront(u, new, st, en),
         NEW ix, Mixed(ix, u.index, v.index)
  PROVE  Halfway(ix, u, v)
<1>1. ShapedList(u) /\ IsList(u) /\ ~IsFree(u.index[new]) /\ st \in Extents /\ en \in Extents
  BY OrderShaped, Kinds DEF InOrder, Extents
<1>2. ShapedList(v) /\ Kept(v, u)
  BY <1>1, PushShaped
<1>3. /\ SameBut(v, u, {new}) /\ new \in Frees(v)
      /\ \A i \in Frees(u) : NEXT_DEL(v.index[i]) = NEXT_DEL(u.index[i])
  <2>1. Pushed(v, u, new, st, en)
    BY <1>1, PushKeeps
  <2>2. QED BY <2>1 DEF Pushed
<1>4. InOrder(tidy, v)
  BY <1>2, KeptOrder
<1>5. Walkable(u.index) /\ Walkable(v.index)
  BY <1>4, OrderWalkable
<1>6. Starts(ix)
  BY <1>5, MixedStarts DEF Walkable
<1>7. \A i \in Slots : i # new => /\ IsFree(v.index[i]) <=> IsFree(u.index[i])
                                  /\ AbsOf(v.index)[i] = AbsOf(u.index)[i]
  <2>1. \A i \in Slots : i \in Offsets
    BY Numbers
  <2>2. \A i \in Slots : i # new => AbsOf(v.index)[i] = AbsOf(u.index)[i]
    BY <1>3, AbsSame
  <2>3. QED BY <1>3, <2>1, <2>2 DEF SameBut, Frees
<1>8. \A i \in Slots : IsFree(u.index[i]) => NEXT_DEL(v.index[i]) = NEXT_DEL(u.index[i])
  BY <1>3 DEF Frees
<1>9. OnlyPool(ix, u.index)
  BY <1>2, KeptPool
<1>10. ASSUME NEW i \in Slots
       PROVE  /\ ix[i] = u.index[i] => AbsOf(ix)[i] = AbsOf(u.index)[i]
              /\ ix[i] = v.index[i] => AbsOf(ix)[i] = AbsOf(v.index)[i]
  <2>1. \A y : AbsOf(y)[i] = [type |-> AbsType(y[i]), start |-> y[i].start_block,
                              end |-> y[i].end_block]
    BY AbsFields
  <2>2. QED BY <2>1
<1>11. CASE ix[new] = u.index[new]
  <2>1. \A i \in Slots : /\ IsFree(ix[i]) <=> IsFree(u.index[i])
                         /\ IsFree(u.index[i]) => NEXT_DEL(ix[i]) = NEXT_DEL(u.index[i])
    BY <1>7, <1>8, <1>11 DEF Mixed
  <2>2. Walkable(ix)
    BY <1>5, <1>6, <2>1, SameLinksWalkable
  <2>3. \A i \in Slots : AbsOf(ix)[i] = AbsOf(u.index)[i]
    BY <1>7, <1>10, <1>11 DEF Mixed
  <2>4. QED BY <1>9, <2>2, <2>3 DEF Halfway, Fewer
<1>12. CASE ix[new] = v.index[new]
  <2>1. \A i \in Slots : /\ IsFree(ix[i]) <=> IsFree(v.index[i])
                         /\ IsFree(v.index[i]) => NEXT_DEL(ix[i]) = NEXT_DEL(v.index[i])
    BY <1>7, <1>8, <1>12 DEF Mixed
  <2>2. Walkable(ix)
    BY <1>5, <1>6, <2>1, SameLinksWalkable
  <2>3. \A i \in Slots : AbsOf(ix)[i] = AbsOf(v.index)[i]
    BY <1>7, <1>10, <1>12 DEF Mixed
  <2>4. AbsOf(ix) = AbsOf(v.index)
    <3>1. \A y : AbsOf(y) = [j \in Slots |-> AbsOf(y)[j]]
      BY DEF AbsOf
    <3>2. QED BY <2>3, <3>1
  <2>5. QED BY <1>9, <2>2, <2>4 DEF Halfway
<1>13. QED BY <1>11, <1>12 DEF Mixed

(* del_file_list_add() of a file's extent: two neighbours are merged with a *)
(* removal first, a new entry is linked, or one entry is written.           *)
LEMMA AddHalves ==
  ASSUME NEW tidy, NEW u, InOrder(tidy, u), NEW e, Sized(e), e.size \in Nat,
         NEW a, a = del_file_list_add(u, e.start_block, e.end_block),
         NEW ix \in during_add(u, e.start_block, e.end_block)
  PROVE  Halfway(ix, u, a.u)
<1> DEFINE st  == e.start_block
           en  == e.end_block
           p   == prev_extent(u, st)
           q   == next_extent(u, st, en)
           new == alloc_entry(u.index, 1)
<1>1. InOrder(tidy, a.u) /\ Kept(a.u, u)
  BY FreedOrder
<1>2. Halfway(u.index, u, a.u) /\ Halfway(a.u.index, u, a.u)
  BY <1>1, EndsHalfway
<1>3. CASE st = 0
  <2>1. en = 0
    BY <1>3, FitsBlocks
  <2>2. ix = u.index
    BY <1>3, <2>1 DEF during_add
  <2>3. QED BY <1>2, <2>2
<1>4. CASE st # 0
  <2>1. st \in Lo..Hi /\ en \in Lo..Hi /\ st <= en /\ en # 0
    <3>1. st \in Lo..Hi /\ en \in Lo..Hi /\ st <= en
      BY <1>4, FitsBlocks
    <3>2. QED BY <3>1, SfsAssumption
  <2>2. IsList(u)
    BY DEF InOrder
  <2>3. \/ p # 0 /\ q # 0 /\ (ix \in during_remove(u, p) \/ ix = a.u.index)
        \/ p = 0 /\ q = 0 /\ ix \in Between(u.index, a.u.index, <<a.u.del_begin, u.del_begin>>)
        \/ ix = u.index \/ ix = a.u.index
    <3>1. ix \in CASE p # 0 /\ q # 0 -> during_remove(u, p) \cup {a.u.index}
                   [] p = 0 /\ q = 0 -> Between(u.index, a.u.index, <<a.u.del_begin, u.del_begin>>)
                   [] OTHER -> {u.index, a.u.index}
      BY <1>4, <2>1 DEF during_add
    <3> HIDE DEF p, q
    <3>2. QED BY <3>1
  <2>4. ASSUME p # 0, ix \in during_remove(u, p) PROVE Halfway(ix, u, a.u)
    <3>1. p \in Frees(u)
      BY <2>2, <2>4, PrevExtent
    <3> HIDE DEF p
    <3>2. QED BY <2>4, <3>1, RemoveHalves DEF Halfway
  <2>5. ASSUME p = 0, q = 0, Mixed(ix, u.index, a.u.index) PROVE Halfway(ix, u, a.u)
    <3>1. a = IF new = 0 THEN [ok |-> FALSE, u |-> u] ELSE [ok |-> TRUE, u |-> PushFront(u, new, st, en)]
      BY <1>4, <2>5 DEF del_file_list_add
    <3>2. CASE new = 0
      <4>1. a.u = u
        BY <3>1, <3>2
      <4>2. \A i \in Slots : ix[i] = u.index[i]
        BY <2>5, <4>1 DEF Mixed
      <4>3. Walkable(u.index)
        BY OrderWalkable
      <4>4. Starts(ix)
        BY <4>2, <4>3 DEF Walkable, Starts
      <4>5. Walkable(ix)
        BY <4>2, <4>3, <4>4, SameLinksWalkable
      <4>6. Fewer(AbsOf(ix), AbsOf(u.index))
        BY <4>2 DEF Fewer, AbsOf
      <4>7. QED BY <4>2, <4>5, <4>6 DEF Halfway, OnlyPool
    <3>3. CASE new # 0
      <4>1. new \in Slots /\ u.index[new].entry_type = "UNUSED_ENTRY"
        <5>1. /\ new \in Slots
              /\ \A k \in new..(new + 1 - 1) : u.index[k].entry_type = "UNUSED_ENTRY"
          BY <3>3, AllocEntry
        <5>2. new \in new..(new + 1 - 1)
          BY <5>1, SfsAssumption DEF Slots
        <5>3. QED BY <5>1, <5>2
      <4>2. a.u = PushFront(u, new, st, en)
        BY <3>1, <3>3
      <4> HIDE DEF st, en, new
      <4>3. QED BY <2>1, <2>5, <4>1, <4>2, PushHalves
    <3>4. QED BY <3>2, <3>3
  <2> HIDE DEF p, q
  <2>6. QED BY <1>2, <2>3, <2>4, <2>5, BetweenIsMixed
<1>5. QED BY <1>3, <1>4

(* Taking the front of an extent, or all of it *)
LEMMA TakeHalves ==
  ASSUME NEW tidy, NEW u, InOrder(tidy, u), NEW d \in Frees(u), NEW n \in Nat \ {0},
         n <= Space!Size(AbsOf(u.index)[d]), NEW v, v = TakeFront(u, d, BlockSize * n),
         NEW ix \in during_take(u, d, BlockSize * n)
  PROVE  Halfway(ix, u, v)
<1>1. ShapedList(v) /\ Kept(v, u)
  BY OrderShaped, TakeShaped
<1>2. InOrder(tidy, v)
  BY <1>1, KeptOrder
<1>3. CASE BlockSize * n = get_size(u.index[d])
  <2>1. ix \in during_remove(u, d)
    BY <1>3 DEF during_take
  <2>2. QED BY <2>1, RemoveHalves DEF Halfway
<1>4. CASE BlockSize * n # get_size(u.index[d])
  <2>1. ix = u.index \/ ix = v.index
    BY <1>4 DEF during_take
  <2>2. QED BY <1>1, <1>2, <2>1, EndsHalfway
<1>5. QED BY <1>3, <1>4

-----------------------------------------------------------------------------
(* The images of whole calls.  Within: an entry of SfsSpace holds no more   *)
(* than another, which keeps extents apart.                                 *)
Within(y, x) ==
    \/ y = x
    \/ ~Space!Holds(y) /\ y.start = 0 /\ y.end = 0
    \/ /\ Space!Holds(y) /\ Space!Holds(x) /\ y.start \in Int /\ y.end \in Int
       /\ x.start <= y.start /\ y.start <= y.end /\ y.end <= x.end

Less(e2, e) == \A i \in Slots : Within(e2[i], e[i])

(* A crash image of the index x, in a call on the file f (or 0): it can be  *)
(* walked, and the entry of every other file is there.                      *)
Wreck(ix, x, f) ==
    /\ Walkable(ix)
    /\ \A i \in Slots : i # f /\ IsFile(x[i]) => ix[i] = x[i]

(* A change of names, of the file f if of any: no list entry is changed.    *)
NamesOnly(y, x, f) == \A i \in Slots : y[i] # x[i] =>
    /\ ~IsFree(x[i]) /\ ~IsFree(y[i])
    /\ IsFile(x[i]) => i = f
    /\ \/ y[i].start_block = 0 /\ y[i].end_block = 0
       \/ SameExtent(y[i], x[i]) /\ AbsType(y[i]) = AbsType(x[i])

(* Every image of it can be walked, and holds less. *)
LEMMA NamesTorn ==
  ASSUME NEW tidy, NEW u, InOrder(tidy, u), NEW v, InOrder(tidy, v), NEW f,
         NamesOnly(v.index, u.index, f), NEW ix, Mixed(ix, u.index, v.index)
  PROVE  Wreck(ix, u.index, f) /\ Less(AbsOf(ix), AbsOf(u.index))
<1>1. Walkable(u.index) /\ Walkable(v.index)
  BY OrderWalkable
<1>2. Starts(ix)
  BY <1>1, MixedStarts DEF Walkable
<1>3. \A i \in Slots : /\ IsFree(ix[i]) <=> IsFree(u.index[i])
                       /\ IsFree(u.index[i]) => NEXT_DEL(ix[i]) = NEXT_DEL(u.index[i])
  BY DEF Mixed, NamesOnly
<1>4. Walkable(ix)
  BY <1>1, <1>2, <1>3, SameLinksWalkable
<1>5. \A i \in Slots : i # f /\ IsFile(u.index[i]) => ix[i] = u.index[i]
  BY DEF Mixed, NamesOnly
<1>6. ASSUME NEW i \in Slots PROVE Within(AbsOf(ix)[i], AbsOf(u.index)[i])
  <2>1. \A y : AbsOf(y)[i] = [type |-> AbsType(y[i]), start |-> y[i].start_block,
                              end |-> y[i].end_block]
    BY AbsFields
  <2>2. CASE ix[i] = u.index[i]
    BY <2>1, <2>2 DEF Within
  <2>3. CASE ix[i] # u.index[i]
    <3>1. /\ ix[i] = v.index[i] /\ ~IsFree(ix[i])
          /\ \/ ix[i].start_block = 0 /\ ix[i].end_block = 0
             \/ SameExtent(ix[i], u.index[i]) /\ AbsType(ix[i]) = AbsType(u.index[i])
      BY <2>3 DEF Mixed, NamesOnly
    <3>2. CASE ix[i].start_block = 0 /\ ix[i].end_block = 0
      <4>1. AbsType(ix[i]) # "free"
        BY <3>1, AbsTypes
      <4>2. /\ AbsOf(ix)[i].type # "free" /\ AbsOf(ix)[i].start = 0 /\ AbsOf(ix)[i].end = 0
        BY <3>2, <4>1, AbsFields
      <4>3. QED BY <4>2 DEF Within, Space!Holds
    <3>3. CASE SameExtent(ix[i], u.index[i]) /\ AbsType(ix[i]) = AbsType(u.index[i])
      <4>1. AbsOf(ix)[i] = AbsOf(u.index)[i]
        BY <2>1, <3>3 DEF SameExtent
      <4>2. QED BY <4>1 DEF Within
    <3>4. QED BY <3>1, <3>2, <3>3
  <2>4. QED BY <2>2, <2>3
<1>7. QED BY <1>4, <1>5, <1>6 DEF Wreck, Less

(* A new name takes unused entries. *)
LEMMA NamedOnly ==
  ASSUME NEW ix, NEW jx, NEW new \in Slots, NEW x, Named(jx, ix, new, x),
         x.start_block = 0, x.end_block = 0, NEW f
  PROVE  NamesOnly(jx, ix, f)
<1> SUFFICES ASSUME NEW i \in Slots, jx[i] # ix[i]
             PROVE  /\ ~IsFree(ix[i]) /\ ~IsFree(jx[i]) /\ ~IsFile(ix[i])
                    /\ jx[i].start_block = 0 /\ jx[i].end_block = 0
  BY DEF NamesOnly
<1>1. i \in new..(new + x.cont_entries) /\ (i = new \/ i \in (new + 1)..(new + x.cont_entries))
  BY SfsAssumption DEF Named, Slots
<1>2. ix[i].entry_type = "UNUSED_ENTRY"
  BY <1>1 DEF Named
<1>3. ~IsFree(ix[i]) /\ ~IsFile(ix[i])
  BY <1>2 DEF IsFree, IsFile, OwnsData, IsUnlinked
<1>4. CASE i = new
  <2>1. jx[i] = x /\ IsSeen(x)
    BY <1>4 DEF Named
  <2>2. ~IsFree(x)
    BY <2>1 DEF IsSeen, IsFree
  <2>3. QED BY <1>3, <2>1, <2>2
<1>5. CASE i # new
  <2>1. jx[i] = ContEntry(x.name, i - new)
    BY <1>1, <1>5 DEF Named
  <2>2. ~IsFree(jx[i]) /\ EntryOK(jx[i]) /\ jx[i].entry_type = "CONT"
    BY <2>1, ContFields
  <2>3. jx[i].start_block = 0 /\ jx[i].end_block = 0
    BY <2>2 DEF EntryOK
  <2>4. QED BY <1>3, <2>2, <2>3
<1>6. QED BY <1>4, <1>5

(* A freed name is one file's, or no file's. *)
LEMMA UnnamedOnly ==
  ASSUME NEW tidy, NEW u, InOrder(tidy, u), NEW f \in Slots, NEW jx, Unnamed(jx, u.index, f)
  PROVE  NamesOnly(jx, u.index, f)
<1> DEFINE ix == u.index
<1> SUFFICES ASSUME NEW i \in Slots, jx[i] # ix[i]
             PROVE  /\ ~IsFree(ix[i]) /\ ~IsFree(jx[i]) /\ (IsFile(ix[i]) => i = f)
                    /\ jx[i].start_block = 0 /\ jx[i].end_block = 0
  BY DEF NamesOnly
<1>1. HeadsWhole(ix) /\ IsHead(ix[f]) /\ Conts(ix, f) \in Nat
  BY OrderShaped DEF InOrder, NamesOK, Unnamed
<1>2. \A j \in f..(f + Conts(ix, f)) : j # f => ix[j] = ContEntry(ix[f].name, j - f)
  BY <1>1, RangeOfName
<1>3. i \in f..(f + Conts(ix, f)) /\ jx[i] = UnusedEntry
  BY DEF Unnamed
<1>4. ~IsFree(jx[i]) /\ jx[i].start_block = 0 /\ jx[i].end_block = 0
  BY <1>3, UnusedFields
<1>5. CASE i = f
  BY <1>1, <1>4, <1>5, Kinds
<1>6. CASE i # f
  <2>1. ix[i].entry_type = "CONT"
    BY <1>2, <1>3, <1>6, ContFields
  <2>2. QED BY <1>4, <2>1 DEF IsFree, IsFile, OwnsData, IsUnlinked
<1>7. QED BY <1>5, <1>6


(* A list operation that was not finished *)
LEMMA HalfwayTorn ==
  ASSUME NEW ix, NEW u, NEW v, Halfway(ix, u, v)
  PROVE  /\ Wreck(ix, u.index, 0)
         /\ Less(AbsOf(ix), AbsOf(u.index)) \/ AbsOf(ix) = AbsOf(v.index)
<1>1. ASSUME NEW i \in Slots, IsFile(u.index[i]) PROVE ix[i] = u.index[i]
  <2>1. ~PoolEntry(u.index[i])
    BY <1>1, Kinds DEF PoolEntry, IsFile, OwnsData, IsUnlinked
  <2>2. QED BY <2>1 DEF Halfway, OnlyPool
<1>2. Within(Space!Unused, Space!Unused) /\ \A x : Within(x, x) /\ Within(Space!Unused, x)
  BY DEF Within, Space!Unused, Space!Holds
<1>3. Fewer(AbsOf(ix), AbsOf(u.index)) => Less(AbsOf(ix), AbsOf(u.index))
  BY <1>2 DEF Fewer, Less
<1>4. QED BY <1>1, <1>3 DEF Halfway, Wreck

(* after a change of names *)
LEMMA WreckAfter ==
  ASSUME NEW ix, NEW w, NEW x, NEW f, NamesOnly(w, x, f), Wreck(ix, w, 0)
  PROVE  Wreck(ix, x, f)
<1>1. ASSUME NEW i \in Slots, i # f, IsFile(x[i]) PROVE ix[i] = x[i]
  <2>1. w[i] = x[i] /\ i # 0
    BY <1>1, Numbers DEF NamesOnly
  <2>2. QED BY <1>1, <2>1 DEF Wreck
<1>2. QED BY <1>1 DEF Wreck

(* Less than after a change of names is less than before it. *)
LEMMA LessAfter ==
  ASSUME NEW ix, NEW w, NEW x, NEW f, NamesOnly(w, x, f), Fewer(AbsOf(ix), AbsOf(w))
  PROVE  Less(AbsOf(ix), AbsOf(x))
<1> SUFFICES ASSUME NEW i \in Slots PROVE Within(AbsOf(ix)[i], AbsOf(x)[i])
  BY DEF Less
<1>1. \A y : AbsOf(y)[i] = [type |-> AbsType(y[i]), start |-> y[i].start_block,
                            end |-> y[i].end_block]
  BY AbsFields
<1>2. CASE AbsOf(ix)[i] = Space!Unused
  BY <1>2 DEF Within, Space!Unused, Space!Holds
<1>3. CASE AbsOf(ix)[i] = AbsOf(w)[i] /\ w[i] = x[i]
  BY <1>1, <1>3 DEF Within
<1>4. CASE AbsOf(ix)[i] = AbsOf(w)[i] /\ w[i] # x[i]
  <2>1. /\ ~IsFree(w[i])
        /\ \/ w[i].start_block = 0 /\ w[i].end_block = 0
           \/ SameExtent(w[i], x[i]) /\ AbsType(w[i]) = AbsType(x[i])
    BY <1>4 DEF NamesOnly
  <2>2. CASE w[i].start_block = 0 /\ w[i].end_block = 0
    <3>1. AbsType(w[i]) # "free"
      BY <2>1, AbsTypes
    <3>2. AbsOf(ix)[i].type # "free" /\ AbsOf(ix)[i].start = 0 /\ AbsOf(ix)[i].end = 0
      BY <1>4, <2>2, <3>1, AbsFields
    <3>3. QED BY <3>2 DEF Within, Space!Holds
  <2>3. CASE SameExtent(w[i], x[i]) /\ AbsType(w[i]) = AbsType(x[i])
    <3>1. AbsOf(w)[i] = AbsOf(x)[i]
      BY <1>1, <2>3 DEF SameExtent
    <3>2. QED BY <1>4, <3>1 DEF Within
  <2>4. QED BY <2>1, <2>2, <2>3
<1>5. QED BY <1>2, <1>3, <1>4 DEF Fewer

(* sfs_delete() frees the name, and then the blocks. *)
LEMMA DeleteTorn ==
  ASSUME NEW tidy, NEW u, InOrder(tidy, u), NEW f \in Slots, OwnsData(u.index[f]),
         NEW ix \in during_delete(u, f)
  PROVE  /\ Wreck(ix, u.index, f)
         /\ \/ Less(AbsOf(ix), AbsOf(u.index))
            \/ AbsOf(ix) = AbsOf(sfs_delete(u, f).index)
<1> DEFINE e == u.index[f]
           w == DropName(u, f)
           a == del_file_list_add(w, e.start_block, e.end_block)
<1>1. sfs_delete(u, f) = a.u
  BY DEF sfs_delete, DropName, Conts
<1>2. IsHead(e) /\ IsFile(e) /\ e.entry_type # "DIR_ENTRY"
  BY Kinds
<1>3. f # 3 /\ EntryOK(e)
  BY <1>2 DEF InOrder, Entered
<1>4. InOrder(tidy, w) /\ Unnamed(w.index, u.index, f)
  BY <1>2, <1>3, UnnamedOrder
<1>5. NamesOnly(w.index, u.index, f)
  BY <1>4, UnnamedOnly
<1>6. ix \in Between(u.index, w.index, FromOn(f, 1 + e.cont_entries))
      \/ ix \in during_add(w, e.start_block, e.end_block)
  <2>1. u \in State
    BY OrderShaped
  <2>2. w.index = free_entry(u.index, f, 1 + e.cont_entries)
    BY <2>1 DEF DropName, Conts, State
  <2>3. w = [u EXCEPT !.index = free_entry(u.index, f, 1 + e.cont_entries)]
    BY DEF DropName, Conts
  <2>4. QED BY <2>2, <2>3 DEF during_delete
<1> HIDE DEF w
<1>7. CASE ix \in Between(u.index, w.index, FromOn(f, 1 + e.cont_entries))
  <2>1. Mixed(ix, u.index, w.index)
    BY <1>7, BetweenIsMixed
  <2>2. QED BY <1>4, <1>5, <2>1, NamesTorn
<1>8. CASE ix \in during_add(w, e.start_block, e.end_block)
  <2>1. Sized(e) /\ e.size \in Nat
    BY <1>2, <1>3 DEF EntryOK
  <2>2. a = del_file_list_add(w, e.start_block, e.end_block)
    OBVIOUS
  <2> HIDE DEF a, e
  <2>3. Halfway(ix, w, a.u)
    BY <1>4, <1>8, <2>1, <2>2, AddHalves
  <2>4. Wreck(ix, u.index, f)
    BY <1>5, <2>3, HalfwayTorn, WreckAfter
  <2>5. Fewer(AbsOf(ix), AbsOf(w.index)) => Less(AbsOf(ix), AbsOf(u.index))
    BY <1>5, LessAfter
  <2>6. QED BY <1>1, <2>3, <2>4, <2>5 DEF Halfway
<1>9. QED BY <1>6, <1>7, <1>8

(* sfs_rename() of a file without blocks deletes it, and enters it anew. *)
LEMMA RenameTorn ==
  ASSUME NEW tidy, NEW u, InOrder(tidy, u), NEW f \in Slots, NEW p \in FilePaths \cup DirPaths,
         NEW r, r = sfs_rename(u, f, p), r.off # 0, u.index[f].start_block = 0,
         NEW w, w = sfs_delete(u, f), NEW ix,
         ix \in during_delete(u, f) \/ Mixed(ix, w.index, r.u.index)
  PROVE  Wreck(ix, u.index, f) /\ Less(AbsOf(ix), AbsOf(u.index))
<1>1. PICK x : /\ InOrder(tidy, w) /\ InOrder(tidy, r.u) /\ r.off \in Slots
               /\ u.index[f].entry_type = "FILE_ENTRY" /\ Unnamed(w.index, u.index, f)
               /\ Named(r.u.index, w.index, r.off, x) /\ x.start_block = 0 /\ x.end_block = 0
  BY RenamedFile
<1>2. NamesOnly(w.index, u.index, f)
  BY <1>1, UnnamedOnly
<1>3. NamesOnly(r.u.index, w.index, 0)
  BY <1>1, NamedOnly
<1>4. CASE ix \in during_delete(u, f)
  <2>1. OwnsData(u.index[f])
    BY <1>1, Kinds
  <2>2. Wreck(ix, u.index, f) /\ (Less(AbsOf(ix), AbsOf(u.index)) \/ AbsOf(ix) = AbsOf(w.index))
    BY <1>4, <2>1, DeleteTorn
  <2>3. ASSUME AbsOf(ix) = AbsOf(w.index) PROVE Fewer(AbsOf(ix), AbsOf(w.index))
    BY <2>3 DEF Fewer
  <2>4. QED BY <1>2, <2>2, <2>3, LessAfter
<1>5. CASE Mixed(ix, w.index, r.u.index)
  <2>1. Wreck(ix, w.index, 0)
    BY <1>1, <1>3, <1>5, NamesTorn
  <2>2. Wreck(ix, u.index, f)
    BY <1>2, <2>1, WreckAfter
  <2>3. NamesOnly(ix, u.index, f)
    <3> SUFFICES ASSUME NEW i \in Slots, ix[i] # u.index[i]
                 PROVE  /\ ~IsFree(u.index[i]) /\ ~IsFree(ix[i]) /\ (IsFile(u.index[i]) => i = f)
                        /\ \/ ix[i].start_block = 0 /\ ix[i].end_block = 0
                           \/ SameExtent(ix[i], u.index[i]) /\ AbsType(ix[i]) = AbsType(u.index[i])
      BY DEF NamesOnly
    <3>1. CASE ix[i] = w.index[i]
      BY <1>2, <3>1 DEF NamesOnly
    <3>2. CASE ix[i] = r.u.index[i] /\ r.u.index[i] # w.index[i] /\ w.index[i] = u.index[i]
      <4>1. i # 0
        BY Numbers
      <4>2. QED BY <1>3, <3>2, <4>1 DEF NamesOnly
    <3>3. CASE ix[i] = r.u.index[i] /\ r.u.index[i] # w.index[i] /\ w.index[i] # u.index[i]
      <4>1. i # 0 /\ w.index[i] = UnusedEntry
        BY <1>1, <3>3, Numbers DEF Unnamed
      <4>2. /\ ~IsFree(u.index[i]) /\ (IsFile(u.index[i]) => i = f)
        BY <1>2, <3>3 DEF NamesOnly
      <4>3. /\ ~IsFree(ix[i])
            /\ \/ ix[i].start_block = 0 /\ ix[i].end_block = 0
               \/ SameExtent(ix[i], UnusedEntry)
        BY <1>3, <3>3, <4>1 DEF NamesOnly
      <4>4. QED BY <4>2, <4>3, UnusedFields DEF SameExtent
    <3>4. QED BY <1>5, <3>1, <3>2, <3>3 DEF Mixed
  <2>4. Fewer(AbsOf(ix), AbsOf(ix))
    BY DEF Fewer
  <2>5. QED BY <2>2, <2>3, <2>4, LessAfter
<1>6. QED BY <1>4, <1>5

-----------------------------------------------------------------------------
(* What is left of a free extent is less. *)
LEMMA TakeLess ==
  ASSUME NEW u, ShapedList(u), NEW d \in Frees(u), NEW n \in Nat \ {0},
         n <= Space!Size(AbsOf(u.index)[d]), NEW e2,
         e2 = Space!TakeFront(AbsOf(u.index), d, n)
  PROVE  Less(e2, AbsOf(u.index))
<1> DEFINE e == AbsOf(u.index)
           s == e[d].start
           t == e[d].end
<1> SUFFICES ASSUME NEW i \in Slots PROVE Within(e2[i], e[i])
  BY DEF Less
<1>1. d \in Slots /\ e[d].type = "free" /\ s \in Lo..Hi /\ t \in Lo..Hi /\ s <= t
  BY FreeSizes
<1>2. Space!Size(e[d]) = t - s + 1
  BY DEF Space!Size
<1>3. e2[i] = IF i = d THEN (IF n = t - s + 1 THEN Space!Unused ELSE Space!Free(s + n, t)) ELSE e[i]
  BY <1>2 DEF Space!TakeFront, Space!Put
<1> HIDE DEF e
<1>4. CASE i # d
  BY <1>3, <1>4 DEF Within
<1>5. CASE i = d /\ n = t - s + 1
  BY <1>3, <1>5 DEF Within, Space!Unused, Space!Holds
<1>6. CASE i = d /\ n # t - s + 1
  <2>1. e2[i] = Space!Free(s + n, t) /\ e2[i].type = "free" /\ e2[i].start = s + n /\ e2[i].end = t
    BY <1>3, <1>6 DEF Space!Free
  <2>2. n <= t - s + 1
    BY <1>2 DEF e
  <2>3. Lo \in Int /\ Hi \in Int
    BY SfsAssumption
  <2> HIDE DEF s, t
  <2>4. s \in Int /\ t \in Int /\ s <= s + n /\ s + n <= t /\ t <= t
    BY <1>1, <1>6, <2>2, <2>3
  <2>5. Space!Holds(e2[i]) /\ Space!Holds(e[i])
    BY <1>1, <1>6, <2>1 DEF Space!Holds
  <2>6. s + n \in Int
    BY <2>4
  <2>7. QED BY <1>6, <2>1, <2>4, <2>5, <2>6 DEF Within, s, t
<1>7. QED BY <1>4, <1>5, <1>6

(* A crash while blocks are taken loses some at worst. *)
LEMMA TakeTorn ==
  ASSUME NEW tidy, NEW u, InOrder(tidy, u), NEW d \in Frees(u), NEW n \in Nat \ {0},
         n <= Space!Size(AbsOf(u.index)[d]), NEW ix \in during_take(u, d, BlockSize * n)
  PROVE  Wreck(ix, u.index, 0) /\ Less(AbsOf(ix), AbsOf(u.index))
<1> DEFINE v == TakeFront(u, d, BlockSize * n)
<1>1. v = TakeFront(u, d, BlockSize * n) /\ ShapedList(u)
  BY OrderShaped
<1> HIDE DEF v
<1>2. Halfway(ix, u, v)
  BY <1>1, TakeHalves
<1>3. Wreck(ix, u.index, 0) /\ (Less(AbsOf(ix), AbsOf(u.index)) \/ AbsOf(ix) = AbsOf(v.index))
  BY <1>2, HalfwayTorn
<1>4. AbsOf(v.index) = Space!TakeFront(AbsOf(u.index), d, n)
  BY <1>1, TakeShaped
<1>5. Less(AbsOf(v.index), AbsOf(u.index))
  BY <1>1, <1>4, TakeLess
<1>6. QED BY <1>3, <1>5

(* An operation on what another one left *)
LEMMA PoolTwice ==
  ASSUME NEW u, NEW v, Kept(v, u), NEW ix, OnlyPool(ix, v.index)
  PROVE  OnlyPool(ix, u.index)
<1> SUFFICES ASSUME NEW i \in Slots, ix[i] # u.index[i]
             PROVE  PoolEntry(u.index[i]) /\ PoolEntry(ix[i])
  BY DEF OnlyPool
<1>1. i \in Offsets
  BY Numbers
<1>2. CASE v.index[i] = u.index[i]
  BY <1>2 DEF OnlyPool
<1>3. CASE v.index[i] # u.index[i]
  <2>1. i \in Pool(u) /\ i \in Pool(v)
    BY <1>1, <1>3 DEF Kept
  <2>2. PoolEntry(u.index[i]) /\ PoolEntry(v.index[i])
    BY <2>1 DEF Pool, PoolEntry
  <2>3. QED BY <2>2 DEF OnlyPool
<1>4. QED BY <1>2, <1>3

(* A change of list entries spares every file. *)
LEMMA PoolSparesFiles ==
  ASSUME NEW ix, NEW x, Walkable(ix), OnlyPool(ix, x)
  PROVE  Wreck(ix, x, 0)
<1> SUFFICES ASSUME NEW i \in Slots, IsFile(x[i]) PROVE ix[i] = x[i]
  BY DEF Wreck
<1>1. ~PoolEntry(x[i])
  BY Kinds DEF PoolEntry, IsFile, OwnsData, IsUnlinked
<1>2. QED BY <1>1 DEF OnlyPool

(* Images while a file grows: blocks are lost at worst, or all is done but  *)
(* the file's own entry, while its blocks are copied to the new ones.       *)
Moving(x, f, g) ==
    /\ index[f].start_block # 0
    /\ \E d \in Frees(fs) : g.start = AbsOf(index)[d].start
    /\ AbsOf(x.index) = AbsOf(g.u.index)

Copying(x, f, g) ==
    \E n \in 0..(index[f].end_block - index[f].start_block + 1) :
        x.data = copy_block(data, index[f].start_block, g.start, n)

(* Wherever the process dies while a file grows, sfs_write() and *)
(* sfs_truncate() have lost blocks at worst, or are copying.     *)
LEMMA GrowTorn ==
  ASSUME NEW tidy, InOrder(tidy, fs), data \in Contents, NEW f \in Slots, IsFile(index[f]),
         NEW new \in Nat, BlockCount(new) > BlockCount(index[f].size),
         NEW g, g = Grow(f, new), g.ok, NEW x \in during_grow(f, new)
  PROVE  /\ Wreck(x.index, index, 0)
         /\ Less(AbsOf(x.index), AbsOf(index)) \/ Moving(x, f, g)
         /\ x.data = data \/ (Moving(x, f, g) /\ Copying(x, f, g))
<1> DEFINE e  == index[f]
           n  == BlockCount(new)
           m  == BlockCount(e.size)
           xp == try_expand(fs, f, new)
           al == del_file_list_alloc(fs, new)
           ad == del_file_list_add(al.u, e.start_block, e.end_block)
           d  == max_extent(fs)
<1>1. fs.index = index /\ ShapedList(fs)
  BY OrderShaped DEF fs
<1>2. Sized(e) /\ e.size \in Nat
  BY <1>1 DEF InOrder, Entered, EntryOK
<1>3. n \in Nat /\ m \in Nat /\ n # 0 /\ new # 0 /\ get_real_size(new) = BlockSize * n
  BY <1>2, BlockCounts
<1>4. CASE e.start_block # 0 /\ xp.ok
  <2> DEFINE o == donor(fs, f, new)
             k == n - m
  <2>1. /\ o \in Frees(fs) /\ k <= Space!Size(AbsOf(index)[o])
        /\ k \in Nat \ {0} /\ delta_block(fs, f, new) = BlockSize * k
    BY <1>1, <1>2, <1>4, ExpandShaped
  <2>2. x \in Images(during_take(fs, o, BlockSize * k), data)
    BY <1>4, <2>1 DEF during_grow
  <2> HIDE DEF o, k
  <2>3. x.index \in during_take(fs, o, BlockSize * k) /\ x.data = data
    BY <2>2 DEF Images
  <2>4. QED BY <1>1, <2>1, <2>3, TakeTorn
<1>5. CASE ~(e.start_block # 0 /\ xp.ok)
  <2>1. g.start = al.start /\ g.u = ad.u /\ al.start # 0
    BY <1>1, <1>5 DEF Grow
  <2>2. /\ ShapedList(al.u) /\ Kept(al.u, fs)
        /\ d \in Frees(fs) /\ n <= Space!Size(AbsOf(index)[d])
        /\ al.u = TakeFront(fs, d, BlockSize * n)
        /\ \E c \in Frees(fs) : al.start = AbsOf(index)[c].start
    BY <1>1, <1>3, <2>1, AllocShaped
  <2>3. \/ x \in Images(during_take(fs, d, BlockSize * n), data)
        \/ e.start_block # 0 /\ x \in Images(during_add(al.u, e.start_block, e.end_block), data)
        \/ /\ e.start_block # 0 /\ x.index = g.u.index
           /\ \E k \in 0..(e.end_block - e.start_block + 1) :
                 x.data = copy_block(data, e.start_block, g.start, k)
    BY <1>3, <1>5 DEF during_grow
  <2>4. InOrder(tidy, al.u)
    BY <2>2, KeptOrder
  <2>5. /\ InOrder(tidy, g.u) /\ Kept(g.u, fs)
    BY GrowOrder
  <2> HIDE DEF d, al, ad, n, m, xp
  <2>6. CASE x \in Images(during_take(fs, d, BlockSize * n), data)
    <3>1. x.index \in during_take(fs, d, BlockSize * n) /\ x.data = data
      BY <2>6 DEF Images
    <3>2. QED BY <1>1, <1>3, <2>2, <3>1, TakeTorn
  <2>7. CASE e.start_block # 0 /\ x \in Images(during_add(al.u, e.start_block, e.end_block), data)
    <3>1. x.index \in during_add(al.u, e.start_block, e.end_block) /\ x.data = data
      BY <2>7 DEF Images
    <3>2. ad = del_file_list_add(al.u, e.start_block, e.end_block)
      BY DEF ad
    <3>3. Halfway(x.index, al.u, ad.u)
      <4> HIDE DEF e
      <4>1. QED BY <1>2, <2>4, <3>1, <3>2, AddHalves
    <3>4. OnlyPool(x.index, index)
      BY <1>1, <2>2, <3>3, PoolTwice DEF Halfway
    <3>5. Wreck(x.index, index, 0)
      BY <3>3, <3>4, PoolSparesFiles DEF Halfway
    <3>6. CASE AbsOf(x.index) = AbsOf(ad.u.index)
      BY <2>1, <2>2, <2>7, <3>1, <3>5, <3>6 DEF Moving
    <3>7. CASE Fewer(AbsOf(x.index), AbsOf(al.u.index))
      <4>1. AbsOf(al.u.index) = Space!TakeFront(AbsOf(index), d, n)
        BY <1>1, <1>3, <2>2, TakeShaped
      <4>2. Less(AbsOf(al.u.index), AbsOf(index))
        BY <1>1, <1>3, <2>2, <4>1, TakeLess
      <4>3. \A y : Within(Space!Unused, y)
        BY DEF Within, Space!Unused, Space!Holds
      <4>4. Less(AbsOf(x.index), AbsOf(index))
        BY <3>7, <4>2, <4>3 DEF Fewer, Less
      <4>5. QED BY <3>1, <3>5, <4>4
    <3>8. QED BY <3>3, <3>6, <3>7 DEF Halfway
  <2>8. CASE /\ e.start_block # 0 /\ x.index = g.u.index
             /\ \E k \in 0..(e.end_block - e.start_block + 1) :
                   x.data = copy_block(data, e.start_block, g.start, k)
    <3>1. Walkable(g.u.index)
      BY <2>5, OrderWalkable
    <3>2. Mixed(g.u.index, fs.index, g.u.index)
      BY DEF Mixed
    <3>3. OnlyPool(g.u.index, index)
      BY <1>1, <2>5, <3>2, KeptPool
    <3>4. Wreck(x.index, index, 0)
      BY <2>8, <3>1, <3>3, PoolSparesFiles
    <3>5. Moving(x, f, g)
      BY <2>1, <2>2, <2>8 DEF Moving
    <3>6. Copying(x, f, g)
      BY <2>8 DEF Copying
    <3>7. QED BY <3>4, <3>5, <3>6
  <2>9. QED BY <2>3, <2>6, <2>7, <2>8
<1>6. QED BY <1>4, <1>5

-----------------------------------------------------------------------------
(* What is left of the index by a call that moves a file's data to the      *)
(* block start: unless the file's old blocks are being freed, nothing is    *)
(* gained, or all is done.                                                  *)
Redone(e, e2, f) == e2 = e \/ Regrown(e, e2, f) \/ Emptied(e, e2, f)

Ruin(ix, f, start) ==
    /\ Wreck(ix, index, f)
    /\ \/ index[f].start_block \notin {0, start}
       \/ Less(AbsOf(ix), AbsOf(index))
       \/ Redone(AbsOf(index), AbsOf(ix), f)

(* Nothing was written yet. *)
LEMMA SameRuin ==
  ASSUME NEW tidy, InOrder(tidy, fs), NEW f, NEW start
  PROVE  Ruin(index, f, start)
<1>1. Walkable(index)
  BY OrderWalkable DEF fs
<1>2. QED BY <1>1 DEF Ruin, Wreck, Redone

(* The blocks of a free extent are not a file's. *)
LEMMA MovesAway ==
  ASSUME SP!IInv, NEW f \in Slots, IsFile(index[f]), index[f].start_block # 0,
         NEW d \in Frees(fs)
  PROVE  AbsOf(index)[d].start # index[f].start_block
<1> DEFINE e == AbsEnt
<1>1. AbsOf(index) = e /\ fs.index = index
  BY LostAre DEF fs
<1>2. d \in Slots /\ IsFree(index[d])
  BY <1>1 DEF Frees
<1>3. /\ e[f].type = "file" /\ e[f].start = index[f].start_block
      /\ e[d].type = "free"
  BY <1>1, <1>2, AbsTypes, AbsFields DEF IsFile
<1>4. d # f
  BY <1>3
<1>5. Space!Holds(e[f]) /\ Space!Holds(e[d])
  BY <1>3 DEF Space!Holds
<1>6. SP!Shaped(e) /\ SP!Separate(e) /\ e \in [Slots -> SP!Entry]
  BY DEF SP!IInv, SP!Part, SP!Typed
<1>7. SP!Holds(e[f]) /\ SP!Holds(e[d])
  BY <1>5, Bridge
<1>8. /\ e[f].start \in Int /\ e[f].end \in Int /\ e[d].start \in Int /\ e[d].end \in Int
      /\ e[f].start <= e[f].end /\ e[d].start <= e[d].end
  BY <1>2, <1>6, <1>7, AreaOK, SP!Bounds
<1>9. e[f].end < e[d].start \/ e[d].end < e[f].start
  BY <1>2, <1>4, <1>6, <1>7 DEF SP!Separate, SP!Apart
<1> HIDE DEF e
<1>10. QED BY <1>1, <1>3, <1>8, <1>9

(* The file's entry is rewritten last. *)
LEMMA RepointRuin ==
  ASSUME NEW tidy, NEW u, InOrder(tidy, u), Kept(u, fs), InOrder(tidy, fs), NEW f \in Slots,
         NEW g, g.u = u, NEW new, NEW v, v = Repointed(f, g, new), InOrder(tidy, v),
         NEW start, Redone(AbsOf(index), AbsOf(v.index), f)
  PROVE  Ruin(v.index, f, start)
<1>1. fs.index = index /\ u \in State
  BY OrderShaped DEF fs
<1>2. Mixed(u.index, fs.index, u.index)
  BY DEF Mixed
<1>3. OnlyPool(u.index, index)
  BY <1>1, <1>2, KeptPool
<1>4. Walkable(u.index) /\ Walkable(v.index)
  BY OrderWalkable
<1>5. Wreck(u.index, index, 0)
  BY <1>3, <1>4, PoolSparesFiles
<1>6. \A i \in Slots : i # f => v.index[i] = u.index[i]
  <2>1. \A i \in Slots : i \in Offsets
    BY Numbers
  <2>2. QED BY <1>1, <2>1 DEF Repointed, State
<1>7. \A i \in Slots : i # 0
  BY Numbers
<1>8. Wreck(v.index, index, f)
  BY <1>4, <1>5, <1>6, <1>7 DEF Wreck
<1>9. QED BY <1>8 DEF Ruin

(* sfs_write() and sfs_truncate() to another size than 0 *)
LEMMA WriteTorn ==
  ASSUME NEW tidy, InOrder(tidy, fs), data \in Contents, SP!IInv, NEW f \in Slots, IsFile(index[f]),
         NEW new \in (0..N) \cup FileSizes, new \in Nat \ {0},
         BlockCount(index[f].size) <= BlockCount(new),
         NEW grows, grows <=> BlockCount(new) > BlockCount(index[f].size),
         NEW g, g.ok, g = IF grows THEN Grow(f, new) ELSE InPlace(f),
         NEW off, NEW size, NEW t, NEW x \in during_write(f, grows, g, new, off, size, t)
  PROVE  Ruin(x.index, f, g.start)
<1> DEFINE v == Repointed(f, g, new)
<1>1. fs.index = index
  BY DEF fs
<1>2. \/ grows /\ x \in during_grow(f, new)
      \/ ~grows /\ x \in Images({index}, data)
      \/ x \in during_data(f, g, g.data, new, off, size, t)
  BY DEF during_write
<1>3. CASE grows /\ x \in during_grow(f, new)
  <2>1. g = Grow(f, new) /\ new \in Nat /\ BlockCount(new) > BlockCount(index[f].size)
    BY <1>3
  <2>2. /\ Wreck(x.index, index, 0)
        /\ Less(AbsOf(x.index), AbsOf(index)) \/ Moving(x, f, g)
    BY <1>3, <2>1, GrowTorn
  <2>3. Wreck(x.index, index, f)
    <3>1. \A i \in Slots : i # 0
      BY Numbers
    <3>2. QED BY <2>2, <3>1 DEF Wreck
  <2>4. ASSUME Moving(x, f, g) PROVE index[f].start_block \notin {0, g.start}
    BY <2>4, MovesAway DEF Moving
  <2>5. QED BY <2>2, <2>3, <2>4 DEF Ruin
<1>4. CASE ~grows /\ x \in Images({index}, data)
  <2>1. x.index = index
    BY <1>4 DEF Images
  <2>2. QED BY <2>1, SameRuin
<1>5. CASE x \in during_data(f, g, g.data, new, off, size, t)
  <2>1. x.index = v.index
    BY <1>5 DEF during_data
  <2>2. g = IF BlockCount(new) > BlockCount(index[f].size) THEN Grow(f, new) ELSE InPlace(f)
    OBVIOUS
  <2>3. v = Repointed(f, g, new)
    OBVIOUS
  <2> HIDE DEF v
  <2>4. /\ InOrder(tidy, v)
        /\ AbsOf(v.index) = AbsOf(index) \/ Regrown(AbsOf(index), AbsOf(v.index), f)
    BY <2>2, <2>3, Repointing
  <2>5. InOrder(tidy, g.u) /\ Kept(g.u, fs)
    <3>1. CASE grows
      BY <3>1, GrowOrder
    <3>2. CASE ~grows
      <4>1. g.u = fs
        BY <3>2 DEF InPlace
      <4>2. QED BY <4>1 DEF Kept
    <3>3. QED BY <3>1, <3>2
  <2>6. Redone(AbsOf(index), AbsOf(v.index), f)
    BY <2>4 DEF Redone
  <2>7. Ruin(v.index, f, g.start)
    BY <2>3, <2>4, <2>5, <2>6, RepointRuin
  <2>8. QED BY <2>1, <2>7
<1>6. QED BY <1>2, <1>3, <1>4, <1>5

(* Once its blocks are freed, the file's entry is rewritten without blocks. *)
LEMMA Zeroed ==
  ASSUME NEW tidy, NEW u, InOrder(tidy, u), Kept(u, fs), InOrder(tidy, fs), NEW f \in Slots,
         IsFile(index[f]), NEW g, g.u = u, g.start = 0, g.end = 0,
         NEW v, v = Repointed(f, g, 0)
  PROVE  InOrder(tidy, v) /\ AbsOf(v.index) = Space!Put(AbsOf(u.index), f, Space!Empty)
<1> DEFINE e == index[f]
<1>1. PICK z : z = 0
  OBVIOUS
<1>2. /\ 0 \in Extents /\ z \in (0..N) \cup FileSizes /\ z \in Nat
      /\ g.start \in Extents /\ g.end \in Extents
  BY <1>1, Numbers DEF Extents
<1>3. u.index[f] = e
  <2>1. fs.index = index /\ f \in Offsets \ Pool(fs)
    BY Numbers, Kinds DEF fs, Pool, IsFile, OwnsData, IsUnlinked, IsFree
  <2>2. QED BY <2>1 DEF Kept
<1>4. IsFile(e) /\ v = Repointed(f, g, z)
  BY <1>1
<1> HIDE DEF e
<1>5. /\ InOrder(tidy, v)
      /\ AbsOf(v.index) = Space!Put(AbsOf(u.index), f, [type |-> "file", start |-> g.start, end |-> g.end])
  BY <1>1, <1>2, <1>3, <1>4, RepointedOrder
<1>6. QED BY <1>5 DEF Space!Empty

(* sfs_truncate() to 0: the blocks are freed, and then the entry rewritten. *)
LEMMA EmptyTorn ==
  ASSUME NEW tidy, InOrder(tidy, fs), NEW f \in Slots, IsFile(index[f]),
         NEW a, a = del_file_list_add(fs, index[f].start_block, index[f].end_block),
         NEW g, g.start = 0, g.end = 0, g.u = a.u,
         NEW grows, ~grows, NEW off, NEW size, NEW t, NEW x,
         \/ x \in during_write(f, grows, g, 0, off, size, t)
         \/ x \in Images(during_add(fs, index[f].start_block, index[f].end_block), data)
  PROVE  Ruin(x.index, f, g.start)
<1> DEFINE e == index[f]
           v == Repointed(f, g, 0)
<1>1. fs.index = index /\ e.size \in Nat /\ Sized(e) /\ e \in Entries
  BY OrderShaped DEF fs, InOrder, Entered, EntryOK
<1>2. g.start = 0 /\ g.end = 0 /\ g.u = a.u
  OBVIOUS
<1>3. /\ InOrder(tidy, a.u) /\ Kept(a.u, fs)
      /\ Freed(AbsOf(index), AbsOf(a.u.index), a.ok, e.start_block, e.end_block)
  BY <1>1, FreedOrder
<1>4. CASE x \in Images({index}, data)
  <2>1. x.index = index
    BY <1>4 DEF Images
  <2>2. QED BY <2>1, SameRuin
<1>5. CASE x \in during_data(f, g, g.data, 0, off, size, t)
  <2>1. x.index = v.index
    BY <1>5 DEF during_data
  <2>2. v = Repointed(f, g, 0)
    OBVIOUS
  <2> HIDE DEF v
  <2>3. InOrder(tidy, v) /\ AbsOf(v.index) = Space!Put(AbsOf(a.u.index), f, Space!Empty)
    BY <1>2, <1>3, <2>2, Zeroed
  <2>4. Emptied(AbsOf(index), AbsOf(v.index), f)
    <3>1. AbsOf(index)[f].start = e.start_block /\ AbsOf(index)[f].end = e.end_block
      BY AbsFields
    <3> HIDE DEF e
    <3>2. QED BY <1>3, <2>3, <3>1 DEF Emptied
  <2>5. Redone(AbsOf(index), AbsOf(v.index), f)
    BY <2>4 DEF Redone
  <2>6. Ruin(v.index, f, g.start)
    BY <1>2, <1>3, <2>2, <2>3, <2>5, RepointRuin
  <2>7. QED BY <2>1, <2>6
<1>6. CASE x \in Images(during_add(fs, e.start_block, e.end_block), data)
  <2>1. x.index \in during_add(fs, e.start_block, e.end_block)
    BY <1>6 DEF Images
  <2>2. CASE e.start_block = 0
    <3>1. e.end_block = 0
      BY <1>1, <2>2, FitsBlocks
    <3>2. x.index = index
      BY <1>1, <2>1, <2>2, <3>1 DEF during_add
    <3>3. QED BY <3>2, SameRuin
  <2>3. CASE e.start_block # 0
    <3>1. Halfway(x.index, fs, a.u)
      BY <1>1, <2>1, AddHalves
    <3>2. Wreck(x.index, index, 0)
      BY <1>1, <3>1, HalfwayTorn
    <3>3. \A i \in Slots : i # 0
      BY Numbers
    <3>4. Wreck(x.index, index, f)
      BY <3>2, <3>3 DEF Wreck
    <3>5. QED BY <1>2, <2>3, <3>4 DEF Ruin
  <2>4. QED BY <2>2, <2>3
<1>7. QED BY <1>2, <1>4, <1>5, <1>6 DEF during_write

(* The calls that change names *)
Retold(tidy, iy, f) == \E v : InOrder(tidy, v) /\ v.index = iy /\ NamesOnly(iy, index, f)

(* Wherever such a call is torn, the list can be walked and every other file *)
(* is there.                                                                 *)
LEMMA RetoldTorn ==
  ASSUME NEW tidy, InOrder(tidy, fs), NEW iy, NEW f, Retold(tidy, iy, f), NEW order,
         NEW ix \in Between(index, iy, order)
  PROVE  Wreck(ix, index, f) /\ Less(AbsOf(ix), AbsOf(index))
<1>1. PICK v : InOrder(tidy, v) /\ v.index = iy /\ NamesOnly(iy, index, f)
  BY DEF Retold
<1>2. Mixed(ix, index, iy) /\ fs.index = index
  BY BetweenIsMixed DEF fs
<1>3. QED BY <1>1, <1>2, NamesTorn

(* sfs_creat() changes no file's entry, *)
LEMMA CreatTold ==
  ASSUME NEW tidy, InOrder(tidy, fs), NEW p \in FilePaths, NEW c, c = sfs_creat(index, p), c.ok
  PROVE  Retold(tidy, c.index, 0)
<1> DEFINE n   == count_entry(Len(p) + 1, FirstFile)
           new == alloc_entry(index, n)
           x   == HeadEntry("FILE_ENTRY", p, n - 1)
           v   == EnterName(fs, new, x)
<1>1. /\ check_dirs(index, p) /\ search_dir(index, p) = 0 /\ search_file(index, p) = 0 /\ new # 0
      /\ c.index = write_name(index, new, x, n - 1)
  BY DEF sfs_creat
<1>2. n \in Nat \ {0} /\ "FILE_ENTRY" \in {"FILE_ENTRY", "DIR_ENTRY"}
  BY EntriesOfName, SfsAssumption
<1>3. fs.index = index /\ fs.del_begin = del_begin
  BY DEF fs
<1> HIDE DEF n
<1>4. /\ InOrder(tidy, v) /\ new \in Slots
      /\ Named(v.index, fs.index, new, x) /\ x.cont_entries = n - 1
      /\ x.start_block = 0 /\ x.end_block = 0
  BY <1>1, <1>2, <1>3, NewHead
<1>5. v.index = c.index
  BY <1>1, <1>3, <1>4 DEF EnterName, fs
<1> HIDE DEF v, x, new
<1>6. NamesOnly(v.index, index, 0)
  BY <1>3, <1>4, NamedOnly
<1>7. QED BY <1>4, <1>5, <1>6 DEF Retold

(* nor does sfs_mkdir(), *)
LEMMA MkdirTold ==
  ASSUME NEW tidy, InOrder(tidy, fs), NEW p \in DirPaths, NEW c, c = sfs_mkdir(index, p), c.ok
  PROVE  Retold(tidy, c.index, 0)
<1> DEFINE v == Reindexed(fs, c.index)
<1>1. fs.index = index /\ v = Reindexed(fs, c.index) /\ p \in FilePaths \cup DirPaths
  BY DEF fs
<1> HIDE DEF v
<1>2. PICK new \in Slots : \E x : /\ InOrder(tidy, v) /\ v.index = c.index
                                  /\ Named(v.index, index, new, x)
                                  /\ x.start_block = 0 /\ x.end_block = 0
  BY <1>1, MadeDir
<1>3. NamesOnly(v.index, index, 0)
  BY <1>2, NamedOnly
<1>4. QED BY <1>2, <1>3 DEF Retold

(* nor sfs_rmdir(); *)
LEMMA RmdirTold ==
  ASSUME NEW tidy, InOrder(tidy, fs), NEW p \in DirPaths, NEW c, c = sfs_rmdir(index, p), c.ok
  PROVE  Retold(tidy, c.index, 0)
<1> DEFINE v == Reindexed(fs, c.index)
<1>1. fs.index = index /\ v = Reindexed(fs, c.index) /\ p \in FilePaths \cup DirPaths
  BY DEF fs
<1> HIDE DEF v
<1>2. PICK d \in Slots : /\ InOrder(tidy, v) /\ v.index = c.index
                         /\ index[d].entry_type = "DIR_ENTRY" /\ Unnamed(v.index, index, d)
  BY <1>1, RemovedDir
<1>3. NamesOnly(v.index, index, d)
  BY <1>1, <1>2, UnnamedOnly
<1>4. ~IsFile(index[d])
  BY <1>2, Kinds
<1>5. NamesOnly(v.index, index, 0)
  BY <1>3, <1>4 DEF NamesOnly
<1>6. QED BY <1>2, <1>5 DEF Retold

(* sfs_unlink() changes that of the file it unlinks. *)
LEMMA UnlinkTold ==
  ASSUME NEW tidy, InOrder(tidy, fs), NEW p, NEW f, f = search_file(index, p), f # 0
  PROVE  Retold(tidy, sfs_unlink(index, p), f) /\ f \in Slots
<1> DEFINE v == Reindexed(fs, sfs_unlink(index, p))
<1>1. fs.index = index /\ v = Reindexed(fs, sfs_unlink(fs.index, p))
  BY DEF fs
<1> HIDE DEF v
<1>2. /\ f \in Slots /\ InOrder(tidy, v) /\ v.index = sfs_unlink(index, p)
      /\ IsUnlinked(v.index[f]) /\ \A i \in Slots : i # f => v.index[i] = index[i]
      /\ AbsOf(v.index) = AbsOf(index)
  BY <1>1, UnlinkedFile
<1>3. ~IsFree(v.index[f])
  BY <1>2, Kinds
<1>4. \A y : /\ AbsOf(y)[f].type = AbsType(y[f])
             /\ AbsOf(y)[f].start = y[f].start_block /\ AbsOf(y)[f].end = y[f].end_block
  BY <1>2, AbsFields
<1>5. SameExtent(v.index[f], index[f]) /\ AbsType(v.index[f]) = AbsType(index[f])
  BY <1>2, <1>4 DEF SameExtent
<1>6. ~IsFree(index[f])
  BY <1>3, <1>5, AbsTypes
<1>7. NamesOnly(v.index, index, f)
  BY <1>2, <1>3, <1>5, <1>6 DEF NamesOnly
<1>8. QED BY <1>2, <1>7 DEF Retold

-----------------------------------------------------------------------------
(* What is there when the process died in a call *)
Torn ==
    /\ Wreck(index', index, torn'.file)
    /\ torn'.frees \/ Less(AbsEnt', AbsEnt) \/ SP!IInv'

(* Dying in a call that changes the data of f *)
LEMMA RuinTorn ==
  ASSUME NEW tidy, IInv(tidy), SP!IInv, NEW f \in Slots, IsFile(index[f]), NEW start,
         Ruin(index', f, start), torn'.file = f,
         torn'.frees <=> index[f].start_block \notin {0, start}
  PROVE  Torn
<1>1. AbsEnt = AbsOf(index) /\ AbsEnt' = AbsOf(index')
  BY LostAre
<1>2. CASE index[f].start_block \notin {0, start} \/ Less(AbsOf(index'), AbsOf(index))
  BY <1>1, <1>2 DEF Ruin, Torn
<1>3. CASE Redone(AbsOf(index), AbsOf(index'), f)
  <2>1. SP!IInv'
    <3>1. CASE AbsEnt' = AbsEnt
      BY <3>1, ExtentsSame
    <3>2. CASE Regrown(AbsEnt, AbsEnt', f)
      BY <3>2, RegrownStep
    <3>3. CASE Emptied(AbsEnt, AbsEnt', f)
      BY <3>3, Truncate0Step
    <3>4. QED BY <1>1, <1>3, <3>1, <3>2, <3>3 DEF Redone
  <2>2. QED BY <2>1 DEF Ruin, Torn
<1>4. QED BY <1>2, <1>3 DEF Ruin

(* Dying in the change of a name *)
LEMMA DieInNameTorn ==
  ASSUME NEW tidy, IInv(tidy), NEW call, NEW ok, NEW iy, NEW f, Retold(tidy, iy, f),
         DieInName(call, ok, iy, f)
  PROVE  Torn
<1> DEFINE order == SetToSortSeq({i \in Slots : index[i] # iy[i]}, <)
           im    == Between(index, iy, order)
<1>1. Dies(Images(im, data), InCall(call, f))
  BY DEF DieInName
<1>2. index' \in im /\ torn' = InCall(call, f)
  <2> HIDE DEF im
  <2>1. QED BY <1>1 DEF Dies, Images
<1>3. torn'.file = f
  BY <1>2 DEF InCall
<1> HIDE DEF order
<1>4. InOrder(tidy, fs)
  BY DEF IInv
<1>5. Wreck(index', index, f) /\ Less(AbsOf(index'), AbsOf(index))
  BY <1>2, <1>4, RetoldTorn
<1>6. QED BY <1>3, <1>5, LostAre DEF Torn

(* So for creat, unlink, mkdir and rmdir. *)
LEMMA DieInCallsTorn ==
  ASSUME NEW tidy, IInv(tidy), DieInFileCalls \/ DieInDirCalls
  PROVE  Torn
<1>1. InOrder(tidy, fs)
  BY DEF IInv
<1>2. ASSUME NEW p \in FilePaths, DieInName("creat", sfs_creat(index, p).ok, sfs_creat(index, p).index, 0)
      PROVE  Torn
  <2>1. sfs_creat(index, p).ok
    BY <1>2 DEF DieInName
  <2>2. \A f : f = 0 => Retold(tidy, sfs_creat(index, p).index, f)
    BY <1>1, <2>1, CreatTold
  <2>3. PICK z : z = 0
    OBVIOUS
  <2>4. DieInName("creat", sfs_creat(index, p).ok, sfs_creat(index, p).index, z)
    BY <1>2, <2>3
  <2>5. QED BY <2>2, <2>3, <2>4, DieInNameTorn
<1>3. ASSUME NEW p \in FilePaths, NEW f, f = search_file(index, p),
             DieInName("unlink", f # 0 /\ MayUnlink, sfs_unlink(index, p), f)
      PROVE  Torn
  <2>1. f # 0
    BY <1>3 DEF DieInName
  <2>2. Retold(tidy, sfs_unlink(index, p), f)
    BY <1>1, <1>3, <2>1, UnlinkTold
  <2>3. QED BY <1>3, <2>2, DieInNameTorn
<1>4. ASSUME NEW p \in DirPaths, DieInName("mkdir", sfs_mkdir(index, p).ok, sfs_mkdir(index, p).index, 0)
      PROVE  Torn
  <2>1. sfs_mkdir(index, p).ok
    BY <1>4 DEF DieInName
  <2>2. \A f : f = 0 => Retold(tidy, sfs_mkdir(index, p).index, f)
    BY <1>1, <2>1, MkdirTold
  <2>3. PICK z : z = 0
    OBVIOUS
  <2>4. DieInName("mkdir", sfs_mkdir(index, p).ok, sfs_mkdir(index, p).index, z)
    BY <1>4, <2>3
  <2>5. QED BY <2>2, <2>3, <2>4, DieInNameTorn
<1>5. ASSUME NEW p \in DirPaths, DieInName("rmdir", sfs_rmdir(index, p).ok, sfs_rmdir(index, p).index, 0)
      PROVE  Torn
  <2>1. sfs_rmdir(index, p).ok
    BY <1>5 DEF DieInName
  <2>2. \A f : f = 0 => Retold(tidy, sfs_rmdir(index, p).index, f)
    BY <1>1, <2>1, RmdirTold
  <2>3. PICK z : z = 0
    OBVIOUS
  <2>4. DieInName("rmdir", sfs_rmdir(index, p).ok, sfs_rmdir(index, p).index, z)
    BY <1>5, <2>3
  <2>5. QED BY <2>2, <2>3, <2>4, DieInNameTorn
<1> HIDE DEF Torn
<1>6. QED BY <1>2, <1>3, <1>4, <1>5 DEF DieInFileCalls, DieInDirCalls

(* in sfs_delete() *)
LEMMA DieInDeleteTorn ==
  ASSUME NEW tidy, IInv(tidy), SP!IInv, NEW f \in Slots, DieInDelete(f)
  PROVE  Torn
<1>1. /\ IsUnlinked(index[f]) /\ index' \in during_delete(fs, f) /\ torn'.file = f
  BY DEF DieInDelete, Dies, Images, InCall
<1>2. InOrder(tidy, fs) /\ fs.index = index /\ AbsOf(fs.index) = AbsEnt
  BY LostAre DEF IInv, fs
<1>3. OwnsData(fs.index[f]) /\ IsFile(index[f])
  BY <1>1, <1>2, Kinds
<1>4. /\ Wreck(index', index, f)
      /\ Less(AbsOf(index'), AbsOf(index)) \/ AbsOf(index') = AbsOf(sfs_delete(fs, f).index)
  BY <1>1, <1>2, <1>3, DeleteTorn
<1>5. CASE Less(AbsOf(index'), AbsOf(index))
  BY <1>1, <1>4, <1>5, LostAre DEF Torn
<1>6. CASE AbsOf(index') = AbsOf(sfs_delete(fs, f).index)
  <2>1. PICK jx : /\ Unnamed(jx, index, f)
                  /\ \E ok : Freed(AbsOf(jx), AbsOf(sfs_delete(fs, f).index), ok,
                                   index[f].start_block, index[f].end_block)
    BY <1>2, <1>3, DeletedFile
  <2>2. PICK ok : Freed(AbsOf(jx), AbsOf(index'), ok, index[f].start_block, index[f].end_block)
    BY <1>6, <2>1
  <2>3. Freed(AbsOf(jx), AbsEnt', ok, AbsEnt[f].start, AbsEnt[f].end)
    BY <1>3, <2>2, LostAre, FileEntry
  <2>4. f # 3
    BY <1>1, <1>2, Kinds DEF InOrder, Entered
  <2>5. SP!IInv'
    BY <1>2, <1>3, <2>1, <2>3, <2>4, ExtentReleased
  <2>6. QED BY <1>1, <1>4, <2>5 DEF Torn
<1>7. QED BY <1>4, <1>5, <1>6

(* in sfs_rename() *)
LEMMA DieInRenameTorn ==
  ASSUME NEW tidy, IInv(tidy), NEW f \in Slots, NEW p \in FilePaths, DieInRename(f, p)
  PROVE  Torn
<1> DEFINE r == sfs_rename(fs, f, p)
           w == sfs_delete(fs, f)
<1>1. InOrder(tidy, fs) /\ fs.index = index
  BY DEF IInv, fs
<1>2. /\ r.off # 0 /\ index[f].start_block = 0 /\ torn'.file = f
      /\ \/ index' \in during_delete(fs, f)
         \/ index' \in Between(w.index, r.u.index, FromOn(r.off, count_entry(Len(p) + 1, FirstFile)))
  <2> DEFINE im == during_delete(fs, f)
             jm == Between(w.index, r.u.index, FromOn(r.off, count_entry(Len(p) + 1, FirstFile)))
  <2>1. /\ r.off # 0 /\ index[f].start_block = 0
        /\ Dies(Images(im \cup jm, data), InCall("rename", f))
    BY DEF DieInRename
  <2> HIDE DEF im, jm, r
  <2>2. (index' \in im \/ index' \in jm) /\ torn' = InCall("rename", f)
    BY <2>1 DEF Dies, Images
  <2>3. QED BY <2>1, <2>2 DEF im, jm, InCall
<1>3. index' \in during_delete(fs, f) \/ Mixed(index', w.index, r.u.index)
  BY <1>2, BetweenIsMixed
<1>4. p \in FilePaths \cup DirPaths
  OBVIOUS
<1>5. r = sfs_rename(fs, f, p) /\ w = sfs_delete(fs, f)
  OBVIOUS
<1> HIDE DEF r, w
<1>6. Wreck(index', fs.index, f) /\ Less(AbsOf(index'), AbsOf(fs.index))
  BY <1>1, <1>2, <1>3, <1>4, <1>5, RenameTorn
<1>7. QED BY <1>1, <1>2, <1>6, LostAre DEF Torn

(* in sfs_write() *)
LEMMA DieInWriteTorn ==
  ASSUME NEW tidy, IInv(tidy), SP!IInv, NEW f \in Slots, NEW s \in Spans, NEW t \in Tokens,
         DieInWrite(f, s[1], s[2], t)
  PROVE  Torn
<1> DEFINE old   == index[f].size
           new   == Max({s[1] + s[2], old})
           grows == BlockCount(new) > BlockCount(old)
           g     == IF grows THEN Grow(f, new) ELSE InPlace(f)
<1>1. /\ f \in Handles /\ g.ok /\ torn'.file = f
      /\ torn'.frees <=> index[f].start_block \notin {0, g.start}
      /\ \E x \in during_write(f, grows, g, new, s[1], s[2], t) : index' = x.index
  <2> DEFINE im == during_write(f, grows, g, new, s[1], s[2], t)
             in == [InCall("write", f) EXCEPT !.span = (s[1] + 1)..(s[1] + s[2]),
                      !.frees = index[f].start_block \notin {0, g.start}]
  <2>1. f \in Handles /\ g.ok /\ Dies(im, in)
    BY DEF DieInWrite
  <2> HIDE DEF im, g
  <2>2. (\E x \in im : index' = x.index) /\ torn' = in
    BY <2>1 DEF Dies
  <2>3. torn'.file = f /\ (torn'.frees <=> index[f].start_block \notin {0, g.start})
    BY <2>2 DEF InCall
  <2>4. QED BY <2>1, <2>2, <2>3 DEF im
<1>2. InOrder(tidy, fs) /\ data \in Contents
  BY DEF IInv, Contents
<1>3. IsFile(index[f])
  BY <1>1 DEF Handles, IsFile
<1>4. fs.index = index /\ old \in Nat /\ index[f] \in Entries
  BY <1>2, <1>3, OrderShaped DEF fs, InOrder, Entered, EntryOK
<1>5. s[1] \in Nat /\ s[2] \in Nat /\ s[2] # 0
  BY SfsAssumption
<1>6. s[1] + s[2] \in Nat /\ s[1] + s[2] # 0 /\ s[1] + s[2] \in FileSizes
  BY <1>5 DEF FileSizes
<1>7. new \in {s[1] + s[2], old} /\ s[1] + s[2] <= new /\ old <= new
  BY <1>4, <1>6, MaxOfTwo
<1>8. new \in (0..N) \cup FileSizes /\ new \in Nat \ {0}
  <2>1. old \in (0..N) \cup FileSizes
    BY <1>4 DEF Entries
  <2> HIDE DEF new, old
  <2>2. QED BY <1>4, <1>6, <1>7, <2>1
<1>9. BlockCount(old) <= BlockCount(new)
  BY <1>4, <1>7, <1>8, CountClimbs
<1>10. PICK x \in during_write(f, grows, g, new, s[1], s[2], t) : index' = x.index
  BY <1>1
<1> HIDE DEF new
<1>11. (grows <=> BlockCount(new) > BlockCount(old)) /\ g = IF grows THEN Grow(f, new) ELSE InPlace(f)
  OBVIOUS
<1> HIDE DEF g, grows
<1>12. Ruin(x.index, f, g.start)
  BY <1>1, <1>2, <1>3, <1>8, <1>9, <1>11, WriteTorn
<1>13. QED BY <1>1, <1>3, <1>10, <1>12, RuinTorn

(* in sfs_truncate() *)
LEMMA DieInTruncateTorn ==
  ASSUME NEW tidy, IInv(tidy), SP!IInv, NEW f \in Slots, NEW new \in Lengths,
         DieInTruncate(f, new)
  PROVE  Torn
<1> DEFINE e     == index[f]
           grows == BlockCount(new) > BlockCount(e.size)
           a     == del_file_list_add(fs, e.start_block, e.end_block)
           z     == [InPlace(f) EXCEPT !.start = 0, !.end = 0, !.u = a.u]
           g     == CASE new = 0 -> z [] grows -> Grow(f, new) [] OTHER -> InPlace(f)
           im    == during_write(f, grows, g, new, 0, 0, Fresh)
           jm    == IF new # 0 THEN {} ELSE Images(during_add(fs, e.start_block, e.end_block), data)
<1>1. /\ f \in Handles /\ ~Shrinks(f, new) /\ g.ok /\ torn'.file = f
      /\ torn'.frees <=> e.start_block \notin {0, g.start}
      /\ \E x \in im \cup jm : index' = x.index
  <2> DEFINE in == [InCall("truncate", f) EXCEPT !.frees = e.start_block \notin {0, g.start}]
  <2>1. f \in Handles /\ ~Shrinks(f, new) /\ g.ok /\ Dies(im \cup jm, in)
    BY DEF DieInTruncate
  <2> HIDE DEF im, jm, g
  <2>2. (\E x \in im \cup jm : index' = x.index) /\ torn' = in
    BY <2>1 DEF Dies
  <2>3. torn'.file = f /\ (torn'.frees <=> e.start_block \notin {0, g.start})
    BY <2>2 DEF InCall
  <2>4. QED BY <2>1, <2>2, <2>3
<1>2. InOrder(tidy, fs) /\ data \in Contents
  BY DEF IInv, Contents
<1>3. IsFile(e)
  BY <1>1 DEF Handles, IsFile
<1>4. fs.index = index /\ e.size \in Nat
  BY <1>2, <1>3, OrderShaped DEF fs, InOrder, Entered, EntryOK
<1>5. new \in Nat /\ new \in (0..N) \cup FileSizes
  BY SfsAssumption DEF FileSizes
<1>6. BlockCount(new) \in Nat /\ BlockCount(e.size) \in Nat /\ (new = 0 <=> BlockCount(new) = 0)
  BY <1>4, <1>5, BlockCounts
<1>7. new # 0 => BlockCount(e.size) <= BlockCount(new)
  BY <1>1, <1>6 DEF Shrinks
<1>8. PICK x \in im \cup jm : index' = x.index
  BY <1>1
<1>9. CASE new # 0
  <2>1. x \in im
    BY <1>8, <1>9
  <2>2. g = IF grows THEN Grow(f, new) ELSE InPlace(f)
    BY <1>9
  <2>3. grows <=> BlockCount(new) > BlockCount(index[f].size)
    OBVIOUS
  <2> HIDE DEF g, grows, e
  <2>4. new \in Nat \ {0} /\ BlockCount(index[f].size) <= BlockCount(new) /\ IsFile(index[f])
    BY <1>3, <1>5, <1>7, <1>9 DEF e
  <2>5. \A off, size : x \in during_write(f, grows, g, new, off, size, Fresh) => Ruin(x.index, f, g.start)
    BY <1>1, <1>2, <1>5, <2>2, <2>3, <2>4, WriteTorn
  <2>6. Ruin(x.index, f, g.start)
    BY <2>1, <2>5
  <2>7. QED BY <1>1, <1>8, <2>4, <2>6, RuinTorn DEF e
<1>10. CASE new = 0
  <2>1. ~grows
    BY <1>6, <1>10
  <2>2. g.start = 0 /\ g.end = 0 /\ g.u = a.u
    <3>1. g = z
      <4> HIDE DEF z, grows
      <4>1. QED BY <1>10, <2>1
    <3> HIDE DEF g, a
    <3>2. QED BY <3>1 DEF InPlace
  <2>3. a = del_file_list_add(fs, index[f].start_block, index[f].end_block) /\ IsFile(index[f])
    BY <1>3
  <2>4. \/ x \in during_write(f, grows, g, 0, 0, 0, Fresh)
        \/ x \in Images(during_add(fs, index[f].start_block, index[f].end_block), data)
    <3> HIDE DEF g, grows
    <3>1. QED BY <1>8, <1>10
  <2> HIDE DEF g, grows, e, a
  <2>5. \A off, size : \/ x \in during_write(f, grows, g, 0, off, size, Fresh)
                       \/ x \in Images(during_add(fs, index[f].start_block, index[f].end_block), data)
                       => Ruin(x.index, f, g.start)
    BY <1>2, <2>1, <2>2, <2>3, EmptyTorn
  <2>6. Ruin(x.index, f, g.start)
    BY <2>4, <2>5
  <2>7. QED BY <1>1, <1>8, <2>3, <2>6, RuinTorn DEF e
<1>11. QED BY <1>9, <1>10

(* Wherever the process dies *)
LEMMA CrashTorn ==
  ASSUME NEW tidy, IInv(tidy), SP!IInv, Crash
  PROVE  Torn
<1>1. CASE DieInFileCalls \/ DieInDirCalls
  BY <1>1, DieInCallsTorn
<1>2. CASE \E f \in Slots : DieInDelete(f)
  BY <1>2, DieInDeleteTorn
<1>3. CASE \E f \in Slots, p \in FilePaths : DieInRename(f, p)
  BY <1>3, DieInRenameTorn
<1>4. CASE \E f \in Slots, s \in Spans, t \in Tokens : DieInWrite(f, s[1], s[2], t)
  BY <1>4, DieInWriteTorn
<1>5. CASE \E f \in Slots, new \in Lengths : DieInTruncate(f, new)
  BY <1>5, DieInTruncateTorn
<1>6. QED BY <1>1, <1>2, <1>3, <1>4, <1>5 DEF Crash

-----------------------------------------------------------------------------
(* The first crash is the death of the process in a call or in a mount. *)
LEMMA FirstCrash ==
  ASSUME MInv, [MountNext]_mvars, crashed', ~crashed
  PROVE  SP!IInv /\ ((IInv(Untidy) /\ Crash) \/ DieInMount)
<1>1. SP!IInv
  BY DEF MInv
<1>2. CASE DieInMount
  BY <1>1, <1>2
<1>3. CASE ~DieInMount
  <2>1. Crash
    <3>1. ~UNCHANGED mvars
      BY DEF mvars
    <3>2. ~Session /\ ~Mount /\ ~Decline /\ ~sfs_release
      BY DEF Session, Mount, Decline, sfs_release
    <3>3. QED BY <1>3, <3>1, <3>2 DEF MountNext
  <2>2. mounted
    BY <2>1, DeathsKeepStamp
  <2>3. fs = Found /\ InOrder(Untidy, Found) /\ data \in Contents
    BY <2>2 DEF MInv
  <2>4. QED BY <1>1, <2>1, <2>3 DEF IInv, Contents
<1>4. QED BY <1>2, <1>3

(* A mount that dies has made some of the unlinked files files again, and   *)
(* done nothing to the list or to the blocks.                               *)
LEMMA MountTorn ==
  ASSUME MInv, ~crashed, DieInMount
  PROVE  /\ \A i \in Slots : /\ index'[i] = index[i] \/ index'[i] = fix_del_file(index[i])
                             /\ index[i] \in Entries /\ Fixed(index'[i], index[i])
         /\ data' = data /\ torn' = InCall("mount", 0) /\ Walkable(index') /\ SP!IInv'
<1> DEFINE v == Remounted(Found)
<1>1. InOrder(Untidy, Found) /\ SP!IInv /\ Found.index = index
  BY DEF MInv, Found
<1>2. data' = data /\ torn' = InCall("mount", 0)
  BY DEF DieInMount, sfs_init
<1>3. Mixed(index', index, v.index)
  <2>1. index' \in Between(index, v.index, FromOn(1, N))
    BY <1>1 DEF DieInMount, Remounted
  <2> HIDE DEF v
  <2>2. QED BY <2>1, BetweenIsMixed
<1>4. \A i \in Slots : /\ index[i] \in Entries /\ Fixed(v.index[i], index[i])
                       /\ v.index[i] = fix_del_file(index[i])
  <2>1. v = Remounted(Found) /\ Found \in State
    BY <1>1, OrderShaped
  <2> HIDE DEF v
  <2>2. QED BY <1>1, <2>1, RemountedEntries
<1> HIDE DEF v
<1>5. \A i \in Slots : /\ index'[i] = index[i] \/ index'[i] = fix_del_file(index[i])
                       /\ index[i] \in Entries /\ Fixed(index'[i], index[i])
  BY <1>3, <1>4 DEF Mixed, Fixed
<1>6. Walkable(index')
  <2>1. Walkable(index)
    BY <1>1, OrderWalkable
  <2>2. Starts(index')
    <3> SUFFICES ASSUME NEW i \in Slots, index'[i].entry_type = "DEL_FILE_ENTRY",
                        PREV_DEL(index'[i]) = 0
                 PROVE  IsFree(index'[i])
      BY DEF Starts
    <3>1. index[i] \in Entries /\ Fixed(index'[i], index[i])
      BY <1>5
    <3>2. index'[i] = index[i]
      BY <3>1 DEF Fixed, Entries
    <3>3. QED BY <2>1, <3>2 DEF Walkable, Starts
  <2>3. \A i \in Slots : /\ IsFree(index'[i]) <=> IsFree(index[i])
                         /\ IsFree(index[i]) => NEXT_DEL(index'[i]) = NEXT_DEL(index[i])
    BY <1>5, FixedKind
  <2>4. QED BY <2>1, <2>2, <2>3, SameLinksWalkable
<1>7. SP!IInv'
  <2>1. \A i \in Slots : /\ AbsType(index'[i]) = AbsType(index[i])
                         /\ index'[i].start_block = index[i].start_block
                         /\ index'[i].end_block = index[i].end_block
    BY <1>5, FixedKind
  <2>2. AbsOf(index') = AbsOf(index)
    BY <2>1 DEF AbsOf
  <2>3. AbsEnt' = AbsEnt
    BY <2>2, LostAre
  <2>4. QED BY <1>1, <2>3, ExtentsSame
<1>8. QED BY <1>2, <1>5, <1>6, <1>7

(* After the first crash, wherever it was, the next mount finds a list that *)
(* ends and holds only free extents: MountFindsList, of sfs_init().         *)
THEOREM MountsFindLists == MountSpec => MountFindsList
<1>1. MInv /\ [MountNext]_mvars =>
        [crashed' /\ ~crashed =>
            LET w == Walk(Found')
            IN  w[N] = 0 /\ \A k \in 0..N : w[k] # 0 => IsFree(index'[w[k]])]_mvars
  <2> SUFFICES ASSUME MInv, [MountNext]_mvars, crashed', ~crashed
               PROVE  /\ Walk(Found')[N] = 0
                      /\ \A k \in 0..N : Walk(Found')[k] # 0 => IsFree(index'[Walk(Found')[k]])
    OBVIOUS
  <2>1. Walkable(index')
    BY FirstCrash, CrashTorn, MountTorn DEF Torn, Wreck
  <2>2. Found' = [index |-> index', del_begin |-> search_begin(index')]
    BY DEF Found
  <2>3. QED BY <2>1, <2>2, WalkableIsWalked
<1>2. QED BY <1>1, MountsFindOrder, PTL DEF MountSpec, MountFindsList

(* Holding less, nobody takes a block of another. *)
LEMMA LessDisjoint ==
  ASSUME NEW e, Space!Shaped(e), Space!Separate(e), NEW e2, Less(e2, e),
         \A i \in Slots : Space!Holds(e[i]) => e[i].start \in Int /\ e[i].end \in Int
  PROVE  Space!Shaped(e2) /\ Space!Separate(e2)
<1>1. Lo \in Int /\ Hi \in Int
  BY SfsAssumption
<1>2. ASSUME NEW i \in Slots, Space!Holds(e2[i])
      PROVE  /\ Space!Holds(e[i]) /\ e2[i].start \in Int /\ e2[i].end \in Int
             /\ e[i].start <= e2[i].start /\ e2[i].start <= e2[i].end /\ e2[i].end <= e[i].end
             /\ e[i].start \in Int /\ e[i].end \in Int /\ Lo <= e[i].start /\ e[i].end <= Hi
  <2>1. Space!Holds(e[i])
    BY <1>2 DEF Less, Within
  <2>2. /\ e[i].start \in Int /\ e[i].end \in Int
        /\ Lo <= e[i].start /\ e[i].start <= e[i].end /\ e[i].end <= Hi
    BY <2>1 DEF Space!Shaped
  <2>3. CASE e2[i] = e[i]
    BY <2>1, <2>2, <2>3
  <2>4. CASE e2[i] # e[i]
    BY <1>2, <2>1, <2>2, <2>4 DEF Less, Within
  <2>5. QED BY <2>3, <2>4
<1>3. ASSUME NEW i \in Slots, ~Space!Holds(e2[i]) PROVE e2[i].start = 0 /\ e2[i].end = 0
  <2>1. CASE e2[i] = e[i]
    BY <1>3, <2>1 DEF Space!Shaped
  <2>2. CASE e2[i] # e[i]
    BY <1>3, <2>2 DEF Less, Within
  <2>3. QED BY <2>1, <2>2
<1>4. Space!Shaped(e2)
  <2>1. \A i \in Slots : Space!Holds(e2[i]) =>
           Lo <= e2[i].start /\ e2[i].start <= e2[i].end /\ e2[i].end <= Hi
    BY <1>1, <1>2
  <2>2. QED BY <1>3, <2>1 DEF Space!Shaped
<1>5. ASSUME NEW i \in Slots, NEW j \in Slots, i # j, Space!Holds(e2[i]), Space!Holds(e2[j])
      PROVE  Space!Apart(e2[i], e2[j])
  <2>1. Space!Holds(e[i]) /\ Space!Holds(e[j])
    BY <1>2, <1>5
  <2>2. e[i].end < e[j].start \/ e[j].end < e[i].start
    BY <1>5, <2>1 DEF Space!Separate, Space!Apart
  <2>3. e2[i].end < e2[j].start \/ e2[j].end < e2[i].start
    BY <1>2, <1>5, <2>2
  <2>4. QED BY <2>3 DEF Space!Apart
<1>6. QED BY <1>4, <1>5 DEF Space!Separate

(* The accounting keeps extents apart. *)
LEMMA PartDisjoint ==
  ASSUME NEW e, NEW l, SP!Part(e, l, {})
  PROVE  /\ Space!Shaped(e) /\ Space!Separate(e)
         /\ \A i \in Slots : Space!Holds(e[i]) => e[i].start \in Int /\ e[i].end \in Int
<1>1. e \in [Slots -> SP!Entry] /\ SP!Shaped(e) /\ SP!Separate(e)
  BY DEF SP!Part, SP!Typed
<1>2. Space!Shaped(e)
  BY <1>1, Bridge DEF SP!Shaped, Space!Shaped
<1>3. Space!Separate(e)
  BY <1>1, Bridge DEF SP!Separate, Space!Separate, SP!Apart, Space!Apart
<1>4. ASSUME NEW i \in Slots, Space!Holds(e[i]) PROVE e[i].start \in Int /\ e[i].end \in Int
  <2>1. SP!Holds(e[i])
    BY <1>4, Bridge
  <2>2. QED BY <1>1, <2>1, AreaOK, SP!Bounds
<1>5. QED BY <1>2, <1>3, <1>4

(* The first crash gives no block a second owner, unless it freed blocks    *)
(* that its file's entry still names: CrashOnlyLeaks, of every call's order *)
(* of writes.                                                               *)
THEOREM CrashesOnlyLeak == MountSpec => CrashOnlyLeaks
<1>1. MInv /\ [MountNext]_mvars =>
        [crashed' /\ ~crashed /\ ~torn'.frees => Space!Disjoint']_mvars
  <2> SUFFICES ASSUME MInv, [MountNext]_mvars, crashed', ~crashed, ~torn'.frees
               PROVE  Space!Disjoint'
    OBVIOUS
  <2>1. SP!IInv /\ (Torn \/ SP!IInv')
    BY FirstCrash, CrashTorn, MountTorn
  <2>2. Space!Shaped(AbsEnt') /\ Space!Separate(AbsEnt')
    <3>1. CASE Less(AbsEnt', AbsEnt)
      <4>1. SP!Part(AbsEnt, AbsLost, {})
        BY <2>1 DEF SP!IInv
      <4>2. QED BY <3>1, <4>1, PartDisjoint, LessDisjoint
    <3>2. CASE SP!IInv'
      <4>1. SP!Part(AbsEnt', AbsLost', {})
        BY <3>2 DEF SP!IInv
      <4>2. QED BY <4>1, PartDisjoint
    <3>3. QED BY <2>1, <3>1, <3>2 DEF Torn
  <2>3. QED BY <2>2 DEF Space!Disjoint
<1>2. QED BY <1>1, MountsFindOrder, PTL DEF MountSpec, CrashOnlyLeaks

-----------------------------------------------------------------------------
(* The bytes of files in the images that a crash leaves *)

(* Images while a file grows keep every file, the one that grows, too. *)
LEMMA GrowSaves ==
  ASSUME NEW tidy, InOrder(tidy, fs), data \in Contents, SP!IInv, NEW f \in Slots, IsFile(index[f]),
         NEW new \in Nat, BlockCount(new) > BlockCount(index[f].size),
         NEW g, g = Grow(f, new), g.ok, NEW x \in during_grow(f, new), NEW span
  PROVE  Saved(x.index, x.data, f, span)
<1> DEFINE e == index[f]
<1>1. /\ Wreck(x.index, index, 0)
      /\ x.data = data \/ (Moving(x, f, g) /\ Copying(x, f, g))
  BY GrowTorn
<1>2. x.index[f] = e
  BY <1>1, Numbers DEF Wreck
<1>3. CASE x.data = data
  BY <1>2, <1>3, SavedSame
<1>4. CASE Moving(x, f, g) /\ Copying(x, f, g)
  <2>1. g.start # e.start_block /\ e.start_block # 0
    BY <1>4, MovesAway DEF Moving
  <2>2. PICK n \in 0..(e.end_block - e.start_block + 1) :
           x.data = copy_block(data, e.start_block, g.start, n)
    BY <1>4 DEF Copying
  <2>3. \A h \in Slots : IsFile(index[h]) => Sized(index[h]) /\ index[h].size \in Nat
    BY DEF InOrder, Entered, EntryOK, fs
  <2>4. /\ e.start_block \in Lo..Hi /\ e.end_block \in Lo..Hi
        /\ e.end_block - e.start_block + 1 = BlockCount(e.size) /\ BlockCount(e.size) \in Nat
        /\ BlockCount(new) \in Nat
    BY <2>1, <2>3, FitsBlocks, BlockCounts
  <2>5. /\ g.start \in Lo..Hi /\ g.end \in Lo..Hi /\ g.end - g.start + 1 = BlockCount(new)
    BY GrowOrder
  <2>6. g.start \in Int /\ g.end \in Int /\ n \in Int /\ g.start + n - 1 <= g.end
    <3>1. Lo \in Int /\ Hi \in Int
      BY SfsAssumption
    <3> HIDE DEF e
    <3>2. BlockCount(e.size) < BlockCount(new)
      BY DEF e
    <3>3. QED BY <2>2, <2>4, <2>5, <3>1, <3>2
  <2>7. ASSUME NEW h \in Slots, IsFile(index[h]), NEW k \in 1..index[h].size
        PROVE  x.data[Spot(index[h], k)] = data[Spot(index[h], k)]
    <3>1. index[h].start_block = 0 \/ index[h].end_block < g.start \/ g.end < index[h].start_block
      BY <2>1, <2>7, Room
    <3>2. Sized(index[h]) /\ index[h].size \in Nat
      BY <2>3, <2>7
    <3> HIDE DEF e
    <3>3. Spot(index[h], k) \in Bytes /\ Spot(index[h], k) \notin BytesOf(g.start, g.end)
      BY <2>6, <3>1, <3>2, SpotIn, SpotAway
    <3>4. QED BY <2>2, <2>6, <3>3, CopyKeeps
  <2>8. OthersKept(x.data, f)
    BY <2>7 DEF OthersKept
  <2>9. OwnKept(x.index, x.data, f, span)
    BY <1>2, <2>7 DEF OwnKept
  <2>10. QED BY <2>8, <2>9 DEF Saved
<1>5. QED BY <1>1, <1>3, <1>4

(* Every image of a write, or of a truncation to another size than 0 *)
LEMMA WriteSaves ==
  ASSUME NEW tidy, InOrder(tidy, fs), data \in Contents, SP!IInv, NEW f \in Slots, IsFile(index[f]),
         NEW new \in (0..N) \cup FileSizes, new \in Nat \ {0},
         BlockCount(index[f].size) <= BlockCount(new),
         NEW grows, grows <=> BlockCount(new) > BlockCount(index[f].size),
         NEW g, g.ok, g = IF grows THEN Grow(f, new) ELSE InPlace(f),
         NEW off \in Nat, NEW size \in Nat, size = 0 \/ off + size <= new, NEW t,
         NEW x \in during_write(f, grows, g, new, off, size, t)
  PROVE  Saved(x.index, x.data, f, (off + 1)..(off + size))
<1> DEFINE span == (off + 1)..(off + size)
<1>1. \/ grows /\ x \in during_grow(f, new)
      \/ ~grows /\ x \in Images({index}, data)
      \/ x \in during_data(f, g, g.data, new, off, size, t)
  BY DEF during_write
<1>2. CASE grows /\ x \in during_grow(f, new)
  <2>1. g = Grow(f, new) /\ new \in Nat /\ BlockCount(new) > BlockCount(index[f].size)
    BY <1>2
  <2> HIDE DEF span
  <2>2. Saved(x.index, x.data, f, span)
    BY <1>2, <2>1, GrowSaves
  <2>3. QED BY <2>2 DEF span
<1>3. CASE ~grows /\ x \in Images({index}, data)
  <2>1. x.index = index /\ x.data = data
    BY <1>3 DEF Images
  <2> HIDE DEF span
  <2>2. Saved(x.index, x.data, f, span)
    BY <2>1, SavedSame
  <2>3. QED BY <2>2 DEF span
<1>4. CASE x \in during_data(f, g, g.data, new, off, size, t)
  <2>1. g = IF BlockCount(new) > BlockCount(index[f].size) THEN Grow(f, new) ELSE InPlace(f)
    OBVIOUS
  <2>2. PICK z : Pours(f, g, new, off, size, t, z, x.index, x.data)
    BY <1>4 DEF during_data, Pours
  <2>3. QED BY <2>1, <2>2, DataSaves
<1>5. QED BY <1>1, <1>2, <1>3, <1>4

(* and of one to 0: no byte is written. *)
LEMMA EmptySaves ==
  ASSUME NEW tidy, InOrder(tidy, fs), NEW f \in Slots, IsFile(index[f]),
         NEW a, a = del_file_list_add(fs, index[f].start_block, index[f].end_block),
         NEW g, g.start = 0, g.end = 0, g.u = a.u, g.data = data,
         NEW grows, ~grows, NEW off \in Nat, NEW size, size = 0, NEW t, NEW x, NEW span,
         \/ x \in during_write(f, grows, g, 0, off, size, t)
         \/ x \in Images(during_add(fs, index[f].start_block, index[f].end_block), data)
  PROVE  Saved(x.index, x.data, f, span)
<1> DEFINE e == index[f]
<1>1. fs.index = index /\ e.size \in Nat /\ Sized(e) /\ e \in Entries
  BY OrderShaped DEF fs, InOrder, Entered, EntryOK
<1>2. CASE x \in Images({index}, data)
  <2>1. x.index = index /\ x.data = data
    BY <1>2 DEF Images
  <2>2. QED BY <2>1, SavedSame
<1>3. CASE x \in during_data(f, g, g.data, 0, off, size, t)
  <2>1. PICK z \in 0..size : /\ x.data = write_data(data, g.start * BlockSize + off, z, t)
                             /\ x.index = Repointed(f, g, 0).index
    BY <1>3 DEF during_data
  <2>2. x.index[f].size = 0
    <3>1. InOrder(tidy, a.u) /\ Kept(a.u, fs)
      BY <1>1, FreedOrder
    <3>2. a.u \in State /\ a.u.index[f] \in Entries /\ f \in Offsets
      BY <3>1, OrderShaped
    <3>3. x.index[f] = Rewritten(a.u.index[f], g, 0)
      BY <2>1, <3>2 DEF Repointed, State
    <3>4. "CLOBBERED" \in EntryTypes
      BY DEF EntryTypes
    <3>5. ASSUME NEW b \in Entries, NEW s, NEW t2, NEW t3
          PROVE  [b EXCEPT !.start_block = s, !.end_block = t2, !.size = 0, !.time_stamp = t3].size = 0
      BY DEF Entries
    <3>6. QED BY <3>2, <3>3, <3>4, <3>5, EmptyFields DEF Rewritten
  <2>3. ASSUME NEW b \in Bytes PROVE x.data[b] = data[b]
    <3>1. b \notin (g.start * BlockSize + off)..(g.start * BlockSize + off + z - 1)
      <4>1. z = 0
        OBVIOUS
      <4>2. PICK c \in Int : c = g.start * BlockSize + off
        BY SfsAssumption
      <4>3. b \notin c..(c + z - 1)
        BY <4>1
      <4>4. QED BY <4>2, <4>3
    <3>2. QED BY <2>1, <2>3, <3>1 DEF write_data
  <2>4. OthersKept(x.data, f)
    <3>1. \A h \in Slots : IsFile(index[h]) => Sized(index[h]) /\ index[h].size \in Nat
      BY DEF InOrder, Entered, EntryOK, fs
    <3>2. ASSUME NEW h \in Slots, IsFile(index[h]), NEW k \in 1..index[h].size
          PROVE  Spot(index[h], k) \in Bytes
      BY <3>1, <3>2, SpotIn
    <3>3. QED BY <2>3, <3>2 DEF OthersKept
  <2>5. OwnKept(x.index, x.data, f, span)
    BY <2>2 DEF OwnKept
  <2>6. QED BY <2>4, <2>5 DEF Saved
<1>4. CASE x \in Images(during_add(fs, e.start_block, e.end_block), data)
  <2>1. x.index \in during_add(fs, e.start_block, e.end_block) /\ x.data = data
    BY <1>4 DEF Images
  <2>2. x.index[f] = e
    <3>1. CASE e.start_block = 0
      <4>1. e.end_block = 0
        BY <1>1, <3>1, FitsBlocks
      <4>2. x.index = index
        BY <1>1, <2>1, <3>1, <4>1 DEF during_add
      <4>3. QED BY <4>2
    <3>2. CASE e.start_block # 0
      <4>1. Halfway(x.index, fs, a.u)
        BY <1>1, <2>1, <3>2, AddHalves
      <4>2. Wreck(x.index, index, 0)
        BY <1>1, <4>1, HalfwayTorn
      <4>3. QED BY <4>2, Numbers DEF Wreck
    <3>3. QED BY <3>1, <3>2
  <2>3. QED BY <2>1, <2>2, SavedSame
<1>5. QED BY <1>2, <1>3, <1>4 DEF during_write

-----------------------------------------------------------------------------
(* What a crash leaves of the files' bytes *)
DataCalls == {"write", "truncate", "unlink"}

Untouched ==
    /\ OthersKept(data', torn'.file)
    /\ torn'.call \in DataCalls => OwnKept(index', data', torn'.file, torn'.span)

(* Calls that change names write no data. *)
LEMMA NameUntouched ==
  ASSUME NEW call, NEW ok, NEW iy, NEW f, DieInName(call, ok, iy, f),
         call \in DataCalls => f \in Slots /\ iy[f].start_block = index[f].start_block
  PROVE  Untouched
<1> DEFINE order == SetToSortSeq({i \in Slots : index[i] # iy[i]}, <)
           im    == Between(index, iy, order)
<1>1. Dies(Images(im, data), InCall(call, f))
  BY DEF DieInName
<1>2. index' \in im /\ torn' = InCall(call, f) /\ data' = data
  <2> HIDE DEF im
  <2>1. QED BY <1>1 DEF Dies, Images
<1> HIDE DEF order
<1>3. Mixed(index', index, iy)
  BY <1>2, BetweenIsMixed
<1>4. torn'.file = f /\ torn'.call = call
  BY <1>2 DEF InCall
<1>5. OthersKept(data', f)
  BY <1>2 DEF OthersKept
<1>6. ASSUME call \in DataCalls PROVE OwnKept(index', data', f, torn'.span)
  <2>1. index'[f].start_block = index[f].start_block
    BY <1>3, <1>6 DEF Mixed
  <2>2. QED BY <1>2, <2>1, SavedSame DEF Saved
<1>7. QED BY <1>4, <1>5, <1>6 DEF Untouched

(* sfs_creat(), sfs_unlink(), sfs_mkdir() and sfs_rmdir() write no data, *)
LEMMA CallsUntouched ==
  ASSUME NEW tidy, IInv(tidy), DieInFileCalls \/ DieInDirCalls
  PROVE  Untouched
<1>1. InOrder(tidy, fs) /\ fs.index = index
  BY DEF IInv, fs
<1>2. ASSUME NEW call \in {"creat", "mkdir", "rmdir"}, NEW ok, NEW iy, NEW f, DieInName(call, ok, iy, f)
      PROVE  Untouched
  <2>1. call \notin DataCalls
    BY DEF DataCalls
  <2>2. QED BY <1>2, <2>1, NameUntouched
<1>3. ASSUME NEW p \in FilePaths, NEW f, f = search_file(index, p),
             DieInName("unlink", f # 0 /\ MayUnlink, sfs_unlink(index, p), f)
      PROVE  Untouched
  <2> DEFINE v == Reindexed(fs, sfs_unlink(index, p))
  <2>1. f # 0
    BY <1>3 DEF DieInName
  <2>2. v = Reindexed(fs, sfs_unlink(fs.index, p)) /\ f = search_file(fs.index, p)
    BY <1>1, <1>3
  <2> HIDE DEF v
  <2>3. f \in Slots /\ v.index = sfs_unlink(index, p) /\ AbsOf(v.index) = AbsOf(index)
    BY <1>1, <2>1, <2>2, UnlinkedFile
  <2>4. \A y : AbsOf(y)[f].start = y[f].start_block
    BY <2>3, AbsFields
  <2>5. sfs_unlink(index, p)[f].start_block = index[f].start_block
    BY <2>3, <2>4
  <2>6. QED BY <1>3, <2>3, <2>5, NameUntouched
<1> HIDE DEF Untouched
<1>4. CASE DieInFileCalls
  <2>1. PICK p \in FilePaths :
          \/ DieInName("creat", sfs_creat(index, p).ok, sfs_creat(index, p).index, 0)
          \/ DieInName("unlink", search_file(index, p) # 0 /\ MayUnlink, sfs_unlink(index, p),
                       search_file(index, p))
    BY <1>4 DEF DieInFileCalls
  <2>2. CASE DieInName("creat", sfs_creat(index, p).ok, sfs_creat(index, p).index, 0)
    <3>1. PICK z : z = 0
      OBVIOUS
    <3>2. DieInName("creat", sfs_creat(index, p).ok, sfs_creat(index, p).index, z)
      BY <2>2, <3>1
    <3>3. QED BY <1>2, <3>2
  <2>3. QED BY <1>3, <2>1, <2>2
<1>5. CASE DieInDirCalls
  <2>1. PICK p \in DirPaths :
          \/ DieInName("mkdir", sfs_mkdir(index, p).ok, sfs_mkdir(index, p).index, 0)
          \/ DieInName("rmdir", sfs_rmdir(index, p).ok, sfs_rmdir(index, p).index, 0)
    BY <1>5 DEF DieInDirCalls
  <2>2. PICK z : z = 0
    OBVIOUS
  <2>3. \/ DieInName("mkdir", sfs_mkdir(index, p).ok, sfs_mkdir(index, p).index, z)
        \/ DieInName("rmdir", sfs_rmdir(index, p).ok, sfs_rmdir(index, p).index, z)
    BY <2>1, <2>2
  <2>4. QED BY <1>2, <2>3
<1>6. QED BY <1>4, <1>5

(* nor do sfs_delete() and sfs_rename(). *)
LEMMA DeleteUntouched ==
  ASSUME NEW f, DieInDelete(f) \/ \E p : DieInRename(f, p)
  PROVE  Untouched
<1>1. data' = data /\ torn'.call \in {"delete", "rename"}
  <2>1. CASE DieInDelete(f)
    BY <2>1 DEF DieInDelete, Dies, Images, InCall
  <2>2. ASSUME NEW p, DieInRename(f, p) PROVE data' = data /\ torn'.call \in {"delete", "rename"}
    <3> DEFINE im == during_delete(fs, f)
               jm == Between(sfs_delete(fs, f).index, sfs_rename(fs, f, p).u.index,
                             FromOn(sfs_rename(fs, f, p).off, count_entry(Len(p) + 1, FirstFile)))
    <3>1. Dies(Images(im \cup jm, data), InCall("rename", f))
      BY <2>2 DEF DieInRename
    <3> HIDE DEF im, jm
    <3>2. QED BY <3>1 DEF Dies, Images, InCall
  <2>3. QED BY <2>1, <2>2
<1>2. torn'.call \notin DataCalls
  BY <1>1 DEF DataCalls
<1>3. OthersKept(data', torn'.file)
  BY <1>1 DEF OthersKept
<1>4. QED BY <1>2, <1>3 DEF Untouched

(* sfs_write() *)
LEMMA WriteUntouched ==
  ASSUME NEW tidy, IInv(tidy), SP!IInv, NEW f \in Slots, NEW s \in Spans, NEW t \in Tokens,
         DieInWrite(f, s[1], s[2], t)
  PROVE  Untouched
<1> DEFINE old   == index[f].size
           new   == Max({s[1] + s[2], old})
           grows == BlockCount(new) > BlockCount(old)
           g     == IF grows THEN Grow(f, new) ELSE InPlace(f)
<1>1. /\ f \in Handles /\ g.ok /\ torn'.file = f /\ torn'.span = (s[1] + 1)..(s[1] + s[2])
      /\ \E x \in during_write(f, grows, g, new, s[1], s[2], t) : index' = x.index /\ data' = x.data
  <2> DEFINE im == during_write(f, grows, g, new, s[1], s[2], t)
             in == [InCall("write", f) EXCEPT !.span = (s[1] + 1)..(s[1] + s[2]),
                      !.frees = index[f].start_block \notin {0, g.start}]
  <2>1. f \in Handles /\ g.ok /\ Dies(im, in)
    BY DEF DieInWrite
  <2> HIDE DEF im, g
  <2>2. (\E x \in im : index' = x.index /\ data' = x.data) /\ torn' = in
    BY <2>1 DEF Dies
  <2>3. torn'.file = f /\ torn'.span = (s[1] + 1)..(s[1] + s[2])
    BY <2>2 DEF InCall
  <2>4. QED BY <2>1, <2>2, <2>3 DEF im
<1>2. InOrder(tidy, fs) /\ data \in Contents
  BY DEF IInv, Contents
<1>3. IsFile(index[f])
  BY <1>1 DEF Handles, IsFile
<1>4. fs.index = index /\ old \in Nat /\ index[f] \in Entries
  BY <1>2, <1>3, OrderShaped DEF fs, InOrder, Entered, EntryOK
<1>5. s[1] \in Nat /\ s[2] \in Nat /\ s[2] # 0
  BY SfsAssumption
<1>6. s[1] + s[2] \in Nat /\ s[1] + s[2] # 0 /\ s[1] + s[2] \in FileSizes
  BY <1>5 DEF FileSizes
<1>7. new \in {s[1] + s[2], old} /\ s[1] + s[2] <= new /\ old <= new
  BY <1>4, <1>6, MaxOfTwo
<1>8. new \in (0..N) \cup FileSizes /\ new \in Nat \ {0}
  <2>1. old \in (0..N) \cup FileSizes
    BY <1>4 DEF Entries
  <2> HIDE DEF new, old
  <2>2. QED BY <1>4, <1>6, <1>7, <2>1
<1>9. BlockCount(old) <= BlockCount(new)
  BY <1>4, <1>7, <1>8, CountClimbs
<1>10. PICK x \in during_write(f, grows, g, new, s[1], s[2], t) : index' = x.index /\ data' = x.data
  BY <1>1
<1> HIDE DEF new
<1>11. (grows <=> BlockCount(new) > BlockCount(old)) /\ g = IF grows THEN Grow(f, new) ELSE InPlace(f)
  OBVIOUS
<1> HIDE DEF g, grows
<1>12. Saved(x.index, x.data, f, (s[1] + 1)..(s[1] + s[2]))
  BY <1>1, <1>2, <1>3, <1>5, <1>7, <1>8, <1>9, <1>11, WriteSaves
<1>13. QED BY <1>1, <1>10, <1>12 DEF Saved, Untouched

(* sfs_truncate() *)
LEMMA TruncateUntouched ==
  ASSUME NEW tidy, IInv(tidy), SP!IInv, NEW f \in Slots, NEW new \in Lengths,
         DieInTruncate(f, new)
  PROVE  Untouched
<1> DEFINE e     == index[f]
           grows == BlockCount(new) > BlockCount(e.size)
           a     == del_file_list_add(fs, e.start_block, e.end_block)
           z     == [InPlace(f) EXCEPT !.start = 0, !.end = 0, !.u = a.u]
           g     == CASE new = 0 -> z [] grows -> Grow(f, new) [] OTHER -> InPlace(f)
           im    == during_write(f, grows, g, new, 0, 0, Fresh)
           jm    == IF new # 0 THEN {} ELSE Images(during_add(fs, e.start_block, e.end_block), data)
<1>1. /\ f \in Handles /\ ~Shrinks(f, new) /\ g.ok /\ torn'.file = f /\ torn'.span = {}
      /\ \E x \in im \cup jm : index' = x.index /\ data' = x.data
  <2> DEFINE in == [InCall("truncate", f) EXCEPT !.frees = e.start_block \notin {0, g.start}]
  <2>1. f \in Handles /\ ~Shrinks(f, new) /\ g.ok /\ Dies(im \cup jm, in)
    BY DEF DieInTruncate
  <2> HIDE DEF im, jm, g
  <2>2. (\E x \in im \cup jm : index' = x.index /\ data' = x.data) /\ torn' = in
    BY <2>1 DEF Dies
  <2>3. torn'.file = f /\ torn'.span = {}
    BY <2>2 DEF InCall
  <2>4. QED BY <2>1, <2>2, <2>3
<1>2. InOrder(tidy, fs) /\ data \in Contents
  BY DEF IInv, Contents
<1>3. IsFile(e)
  BY <1>1 DEF Handles, IsFile
<1>4. fs.index = index /\ e.size \in Nat
  BY <1>2, <1>3, OrderShaped DEF fs, InOrder, Entered, EntryOK
<1>5. new \in Nat /\ new \in (0..N) \cup FileSizes
  BY SfsAssumption DEF FileSizes
<1>6. BlockCount(new) \in Nat /\ BlockCount(e.size) \in Nat /\ (new = 0 <=> BlockCount(new) = 0)
  BY <1>4, <1>5, BlockCounts
<1>7. new # 0 => BlockCount(e.size) <= BlockCount(new)
  BY <1>1, <1>6 DEF Shrinks
<1>8. PICK x \in im \cup jm : index' = x.index /\ data' = x.data
  BY <1>1
<1>9. PICK q \in Nat : q = 0
  OBVIOUS
<1>10. CASE new # 0
  <2>1. x \in during_write(f, grows, g, new, q, q, Fresh)
    <3> HIDE DEF g, grows
    <3>1. QED BY <1>8, <1>9, <1>10
  <2>2. g = IF grows THEN Grow(f, new) ELSE InPlace(f)
    BY <1>10
  <2>3. grows <=> BlockCount(new) > BlockCount(index[f].size)
    OBVIOUS
  <2> HIDE DEF g, grows, e
  <2>4. new \in Nat \ {0} /\ BlockCount(index[f].size) <= BlockCount(new) /\ IsFile(index[f])
    BY <1>3, <1>5, <1>7, <1>10 DEF e
  <2>5. Saved(x.index, x.data, f, (q + 1)..(q + q))
    BY <1>1, <1>2, <1>5, <1>9, <2>1, <2>2, <2>3, <2>4, WriteSaves
  <2>6. (q + 1)..(q + q) = {}
    BY <1>9
  <2>7. QED BY <1>1, <1>8, <2>5, <2>6 DEF Saved, Untouched
<1>11. CASE new = 0
  <2>1. ~grows
    BY <1>6, <1>11
  <2>2. g.start = 0 /\ g.end = 0 /\ g.u = a.u /\ g.data = data
    <3>1. g = z
      <4> HIDE DEF z, grows
      <4>1. QED BY <1>11, <2>1
    <3> HIDE DEF g, a
    <3>2. QED BY <3>1 DEF InPlace
  <2>3. a = del_file_list_add(fs, index[f].start_block, index[f].end_block) /\ IsFile(index[f])
    BY <1>3
  <2>4. \/ x \in during_write(f, grows, g, 0, q, q, Fresh)
        \/ x \in Images(during_add(fs, index[f].start_block, index[f].end_block), data)
    <3> HIDE DEF g, grows
    <3>1. QED BY <1>8, <1>9, <1>11
  <2> HIDE DEF g, grows, e, a
  <2>5. \A span : Saved(x.index, x.data, f, span)
    BY <1>2, <1>9, <2>1, <2>2, <2>3, <2>4, EmptySaves
  <2>6. QED BY <1>1, <1>8, <2>5 DEF Saved, Untouched
<1>12. QED BY <1>10, <1>11

(* and so for every call that a crash interrupts. *)
LEMMA CrashUntouched ==
  ASSUME NEW tidy, IInv(tidy), SP!IInv, Crash
  PROVE  Untouched
<1>1. CASE DieInFileCalls \/ DieInDirCalls
  BY <1>1, CallsUntouched
<1>2. CASE \E f \in Slots : DieInDelete(f)
  BY <1>2, DeleteUntouched
<1>3. CASE \E f \in Slots, p \in FilePaths : DieInRename(f, p)
  BY <1>3, DeleteUntouched
<1>4. CASE \E f \in Slots, s \in Spans, t \in Tokens : DieInWrite(f, s[1], s[2], t)
  BY <1>4, WriteUntouched
<1>5. CASE \E f \in Slots, new \in Lengths : DieInTruncate(f, new)
  BY <1>5, TruncateUntouched
<1>6. QED BY <1>1, <1>2, <1>3, <1>4, <1>5 DEF Crash

(* The first crash leaves every other file as it was, and of its own file,  *)
(* if the call changes data or unlinks, every byte that the call was not    *)
(* asked to change: CrashSparesFiles.  One in a mount leaves the bytes of   *)
(* all files, and what it has changed of an entry is the type.              *)
THEOREM CrashesSpareFiles == MountSpec => CrashSparesFiles
<1> DEFINE Unharmed(f) ==
      /\ f # torn'.file =>
            /\ \/ index'[f] = index[f]
               \/ torn'.call = "mount" /\ index'[f] = fix_del_file(index[f])
            /\ Content(f)' = Content(f)
      /\ f = torn'.file /\ torn'.call \in {"write", "truncate", "unlink"} =>
            \A k \in DOMAIN Content(f) \cap DOMAIN Content(f)' :
                k \notin torn'.span => Content(f)'[k] = Content(f)[k]
<1>1. MInv /\ [MountNext]_mvars => [crashed' /\ ~crashed => \A f \in Handles : Unharmed(f)]_mvars
  <2> SUFFICES ASSUME MInv, [MountNext]_mvars, crashed', ~crashed, NEW f \in Handles
               PROVE  Unharmed(f)
    OBVIOUS
  <2>1. f \in Slots /\ IsFile(index[f])
    BY DEF Handles, IsFile
  <2>2. /\ Content(f) = [k \in 1..index[f].size |-> data[Spot(index[f], k)]]
        /\ Content(f)' = [k \in 1..index'[f].size |-> data'[Spot(index'[f], k)]]
    BY DEF Content, Spot
  <2>3. CASE Torn /\ Untouched
    <3>1. ASSUME f # torn'.file PROVE index'[f] = index[f] /\ Content(f)' = Content(f)
      <4>1. index'[f] = index[f]
        BY <2>1, <2>3, <3>1 DEF Torn, Wreck
      <4>2. \A k \in 1..index[f].size : data'[Spot(index[f], k)] = data[Spot(index[f], k)]
        BY <2>1, <2>3, <3>1 DEF Untouched, OthersKept
      <4>3. QED BY <2>2, <4>1, <4>2
    <3>2. ASSUME f = torn'.file, torn'.call \in {"write", "truncate", "unlink"},
                 NEW k \in DOMAIN Content(f) \cap DOMAIN Content(f)', k \notin torn'.span
          PROVE  Content(f)'[k] = Content(f)[k]
      <4>1. k \in (1..index[f].size) \cap (1..index'[f].size)
        BY <2>2, <3>2
      <4>2. data'[Spot(index'[f], k)] = data[Spot(index[f], k)]
        BY <2>1, <2>3, <3>2, <4>1 DEF Untouched, OwnKept, DataCalls
      <4>3. QED BY <2>2, <4>1, <4>2
    <3>3. QED BY <3>1, <3>2
  <2>4. CASE DieInMount
    <3>1. /\ index'[f] = index[f] \/ index'[f] = fix_del_file(index[f])
          /\ index[f] \in Entries /\ Fixed(index'[f], index[f])
          /\ data' = data /\ torn'.call = "mount" /\ torn'.file = 0
      BY <2>1, <2>4, MountTorn DEF InCall
    <3>2. index'[f].size = index[f].size /\ index'[f].start_block = index[f].start_block
      BY <3>1, FixedKind
    <3>3. Content(f)' = Content(f)
      BY <3>1, <3>2 DEF Content
    <3>4. QED BY <3>1, <3>3
  <2>5. QED BY <2>3, <2>4, FirstCrash, CrashTorn, CrashUntouched
<1>2. QED BY <1>1, MountsFindOrder, PTL DEF MountSpec, CrashSparesFiles

=============================================================================
