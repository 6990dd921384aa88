----------------------- MODULE CheatParserFactoryProofs -----------------------
(* For any documents, limits and faults: whatever the parsers do with a CheatFile, it *)
(* owns its blocks exactly, stays within its limits, no text in the clear is left       *)
(* behind, and a load gives just what its document says. First what each operation of   *)
(* CheatFile keeps: Good, which has OwnsExactly and most of WithinLimits in it; slots   *)
(* and blocks are argued about as values (Owned), so that a step is a fact about EXCEPT *)
(* and not about primes. Then Inv, which says in which states of a parser it holds a    *)
(* reference, and what is known of the slot it leads to; and WipeInv, which says where  *)
(* decrypted text may be. Then GivenInv, which says of each parser, wherever it is in   *)
(* the document, that what it has published and what it has put into the slot are what  *)
(* the part it has passed says.                                                         *)
EXTENDS CheatParserFactory, TLAPS, FiniteSetTheorems, SequenceTheorems, WellFoundedInduction

-----------------------------------------------------------------------------
(* The operations of CheatFile. *)

Entries == [id : Nat, text : Nat, author : Nat,
            patches : Nat, patch_count : Nat, patch_capacity : Nat]
Files == [named : BOOLEAN, authors : Seq(Nat),
          cheats : Nat, cheat_count : Nat, cheat_capacity : Nat]

\* entry e and the patches it has in the blocks h
Holds(e, h) ==
  /\ e.patch_count <= e.patch_capacity /\ e.patch_capacity <= MaxPatches
  /\ IF e.patches = None THEN e.patch_capacity = 0
     ELSE e.patches \in DOMAIN h /\ DOMAIN h[e.patches] = 1..e.patch_capacity
\* the slots s own the blocks h, all of them older than f
Owned(s, h, n, f) ==
  /\ n \in Nat /\ s \in [1..n -> Entries] /\ f \in Nat \ {0}
  /\ h = [b \in DOMAIN h |-> h[b]]
  /\ \A k \in 1..n : Holds(s[k], h) /\ s[k].patches < f
  /\ \A b \in DOMAIN h : b # None /\ \E k \in 1..n : s[k].patches = b
  /\ \A j, k \in 1..n : j # k /\ s[j].patches # None => s[j].patches # s[k].patches

Typed ==
  /\ file \in Files /\ cheat \in [block : Nat, at : Nat]
  /\ file.cheat_count <= file.cheat_capacity /\ file.cheat_capacity <= MaxCheats
  /\ file.cheats < fresh /\ (file.cheats = None <=> file.cheat_capacity = 0)
  /\ cheatBlocks \in [{file.cheats} \ {None} -> [1..file.cheat_capacity -> Entries]]
\* only the slot being filled has patches beyond the cheats that are published
Filling ==
  /\ cheat # NoRef => cheat = RefIn(file.cheats) /\ cheat.at <= file.cheat_capacity
  /\ \A k \in 1..file.cheat_capacity :
       k > file.cheat_count /\ Slots[k].patches # None => cheat # NoRef /\ k = cheat.at
Good == Typed /\ Filling /\ Owned(Slots, patchBlocks, file.cheat_capacity, fresh)

-----------------------------------------------------------------------------
(* The slots as values. *)

LEMMA SlotsAre ==
  ASSUME Typed
  PROVE  /\ Slots \in [1..file.cheat_capacity -> Entries]
         /\ DOMAIN Slots = 1..file.cheat_capacity
         /\ file.cheats # None => Slots = cheatBlocks[file.cheats]
<1>1. CASE file.cheats = None
  <2>1. file.cheat_capacity = 0 /\ 1..0 = {}  BY <1>1 DEF Typed, Files
  <2>2. Slots = << >>                         BY <1>1 DEF Slots
  <2> QED  BY <1>1, <2>1, <2>2
<1>2. CASE file.cheats # None
  BY <1>2 DEF Typed, Slots, Files
<1> QED  BY <1>1, <1>2

\* the entry referred to is the first slot that is not published
LEMMA EntryIs ==
  ASSUME Good, cheat # NoRef
  PROVE  /\ cheat.at \in 1..file.cheat_capacity /\ cheat.at = file.cheat_count + 1
         /\ cheat.block = file.cheats /\ file.cheats # None
         /\ Entry = Slots[cheat.at] /\ Entry \in Entries /\ Holds(Entry, patchBlocks)
<1>1. cheat.block = file.cheats /\ cheat.at = file.cheat_count + 1
  BY DEF Good, Filling, RefIn
<1>2. cheat.at \in 1..file.cheat_capacity  BY <1>1 DEF Good, Filling, Typed, Files
<1>3. file.cheats # None                   BY <1>2 DEF Good, Typed, Files
<1> QED  BY <1>1, <1>2, <1>3, SlotsAre DEF Good, Owned, Entry

-----------------------------------------------------------------------------
(* What changes a slot, or a block. *)

\* a slot without patches may be given any texts
LEMMA SetKeeps ==
  ASSUME NEW s, NEW h, NEW n, NEW f, Owned(s, h, n, f), NEW k \in 1..n, NEW e \in Entries,
         s[k].patches = None, e.patches = None, e.patch_count = 0, e.patch_capacity = 0,
         MaxPatches \in Nat
  PROVE  Owned([s EXCEPT ![k] = e], h, n, f)
BY DEF Owned, Holds, None

\* a slot's count, id and texts may change within its capacity
LEMMA FieldsKeep ==
  ASSUME NEW s, NEW h, NEW n, NEW f, Owned(s, h, n, f), NEW k \in 1..n, NEW e \in Entries,
         e.patches = s[k].patches, e.patch_capacity = s[k].patch_capacity,
         e.patch_count <= e.patch_capacity
  PROVE  Owned([s EXCEPT ![k] = e], h, n, f)
BY DEF Owned, Holds, None

\* free of the block of one slot
LEMMA FreeKeeps ==
  ASSUME NEW s, NEW h, NEW n, NEW f, Owned(s, h, n, f), NEW k \in 1..n, NEW e \in Entries,
         e.patches = None, e.patch_count = 0, e.patch_capacity = 0, MaxPatches \in Nat
  PROVE  Owned([s EXCEPT ![k] = e], Without(h, {s[k].patches}), n, f)
BY DEF Owned, Holds, None, Without

\* an array of cheats that grows: the slots so far, and blank ones
LEMMA MoreSlots ==
  ASSUME NEW s, NEW h, NEW n, NEW f, Owned(s, h, n, f), NEW m \in Nat, n <= m,
         MaxPatches \in Nat
  PROVE  Owned([k \in 1..m |-> IF k \in 1..n THEN s[k] ELSE NoCheat], h, m, f + 1)
BY DEF Owned, Holds, None, NoCheat, Entries
-----------------------------------------------------------------------------
(* What the operations do to the slots. *)

\* one slot is written
LEMMA WriteSlot ==
  ASSUME Good, cheat # NoRef, NEW e \in Entries, file' = file,
         cheatBlocks' = [cheatBlocks EXCEPT ![cheat.block][cheat.at] = e]
  PROVE  /\ Slots' = [Slots EXCEPT ![cheat.at] = e]
         /\ cheatBlocks' \in [{file.cheats} \ {None} -> [1..file.cheat_capacity -> Entries]]
         /\ Slots'[cheat.at] = e
<1>1. cheatBlocks \in [{file.cheats} -> [1..file.cheat_capacity -> Entries]]
  BY EntryIs DEF Good, Typed
<1>2. cheat.at \in 1..file.cheat_capacity /\ cheat.block = file.cheats /\ file.cheats # None
  BY EntryIs
<1>3. Slots = cheatBlocks[file.cheats] /\ Slots' = cheatBlocks'[file.cheats]
  BY <1>2 DEF Slots
<1> QED  BY <1>1, <1>2, <1>3

\* clear_cheat_file leaves an empty file and no block
LEMMA ClearKeeps ==
  ASSUME CapacityAssumption, Good, Clear
  PROVE  Good' /\ cheat' = NoRef
<1>1. file' = NoFile /\ cheat' = NoRef /\ fresh' = 1  BY DEF Clear
<1>2. cheatBlocks' \in [{} -> [1..0 -> Entries]]
  BY DEF Clear, Without, Good, Typed
<1>3. DOMAIN patchBlocks' = {} /\ patchBlocks' = [b \in {} |-> patchBlocks'[b]]
  <2>1. \A b \in DOMAIN patchBlocks : b \in {Slots[k].patches : k \in DOMAIN Slots}
    BY SlotsAre DEF Good, Owned
  <2> QED  BY <2>1 DEF Clear, Without
<1>4. Slots' = <<>> /\ 1..0 = {}  BY <1>1 DEF Slots, NoFile
<1>5. Typed'
  BY <1>1, <1>2, <1>4 DEF Typed, NoFile, NoRef, Files, None, CapacityAssumption
<1>6. Filling'  BY <1>1, <1>4 DEF Filling, NoFile
<1>7. Owned(Slots', patchBlocks', 0, 1)
  BY <1>3, <1>4 DEF Owned
<1> QED  BY <1>1, <1>5, <1>6, <1>7 DEF Good, NoFile

\* ensure_cheat finds or makes a slot without patches
LEMMA EnsureCheatKeeps ==
  ASSUME CapacityAssumption, Good, cheat = NoRef, EnsureCheat
  PROVE  Good' /\ cheat' # NoRef /\ Entry'.patches = None
<1>1. \A k \in 1..file.cheat_capacity : k > file.cheat_count => Slots[k].patches = None
  BY DEF Good, Filling
<1>2. CASE TakeSlot
  <2>1. file' = file /\ cheatBlocks' = cheatBlocks /\ patchBlocks' = patchBlocks
        /\ fresh' = fresh /\ Slots' = Slots
    BY <1>2 DEF TakeSlot, blocks, Slots
  <2>2. cheat' = [block |-> file.cheats, at |-> file.cheat_count + 1]
        /\ file.cheat_count + 1 \in 1..file.cheat_capacity
    BY <1>2 DEF TakeSlot, SlotFree, RefIn, Good, Typed, Files
  <2>3. Typed'  BY <2>1, <2>2 DEF Good, Typed, Files
  <2>4. file.cheats # None /\ cheat' # NoRef
    BY <2>2 DEF Good, Typed, Files, NoRef, None
  <2>5. Filling'  BY <1>1, <2>1, <2>2, <2>4 DEF Filling, RefIn
  <2>6. Owned(Slots', patchBlocks', file'.cheat_capacity, fresh')
    BY <2>1 DEF Good
  <2>7. Entry' = Slots[file.cheat_count + 1]
    BY <2>1, <2>2, <2>4, SlotsAre DEF Entry, Good
  <2>8. Entry'.patches = None
    BY <1>1, <2>2, <2>7 DEF Good, Typed, Files
  <2> QED  BY <2>3, <2>4, <2>5, <2>6, <2>8 DEF Good
<1>3. CASE GrowCheats
  <2> DEFINE n == Doubled(file.cheat_capacity, MaxCheats)
             s == [k \in 1..n |-> IF k \in 1..file.cheat_capacity THEN Slots[k] ELSE NoCheat]
  <2>1. n \in Nat /\ file.cheat_capacity < n /\ n <= MaxCheats
    BY <1>3 DEF GrowCheats, MayGrow, Doubled, CapacityAssumption, Good, Typed, Files
  <2>2. fresh \in Nat \ {0} /\ file.cheats \in Nat /\ file.cheats < fresh
        /\ file.cheat_count = file.cheat_capacity
    BY <1>3 DEF GrowCheats, SlotFree, Good, Typed, Owned, Files
  <2>3. file' = [file EXCEPT !.cheats = fresh, !.cheat_capacity = n]
        /\ fresh' = fresh + 1 /\ patchBlocks' = patchBlocks
        /\ cheat' = [block |-> fresh, at |-> file.cheat_count + 1]
        /\ cheatBlocks' = Moved(cheatBlocks, file.cheats, NoCheat, n)
    BY <1>3 DEF GrowCheats, RefIn
  <2>4. file' \in Files /\ file'.cheats = fresh /\ file'.cheat_capacity = n
        /\ file'.cheat_count = file.cheat_count
    BY <2>1, <2>2, <2>3 DEF Good, Typed, Files
  <2>5. DOMAIN cheatBlocks \ {file.cheats} = {}
    BY DEF Good, Typed
  <2>6. file.cheat_capacity # 0 =>
          DOMAIN cheatBlocks = {file.cheats} /\ DOMAIN cheatBlocks[file.cheats] = 1..file.cheat_capacity
          /\ Slots = cheatBlocks[file.cheats]
    BY SlotsAre DEF Good, Typed, Files
  <2>7. file.cheat_capacity = 0 => DOMAIN cheatBlocks = {}
    BY DEF Good, Typed
  <2>8. cheatBlocks' = [x \in {fresh} |-> s]
    <3>1. CASE file.cheat_capacity = 0
      <4>1. 1..file.cheat_capacity = {}  BY <3>1
      <4> QED  BY <4>1, <2>3, <2>5, <2>7, <3>1 DEF Moved
    <3>2. CASE file.cheat_capacity # 0
      BY <2>3, <2>5, <2>6, <3>2 DEF Moved
    <3> QED  BY <3>1, <3>2
  <2>9. Slots' = s
    BY <2>2, <2>4, <2>8 DEF Slots, None
  <2>10. Owned(s, patchBlocks, n, fresh + 1)
    <3>1. Owned(Slots, patchBlocks, file.cheat_capacity, fresh) /\ MaxPatches \in Nat
      BY DEF Good, CapacityAssumption
    <3>2. file.cheat_capacity <= n  BY <2>1 DEF Good, Typed, Files
    <3> HIDE DEF n
    <3> QED  BY <3>1, <3>2, <2>1, MoreSlots
  <2>11. s \in [1..n -> Entries]  BY <2>10 DEF Owned
  <2> HIDE DEF n, s
  <2>12. Typed'
    <3>1. cheatBlocks' \in [{fresh} -> [1..n -> Entries]] /\ {fresh} \ {None} = {fresh}
      BY <2>2, <2>8, <2>11 DEF None
    <3>2. cheat' \in [block : Nat, at : Nat]
      BY <2>2, <2>3 DEF Good, Typed, Files
    <3>3. /\ file'.cheat_count <= n /\ n <= MaxCheats /\ fresh < fresh + 1
          /\ fresh # None /\ n # 0
      BY <2>1, <2>2, <2>4 DEF Good, Typed, Files, None
    <3> QED  BY <2>3, <2>4, <3>1, <3>2, <3>3 DEF Typed
  <2>13. cheat' # NoRef /\ Filling'
    <3>1. \A k \in 1..n : k > file.cheat_count /\ s[k].patches # None => k = file.cheat_count + 1
      BY <2>2, <2>1 DEF s, NoCheat, None, Good, Typed, Files
    <3>2. file.cheat_count + 1 <= n /\ fresh # 0  BY <2>1, <2>2 DEF Good, Typed, Files
    <3>3. cheat' # NoRef  BY <2>3, <3>2 DEF NoRef, None
    <3>4. cheat'.at = file.cheat_count + 1 /\ cheat' = [block |-> file'.cheats, at |-> file'.cheat_count + 1]
      BY <2>3, <2>4
    <3> QED  BY <3>1, <3>2, <3>3, <3>4, <2>4, <2>9 DEF Filling, RefIn
  <2>14. Entry'.patches = None
    <3>1. Entry' = s[file.cheat_count + 1]  BY <2>3, <2>8 DEF Entry
    <3>2. file.cheat_count + 1 \in 1..n /\ file.cheat_count + 1 \notin 1..file.cheat_capacity
      BY <2>1, <2>2 DEF Good, Typed, Files
    <3> QED  BY <3>1, <3>2 DEF s, NoCheat
  <2> QED
    BY <2>3, <2>4, <2>9, <2>10, <2>12, <2>13, <2>14 DEF Good
<1> QED  BY <1>2, <1>3 DEF EnsureCheat

\* a write to the slot being filled keeps what is Typed, and Filling
LEMMA FillKeeps ==
  ASSUME Good, cheat # NoRef, NEW e \in Entries, file' = file, fresh' \in Nat, fresh <= fresh',
         cheatBlocks' = [cheatBlocks EXCEPT ![cheat.block][cheat.at] = e]
  PROVE  /\ cheat' = cheat => Typed' /\ Filling'
         /\ cheat' = NoRef /\ e.patches = None => Typed' /\ Filling'
<1>1. Slots' = [Slots EXCEPT ![cheat.at] = e]  BY WriteSlot
<1>2. cheatBlocks' \in [{file.cheats} \ {None} -> [1..file.cheat_capacity -> Entries]]
  BY WriteSlot
<1>3. Slots \in [1..file.cheat_capacity -> Entries]  BY SlotsAre DEF Good
<1>4. ASSUME cheat' \in [block : Nat, at : Nat] PROVE Typed'
  BY <1>2, <1>4 DEF Good, Typed, Files, Owned
<1>5. NoRef \in [block : Nat, at : Nat]  BY DEF NoRef, None
<1>6. \A k \in 1..file.cheat_capacity :
        k > file.cheat_count /\ Slots[k].patches # None => k = cheat.at
  BY DEF Good, Filling
<1>7. ASSUME cheat' = cheat PROVE Filling'
  BY <1>1, <1>3, <1>6, <1>7 DEF Good, Filling, RefIn
<1>8. ASSUME cheat' = NoRef, e.patches = None PROVE Filling'
  BY <1>1, <1>3, <1>6, <1>8 DEF Filling
<1> QED  BY <1>4, <1>5, <1>7, <1>8 DEF Good, Typed

\* memset and the texts, on a slot without patches
LEMMA SetEntryKeeps ==
  ASSUME CapacityAssumption, Good, cheat # NoRef, Entry.patches = None, NEW e \in Entries,
         e.patches = None, e.patch_count = 0, e.patch_capacity = 0,
         SetEntry(e), UNCHANGED <<patchBlocks, cheat>>
  PROVE  Good' /\ Entry'.patches = None
<1>1. file' = file /\ fresh' = fresh /\ fresh' \in Nat /\ fresh <= fresh'
  BY DEF SetEntry, Good, Owned
<1>2. cheatBlocks' = [cheatBlocks EXCEPT ![cheat.block][cheat.at] = e]  BY DEF SetEntry
<1>3. Typed' /\ Filling'  BY <1>1, <1>2, FillKeeps
<1>4. Slots' = [Slots EXCEPT ![cheat.at] = e]  BY <1>1, <1>2, WriteSlot
<1>5. cheat.at \in 1..file.cheat_capacity /\ Entry = Slots[cheat.at]  BY EntryIs
<1>6. Owned(Slots', patchBlocks, file.cheat_capacity, fresh)
  BY <1>4, <1>5, SetKeeps DEF Good, CapacityAssumption
<1>7. Entry' = e  BY <1>2, <1>5, EntryIs DEF Entry, Good, Typed
<1> QED  BY <1>1, <1>3, <1>6, <1>7 DEF Good

\* clear_pending_entry, and a reference that is kept or given up
LEMMA ClearPendingKeeps ==
  ASSUME CapacityAssumption, Good, cheat # NoRef, NEW e \in Entries,
         e.patches = None, e.patch_count = 0, e.patch_capacity = 0, SetEntry(e),
         patchBlocks' = Without(patchBlocks, {Entry.patches}), cheat' = cheat \/ cheat' = NoRef
  PROVE  Good' /\ (cheat' = cheat => Entry'.patches = None)
<1>1. file' = file /\ fresh' = fresh /\ fresh' \in Nat /\ fresh <= fresh'
  BY DEF SetEntry, Good, Owned
<1>2. cheatBlocks' = [cheatBlocks EXCEPT ![cheat.block][cheat.at] = e]  BY DEF SetEntry
<1>3. Typed' /\ Filling'  BY <1>1, <1>2, FillKeeps
<1>4. Slots' = [Slots EXCEPT ![cheat.at] = e]  BY <1>1, <1>2, WriteSlot
<1>5. cheat.at \in 1..file.cheat_capacity /\ Entry = Slots[cheat.at]  BY EntryIs
<1>6. Owned(Slots', patchBlocks', file.cheat_capacity, fresh)
  BY <1>4, <1>5, FreeKeeps DEF Good, CapacityAssumption
<1>7. cheat' = cheat => Entry' = e  BY <1>2, <1>5, EntryIs DEF Entry, Good, Typed
<1> QED  BY <1>1, <1>3, <1>6, <1>7 DEF Good

\* a cheat is published
LEMMA PublishKeeps ==
  ASSUME CapacityAssumption, Good, cheat # NoRef, Publish
  PROVE  Good' /\ cheat' = NoRef
<1> DEFINE e == Identified
           as == AddAuthor(file.authors, Entry.author)
<1>1. cheatBlocks' = [cheatBlocks EXCEPT ![cheat.block][cheat.at] = e]
      /\ fresh' = fresh /\ patchBlocks' = patchBlocks /\ cheat' = NoRef
      /\ file' = [file EXCEPT !.cheat_count = @ + 1, !.authors = as]
  BY DEF Publish
<1>2. Entry \in Entries /\ cheat.at = file.cheat_count + 1
      /\ cheat.at \in 1..file.cheat_capacity /\ Entry = Slots[cheat.at]
  BY EntryIs
<1>3. e = [Entry EXCEPT !.id = file.cheat_count]  BY DEF Identified
<1>4. e \in Entries /\ e.patches = Entry.patches /\ e.patch_count = Entry.patch_count
      /\ e.patch_capacity = Entry.patch_capacity
  BY <1>2, <1>3 DEF Entries, Good, Typed, Files
<1>5. as \in Seq(Nat)
  BY <1>2 DEF AddAuthor, Entries, Good, Typed, Files
<1> HIDE DEF as
<1>6. file' \in Files /\ file'.cheats = file.cheats /\ file'.cheat_capacity = file.cheat_capacity
      /\ file'.cheat_count = file.cheat_count + 1
  <2>1. file \in Files /\ file.cheat_count + 1 \in Nat  BY DEF Good, Typed, Files
  <2>2. file' = [file EXCEPT !.cheat_count = file.cheat_count + 1, !.authors = as]  BY <1>1
  <2>3. file' \in Files  BY <1>5, <2>1, <2>2 DEF Files
  <2> QED  BY <2>1, <2>2, <2>3 DEF Files
<1>7. Slots' = [Slots EXCEPT ![cheat.at] = e]
      /\ cheatBlocks' \in [{file.cheats} \ {None} -> [1..file.cheat_capacity -> Entries]]
  <2>1. cheatBlocks \in [{file.cheats} -> [1..file.cheat_capacity -> Entries]]
        /\ cheat.block = file.cheats /\ file.cheats # None
    BY EntryIs DEF Good, Typed
  <2>2. Slots = cheatBlocks[file.cheats] /\ Slots' = cheatBlocks'[file.cheats]
    BY <2>1, <1>6 DEF Slots
  <2> QED  BY <2>1, <2>2, <1>1, <1>2, <1>4
<1> HIDE DEF e
<1>8. Typed'  BY <1>1, <1>2, <1>6, <1>7 DEF Good, Typed, Files, NoRef, None
<1>9. Filling'
  <2>1. \A k \in 1..file.cheat_capacity : k > file.cheat_count + 1 => Slots'[k].patches = None
    BY <1>2, <1>7, SlotsAre DEF Good, Filling, Typed, Files
  <2> QED  BY <2>1, <1>1, <1>6 DEF Filling
<1>10. Owned(Slots', patchBlocks, file.cheat_capacity, fresh)
  <2>1. e.patch_count <= e.patch_capacity  BY <1>4, EntryIs DEF Holds
  <2> QED  BY <2>1, <1>2, <1>4, <1>7, FieldsKeep DEF Good
<1> QED  BY <1>1, <1>6, <1>8, <1>9, <1>10 DEF Good

\* nothing but the name or the authors of the file changes
LEMMA NamesKeep ==
  ASSUME Good, NEW named \in BOOLEAN, NEW as \in Seq(Nat),
         file' = [file EXCEPT !.named = named, !.authors = as], UNCHANGED <<blocks, cheat>>
  PROVE  Good' /\ Entry' = Entry
<1>1. file \in Files  BY DEF Good, Typed
<1>2. file' \in Files  BY <1>1 DEF Files
<1>3. /\ file'.cheats = file.cheats /\ file'.cheat_capacity = file.cheat_capacity
      /\ file'.cheat_count = file.cheat_count
  BY <1>1 DEF Files
<1>4. /\ cheatBlocks' = cheatBlocks /\ patchBlocks' = patchBlocks /\ fresh' = fresh
      /\ cheat' = cheat
  BY DEF blocks
<1>5. Slots' = Slots  BY <1>3, <1>4 DEF Slots
<1>6. Typed'  BY <1>2, <1>3, <1>4 DEF Good, Typed
<1>7. Filling'  BY <1>3, <1>4, <1>5 DEF Good, Filling, RefIn
<1>8. Entry' = Entry  BY <1>4 DEF Entry
<1> QED  BY <1>3, <1>4, <1>5, <1>6, <1>7, <1>8 DEF Good

\* the slot is given up, for the next one to take
LEMMA DropKeeps ==
  ASSUME Good, cheat # NoRef, Entry.patches = None, cheat' = NoRef, UNCHANGED <<file, blocks>>
  PROVE  Good'
<1>1. /\ cheatBlocks' = cheatBlocks /\ patchBlocks' = patchBlocks /\ fresh' = fresh
      /\ file' = file
  BY DEF blocks
<1>2. Slots' = Slots  BY <1>1 DEF Slots
<1>3. cheat' \in [block : Nat, at : Nat]  BY DEF NoRef, None
<1>4. Typed'  BY <1>1, <1>3 DEF Good, Typed
<1>5. Slots[cheat.at].patches = None  BY EntryIs
<1>6. Filling'  BY <1>1, <1>2, <1>5 DEF Good, Filling
<1> QED  BY <1>1, <1>2, <1>4, <1>6 DEF Good

\* ensure_patch leaves room for one more
LEMMA EnsurePatchKeeps ==
  ASSUME CapacityAssumption, Good, cheat # NoRef, EnsurePatch
  PROVE  Good' /\ cheat' = cheat /\ Entry'.patch_count < Entry'.patch_capacity
<1>1. CASE PatchFree /\ UNCHANGED fileVars
  <2>1. /\ cheatBlocks' = cheatBlocks /\ patchBlocks' = patchBlocks /\ fresh' = fresh
        /\ file' = file /\ cheat' = cheat
    BY <1>1 DEF fileVars, blocks
  <2>2. Slots' = Slots /\ Entry' = Entry  BY <2>1 DEF Slots, Entry
  <2>3. Good'  BY <2>1, <2>2 DEF Good, Typed, Filling, RefIn
  <2> QED  BY <1>1, <2>1, <2>2, <2>3 DEF PatchFree
<1>2. CASE GrowPatches
  <2> DEFINE k == cheat.at
             n == Doubled(Entry.patch_capacity, MaxPatches)
             e == [Entry EXCEPT !.patches = fresh, !.patch_capacity = n]
             s == [Slots EXCEPT ![k] = e]
             h == Moved(patchBlocks, Entry.patches, NoPatch, n)
  <2>1. /\ k \in 1..file.cheat_capacity /\ Entry = Slots[k] /\ Entry \in Entries
        /\ Holds(Entry, patchBlocks) /\ cheat.block = file.cheats
    BY EntryIs
  <2>2. fresh \in Nat \ {0} /\ fresh + 1 \in Nat /\ fresh <= fresh + 1
    BY DEF Good, Owned
  <2>3. /\ n \in Nat /\ Entry.patch_capacity < n /\ n <= MaxPatches
        /\ Entry.patch_count \in Nat /\ Entry.patch_count < n
    <3>1. /\ Entry.patch_capacity \in Nat /\ Entry.patch_count \in Nat
          /\ Entry.patch_count <= Entry.patch_capacity
      BY <2>1 DEF Entries, Holds
    <3>2. Entry.patch_capacity < MaxPatches  BY <1>2 DEF GrowPatches, MayGrowPatches
    <3>3. n \in Nat /\ Entry.patch_capacity < n /\ n <= MaxPatches
      BY <3>1, <3>2 DEF Doubled, CapacityAssumption
    <3> HIDE DEF n
    <3> QED  BY <3>1, <3>3
  <2>4. e \in Entries /\ e.patches = fresh /\ e.patch_capacity = n
        /\ e.patch_count = Entry.patch_count
    BY <2>1, <2>2, <2>3 DEF Entries
  <2>5. /\ file' = file /\ cheat' = cheat /\ fresh' = fresh + 1 /\ patchBlocks' = h
    BY <1>2 DEF GrowPatches
  <2>6. cheatBlocks' = [cheatBlocks EXCEPT ![cheat.block][cheat.at] = e]
    BY <1>2, EntryIs DEF GrowPatches, Good, Typed, Entry
  <2> HIDE DEF n, e
  <2>7. Slots' = s  BY <2>4, <2>5, <2>6, WriteSlot
  <2>8. Typed' /\ Filling'
    BY <2>2, <2>4, <2>5, <2>6, FillKeeps
  <2>9. Entry'.patch_count < Entry'.patch_capacity
    <3>1. Entry' = e  BY <2>1, <2>5, <2>6, EntryIs DEF Entry, Good, Typed
    <3> QED  BY <2>3, <2>4, <3>1
  <2>10. Owned(s, h, file.cheat_capacity, fresh + 1)
    <3>1. Owned(Slots, patchBlocks, file.cheat_capacity, fresh)  BY DEF Good
    <3>2. DOMAIN h = (DOMAIN patchBlocks \ {Slots[k].patches}) \cup {fresh}
          /\ h[fresh] = [j \in 1..n |-> IF Entry.patches \in DOMAIN patchBlocks
                                           /\ j \in DOMAIN patchBlocks[Entry.patches]
                                        THEN patchBlocks[Entry.patches][j] ELSE NoPatch]
          /\ \A b \in DOMAIN patchBlocks \ {Slots[k].patches} : b # fresh => h[b] = patchBlocks[b]
      BY <2>1 DEF Moved
    <3>0. h = [b \in DOMAIN h |-> h[b]]  BY DEF Moved
    <3>3. DOMAIN h[fresh] = 1..n  BY <3>2
    <3>4. \A j \in 1..file.cheat_capacity : Slots[j].patches < fresh /\ Slots[j] \in Entries
      BY <3>1 DEF Owned
    <3>5. \A b \in DOMAIN patchBlocks : b # fresh
      BY <3>1, <3>4, <2>2 DEF Owned, Entries
    <3>6. s \in [1..file.cheat_capacity -> Entries]  BY <3>1, <2>4 DEF Owned
    <3>7. \A j \in 1..file.cheat_capacity : j # k => s[j] = Slots[j]
      BY <3>6, <3>1 DEF Owned
    <3>8. s[k] = e  BY <2>1, <3>1 DEF Owned
    <3> HIDE DEF h, s
    <3>9. Holds(e, h)
      <4>1. fresh \in DOMAIN h /\ fresh # None  BY <2>2, <3>2 DEF None
      <4>2. e.patch_count <= n  BY <2>3, <2>4
      <4> QED  BY <2>3, <2>4, <3>3, <4>1, <4>2 DEF Holds
    <3>10. ASSUME NEW j \in 1..file.cheat_capacity, j # k PROVE Holds(Slots[j], h)
      <4>1. Holds(Slots[j], patchBlocks)  BY <3>1 DEF Owned
      <4>2. Slots[j].patches # None => Slots[j].patches # Slots[k].patches
        BY <3>1, <3>10, <2>1 DEF Owned
      <4> QED  BY <4>1, <4>2, <3>2, <3>5 DEF Holds
    <3>11. \A j \in 1..file.cheat_capacity : Holds(s[j], h) /\ s[j].patches < fresh + 1
      BY <2>2, <2>4, <3>4, <3>7, <3>8, <3>9, <3>10 DEF Entries
    <3>12. ASSUME NEW b \in DOMAIN h PROVE b # None /\ \E j \in 1..file.cheat_capacity : s[j].patches = b
      <4>1. CASE b = fresh  BY <4>1, <2>1, <2>2, <2>4, <3>8 DEF None
      <4>2. CASE b # fresh
        <5>1. b \in DOMAIN patchBlocks /\ b # Slots[k].patches  BY <4>2, <3>2
        <5>2. b # None /\ \E j \in 1..file.cheat_capacity : Slots[j].patches = b
          BY <5>1, <3>1 DEF Owned
        <5> QED  BY <5>1, <5>2, <3>7
      <4> QED  BY <4>1, <4>2
    <3>13. \A i, j \in 1..file.cheat_capacity : i # j /\ s[i].patches # None => s[i].patches # s[j].patches
      BY <2>1, <2>2, <2>4, <3>1, <3>4, <3>7, <3>8 DEF Owned
    <3>14. file.cheat_capacity \in Nat /\ fresh + 1 \in Nat \ {0}
      BY <2>2 DEF Good, Typed, Files
    <3> QED  BY <3>0, <3>6, <3>11, <3>12, <3>13, <3>14 DEF Owned
  <2> QED  BY <2>5, <2>7, <2>8, <2>9, <2>10 DEF Good
<1> QED  BY <1>1, <1>2 DEF EnsurePatch

\* what is in the blocks of patches says nothing about who owns them
LEMMA SameBlocks ==
  ASSUME NEW s, NEW h, NEW n, NEW f, Owned(s, h, n, f), NEW g, g = [b \in DOMAIN g |-> g[b]],
         DOMAIN g = DOMAIN h, \A b \in DOMAIN h : DOMAIN g[b] = DOMAIN h[b]
  PROVE  Owned(s, g, n, f)
BY DEF Owned, Holds

\* a patch goes into the room there is
LEMMA AddPatchKeeps ==
  ASSUME Good, cheat # NoRef, Entry.patch_count < Entry.patch_capacity, NEW p, AddPatch(p)
  PROVE  Good' /\ cheat' = cheat
<1> DEFINE e == [Entry EXCEPT !.patch_count = @ + 1]
           g == [patchBlocks EXCEPT ![Entry.patches][Entry.patch_count + 1] = p]
<1>1. /\ cheat.at \in 1..file.cheat_capacity /\ Entry = Slots[cheat.at] /\ Entry \in Entries
      /\ Holds(Entry, patchBlocks) /\ cheat.block = file.cheats
  BY EntryIs
<1>2. /\ e \in Entries /\ e.patches = Entry.patches /\ e.patch_count = Entry.patch_count + 1
      /\ e.patch_capacity = Entry.patch_capacity /\ e.patch_count <= e.patch_capacity
  BY <1>1 DEF Entries
<1>3. file' = file /\ cheat' = cheat /\ fresh' = fresh /\ patchBlocks' = g
      /\ fresh' \in Nat /\ fresh <= fresh'
  BY DEF AddPatch, Good, Owned
<1>4. cheatBlocks' = [cheatBlocks EXCEPT ![cheat.block][cheat.at] = e]
  BY EntryIs DEF AddPatch, Good, Typed, Entry
<1> HIDE DEF e
<1>5. Typed' /\ Filling'  BY <1>2, <1>3, <1>4, FillKeeps
<1>6. Slots' = [Slots EXCEPT ![cheat.at] = e]  BY <1>2, <1>3, <1>4, WriteSlot
<1>7. Owned(Slots', patchBlocks, file.cheat_capacity, fresh)
  BY <1>1, <1>2, <1>6, FieldsKeep DEF Good
<1>8. /\ g = [b \in DOMAIN g |-> g[b]] /\ DOMAIN g = DOMAIN patchBlocks
      /\ \A b \in DOMAIN patchBlocks : DOMAIN g[b] = DOMAIN patchBlocks[b]
  BY DEF Good, Owned
<1> HIDE DEF g
<1>9. Owned(Slots', g, file.cheat_capacity, fresh)
  BY <1>7, <1>8, SameBlocks
<1> QED  BY <1>3, <1>5, <1>9 DEF Good

-----------------------------------------------------------------------------
(* What Good says of the file. *)

LEMMA GoodOwns == ASSUME CapacityAssumption, Good PROVE OwnsExactly
<1>1. Slots \in [1..file.cheat_capacity -> Entries] /\ DOMAIN Slots = 1..file.cheat_capacity
  BY SlotsAre DEF Good
<1>2. DOMAIN cheatBlocks = {file.cheats} \ {None}  BY DEF Good, Typed
<1>3. DOMAIN patchBlocks = BlocksOf(Slots)
  <2>1. \A b \in DOMAIN patchBlocks : b # None /\ \E k \in 1..file.cheat_capacity : Slots[k].patches = b
    BY DEF Good, Owned
  <2>2. \A k \in 1..file.cheat_capacity : Slots[k].patches # None => Slots[k].patches \in DOMAIN patchBlocks
    BY DEF Good, Owned, Holds
  <2> QED  BY <1>1, <2>1, <2>2 DEF BlocksOf
<1>4. \A j, k \in DOMAIN Slots :
        j # k /\ Slots[j].patches # None => Slots[j].patches # Slots[k].patches
  BY <1>1 DEF Good, Owned
<1>5. file.cheat_count <= file.cheat_capacity  BY DEF Good, Typed
<1>6. \A k \in DOMAIN Slots :
        /\ Slots[k].patch_count <= Slots[k].patch_capacity
        /\ IF Slots[k].patches = None THEN Slots[k].patch_capacity = 0
           ELSE DOMAIN patchBlocks[Slots[k].patches] = 1..Slots[k].patch_capacity
  BY <1>1 DEF Good, Owned, Holds
<1>7. cheat # NoRef => cheat = RefIn(file.cheats) /\ cheat.at \in DOMAIN Slots
  BY <1>1, EntryIs DEF Good, Filling
<1> QED  BY <1>1, <1>2, <1>3, <1>4, <1>5, <1>6, <1>7 DEF OwnsExactly

LEMMA GoodLimits ==
  ASSUME Good, Len(file.authors) <= MaxAuthors PROVE WithinLimits
BY SlotsAre DEF Good, Typed, Owned, Holds, WithinLimits

-----------------------------------------------------------------------------
(* The parsers at work. *)

\* the parser is filling a slot
Holding == {"json_fields", "json_patch", "json_value", "shn_text", "shn_line", "shn_value",
            "ext_fields", "ext_vars", "ext_value", "ext_close"}
\* which has no patches yet
Blank == {"json_fields", "shn_text", "ext_fields"}
\* which has room for the patch being parsed
Valued == {"json_value", "shn_value", "ext_value"}
JsonAt == {"json", "json_authors", "json_mod", "json_fields", "json_patch", "json_value"}
ShnAt == {"mc4", "shn", "shn_trainer", "shn_cheat", "shn_text", "shn_line", "shn_value"}
\* an entry of an SHNEXT document is open
InEntry == {"ext_plain", "ext_text", "ext_slot", "ext_fields", "ext_vars", "ext_value", "ext_close"}
ExtAt == {"ext", "ext_json", "ext_header", "ext_entry"} \cup InEntry

Place == 
  /\ doc \in Docs /\ item \in Nat \ {0} /\ line \in Nat \ {0}
  /\ pc \in {"open", "read", "parse"} => Known(doc)
  /\ pc \in JsonAt => doc.format = "json"
  /\ pc \in ShnAt => doc.format \in {"shn", "mc4"}
  /\ pc \in ExtAt => doc.format = "shnext"
  /\ pc \in InEntry => InList
  /\ pc \in {"shn_text", "shn_line", "shn_value"} => Tags("end", item, Len(doc.items)) # {}
Slot ==
  /\ cheat # NoRef <=> pc \in Holding
  /\ pc \in Blank => Entry.patches = None
  /\ pc \in Valued => Entry.patch_count < Entry.patch_capacity
  /\ pc \in {"ext_vars", "ext_value"} /\ Sealed.vars = Missing =>
       pc = "ext_vars" /\ Entry.patches = None
Inv == Good /\ Len(file.authors) <= MaxAuthors /\ Place /\ Slot

-----------------------------------------------------------------------------
LEMMA LeastExists ==
  ASSUME NEW S \in SUBSET Nat, S # {}
  PROVE  \E k \in S : \A j \in S : k <= j
<1>1. PICK m \in S : \A j \in S : ~ (<<j, m>> \in OpToRel(<, Nat))
  BY NatLessThanWellFounded, WFMin
<1>2. \A j \in S : j \in Nat /\ m \in Nat  OBVIOUS
<1>3. \A j \in S : ~(j < m)  BY <1>1, <1>2, Zenon DEF OpToRel
<1>4. \A j \in S : m <= j  BY <1>2, <1>3
<1> QED  BY <1>4

LEMMA FirstIs ==
  ASSUME NEW S \in SUBSET Nat, S # {},
         NEW k, k = CHOOSE i \in S : \A j \in S : i <= j
  PROVE  k \in S /\ \A j \in S : k <= j
BY LeastExists

LEMMA FirstTagIs ==
  ASSUME NEW t, NEW from \in Nat, NEW to, Tags(t, from, to) # {}
  PROVE  FirstTag(t, from, to) \in Tags(t, from, to) /\ FirstTag(t, from, to) \in Nat
         /\ from <= FirstTag(t, from, to)
         /\ \A j \in Tags(t, from, to) : FirstTag(t, from, to) <= j
<1>1. Tags(t, from, to) \in SUBSET Nat /\ \A k \in Tags(t, from, to) : from <= k
  BY DEF Tags
<1>2. FirstTag(t, from, to) \in Tags(t, from, to)
      /\ \A j \in Tags(t, from, to) : FirstTag(t, from, to) <= j
  BY <1>1, FirstIs DEF FirstTag
<1> QED  BY <1>1, <1>2

\* the file is not touched
LEMMA SameFile ==
  ASSUME Good, UNCHANGED fileVars
  PROVE  Good' /\ Entry' = Entry /\ file' = file /\ cheat' = cheat
<1>1. /\ cheatBlocks' = cheatBlocks /\ patchBlocks' = patchBlocks /\ fresh' = fresh
      /\ file' = file /\ cheat' = cheat
  BY DEF fileVars, blocks
<1>2. Slots' = Slots /\ Entry' = Entry  BY <1>1 DEF Slots, Entry
<1> QED  BY <1>1, <1>2 DEF Good, Typed, Filling, RefIn

\* the document is refused, or a call begins by clearing the file
LEMMA Cleared ==
  ASSUME CapacityAssumption, Good, Clear
  PROVE  Good' /\ Len(file'.authors) <= MaxAuthors /\ cheat' = NoRef
BY ClearKeeps DEF Clear, NoFile, CapacityAssumption

LEMMA RejectKeeps ==
  ASSUME CapacityAssumption, Inv, Clear, UNCHANGED <<doc, item, line>>,
         pc' \in {"return", "shn_return"}
  PROVE  Inv'
<1>1. Good' /\ Len(file'.authors) <= MaxAuthors /\ cheat' = NoRef  BY Cleared DEF Inv
<1>2. Place'
  BY DEF Inv, Place, JsonAt, ShnAt, ExtAt, InEntry
<1>3. Slot'  BY <1>1 DEF Slot, Holding, Blank, Valued
<1> QED  BY <1>1, <1>2, <1>3 DEF Inv

\* an author is added if there is room
LEMMA AuthorFits ==
  ASSUME CapacityAssumption, NEW as \in Seq(Nat), Len(as) <= MaxAuthors, NEW a \in Nat
  PROVE  AddAuthor(as, a) \in Seq(Nat) /\ Len(AddAuthor(as, a)) <= MaxAuthors
<1>1. CASE AddAuthor(as, a) = as  BY <1>1
<1>2. CASE AddAuthor(as, a) # as
  <2>1. AddAuthor(as, a) = Append(as, a) /\ ~(Len(as) >= MaxAuthors)  BY <1>2 DEF AddAuthor
  <2>2. Append(as, a) \in Seq(Nat) /\ Len(Append(as, a)) = Len(as) + 1 /\ Len(as) \in Nat
    BY AppendProperties, LenProperties
  <2>3. MaxAuthors \in Nat /\ Len(as) \in Nat  BY LenProperties DEF CapacityAssumption
  <2>4. \A l, m \in Nat : ~(l >= m) => l + 1 <= m  OBVIOUS
  <2>5. Len(as) + 1 <= MaxAuthors  BY <2>1, <2>3, <2>4, Zenon
  <2> QED  BY <2>1, <2>2, <2>5
<1> QED  BY <1>1, <1>2

LEMMA AddsAuthor ==
  ASSUME CapacityAssumption, Good, Len(file.authors) <= MaxAuthors, NEW a \in Nat,
         NEW named \in BOOLEAN, UNCHANGED <<blocks, cheat>>,
         file' = [file EXCEPT !.named = named, !.authors = AddAuthor(@, a)]
  PROVE  Good' /\ Entry' = Entry /\ Len(file'.authors) <= MaxAuthors
<1> DEFINE as == AddAuthor(file.authors, a)
<1>1. file \in Files  BY DEF Good, Typed
<1>2. as \in Seq(Nat) /\ Len(as) <= MaxAuthors  BY <1>1, AuthorFits DEF Files
<1>3. file' = [file EXCEPT !.named = named, !.authors = as]  OBVIOUS
<1> HIDE DEF as
<1>4. Good' /\ Entry' = Entry  BY <1>2, <1>3, NamesKeep
<1>5. file'.authors = as  BY <1>1, <1>3 DEF Files
<1> QED  BY <1>2, <1>4, <1>5

LEMMA PublishFits ==
  ASSUME CapacityAssumption, Good, cheat # NoRef, Len(file.authors) <= MaxAuthors, Publish
  PROVE  Good' /\ cheat' = NoRef /\ Len(file'.authors) <= MaxAuthors
<1> DEFINE as == AddAuthor(file.authors, Entry.author)
<1>1. file \in Files /\ Entry.author \in Nat  BY EntryIs DEF Good, Typed, Entries
<1>2. Len(as) <= MaxAuthors  BY <1>1, AuthorFits DEF Files
<1>3. file' = [file EXCEPT !.cheat_count = @ + 1, !.authors = as]  BY DEF Publish
<1> HIDE DEF as
<1>4. file'.authors = as  BY <1>1, <1>3 DEF Files
<1> QED  BY <1>2, <1>4, PublishKeeps

-----------------------------------------------------------------------------
(* The parsers, step by step. *)

LEMMA JsonKeeps ==
  ASSUME CapacityAssumption, DocsAssumption, Inv, JsonParse
  PROVE  Inv'
<1>1. CASE JsonNoHeader \/ JsonNoList \/ JsonModRefused \/ JsonNoFields \/ JsonNoRoom
           \/ JsonBadValue \/ JsonNoPatches \/ JsonNoMods
  <2>1. Clear /\ pc' = "return" /\ UNCHANGED <<doc, item, line>>
    BY <1>1 DEF JsonNoHeader, JsonNoList, JsonModRefused, JsonNoFields, JsonNoRoom,
                JsonBadValue, JsonNoPatches, JsonNoMods, Reject, Give
  <2> QED  BY <2>1, RejectKeeps
<1>2. CASE JsonHeader
  <2>1. pc = "json" /\ pc' = "json_authors" /\ UNCHANGED <<blocks, cheat, doc, item, line>>
        /\ file' = [file EXCEPT !.named = TRUE]
    BY <1>2 DEF JsonHeader, At, parser
  <2>2. file \in Files  BY DEF Inv, Good, Typed
  <2>3. file' = [file EXCEPT !.named = TRUE, !.authors = file.authors]
        /\ file.authors \in Seq(Nat) /\ file'.authors = file.authors
    BY <2>1, <2>2 DEF Files
  <2>4. Good'  BY <2>1, <2>3, NamesKeep DEF Inv
  <2>5. Place' /\ Slot'
    BY <2>1 DEF Inv, Place, Slot, JsonAt, ShnAt, ExtAt, InEntry, Holding, Blank, Valued
  <2> QED  BY <2>3, <2>4, <2>5 DEF Inv
<1>3. CASE JsonAuthor
  <2>1. /\ pc = "json_authors" /\ pc' = "json_authors" /\ UNCHANGED <<blocks, cheat, doc, item>>
        /\ line <= Len(JsonAuthors) /\ line' = line + 1
        /\ file' = [file EXCEPT !.authors = AddAuthor(@, JsonAuthors[line])]
    BY <1>3 DEF JsonAuthor, At
  <2>2. JsonAuthors \in Seq(Nat)
    <3>1. doc.credits \in Seq(Nat) /\ doc.authors \in Seq(Nat)
      BY <2>1 DEF Inv, Place, JsonAt, DocsAssumption, JsonDoc
    <3> QED  BY <3>1, ConcatProperties, Zenon DEF JsonAuthors
  <2>3. JsonAuthors[line] \in Nat
    BY <2>1, <2>2, ElementOfSeq DEF Inv, Place
  <2>4. file \in Files /\ file' = [file EXCEPT !.named = file.named, !.authors = AddAuthor(@, JsonAuthors[line])]
    BY <2>1 DEF Inv, Good, Typed, Files
  <2>5. file.named \in BOOLEAN  BY <2>4 DEF Files
  <2>6. Good' /\ Len(file'.authors) <= MaxAuthors
    BY <2>1, <2>3, <2>4, <2>5, AddsAuthor DEF Inv
  <2>7. Place' /\ Slot'
    BY <2>1 DEF Inv, Place, Slot, JsonAt, ShnAt, ExtAt, InEntry, Holding, Blank, Valued
  <2> QED  BY <2>6, <2>7 DEF Inv
<1>4. CASE JsonList \/ JsonDone
  <2>1. UNCHANGED fileVars  BY <1>4 DEF JsonList, JsonDone, Goes
  <2>2. Good' /\ file' = file /\ cheat' = cheat  BY <2>1, SameFile DEF Inv
  <2>3. Place' /\ Slot'
    BY <1>4, <2>2
    DEF JsonList, JsonDone, Goes, At, Give, Inv, Place, Slot, JsonAt, ShnAt, ExtAt, InEntry,
        Holding, Blank, Valued
  <2> QED  BY <2>2, <2>3 DEF Inv
<1>5. CASE JsonMod
  <2>1. /\ pc = "json_mod" /\ pc' = "json_fields" /\ EnsureCheat
        /\ UNCHANGED <<doc, item, line>>
    BY <1>5 DEF JsonMod, At, parser
  <2>2. cheat = NoRef  BY <2>1 DEF Inv, Slot, Holding
  <2>3. Good' /\ cheat' # NoRef /\ Entry'.patches = None
    BY <2>1, <2>2, EnsureCheatKeeps DEF Inv
  <2>4. file'.authors = file.authors
    BY <2>1 DEF EnsureCheat, TakeSlot, GrowCheats, Inv, Good, Typed, Files
  <2>5. Place' /\ Slot'
    BY <2>1, <2>3 DEF Inv, Place, Slot, JsonAt, ShnAt, ExtAt, InEntry, Holding, Blank, Valued
  <2> QED  BY <2>3, <2>4, <2>5 DEF Inv
<1>6. CASE JsonFields
  <2> DEFINE e == [NoCheat EXCEPT !.text = item]
  <2>1. /\ pc = "json_fields" /\ pc' = "json_patch" /\ SetEntry(e)
        /\ UNCHANGED <<patchBlocks, cheat, doc, item, line>> /\ file' = file
    BY <1>6 DEF JsonFields, At, parser, SetEntry
  <2>2. cheat # NoRef /\ Entry.patches = None  BY <2>1 DEF Inv, Slot, Holding, Blank
  <2>3. e \in Entries /\ e.patches = None /\ e.patch_count = 0 /\ e.patch_capacity = 0
    BY DEF NoCheat, None, Entries, Inv, Place
  <2> HIDE DEF e
  <2>4. Good' /\ Entry'.patches = None
    BY <2>1, <2>2, <2>3, SetEntryKeeps DEF Inv
  <2>5. Place' /\ Slot'
    BY <2>1, <2>2, <2>4 DEF Inv, Place, Slot, JsonAt, ShnAt, ExtAt, InEntry, Holding, Blank, Valued
  <2> QED  BY <2>1, <2>4, <2>5 DEF Inv
<1>7. CASE JsonRoom
  <2>1. /\ pc = "json_patch" /\ pc' = "json_value" /\ EnsurePatch
        /\ UNCHANGED <<doc, item, line>>
    BY <1>7 DEF JsonRoom, At, parser
  <2>2. cheat # NoRef  BY <2>1 DEF Inv, Slot, Holding
  <2>3. Good' /\ cheat' = cheat /\ Entry'.patch_count < Entry'.patch_capacity
    BY <2>1, <2>2, EnsurePatchKeeps DEF Inv
  <2>4. file' = file  BY <2>1 DEF EnsurePatch, GrowPatches, fileVars
  <2>5. Place' /\ Slot'
    BY <2>1, <2>2, <2>3 DEF Inv, Place, Slot, JsonAt, ShnAt, ExtAt, InEntry, Holding, Blank, Valued
  <2> QED  BY <2>3, <2>4, <2>5 DEF Inv
<1>8. CASE JsonValue
  <2>1. /\ pc = "json_value" /\ pc' = "json_patch" /\ \E p : AddPatch(p)
        /\ UNCHANGED <<doc, item>> /\ line' = line + 1
    BY <1>8 DEF JsonValue, At
  <2>2. cheat # NoRef /\ Entry.patch_count < Entry.patch_capacity
    BY <2>1 DEF Inv, Slot, Holding, Valued
  <2>3. Good' /\ cheat' = cheat  BY <2>1, <2>2, AddPatchKeeps DEF Inv
  <2>4. file' = file  BY <2>1 DEF AddPatch
  <2>5. Place' /\ Slot'
    BY <2>1, <2>2, <2>3 DEF Inv, Place, Slot, JsonAt, ShnAt, ExtAt, InEntry, Holding, Blank, Valued
  <2> QED  BY <2>3, <2>4, <2>5 DEF Inv
<1>9. CASE JsonPublish
  <2>1. /\ pc = "json_patch" /\ pc' = "json_mod" /\ Publish
        /\ doc' = doc /\ item' = item + 1 /\ line' = 1
    BY <1>9 DEF JsonPublish, At, Skip
  <2>2. cheat # NoRef  BY <2>1 DEF Inv, Slot, Holding
  <2>3. Good' /\ cheat' = NoRef /\ Len(file'.authors) <= MaxAuthors
    BY <2>1, <2>2, PublishFits DEF Inv
  <2>4. Place' /\ Slot'
    BY <2>1, <2>3 DEF Inv, Place, Slot, JsonAt, ShnAt, ExtAt, InEntry, Holding, Blank, Valued
  <2> QED  BY <2>3, <2>4 DEF Inv
<1> QED
  BY <1>1, <1>2, <1>3, <1>4, <1>5, <1>6, <1>7, <1>8, <1>9 DEF JsonParse

LEMMA ShnKeeps ==
  ASSUME CapacityAssumption, DocsAssumption, Inv, ShnParse
  PROVE  Inv'
<1>1. CASE ShnNoTrainer \/ ShnCheatRefused \/ ShnNoText \/ ShnNoRoom \/ ShnBadValue
           \/ ShnNoLines \/ ShnNoCheats
  <2>1. Clear /\ pc' = "shn_return" /\ UNCHANGED <<doc, item, line>>
    BY <1>1 DEF ShnNoTrainer, ShnCheatRefused, ShnNoText, ShnNoRoom, ShnBadValue, ShnNoLines,
                ShnNoCheats, ShnReject
  <2> QED  BY <2>1, RejectKeeps
<1>2. CASE Mc4Decrypt \/ Mc4Fails \/ ShnCopy \/ ShnNoCopy \/ ShnDone \/ ShnReturn
  <2>1. UNCHANGED fileVars
    BY <1>2 DEF Mc4Decrypt, Mc4Fails, ShnCopy, ShnNoCopy, ShnDone, ShnReturn
  <2>2. Good' /\ file' = file /\ cheat' = cheat  BY <2>1, SameFile DEF Inv
  <2>3. Place' /\ Slot'
    BY <1>2, <2>2
    DEF Mc4Decrypt, Mc4Fails, ShnCopy, ShnNoCopy, ShnDone, ShnReturn, At, Give, Inv, Place, Slot,
        JsonAt, ShnAt, ExtAt, InEntry, Holding, Blank, Valued
  <2> QED  BY <2>2, <2>3 DEF Inv
<1>3. CASE ShnTrainer
  <2>1. /\ pc = "shn_trainer" /\ pc' = "shn_cheat" /\ UNCHANGED <<blocks, cheat, doc, item, line>>
        /\ file' = [file EXCEPT !.named = TRUE, !.authors = AddAuthor(@, doc.moder)]
    BY <1>3 DEF ShnTrainer, At, parser
  <2>2. doc.moder \in Nat  BY <2>1 DEF Inv, Place, ShnAt, DocsAssumption, ShnDoc
  <2>3. Good' /\ Len(file'.authors) <= MaxAuthors  BY <2>1, <2>2, AddsAuthor DEF Inv
  <2>4. Place' /\ Slot'
    BY <2>1 DEF Inv, Place, Slot, JsonAt, ShnAt, ExtAt, InEntry, Holding, Blank, Valued
  <2> QED  BY <2>3, <2>4 DEF Inv
<1>4. CASE ShnCheat
  <2>1. /\ pc = "shn_cheat" /\ pc' = "shn_text" /\ EnsureCheat /\ More /\ Ended
        /\ doc' = doc /\ item' = NextCheat /\ line' = NextCheat
    BY <1>4 DEF ShnCheat, At
  <2>2. cheat = NoRef  BY <2>1 DEF Inv, Slot, Holding
  <2>3. Good' /\ cheat' # NoRef /\ Entry'.patches = None
    BY <2>1, <2>2, EnsureCheatKeeps DEF Inv
  <2>4. file'.authors = file.authors
    BY <2>1 DEF EnsureCheat, TakeSlot, GrowCheats, Inv, Good, Typed, Files
  <2>5. NextCheat \in Nat \ {0}
    BY <2>1, FirstTagIs DEF More, NextCheat, Inv, Place
  <2>6. Tags("end", item', Len(doc'.items)) # {} /\ Tags("end", item, Len(doc.items))' # {}
    BY <2>1 DEF Ended, Tags
  <2>7. Place' /\ Slot'
    BY <2>1, <2>3, <2>5, <2>6
    DEF Inv, Place, Slot, JsonAt, ShnAt, ExtAt, InEntry, Holding, Blank, Valued
  <2> QED  BY <2>3, <2>4, <2>7 DEF Inv
<1>5. CASE ShnText
  <2> DEFINE e == [NoCheat EXCEPT !.text = item]
  <2>1. /\ pc = "shn_text" /\ pc' = "shn_line" /\ SetEntry(e)
        /\ UNCHANGED <<patchBlocks, cheat, doc, item, line>> /\ file' = file
    BY <1>5 DEF ShnText, At, parser, SetEntry
  <2>2. cheat # NoRef /\ Entry.patches = None  BY <2>1 DEF Inv, Slot, Holding, Blank
  <2>3. e \in Entries /\ e.patches = None /\ e.patch_count = 0 /\ e.patch_capacity = 0
    BY DEF NoCheat, None, Entries, Inv, Place
  <2> HIDE DEF e
  <2>4. Good' /\ Entry'.patches = None
    BY <2>1, <2>2, <2>3, SetEntryKeeps DEF Inv
  <2>5. Place' /\ Slot'
    BY <2>1, <2>2, <2>4
    DEF Inv, Place, Slot, JsonAt, ShnAt, ExtAt, InEntry, Holding, Blank, Valued, Tags
  <2> QED  BY <2>1, <2>4, <2>5 DEF Inv
<1>6. CASE ShnRoom
  <2>1. /\ pc = "shn_line" /\ pc' = "shn_value" /\ EnsurePatch /\ Lines # {}
        /\ UNCHANGED <<doc, item>> /\ line' = NextLine
    BY <1>6 DEF ShnRoom, At
  <2>2. cheat # NoRef  BY <2>1 DEF Inv, Slot, Holding
  <2>3. Good' /\ cheat' = cheat /\ Entry'.patch_count < Entry'.patch_capacity
    BY <2>1, <2>2, EnsurePatchKeeps DEF Inv
  <2>4. file' = file  BY <2>1 DEF EnsurePatch, GrowPatches, fileVars
  <2>5. NextLine \in Nat \ {0}
    <3>1. line \in Nat \ {0}  BY DEF Inv, Place
    <3>2. NextLine \in Nat /\ line <= NextLine  BY <2>1, <3>1, FirstTagIs DEF Lines, NextLine
    <3> QED  BY <3>1, <3>2
  <2>6. Place' /\ Slot'
    BY <2>1, <2>2, <2>3, <2>5
    DEF Inv, Place, Slot, JsonAt, ShnAt, ExtAt, InEntry, Holding, Blank, Valued, Tags
  <2> QED  BY <2>3, <2>4, <2>6 DEF Inv
<1>7. CASE ShnValue
  <2>1. /\ pc = "shn_value" /\ pc' = "shn_line" /\ \E p : AddPatch(p)
        /\ UNCHANGED <<doc, item>> /\ line' = line + 1
    BY <1>7 DEF ShnValue, At
  <2>2. cheat # NoRef /\ Entry.patch_count < Entry.patch_capacity
    BY <2>1 DEF Inv, Slot, Holding, Valued
  <2>3. Good' /\ cheat' = cheat  BY <2>1, <2>2, AddPatchKeeps DEF Inv
  <2>4. file' = file  BY <2>1 DEF AddPatch
  <2>5. Place' /\ Slot'
    BY <2>1, <2>2, <2>3
    DEF Inv, Place, Slot, JsonAt, ShnAt, ExtAt, InEntry, Holding, Blank, Valued, Tags
  <2> QED  BY <2>3, <2>4, <2>5 DEF Inv
<1>8. CASE ShnPublish
  <2>1. /\ pc = "shn_line" /\ pc' = "shn_cheat" /\ Publish
        /\ UNCHANGED <<doc, line>> /\ item' = EndOfCheat + 1
    BY <1>8 DEF ShnPublish, At
  <2>2. cheat # NoRef  BY <2>1 DEF Inv, Slot, Holding
  <2>3. Good' /\ cheat' = NoRef /\ Len(file'.authors) <= MaxAuthors
    BY <2>1, <2>2, PublishFits DEF Inv
  <2>4. EndOfCheat \in Nat
    BY <2>1, FirstTagIs DEF EndOfCheat, Inv, Place
  <2>5. Place' /\ Slot'
    BY <2>1, <2>3, <2>4
    DEF Inv, Place, Slot, JsonAt, ShnAt, ExtAt, InEntry, Holding, Blank, Valued
  <2> QED  BY <2>3, <2>5 DEF Inv
<1> QED
  BY <1>1, <1>2, <1>3, <1>4, <1>5, <1>6, <1>7, <1>8 DEF ShnParse

LEMMA ExtKeeps ==
  ASSUME CapacityAssumption, DocsAssumption, Inv, ExtParse
  PROVE  Inv'
<1>1. CASE ExtInflate \/ ExtParseRoot \/ ExtUnreadable \/ ExtNotText \/ ExtOpen \/ ExtBroken
           \/ ExtNoSlot \/ ExtNoRoom \/ ExtNotVariable \/ ExtLast
  <2>1. UNCHANGED fileVars
    BY <1>1 DEF ExtInflate, ExtParseRoot, ExtUnreadable, ExtNotText, ExtOpen, Open, ExtBroken, Break,
                ExtNoSlot, ExtNoRoom, ExtNotVariable, ExtLast, Goes, rest
  <2>2. Good' /\ file' = file /\ cheat' = cheat /\ Entry' = Entry  BY <2>1, SameFile DEF Inv
  <2>3. CASE ExtInflate \/ ExtParseRoot \/ ExtUnreadable
    <3>1. /\ pc \in {"ext", "ext_json"} /\ pc' \in {"ext_json", "ext_header", "return"}
          /\ UNCHANGED <<doc, item, line>>
      BY <2>3 DEF ExtInflate, ExtParseRoot, ExtUnreadable, At, Give, rest
    <3>2. Place' /\ Slot'
      BY <2>2, <3>1
      DEF Inv, Place, Slot, JsonAt, ShnAt, ExtAt, InEntry, Holding, Blank, Valued
    <3> QED  BY <2>2, <3>2 DEF Inv
  <2>4. CASE ExtNotText \/ ExtOpen \/ ExtBroken \/ ExtNoSlot
    <3>1. /\ {pc, pc'} \subseteq {"ext_entry", "ext_plain", "ext_text", "ext_slot"}
          /\ doc' = doc /\ item' \in {item, item + 1} /\ line' \in {line, 1}
          /\ pc' # "ext_entry" => item' = item /\ InList
      BY <2>4 DEF ExtNotText, ExtOpen, Open, ExtBroken, Break, ExtNoSlot, At, Skip, rest
    <3>2. Place' /\ Slot'
      BY <2>2, <3>1
      DEF Inv, Place, Slot, JsonAt, ShnAt, ExtAt, InEntry, Holding, Blank, Valued, InList
    <3> QED  BY <2>2, <3>2 DEF Inv
  <2>5. CASE ExtNoRoom \/ ExtNotVariable \/ ExtLast
    <3>1. /\ pc \in {"ext_vars", "ext_value"} /\ pc' \in {"ext_vars", "ext_close"}
          /\ UNCHANGED <<doc, item>> /\ line' \in {line, line + 1}
          /\ pc = "ext_vars" => pc' = "ext_close"
      BY <2>5 DEF ExtNoRoom, ExtNotVariable, ExtLast, At, Goes, rest
    <3>2. Place'
      BY <3>1 DEF Inv, Place, JsonAt, ShnAt, ExtAt, InEntry, InList
    <3>3. Slot'
      BY <2>2, <3>1 DEF Inv, Slot, Holding, Blank, Valued, Sealed
    <3> QED  BY <2>2, <3>2, <3>3 DEF Inv
  <2> QED  BY <1>1, <2>3, <2>4, <2>5
<1>2. CASE ExtHeader
  <2>1. PICK named \in BOOLEAN : file' = [file EXCEPT !.named = named]
    BY <1>2 DEF ExtHeader
  <2>2. /\ pc = "ext_header" /\ pc' = "ext_entry" /\ UNCHANGED <<blocks, cheat, doc, item, line>>
    BY <1>2 DEF ExtHeader, At
  <2>3. file \in Files  BY DEF Inv, Good, Typed
  <2>4. file' = [file EXCEPT !.named = named, !.authors = file.authors]
        /\ file.authors \in Seq(Nat) /\ file'.authors = file.authors
    BY <2>1, <2>3 DEF Files
  <2>5. Good'  BY <2>2, <2>4, NamesKeep DEF Inv
  <2>6. Place' /\ Slot'
    BY <2>2 DEF Inv, Place, Slot, JsonAt, ShnAt, ExtAt, InEntry, Holding, Blank, Valued, InList, Sealed
  <2> QED  BY <2>4, <2>5, <2>6 DEF Inv
<1>3. CASE ExtSlot
  <2>1. /\ pc = "ext_slot" /\ pc' = "ext_fields" /\ EnsureCheat
        /\ UNCHANGED <<doc, item, line>>
    BY <1>3 DEF ExtSlot, At, parser
  <2>2. cheat = NoRef  BY <2>1 DEF Inv, Slot, Holding
  <2>3. Good' /\ cheat' # NoRef /\ Entry'.patches = None
    BY <2>1, <2>2, EnsureCheatKeeps DEF Inv
  <2>4. file'.authors = file.authors
    BY <2>1 DEF EnsureCheat, TakeSlot, GrowCheats, Inv, Good, Typed, Files
  <2>5. Place' /\ Slot'
    BY <2>1, <2>3 DEF Inv, Place, Slot, JsonAt, ShnAt, ExtAt, InEntry, Holding, Blank, Valued, InList, Sealed
  <2> QED  BY <2>3, <2>4, <2>5 DEF Inv
<1>4. CASE ExtFields
  <2> DEFINE e == [NoCheat EXCEPT !.text = IF Sealed.name THEN item ELSE None,
                                  !.author = Sealed.author]
  <2>1. /\ pc = "ext_fields" /\ pc' = "ext_vars" /\ ClearPending(e)
        /\ UNCHANGED <<cheat, doc, item, line>>
    BY <1>4 DEF ExtFields, At, parser
  <2>2. cheat # NoRef  BY <2>1 DEF Inv, Slot, Holding
  <2>3. Sealed.author \in Nat
    <3>1. item \in DOMAIN doc.items /\ doc \in Docs /\ doc.format = "shnext"
      BY <2>1 DEF Inv, Place, ExtAt, InEntry, InList, DocsAssumption, Known, Formats, IsSequence
    <3> QED  BY <3>1 DEF Sealed, DocsAssumption, ExtDoc
  <2>4. e \in Entries /\ e.patches = None /\ e.patch_count = 0 /\ e.patch_capacity = 0
    BY <2>3 DEF NoCheat, None, Entries, Inv, Place
  <2>5. SetEntry(e) /\ patchBlocks' = Without(patchBlocks, {Entry.patches}) /\ file' = file
    BY <2>1 DEF ClearPending, SetEntry
  <2> HIDE DEF e
  <2>6. Good' /\ Entry'.patches = None
    BY <2>1, <2>2, <2>4, <2>5, ClearPendingKeeps DEF Inv
  <2>7. Place' /\ Slot'
    BY <2>1, <2>2, <2>6 DEF Inv, Place, Slot, JsonAt, ShnAt, ExtAt, InEntry, Holding, Blank, Valued, InList, Sealed
  <2> QED  BY <2>5, <2>6, <2>7 DEF Inv
<1>5. CASE ExtNoVars
  <2>1. /\ pc = "ext_vars" /\ pc' = "ext_entry" /\ Sealed.vars = Missing
        /\ doc' = doc /\ item' = item + 1 /\ line' = 1
    BY <1>5 DEF ExtNoVars, At, Skip
  <2>2. cheat # NoRef /\ Entry.patches = None  BY <2>1 DEF Inv, Slot, Holding
  <2>3. Good' /\ cheat' = NoRef /\ Len(file'.authors) <= MaxAuthors
    <3>1. CASE Publish  BY <2>2, <3>1, PublishFits DEF Inv
    <3>2. CASE cheat' = NoRef /\ UNCHANGED <<file, blocks>>
      BY <2>2, <3>2, DropKeeps DEF Inv
    <3> QED  BY <1>5, <3>1, <3>2 DEF ExtNoVars
  <2>4. Place' /\ Slot'
    BY <2>1, <2>3 DEF Inv, Place, Slot, JsonAt, ShnAt, ExtAt, InEntry, Holding, Blank, Valued, InList, Sealed
  <2> QED  BY <2>3, <2>4 DEF Inv
<1>6. CASE ExtRoom
  <2>1. /\ pc = "ext_vars" /\ pc' = "ext_value" /\ EnsurePatch /\ Sealed.vars # Missing
        /\ UNCHANGED <<doc, item, line>>
    BY <1>6 DEF ExtRoom, At, parser
  <2>2. cheat # NoRef  BY <2>1 DEF Inv, Slot, Holding
  <2>3. Good' /\ cheat' = cheat /\ Entry'.patch_count < Entry'.patch_capacity
    BY <2>1, <2>2, EnsurePatchKeeps DEF Inv
  <2>4. file' = file  BY <2>1 DEF EnsurePatch, GrowPatches, fileVars
  <2>5. Place' /\ Slot'
    BY <2>1, <2>2, <2>3 DEF Inv, Place, Slot, JsonAt, ShnAt, ExtAt, InEntry, Holding, Blank, Valued, InList, Sealed
  <2> QED  BY <2>3, <2>4, <2>5 DEF Inv
<1>7. CASE ExtVariable
  <2>1. /\ pc = "ext_value" /\ pc' = "ext_vars" /\ \E p : AddPatch(p)
        /\ UNCHANGED <<doc, item>> /\ line' = line + 1
    BY <1>7 DEF ExtVariable, At
  <2>2. cheat # NoRef /\ Entry.patch_count < Entry.patch_capacity
    BY <2>1 DEF Inv, Slot, Holding, Valued
  <2>3. Good' /\ cheat' = cheat  BY <2>1, <2>2, AddPatchKeeps DEF Inv
  <2>4. file' = file  BY <2>1 DEF AddPatch
  <2>5. Place' /\ Slot'
    BY <2>1, <2>2, <2>3 DEF Inv, Place, Slot, JsonAt, ShnAt, ExtAt, InEntry, Holding, Blank, Valued, InList, Sealed
  <2> QED  BY <2>3, <2>4, <2>5 DEF Inv
<1>8. CASE ExtClose
  <2>1. /\ pc = "ext_close" /\ pc' = "ext_entry"
        /\ doc' = doc /\ item' = item + 1 /\ line' = 1
    BY <1>8 DEF ExtClose, At, Skip
  <2>2. cheat # NoRef  BY <2>1 DEF Inv, Slot, Holding
  <2>3. Good' /\ cheat' = NoRef /\ Len(file'.authors) <= MaxAuthors
    <3>1. CASE Publish  BY <2>2, <3>1, PublishFits DEF Inv
    <3>2. CASE ClearPending(NoCheat) /\ cheat' = NoRef
      <4>1. NoCheat \in Entries /\ NoCheat.patches = None /\ NoCheat.patch_count = 0
            /\ NoCheat.patch_capacity = 0
        BY DEF NoCheat, None, Entries
      <4>2. SetEntry(NoCheat) /\ patchBlocks' = Without(patchBlocks, {Entry.patches}) /\ file' = file
        BY <3>2 DEF ClearPending, SetEntry
      <4>3. Good'  BY <2>2, <3>2, <4>1, <4>2, ClearPendingKeeps DEF Inv
      <4> QED  BY <3>2, <4>2, <4>3 DEF Inv
    <3> QED  BY <1>8, <3>1, <3>2 DEF ExtClose
  <2>4. Place' /\ Slot'
    BY <2>1, <2>3 DEF Inv, Place, Slot, JsonAt, ShnAt, ExtAt, InEntry, Holding, Blank, Valued, InList, Sealed
  <2> QED  BY <2>3, <2>4 DEF Inv
<1>9. CASE ExtDone
  <2>1. pc = "ext_entry" /\ pc' = "return" /\ UNCHANGED <<doc, item, line>>
    BY <1>9 DEF ExtDone, Give
  <2>2. CASE Clear  BY <2>1, <2>2, RejectKeeps
  <2>3. CASE UNCHANGED fileVars
    <3>1. Good' /\ file' = file /\ cheat' = cheat  BY <2>3, SameFile DEF Inv
    <3>2. Place' /\ Slot'
      BY <2>1, <3>1 DEF Inv, Place, Slot, JsonAt, ShnAt, ExtAt, InEntry, Holding, Blank, Valued, InList, Sealed
    <3> QED  BY <3>1, <3>2 DEF Inv
  <2> QED  BY <1>9, <2>2, <2>3 DEF ExtDone
<1> QED
  BY <1>1, <1>2, <1>3, <1>4, <1>5, <1>6, <1>7, <1>8, <1>9 DEF ExtParse

LEMMA InitInv == ASSUME CapacityAssumption, Init PROVE Inv
<1>1. file = NoFile /\ cheat = NoRef /\ fresh = 1 /\ cheatBlocks = <<>> /\ patchBlocks = <<>>
  BY DEF Init
<1>2. Slots = <<>> /\ 1..0 = {}  BY <1>1 DEF Slots, NoFile
<1>3. Typed
  BY <1>1, <1>2 DEF Typed, NoFile, NoRef, Files, None, CapacityAssumption
<1>4. Filling  BY <1>1, <1>2 DEF Filling, NoFile
<1>5. Owned(<<>>, <<>>, 0, 1)  BY <1>2 DEF Owned
<1>6. Good  BY <1>1, <1>2, <1>3, <1>4, <1>5 DEF Good, NoFile
<1>7. Len(file.authors) <= MaxAuthors  BY <1>1 DEF NoFile, CapacityAssumption
<1>8. Place /\ Slot
  BY DEF Init, Place, Slot, JsonAt, ShnAt, ExtAt, InEntry, Holding, Blank, Valued
<1> QED  BY <1>6, <1>7, <1>8 DEF Inv

LEMMA NextKeeps ==
  ASSUME CapacityAssumption, DocsAssumption, Inv, [Next]_allVars
  PROVE  Inv'
<1>1. CASE LoadFile \/ LoadNothing
  <2>1. /\ Clear /\ doc' \in Docs /\ item' = 1 /\ line' = 1
        /\ pc' = "return" \/ (pc' = "open" /\ Known(doc'))
    BY <1>1 DEF LoadFile, LoadNothing, Begin
  <2>2. Good' /\ Len(file'.authors) <= MaxAuthors /\ cheat' = NoRef  BY <2>1, Cleared DEF Inv
  <2>3. Place' /\ Slot'
    BY <2>1, <2>2 DEF Known, Place, Slot, JsonAt, ShnAt, ExtAt, InEntry, Holding, Blank, Valued
  <2> QED  BY <2>2, <2>3 DEF Inv
<1>2. CASE LoadBuffer \/ OpenFile \/ OpenFails \/ ReadFile \/ ReadFails \/ Return
  <2>1. UNCHANGED fileVars
    BY <1>2 DEF LoadBuffer, OpenFile, OpenFails, ReadFile, ReadFails, Return
  <2>2. Good' /\ file' = file /\ cheat' = cheat  BY <2>1, SameFile DEF Inv
  <2>3. Place' /\ Slot'
    BY <1>2, <2>2
    DEF LoadBuffer, Begin, OpenFile, OpenFails, ReadFile, ReadFails, Return, At, Give, parser, Known,
        Inv, Place, Slot, JsonAt, ShnAt, ExtAt, InEntry, Holding, Blank, Valued
  <2> QED  BY <2>2, <2>3 DEF Inv
<1>3. CASE Parse
  <2>1. /\ Clear /\ pc = "parse" /\ UNCHANGED <<doc, item, line>>
        /\ pc' = IF doc.format = "shnext" THEN "ext" ELSE doc.format
    BY <1>3 DEF Parse, parser
  <2>2. Good' /\ Len(file'.authors) <= MaxAuthors /\ cheat' = NoRef  BY <2>1, Cleared DEF Inv
  <2>3. doc.format \in Formats  BY <2>1 DEF Inv, Place, Known
  <2>4. Place' /\ Slot'
    BY <2>1, <2>2, <2>3
    DEF Formats, Inv, Place, Slot, JsonAt, ShnAt, ExtAt, InEntry, Holding, Blank, Valued
  <2> QED  BY <2>2, <2>4 DEF Inv
<1>4. CASE UNCHANGED allVars
  <2>1. UNCHANGED <<fileVars, doc, item, line, pc>>  BY <1>4 DEF allVars, parser
  <2>2. Good' /\ file' = file /\ cheat' = cheat /\ Entry' = Entry  BY <2>1, SameFile DEF Inv
  <2>3. Place' /\ Slot'
    BY <2>1, <2>2 DEF Inv, Place, Slot, Known, InList, Sealed, Tags
  <2> QED  BY <2>2, <2>3 DEF Inv
<1> QED
  BY <1>1, <1>2, <1>3, <1>4, JsonKeeps, ShnKeeps, ExtKeeps DEF Next

-----------------------------------------------------------------------------
(* Text in the clear. A buffer holds text only while the parser is at one of the steps *)
(* between its filling and its wiping; the count of the entries passed shows that a    *)
(* buffer given back as it was belongs to an entry that the file does not have.        *)

Searching == {"shn_trainer", "shn_cheat", "shn_text", "shn_line", "shn_value", "shn_return"}
InSlot == {"ext_slot", "ext_fields", "ext_vars", "ext_value", "ext_close"}
Held ==
  /\ clear \subseteq {"file", "plaintext", "xml", "json", "root", "plain", "text", "entry"}
  /\ pc \in {"start", "done", "open", "read"} => "file" \notin clear
  /\ "plaintext" \in clear => pc \in {"shn"} \cup Searching
  /\ "xml" \in clear => pc \in Searching
  /\ "json" \in clear => pc = "ext_json"
  /\ "root" \in clear => pc \in {"ext_header", "ext_entry"} \cup InEntry
  /\ "plain" \in clear => pc = "ext_plain"
  /\ "text" \in clear => pc = "ext_text"
  /\ "entry" \in clear => pc \in InSlot

\* the entries that could be opened among those the loop has passed
Passed == {k \in Opened(doc) : k < item}
Lost == IF bared = {} THEN 0 ELSE 1
Counting == {"ext_entry"} \cup InEntry
Counted ==
  /\ pc \in {"ext_json", "ext_header"} \cup Counting => doc.packed
  /\ pc \in {"ext_header"} \cup Counting => doc.parses
  /\ pc \in InEntry => Sealed.string /\ Sealed.broken # "cipher"
  /\ pc \in {"ext_text"} \cup InSlot => Sealed.broken # "deflate"
  /\ pc \in InSlot => Sealed.broken # "json"
  /\ pc \in {"ext", "ext_json", "ext_header"} => file.cheat_count = 0
  /\ pc \in Counting => file.cheat_count + Lost <= Cardinality(Passed)

Bare ==
  /\ bared \subseteq {"entry"}
  /\ bared # {} => doc.format = "shnext" /\ pc \in Counting \cup {"return", "done"}
  /\ bared # {} /\ pc \in {"return", "done"} =>
       short \/ file.cheat_count < Cardinality(Opened(doc))
WipeInv == Held /\ Bare /\ Counted

LEMMA OpenedIs ==
  ASSUME DocsAssumption, doc \in Docs, doc.format = "shnext"
  PROVE  /\ Opened(doc) \subseteq Nat /\ IsFiniteSet(Opened(doc))
         /\ Cardinality(Opened(doc)) \in Nat
<1>1. Len(doc.items) \in Nat /\ DOMAIN doc.items = 1..Len(doc.items)
  BY DEF DocsAssumption, Known, Formats, IsSequence
<1>2. Opened(doc) \subseteq 1..Len(doc.items)  BY <1>1 DEF Opened
<1>3. IsFiniteSet(1..Len(doc.items))  BY <1>1, FS_Interval
<1>4. IsFiniteSet(Opened(doc))  BY <1>2, <1>3, FS_Subset
<1> QED  BY <1>1, <1>2, <1>4, FS_CardinalityType

LEMMA PassedIs ==
  ASSUME DocsAssumption, doc \in Docs, doc.format = "shnext"
  PROVE  /\ IsFiniteSet(Passed) /\ Cardinality(Passed) \in Nat
         /\ Cardinality(Passed) <= Cardinality(Opened(doc))
<1>1. IsFiniteSet(Opened(doc)) /\ Passed \subseteq Opened(doc)  BY OpenedIs DEF Passed
<1> QED  BY <1>1, FS_Subset, FS_CardinalityType

LEMMA PassOne ==
  ASSUME DocsAssumption, doc \in Docs, doc.format = "shnext", item \in Nat,
         doc' = doc, item' = item + 1
  PROVE  Cardinality(Passed') =
           IF item \in Opened(doc) THEN Cardinality(Passed) + 1 ELSE Cardinality(Passed)
<1>1. Opened(doc) \subseteq Nat /\ Opened(doc)' = Opened(doc)  BY OpenedIs DEF Opened
<1>2. Passed' = Passed \cup ({item} \cap Opened(doc)) /\ item \notin Passed
  BY <1>1 DEF Passed
<1>3. CASE item \in Opened(doc)
  <2>1. Passed' = Passed \cup {item}  BY <1>2, <1>3
  <2>2. IsFiniteSet(Passed)  BY PassedIs
  <2> QED  BY <1>2, <1>3, <2>1, <2>2, FS_AddElement
<1>4. CASE item \notin Opened(doc)
  <2>1. Passed' = Passed  BY <1>2, <1>4
  <2> QED  BY <1>4, <2>1
<1> QED  BY <1>3, <1>4

LEMMA HeldKeeps ==
  ASSUME Held, Place, [Next]_allVars
  PROVE  Held'
<1> USE DEF Held, Searching, InSlot, InEntry
<1>1. CASE LoadFile \/ LoadBuffer \/ LoadNothing
  BY <1>1 DEF LoadFile, LoadBuffer, LoadNothing, Begin
<1>2. CASE OpenFile \/ OpenFails \/ ReadFile \/ ReadFails \/ Return
  BY <1>2 DEF OpenFile, OpenFails, ReadFile, ReadFails, Return, At, Give, Wipe, Buffers, parser
<1>3. CASE Parse
  BY <1>3 DEF Parse, parser, Place, Known, Formats
<1>4. CASE JsonParse
  <2>1. clear' = clear /\ pc \in JsonAt /\ pc' \in JsonAt \cup {"return"}
    BY <1>4
    DEF JsonParse, JsonHeader, JsonNoHeader, JsonAuthor, JsonList, JsonNoList, JsonMod,
        JsonModRefused, JsonFields, JsonNoFields, JsonRoom, JsonNoRoom, JsonValue, JsonBadValue,
        JsonPublish, JsonNoPatches, JsonDone, JsonNoMods, At, Goes, Reject, Give, parser, JsonAt
  <2> QED  BY <2>1 DEF JsonAt
<1>5. CASE ShnParse
  <2>1. CASE Mc4Decrypt \/ Mc4Fails \/ ShnCopy \/ ShnNoCopy \/ ShnReturn
    BY <2>1 DEF Mc4Decrypt, Mc4Fails, ShnCopy, ShnNoCopy, ShnReturn, At, Give, Buffers
  <2>2. CASE \/ ShnTrainer \/ ShnNoTrainer \/ ShnCheat \/ ShnCheatRefused \/ ShnText \/ ShnNoText
             \/ ShnRoom \/ ShnNoRoom \/ ShnValue \/ ShnBadValue \/ ShnPublish \/ ShnNoLines
             \/ ShnDone \/ ShnNoCheats
    <3>1. clear' = clear /\ pc \in Searching /\ pc' \in Searching
      BY <2>2
      DEF ShnTrainer, ShnNoTrainer, ShnCheat, ShnCheatRefused, ShnText, ShnNoText, ShnRoom,
          ShnNoRoom, ShnValue, ShnBadValue, ShnPublish, ShnNoLines, ShnDone, ShnNoCheats,
          At, ShnReject, parser
    <3> QED  BY <3>1
  <2> QED  BY <1>5, <2>1, <2>2 DEF ShnParse
<1>6. CASE ExtParse
  <2>1. CASE ExtInflate \/ ExtParseRoot \/ ExtUnreadable \/ ExtHeader \/ ExtNotText \/ ExtDone
    BY <2>1 DEF ExtInflate, ExtParseRoot, ExtUnreadable, ExtHeader, ExtNotText, ExtDone, At, Give, Wipe, Buffers, rest
  <2>2. CASE ExtOpen
    BY <2>2 DEF ExtOpen, Open, At, Buffers, rest
  <2>3. CASE ExtBroken
    BY <2>3 DEF ExtBroken, Break, At, Wipe
  <2>4. CASE ExtNoSlot \/ ExtNoVars \/ ExtClose
    BY <2>4 DEF ExtNoSlot, ExtNoVars, ExtClose, At, Wipe, Drop
  <2>5. CASE ExtSlot \/ ExtFields \/ ExtRoom \/ ExtNoRoom \/ ExtVariable \/ ExtNotVariable \/ ExtLast
    <3>1. clear' = clear /\ pc \in InSlot /\ pc' \in InSlot
      BY <2>5 DEF ExtSlot, ExtFields, ExtRoom, ExtNoRoom, ExtVariable, ExtNotVariable, ExtLast, At, Goes, parser
    <3> QED  BY <3>1
  <2> QED  BY <1>6, <2>1, <2>2, <2>3, <2>4, <2>5 DEF ExtParse
<1>7. CASE UNCHANGED allVars
  BY <1>7 DEF allVars, parser
<1> QED  BY <1>1, <1>2, <1>3, <1>4, <1>5, <1>6, <1>7 DEF Next

\* an entry of the document is left behind
LEMMA PassKeeps ==
  ASSUME DocsAssumption, Inv, Counted, pc \in InEntry, doc' = doc, item' = item + 1,
         NEW n \in {0, 1}, file'.cheat_count + Lost' <= file.cheat_count + Lost + n,
         file'.cheat_count \in Nat, n = 1 => item \in Opened(doc)
  PROVE  file'.cheat_count + Lost' <= Cardinality(Passed')
<1>1. doc \in Docs /\ doc.format = "shnext" /\ item \in Nat
  BY DEF Inv, Place, ExtAt
<1>2. Cardinality(Passed) \in Nat /\ Cardinality(Passed') >= Cardinality(Passed) + n
  BY <1>1, PassedIs, PassOne
<1>3. file.cheat_count + Lost <= Cardinality(Passed)  BY DEF Counted, Counting
<1>4. file.cheat_count \in Nat  BY DEF Inv, Good, Typed, Files
<1>5. Lost \in Nat /\ Lost' \in Nat  BY DEF Lost
<1>6. Cardinality(Passed') \in Nat  BY <1>1, <1>2, PassOne
<1> QED  BY <1>2, <1>3, <1>4, <1>5, <1>6

\* an entry being filled is one that opened
LEMMA SlotIsOpened ==
  ASSUME DocsAssumption, Inv, Counted, pc \in InSlot
  PROVE  item \in Opened(doc)
<1>1. /\ doc \in Docs /\ doc.format = "shnext" /\ item \in Nat \ {0} /\ InList
      /\ doc.packed /\ doc.parses /\ Sealed.string
      /\ Sealed.broken \notin {"cipher", "deflate", "json"}
  BY DEF Inv, Place, ExtAt, InEntry, InSlot, Counted, Counting
<1>2. item \in DOMAIN doc.items
  BY <1>1 DEF InList, DocsAssumption, Known, Formats, IsSequence
<1>3. doc.items[item].broken \in Stages  BY <1>1, <1>2 DEF DocsAssumption, ExtDoc
<1> QED  BY <1>1, <1>2, <1>3 DEF Opened, Sealed, InList, Stages

LEMMA CountedKeeps ==
  ASSUME CapacityAssumption, DocsAssumption, Inv, Counted, Bare, [Next]_allVars
  PROVE  Counted' /\ Bare'
<1> USE DEF Counting, InEntry, InSlot
<1>1. CASE LoadFile \/ LoadBuffer \/ LoadNothing
  <2>1. bared' = {} /\ pc' \in {"open", "parse", "return"}
    BY <1>1 DEF LoadFile, LoadBuffer, LoadNothing, Begin
  <2> QED  BY <2>1 DEF Counted, Bare
<1>2. CASE OpenFile \/ OpenFails \/ ReadFile \/ ReadFails \/ Return
  <2>1. /\ bared' = bared /\ doc' = doc /\ file' = file
        /\ \/ pc = "return" /\ pc' = "done" /\ short' = short
           \/ pc \in {"open", "read"} /\ pc' \in {"read", "parse", "return"}
    BY <1>2 DEF OpenFile, OpenFails, ReadFile, ReadFails, Return, At, Give, Wipe, Buffers, parser, fileVars
  <2>2. Opened(doc)' = Opened(doc)  BY <2>1 DEF Opened
  <2> QED  BY <2>1, <2>2 DEF Counted, Bare
<1>3. CASE Parse
  <2>1. /\ bared = {} /\ bared' = {} /\ file'.cheat_count = 0
        /\ pc' \in {"ext"} \cup (Formats \ {"shnext"})
    BY <1>3 DEF Parse, parser, Clear, NoFile, Inv, Place, Known, Formats, Bare
  <2> QED  BY <2>1 DEF Counted, Bare, Formats
<1>4. CASE JsonParse
  <2>1. bared' = bared /\ pc \in JsonAt /\ pc' \in JsonAt \cup {"return"}
    BY <1>4
    DEF JsonParse, JsonHeader, JsonNoHeader, JsonAuthor, JsonList, JsonNoList, JsonMod,
        JsonModRefused, JsonFields, JsonNoFields, JsonRoom, JsonNoRoom, JsonValue, JsonBadValue,
        JsonPublish, JsonNoPatches, JsonDone, JsonNoMods, At, Goes, Reject, Give, parser, JsonAt
  <2> QED  BY <2>1 DEF JsonAt, Counted, Bare
<1>5. CASE ShnParse
  <2>1. bared' = bared /\ pc \in ShnAt \cup {"shn_return"}
        /\ pc' \in ShnAt \cup {"shn_return", "return"}
    BY <1>5
    DEF ShnParse, Mc4Decrypt, Mc4Fails, ShnCopy, ShnNoCopy, ShnReturn, Give, Buffers,
        ShnTrainer, ShnNoTrainer, ShnCheat, ShnCheatRefused, ShnText, ShnNoText, ShnRoom,
        ShnNoRoom, ShnValue, ShnBadValue, ShnPublish, ShnNoLines, ShnDone, ShnNoCheats,
        At, ShnReject, parser, ShnAt
  <2> QED  BY <2>1 DEF ShnAt, Counted, Bare
<1>6. CASE ExtParse
  <2>0. file.cheat_count \in Nat /\ item \in Nat  BY DEF Inv, Good, Typed, Files, Place
  <2>1. CASE ExtInflate \/ ExtParseRoot \/ ExtUnreadable
    <3>1. bared' = bared /\ doc' = doc /\ file' = file /\ bared = {}
          /\ pc \in {"ext", "ext_json"}
      BY <2>1 DEF ExtInflate, ExtParseRoot, ExtUnreadable, At, Give, Wipe, Buffers, rest, fileVars, Bare
    <3>2. CASE ExtUnreadable
      <4>1. pc' = "return"  BY <3>2 DEF ExtUnreadable, Give
      <4> QED  BY <3>1, <4>1 DEF Counted, Bare
    <3>3. CASE ExtInflate \/ ExtParseRoot
      <4>1. \/ pc' = "ext_json" /\ doc.packed
            \/ pc = "ext_json" /\ pc' = "ext_header" /\ doc.parses
        BY <3>3 DEF ExtInflate, ExtParseRoot, At
      <4> QED  BY <3>1, <4>1 DEF Counted, Bare
    <3> QED  BY <2>1, <3>2, <3>3
  <2>2. CASE ExtHeader
    <3>1. /\ pc = "ext_header" /\ pc' = "ext_entry" /\ bared' = bared /\ bared = {}
          /\ UNCHANGED <<doc, item>>
          /\ \E named \in BOOLEAN : file' = [file EXCEPT !.named = named]
      BY <2>2 DEF ExtHeader, At, Bare
    <3>2. file'.cheat_count = file.cheat_count /\ file.cheat_count = 0
      BY <3>1 DEF Inv, Good, Typed, Files, Counted
    <3>3. Cardinality(Passed) \in Nat /\ Passed' = Passed /\ Lost' = 0
      BY <3>1, PassedIs DEF Inv, Place, ExtAt, Passed, Opened, Lost
    <3> QED  BY <3>1, <3>2, <3>3 DEF Counted, Bare
  <2>3. CASE ExtNotText \/ ExtBroken \/ ExtNoSlot
    <3>1. /\ pc \in {"ext_entry", "ext_plain", "ext_text", "ext_slot"} /\ pc' = "ext_entry" /\ InList
          /\ doc' = doc /\ item' = item + 1 /\ file' = file /\ bared' \subseteq {"entry"}
          /\ bared' = bared \/ pc = "ext_slot"
      BY <2>3 DEF ExtNotText, ExtBroken, Break, ExtNoSlot, At, Skip, Wipe, Drop, Buffers, fileVars, Bare, Inv, Place
    <3>2. doc \in Docs /\ doc.format = "shnext"  BY <3>1 DEF Inv, Place, ExtAt
    <3>3. file'.cheat_count + Lost' <= Cardinality(Passed')
      <4>1. CASE bared' = bared
        <5>1. Lost' = Lost /\ Lost \in Nat  BY <4>1 DEF Lost
        <5>2. file.cheat_count + Lost <= Cardinality(Passed)  BY <3>1 DEF Counted
        <5>3. Cardinality(Passed) \in Nat /\ Cardinality(Passed') >= Cardinality(Passed)
          BY <2>0, <3>1, <3>2, PassedIs, PassOne
        <5>4. Cardinality(Passed') \in Nat  BY <2>0, <3>1, <3>2, <5>3, PassOne
        <5> QED  BY <2>0, <3>1, <5>1, <5>2, <5>3, <5>4
      <4>2. CASE pc = "ext_slot"
        <5>1. item \in Opened(doc)  BY <4>2, SlotIsOpened
        <5>2. file'.cheat_count + Lost' <= file.cheat_count + Lost + 1 /\ file'.cheat_count \in Nat
          BY <2>0, <3>1 DEF Lost
        <5> QED  BY <3>1, <4>2, <5>1, <5>2, PassKeeps
      <4> QED  BY <3>1, <4>1, <4>2
    <3> QED  BY <3>1, <3>2, <3>3 DEF Counted, Bare
  <2>4. CASE ExtOpen
    <3>1. /\ UNCHANGED <<doc, item, file, bared>> /\ Sealed.string
          /\ \/ pc = "ext_entry" /\ pc' = "ext_plain" /\ Sealed.broken # "cipher"
             \/ pc = "ext_plain" /\ pc' = "ext_text" /\ Sealed.broken # "deflate"
             \/ pc = "ext_text" /\ pc' = "ext_slot" /\ Sealed.broken # "json"
      BY <2>4 DEF ExtOpen, Open, At, Buffers, rest, fileVars
    <3>2. Sealed' = Sealed /\ Passed' = Passed /\ Lost' = Lost
      BY <3>1 DEF Sealed, Passed, Opened, Lost
    <3> QED  BY <3>1, <3>2 DEF Counted, Bare
  <2>5. CASE ExtSlot \/ ExtFields \/ ExtRoom \/ ExtNoRoom \/ ExtVariable \/ ExtNotVariable \/ ExtLast
    <3>1. /\ pc \in InSlot /\ pc' \in InSlot /\ UNCHANGED <<doc, item, bared>>
          /\ file' = file \/ EnsureCheat
      BY <2>5 DEF ExtSlot, ExtFields, ClearPending, SetEntry, ExtRoom, ExtNoRoom, ExtVariable,
         ExtNotVariable, ExtLast, At, Goes, parser, rest, fileVars, EnsurePatch, GrowPatches, AddPatch
    <3>2. file'.cheat_count = file.cheat_count
      BY <3>1 DEF EnsureCheat, TakeSlot, GrowCheats, Inv, Good, Typed, Files
    <3>3. Sealed' = Sealed /\ Passed' = Passed /\ Lost' = Lost
      BY <3>1 DEF Sealed, Passed, Opened, Lost
    <3> QED  BY <3>1, <3>2, <3>3 DEF Counted, Bare
  <2>6. CASE ExtNoVars \/ ExtClose
    <3>1. /\ pc \in {"ext_vars", "ext_close"} /\ pc' = "ext_entry" /\ bared' = bared
          /\ doc' = doc /\ item' = item + 1 /\ (Publish \/ file' = file)
      BY <2>6 DEF ExtNoVars, ExtClose, At, Skip, Wipe, Buffers, ClearPending, SetEntry
    <3>2. file'.cheat_count \in {file.cheat_count, file.cheat_count + 1}
      BY <3>1 DEF Publish, Inv, Good, Typed, Files
    <3>3. Lost' = Lost /\ Lost \in Nat  BY <3>1 DEF Lost
    <3>4. item \in Opened(doc)  BY <3>1, SlotIsOpened
    <3>5. file'.cheat_count + Lost' <= file.cheat_count + Lost + 1 /\ file'.cheat_count \in Nat
      BY <2>0, <3>2, <3>3
    <3>6. file'.cheat_count + Lost' <= Cardinality(Passed')
      BY <3>1, <3>4, <3>5, PassKeeps
    <3> QED  BY <3>1, <3>6 DEF Counted, Bare
  <2>7. CASE ExtDone
    <3>1. /\ pc = "ext_entry" /\ pc' = "return" /\ bared' = bared /\ doc' = doc
          /\ file' = file \/ Clear
      BY <2>7 DEF ExtDone, Give, Wipe, Buffers, fileVars
    <3>2. doc \in Docs /\ doc.format = "shnext"  BY <3>1 DEF Inv, Place, ExtAt
    <3>3. file'.cheat_count <= file.cheat_count /\ file'.cheat_count \in Nat
      BY <2>0, <3>1 DEF Clear, NoFile
    <3>4. /\ file.cheat_count + Lost <= Cardinality(Passed)
          /\ Cardinality(Passed) <= Cardinality(Opened(doc))
          /\ Cardinality(Passed) \in Nat /\ Cardinality(Opened(doc)) \in Nat
      BY <3>1, <3>2, PassedIs, OpenedIs DEF Counted
    <3>5. bared # {} => file'.cheat_count < Cardinality(Opened(doc))
      BY <2>0, <3>3, <3>4 DEF Lost
    <3>6. Opened(doc)' = Opened(doc)  BY <3>1 DEF Opened
    <3> QED  BY <3>1, <3>2, <3>5, <3>6 DEF Counted, Bare
  <2> QED  BY <1>6, <2>1, <2>2, <2>3, <2>4, <2>5, <2>6, <2>7 DEF ExtParse
<1>7. CASE UNCHANGED allVars
  <2>1. UNCHANGED <<doc, pc, item, short, bared, file>>  BY <1>7 DEF allVars, parser, fileVars
  <2>2. Sealed' = Sealed /\ Passed' = Passed /\ Lost' = Lost /\ Opened(doc)' = Opened(doc)
    BY <2>1 DEF Sealed, Passed, Opened, Lost
  <2> QED  BY <2>1, <2>2 DEF Counted, Bare
<1> QED  BY <1>1, <1>2, <1>3, <1>4, <1>5, <1>6, <1>7 DEF Next

-----------------------------------------------------------------------------
(* The theorems about the file and the buffers. *)

\* Whatever document is loaded, and wherever its parse is given up, Inv holds.
THEOREM InvHolds == Spec => []Inv
<1>1. Init => Inv  BY InitInv, CapacityAssumption
<1>2. Inv /\ [Next]_allVars => Inv'  BY NextKeeps, CapacityAssumption, DocsAssumption
<1> QED  BY <1>1, <1>2, PTL DEF Spec

\* Every block of memory is owned by the file, once, and every pointer leads to a block of
\* the size it is taken to have (owned_cheat_file.cpp:16-57 and the parsers that call it).
THEOREM OwnershipIsExact == Spec => []OwnsExactly
<1>1. Inv => OwnsExactly  BY GoodOwns, CapacityAssumption DEF Inv
<1> QED  BY <1>1, InvHolds, PTL

\* No array grows past its limit (owned_cheat_file.cpp:33-35, 48-50 and 60).
THEOREM LimitsHold == Spec => []WithinLimits
<1>1. Inv => WithinLimits  BY GoodLimits DEF Inv
<1> QED  BY <1>1, InvHolds, PTL

\* Whatever document is loaded, text in the clear is where WipeInv says it may be.
THEOREM WipeInvHolds == Spec => []WipeInv
<1>1. Init => WipeInv
  BY DEF Init, WipeInv, Held, Bare, Counted, Counting, InEntry, InSlot
<1>2. Inv /\ Inv' /\ WipeInv /\ [Next]_allVars => WipeInv'
  BY HeldKeeps, CountedKeeps, CapacityAssumption, DocsAssumption DEF WipeInv, Inv
<1> QED  BY <1>1, <1>2, InvHolds, PTL DEF Spec

\* Whatever document is loaded and wherever its parse is given up, no buffer with text of it
\* in the clear is given back as it was, except entries of an SHNEXT file that got no slot;
\* and if no memory ran out, the file then holds fewer cheats than it had entries
\* (secure_zero in cheat_parser_factory.cpp, mc4_cheat_parser.cpp and shnext_core.cpp).
THEOREM TextIsWiped == Spec => []DecryptedIsWiped
<1>1. Inv /\ WipeInv => DecryptedIsWiped
  <2> SUFFICES ASSUME Inv, WipeInv, pc = "done" PROVE DecryptedIsWiped
    BY DEF DecryptedIsWiped
  <2>1. clear = {}  BY DEF WipeInv, Held, Searching, InSlot, InEntry
  <2>2. /\ bared \subseteq {"entry"}
        /\ bared # {} => /\ doc.format = "shnext"
                         /\ short \/ file.cheat_count < Cardinality(Opened(doc))
    BY DEF WipeInv, Bare
  <2> QED  BY <2>1, <2>2 DEF DecryptedIsWiped
<1> QED  BY <1>1, InvHolds, WipeInvHolds, PTL

-----------------------------------------------------------------------------
(* Values of patches: what the parsers decode is what the digits say. *)

\* a character, as an element of the sequence
Chars(v) == {v[i] : i \in DOMAIN v}

\* the dashes are taken out of what fits in the buffer
LEMMA UndashedIs ==
  ASSUME NEW v \in Seq(STRING)
  PROVE  /\ IsSequence(Undashed(v)) /\ Len(Undashed(v)) <= Len(v)
         /\ Undashed(v) \in Seq(Chars(Undashed(v)))
<1> DEFINE S == {i \in DOMAIN v : v[i] # "-"}
           u(n) == v[Ordered(S)[n]]
           m == Cardinality(S)
<1>1. Len(v) \in Nat /\ DOMAIN v = 1..Len(v)  BY LenProperties
<1>2. IsFiniteSet(1..Len(v)) /\ Cardinality(1..Len(v)) = Len(v)  BY <1>1, FS_Interval
<1>3. S \subseteq 1..Len(v)  BY <1>1
<1>4. m \in Nat /\ m <= Len(v)
  BY <1>2, <1>3, FS_Subset, FS_CardinalityType
<1>5. Undashed(v) = [n \in 1..m |-> u(n)]  BY DEF Undashed, Pick
<1> HIDE DEF m, u
<1>6. DOMAIN Undashed(v) = 1..m  BY <1>5
<1>7. \A n \in 1..m : u(n) \in Chars(Undashed(v))  BY <1>5, <1>6 DEF Chars
<1>8. [n \in 1..m |-> u(n)] \in Seq(Chars(Undashed(v)))  BY <1>4, <1>7, IsASeq
<1>9. Len(Undashed(v)) = m
  BY <1>4, <1>5, <1>6, <1>8, LenProperties
<1> QED  BY <1>4, <1>5, <1>6, <1>8, <1>9 DEF IsSequence

LEMMA CutIs ==
  ASSUME ValueAssumption, NEW v \in Seq(STRING)
  PROVE  Cut(v) \in Seq(STRING) /\ Len(Cut(v)) <= 2 * MaxPatchBytes
<1>1. Len(v) \in Nat /\ DOMAIN v = 1..Len(v) /\ Longest = 2 * MaxPatchBytes /\ Longest \in Nat
  BY LenProperties DEF Longest, ValueAssumption
<1>2. CASE Len(v) > Longest
  <2>1. Cut(v) = SubSeq(v, 1, Longest)  BY <1>2 DEF Cut
  <2>2. \A i \in 1..Longest : v[i] \in STRING  BY <1>1, <1>2, ElementOfSeq
  <2> QED  BY <1>1, <2>1, <2>2, SubSeqProperties
<1>3. CASE ~(Len(v) > Longest)
  BY <1>1, <1>3 DEF Cut
<1> QED  BY <1>2, <1>3

\* half a byte stands at the beginning
LEMMA DecodedIs ==
  ASSUME NEW S, NEW v \in Seq(S)
  PROVE  Decoded(v) = Bytes(v)
<1> DEFINE n == Len(v)
           T == S \cup {"0"}
<1>1. n \in Nat /\ v \in Seq(T) /\ \A i \in 1..n : v[i] \in T
  BY LenProperties, ElementOfSeq
<1>2. CASE n % 2 = 0
  <2>1. Padded(v) = v /\ Shift(v) = 0  BY <1>2 DEF Padded, Shift
  <2>2. n \div 2 = (n + 1) \div 2  BY <1>1, <1>2
  <2>3. \A k \in 1..(n \div 2) : 2 * k - 1 # 0 /\ 2 * k - 1 - 0 = 2 * k - 1 /\ 2 * k - 0 = 2 * k
    BY <1>1
  <2> QED  BY <2>1, <2>2, <2>3 DEF Decoded, Bytes
<1>3. CASE n % 2 # 0
  <2>1. Padded(v) = <<"0">> \o v /\ Shift(v) = 1  BY <1>1, <1>3 DEF Padded, Shift
  <2>2. <<"0">> \in Seq(T) /\ Len(<<"0">>) = 1 /\ <<"0">>[1] = "0"  OBVIOUS
  <2> DEFINE p == Padded(v)
  <2>3. Len(p) = n + 1 /\ \A i \in 1..(n + 1) : p[i] = IF i <= 1 THEN "0" ELSE v[i - 1]
    <3>1. /\ Len(<<"0">> \o v) = Len(<<"0">>) + n
          /\ \A i \in 1..(Len(<<"0">>) + n) :
               (<<"0">> \o v)[i] = IF i <= Len(<<"0">>) THEN <<"0">>[i] ELSE v[i - Len(<<"0">>)]
      BY <1>1, <2>2, ConcatProperties
    <3>2. \A i \in 1..(1 + n) : i <= 1 => i = 1  BY <1>1
    <3>3. 1 + n = n + 1  BY <1>1
    <3> QED  BY <2>1, <2>2, <3>1, <3>2, <3>3
  <2> HIDE DEF p
  <2>4. \A k \in 1..((n + 1) \div 2) :
          /\ 2 * k - 1 \in 1..(n + 1) /\ 2 * k \in 1..(n + 1)
          /\ (2 * k - 1 <= 1 <=> 2 * k - 1 - 1 = 0) /\ ~(2 * k <= 1)
    BY <1>1, <1>3
  <2>5. \A k \in 1..((n + 1) \div 2) :
          <<p[2 * k - 1], p[2 * k]>> =
          <<IF 2 * k - 1 - 1 = 0 THEN "0" ELSE v[2 * k - 1 - 1], v[2 * k - 1]>>
    BY <2>3, <2>4
  <2>6. Decoded(v) = [k \in 1..((n + 1) \div 2) |-> <<p[2 * k - 1], p[2 * k]>>]
    BY <2>3 DEF Decoded, p
  <2>7. Bytes(v) = [k \in 1..((n + 1) \div 2) |->
                      <<IF 2 * k - 1 - 1 = 0 THEN "0" ELSE v[2 * k - 1 - 1], v[2 * k - 1]>>]
    BY <2>1 DEF Bytes
  <2> QED  BY <2>5, <2>6, <2>7
<1> QED  BY <1>2, <1>3

\* what fits in the buffer is not too long to be decoded
LEMMA DecodesIs ==
  ASSUME ValueAssumption, NEW S, NEW v \in Seq(S), Len(v) <= 2 * MaxPatchBytes
  PROVE  Decodes(v) <=> AllHex(v)
<1>1. Len(v) \in Nat /\ (v # <<>> <=> Len(v) > 0)  BY LenProperties, EmptySeq
<1>2. Fits(v)  BY <1>1 DEF Fits, ValueAssumption
<1>3. IsHex(v) <=> {v[i] : i \in DOMAIN v} \subseteq HexDigits  BY DEF IsHex
<1> QED  BY <1>1, <1>2, <1>3 DEF Decodes, AllHex

LEMMA JsonPatchIs ==
  ASSUME ValueAssumption, NEW t, IsPatch(t), NEW i
  PROVE  /\ Sound(t, JsonDigits(t.on), JsonDigits(t.off)) <=> GoodPatch(t, JsonDigits)
         /\ ParsedPatch(i, JsonDigits(t.on), JsonDigits(t.off)) = PatchOf(t, i, JsonDigits)
<1>1. ASSUME NEW v \in Seq(STRING)
      PROVE  (Decodes(JsonDigits(v)) <=> AllHex(JsonDigits(v)))
             /\ Decoded(JsonDigits(v)) = Bytes(JsonDigits(v))
  BY CutIs, DecodesIs, DecodedIs DEF JsonDigits
<1> QED  BY <1>1 DEF IsPatch, Sound, GoodPatch, ParsedPatch, PatchOf

LEMMA ShnPatchIs ==
  ASSUME ValueAssumption, NEW t, IsPatch(t), NEW i
  PROVE  /\ Sound(t, ShnDigits(t.on), ShnDigits(t.off)) <=> GoodPatch(t, ShnDigits)
         /\ ParsedPatch(i, ShnDigits(t.on), ShnDigits(t.off)) = PatchOf(t, i, ShnDigits)
<1>1. ASSUME NEW v \in Seq(STRING)
      PROVE  (Decodes(ShnDigits(v)) <=> AllHex(ShnDigits(v)))
             /\ Decoded(ShnDigits(v)) = Bytes(ShnDigits(v))
  <2>1. Cut(v) \in Seq(STRING) /\ Len(Cut(v)) <= 2 * MaxPatchBytes  BY CutIs
  <2>2. /\ Len(ShnDigits(v)) \in Nat /\ Len(ShnDigits(v)) <= Len(Cut(v))
        /\ ShnDigits(v) \in Seq(Chars(ShnDigits(v)))
    BY <2>1, UndashedIs DEF ShnDigits, IsSequence
  <2>3. Len(ShnDigits(v)) <= 2 * MaxPatchBytes
    BY <2>1, <2>2, LenProperties DEF ValueAssumption
  <2> QED  BY <2>2, <2>3, DecodesIs, DecodedIs
<1> QED  BY <1>1 DEF IsPatch, Sound, GoodPatch, ParsedPatch, PatchOf

-----------------------------------------------------------------------------
(* What the operations do to the cheats that are published, and to the one that is      *)
(* being filled.                                                                        *)

InOrder == \A k \in 1..file.cheat_count : Slots[k].id = k - 1
Patch(i) == patchBlocks[Entry.patches][i]
\* the slots of the published cheats, and their patches, are as they were
Kept ==
  /\ file'.cheat_count = file.cheat_count
  /\ \A k \in 1..file.cheat_count :
       /\ Slots'[k] = Slots[k]
       /\ Slots[k].patches # None =>
            patchBlocks'[Slots[k].patches] = patchBlocks[Slots[k].patches]
Stays == Published' = Published /\ (InOrder => InOrder')

LEMMA SeenIs ==
  ASSUME Good, NEW k \in 1..file.cheat_capacity, Slots'[k] = Slots[k],
         Slots[k].patches # None => patchBlocks'[Slots[k].patches] = patchBlocks[Slots[k].patches]
  PROVE  Seen(Slots[k])' = Seen(Slots[k])
<1>1. Slots[k] \in Entries /\ Holds(Slots[k], patchBlocks)
  BY SlotsAre DEF Good, Owned
<1>2. Slots[k].patches = None => 1..Slots[k].patch_count = {}
  BY <1>1 DEF Entries, Holds
<1> QED  BY <1>1, <1>2 DEF Seen

LEMMA KeptIs ==
  ASSUME Good, Kept
  PROVE  Stays
<1>1. 1..file.cheat_count \subseteq 1..file.cheat_capacity  BY DEF Good, Typed, Files
<1>2. \A k \in 1..file.cheat_count : Seen(Slots[k])' = Seen(Slots[k])
  BY <1>1, SeenIs DEF Kept
<1>3. Published' = Published  BY <1>2 DEF Published, Kept
<1>4. InOrder => InOrder'  BY DEF InOrder, Kept
<1> QED  BY <1>3, <1>4 DEF Stays

\* a slot that is not published is written
LEMMA WriteKeeps ==
  ASSUME Good, cheat # NoRef, NEW e, Slots' = [Slots EXCEPT ![cheat.at] = e]
  PROVE  \A k \in 1..file.cheat_count : Slots'[k] = Slots[k] /\ k # cheat.at
<1>1. cheat.at = file.cheat_count + 1 /\ file.cheat_count \in Nat  BY EntryIs DEF Good, Typed, Files
<1>2. Slots \in [1..file.cheat_capacity -> Entries]
      /\ 1..file.cheat_count \subseteq 1..file.cheat_capacity
  BY SlotsAre DEF Good, Typed, Files
<1> QED  BY <1>1, <1>2

\* and its patches are not those of a published cheat
LEMMA OtherPatches ==
  ASSUME Good, cheat # NoRef, NEW k \in 1..file.cheat_count, Slots[k].patches # None
  PROVE  /\ Slots[k].patches # Entry.patches /\ Slots[k].patches # fresh
         /\ Slots[k].patches \in DOMAIN patchBlocks
<1>1. /\ k \in 1..file.cheat_capacity /\ k # cheat.at /\ cheat.at \in 1..file.cheat_capacity
      /\ Entry = Slots[cheat.at]
  BY EntryIs DEF Good, Typed, Files
<1>2. /\ Slots[k].patches < fresh /\ Slots[k] \in Entries /\ fresh \in Nat
      /\ Holds(Slots[k], patchBlocks) /\ Slots[k].patches # Slots[cheat.at].patches
  BY <1>1 DEF Good, Owned
<1>3. Slots[k].patches # fresh  BY <1>2 DEF Entries
<1>4. Slots[k].patches \in DOMAIN patchBlocks  BY <1>2 DEF Holds
<1> QED  BY <1>1, <1>2, <1>3, <1>4

LEMMA EnsureCheatStays ==
  ASSUME CapacityAssumption, Good, cheat = NoRef, EnsureCheat
  PROVE  /\ Stays /\ file'.cheat_count = file.cheat_count /\ file'.authors = file.authors
         /\ file'.cheat_count < MaxCheats
<1>1. file.cheat_count <= file.cheat_capacity /\ file.cheat_capacity <= MaxCheats
      /\ file.cheat_count \in Nat /\ file.cheat_capacity \in Nat /\ MaxCheats \in Nat
  BY DEF Good, Typed, Files, CapacityAssumption
<1>2. CASE TakeSlot
  <2>1. file' = file /\ cheatBlocks' = cheatBlocks /\ patchBlocks' = patchBlocks
    BY <1>2 DEF TakeSlot, blocks
  <2>2. Slots' = Slots  BY <2>1 DEF Slots
  <2>3. Kept  BY <2>1, <2>2 DEF Kept
  <2>4. file.cheat_count < MaxCheats  BY <1>1, <1>2 DEF TakeSlot, SlotFree
  <2> QED  BY <2>1, <2>3, <2>4, KeptIs
<1>3. CASE GrowCheats
  <2> DEFINE n == Doubled(file.cheat_capacity, MaxCheats)
  <2>1. n \in Nat /\ file.cheat_capacity < n
    BY <1>3 DEF GrowCheats, MayGrow, Doubled, CapacityAssumption, Good, Typed, Files
  <2>2. /\ file' = [file EXCEPT !.cheats = fresh, !.cheat_capacity = n] /\ patchBlocks' = patchBlocks
        /\ cheatBlocks' = Moved(cheatBlocks, file.cheats, NoCheat, n)
    BY <1>3 DEF GrowCheats
  <2> HIDE DEF n
  <2>3. file'.cheat_count = file.cheat_count /\ file'.authors = file.authors /\ file'.cheats = fresh
    BY <2>2 DEF Good, Typed, Files
  <2>4. ASSUME NEW k \in 1..file.cheat_count PROVE Slots'[k] = Slots[k]
    <3>1. file.cheat_capacity # 0 /\ k \in 1..file.cheat_capacity /\ k \in 1..n
      BY <1>1, <2>1
    <3>2. /\ DOMAIN cheatBlocks = {file.cheats} /\ DOMAIN cheatBlocks[file.cheats] = 1..file.cheat_capacity
          /\ Slots = cheatBlocks[file.cheats] /\ file.cheats # fresh
      BY <3>1, SlotsAre DEF Good, Typed, Files, Owned
    <3>3. Slots' = cheatBlocks'[fresh]
      BY <2>3 DEF Slots, Good, Owned, None
    <3> QED  BY <3>1, <3>2, <3>3, <2>2 DEF Moved
  <2>5. Kept  BY <2>2, <2>3, <2>4 DEF Kept
  <2>6. file.cheat_count < MaxCheats  BY <1>1, <1>3 DEF GrowCheats, MayGrow
  <2> QED  BY <2>3, <2>5, <2>6, KeptIs
<1> QED  BY <1>2, <1>3 DEF EnsureCheat

\* texts, or nothing, in a slot without patches, or one whose patches are freed
LEMMA SetEntryStays ==
  ASSUME CapacityAssumption, Good, cheat # NoRef, NEW e \in Entries, SetEntry(e),
         patchBlocks' = patchBlocks \/ patchBlocks' = Without(patchBlocks, {Entry.patches})
  PROVE  Stays /\ file' = file /\ (cheat' = cheat => Entry' = e)
<1>1. file' = file /\ cheatBlocks' = [cheatBlocks EXCEPT ![cheat.block][cheat.at] = e]
  BY DEF SetEntry
<1>2. Slots' = [Slots EXCEPT ![cheat.at] = e]  BY <1>1, WriteSlot
<1>3. \A k \in 1..file.cheat_count : Slots[k].patches # None =>
        patchBlocks'[Slots[k].patches] = patchBlocks[Slots[k].patches]
  BY OtherPatches DEF Without
<1>4. Kept  BY <1>1, <1>2, <1>3, WriteKeeps DEF Kept
<1>5. cheat' = cheat => Entry' = e  BY <1>1, EntryIs DEF Entry, Good, Typed
<1> QED  BY <1>1, <1>4, <1>5, KeptIs

LEMMA EnsurePatchStays ==
  ASSUME CapacityAssumption, Good, cheat # NoRef, EnsurePatch
  PROVE  /\ Stays /\ file' = file /\ Entry.patch_count < MaxPatches
         /\ Entry'.text = Entry.text /\ Entry'.author = Entry.author
         /\ Entry'.patch_count = Entry.patch_count
         /\ \A i \in 1..Entry.patch_count : Patch(i)' = Patch(i)
<1>1. Entry \in Entries /\ Holds(Entry, patchBlocks) /\ MaxPatches \in Nat
  BY EntryIs DEF CapacityAssumption
<1>2. CASE PatchFree /\ UNCHANGED fileVars
  <2>1. UNCHANGED <<file, cheatBlocks, patchBlocks, cheat>>  BY <1>2 DEF fileVars, blocks
  <2>2. Slots' = Slots /\ Entry' = Entry  BY <2>1 DEF Slots, Entry
  <2>3. Kept  BY <2>1, <2>2 DEF Kept
  <2>4. Entry.patch_count < MaxPatches  BY <1>1, <1>2 DEF PatchFree, Holds, Entries
  <2> QED  BY <2>1, <2>2, <2>3, <2>4, KeptIs DEF Patch
<1>3. CASE GrowPatches
  <2> DEFINE n == Doubled(Entry.patch_capacity, MaxPatches)
             e == [Entry EXCEPT !.patches = fresh, !.patch_capacity = n]
             h == Moved(patchBlocks, Entry.patches, NoPatch, n)
  <2>1. /\ Entry.patch_capacity \in Nat /\ Entry.patch_count \in Nat
        /\ Entry.patch_count <= Entry.patch_capacity /\ Entry.patch_capacity < MaxPatches
    BY <1>1, <1>3 DEF GrowPatches, MayGrowPatches, Entries, Holds
  <2>2. n \in Nat /\ Entry.patch_capacity < n
    BY <2>1 DEF Doubled, CapacityAssumption
  <2>3. fresh \in Nat \ {0}  BY DEF Good, Owned
  <2> HIDE DEF n
  <2>4. e \in Entries /\ e.patches = fresh /\ e.patch_count = Entry.patch_count
        /\ e.text = Entry.text /\ e.author = Entry.author
    BY <1>1, <2>2, <2>3 DEF Entries
  <2>5. file' = file /\ cheat' = cheat /\ patchBlocks' = h
    BY <1>3 DEF GrowPatches, n
  <2>6. cheatBlocks' = [cheatBlocks EXCEPT ![cheat.block][cheat.at] = e]
    BY <1>3, EntryIs DEF GrowPatches, Good, Typed, Entry, n
  <2> HIDE DEF e
  <2>7. Slots' = [Slots EXCEPT ![cheat.at] = e]  BY <2>4, <2>5, <2>6, WriteSlot
  <2>8. Entry' = e  BY <2>5, <2>6, EntryIs DEF Entry, Good, Typed
  <2>9. \A k \in 1..file.cheat_count : Slots[k].patches # None =>
          h[Slots[k].patches] = patchBlocks[Slots[k].patches]
    BY OtherPatches DEF Moved
  <2>10. Kept  BY <2>5, <2>7, <2>9, WriteKeeps DEF Kept
  <2>11. ASSUME NEW i \in 1..Entry.patch_count PROVE h[fresh][i] = patchBlocks[Entry.patches][i]
    <3>1. i \in 1..n /\ i \in 1..Entry.patch_capacity /\ Entry.patch_capacity # 0
      BY <2>1, <2>2
    <3>2. Entry.patches \in DOMAIN patchBlocks /\ i \in DOMAIN patchBlocks[Entry.patches]
      BY <1>1, <3>1 DEF Holds
    <3>3. h[fresh] = [k \in 1..n |-> IF Entry.patches \in DOMAIN patchBlocks
                                        /\ k \in DOMAIN patchBlocks[Entry.patches]
                                     THEN patchBlocks[Entry.patches][k] ELSE NoPatch]
      BY DEF Moved
    <3> QED  BY <3>1, <3>2, <3>3
  <2>12. \A i \in 1..Entry.patch_count : Patch(i)' = Patch(i)
    BY <2>4, <2>5, <2>8, <2>11 DEF Patch
  <2>13. Entry.patch_count < MaxPatches  BY <1>1, <2>1
  <2> QED  BY <2>4, <2>5, <2>8, <2>10, <2>12, <2>13, KeptIs
<1> QED  BY <1>2, <1>3 DEF EnsurePatch

LEMMA AddPatchStays ==
  ASSUME Good, cheat # NoRef, Entry.patch_count < Entry.patch_capacity, NEW p, AddPatch(p)
  PROVE  /\ Stays /\ file' = file
         /\ Entry'.text = Entry.text /\ Entry'.author = Entry.author
         /\ Entry'.patch_count = Entry.patch_count + 1
         /\ \A i \in 1..Entry.patch_count : Patch(i)' = Patch(i)
         /\ \A i : i = Entry.patch_count + 1 => Patch(i)' = p
<1> DEFINE e == [Entry EXCEPT !.patch_count = @ + 1]
           g == [patchBlocks EXCEPT ![Entry.patches][Entry.patch_count + 1] = p]
<1>1. /\ cheat.at \in 1..file.cheat_capacity /\ Entry = Slots[cheat.at] /\ Entry \in Entries
      /\ Holds(Entry, patchBlocks) /\ cheat.block = file.cheats
  BY EntryIs
<1>2. /\ e \in Entries /\ e.patches = Entry.patches /\ e.patch_count = Entry.patch_count + 1
      /\ e.text = Entry.text /\ e.author = Entry.author
  BY <1>1 DEF Entries
<1>3. file' = file /\ cheat' = cheat /\ patchBlocks' = g  BY DEF AddPatch
<1>4. cheatBlocks' = [cheatBlocks EXCEPT ![cheat.block][cheat.at] = e]
  BY EntryIs DEF AddPatch, Good, Typed, Entry
<1> HIDE DEF e
<1>5. Slots' = [Slots EXCEPT ![cheat.at] = e]  BY <1>2, <1>3, <1>4, WriteSlot
<1>6. Entry' = e  BY <1>3, <1>4, EntryIs DEF Entry, Good, Typed
<1>7. \A k \in 1..file.cheat_count : Slots[k].patches # None =>
        g[Slots[k].patches] = patchBlocks[Slots[k].patches]
  BY OtherPatches
<1>8. Kept  BY <1>3, <1>5, <1>7, WriteKeeps DEF Kept
<1>9. /\ Entry.patch_count \in Nat /\ Entry.patch_capacity \in Nat
      /\ Entry.patches \in DOMAIN patchBlocks
      /\ DOMAIN patchBlocks[Entry.patches] = 1..Entry.patch_capacity
  BY <1>1 DEF Holds, Entries
<1>10. g[Entry.patches] = [patchBlocks[Entry.patches] EXCEPT ![Entry.patch_count + 1] = p]
  BY <1>9
<1> HIDE DEF g
<1>11. /\ \A i \in 1..Entry.patch_count : g[Entry.patches][i] = patchBlocks[Entry.patches][i]
       /\ g[Entry.patches][Entry.patch_count + 1] = p
  BY <1>9, <1>10
<1>12. Entry'.patches = Entry.patches  BY <1>2, <1>6
<1>13. \A i \in 1..Entry.patch_count : Patch(i)' = Patch(i)
  BY <1>3, <1>11, <1>12 DEF Patch
<1>14. ASSUME NEW i, i = Entry.patch_count + 1 PROVE Patch(i)' = p
  BY <1>3, <1>11, <1>12, <1>14 DEF Patch
<1> QED  BY <1>2, <1>3, <1>6, <1>8, <1>13, <1>14, KeptIs

\* the cheat being filled
Filled == [text |-> Entry.text, author |-> Entry.author,
           patches |-> [i \in 1..Entry.patch_count |-> Patch(i)]]

LEMMA PublishSays ==
  ASSUME CapacityAssumption, Good, cheat # NoRef, Publish
  PROVE  /\ file'.cheat_count = file.cheat_count + 1
         /\ file'.authors = AddAuthor(file.authors, Entry.author)
         /\ \A k \in 1..file.cheat_count : Published'[k] = Published[k]
         /\ Published'[file.cheat_count + 1] = Filled
         /\ InOrder => InOrder'
<1> DEFINE e == Identified
           n == file.cheat_count
<1>1. /\ cheatBlocks' = [cheatBlocks EXCEPT ![cheat.block][cheat.at] = e] /\ patchBlocks' = patchBlocks
      /\ file' = [file EXCEPT !.cheat_count = @ + 1, !.authors = AddAuthor(@, Entry.author)]
  BY DEF Publish
<1>2. /\ Entry \in Entries /\ cheat.at = n + 1 /\ cheat.block = file.cheats /\ file.cheats # None
      /\ cheat.at \in 1..file.cheat_capacity /\ Entry = Slots[cheat.at]
      /\ file \in Files /\ n \in Nat
  BY EntryIs DEF Good, Typed, Files
<1>3. /\ e.text = Entry.text /\ e.author = Entry.author /\ e.patches = Entry.patches
      /\ e.patch_count = Entry.patch_count /\ e.id = n
  BY <1>2 DEF Entries, Identified
<1> HIDE DEF e
<1>4. /\ file'.cheat_count = n + 1 /\ file'.cheats = file.cheats
      /\ file'.authors = AddAuthor(file.authors, Entry.author)
  BY <1>1, <1>2 DEF Files
<1>5. Slots' = [Slots EXCEPT ![cheat.at] = e]
  <2>1. cheatBlocks \in [{file.cheats} -> [1..file.cheat_capacity -> Entries]]
    BY <1>2 DEF Good, Typed
  <2>2. Slots = cheatBlocks[file.cheats] /\ Slots' = cheatBlocks'[file.cheats]
    BY <1>2, <1>4 DEF Slots
  <2> QED  BY <2>1, <2>2, <1>1, <1>2
<1>6. Slots'[n + 1] = e  BY <1>2, <1>5, SlotsAre DEF Good
<1>7. \A k \in 1..n : Slots'[k] = Slots[k]  BY <1>5, WriteKeeps
<1>8. \A k \in 1..n : Seen(Slots[k])' = Seen(Slots[k])
  <2>1. 1..n \subseteq 1..file.cheat_capacity  BY DEF Good, Typed, Files
  <2> QED  BY <1>1, <1>7, <2>1, SeenIs
<1>9. \A k : k = n + 1 => Seen(Slots[k])' = Filled
  BY <1>1, <1>3, <1>6 DEF Seen, Filled, Patch
<1>10. /\ \A k \in 1..n : k \in 1..(n + 1) /\ Published[k] = Seen(Slots[k])
       /\ \A k \in 1..(n + 1) : Published'[k] = Seen(Slots[k])'
  BY <1>2, <1>4 DEF Published
<1>11. n + 1 \in 1..(n + 1)  BY <1>2
<1>12. InOrder => InOrder'
  <2>1. \A k \in 1..(n + 1) : k \in 1..n \/ k = n + 1  BY <1>2
  <2>2. n = (n + 1) - 1  BY <1>2
  <2> QED  BY <1>3, <1>4, <1>6, <1>7, <2>1, <2>2 DEF InOrder
<1> QED  BY <1>4, <1>8, <1>9, <1>10, <1>11, <1>12

-----------------------------------------------------------------------------
(* The order of a set of numbers, and the authors of a document. *)

\* how many come before
Below(S, k) == {j \in S : j < k}
Rank(S, k) == Cardinality(Below(S, k))

LEMMA RankIs ==
  ASSUME NEW S \in SUBSET Nat, IsFiniteSet(S), NEW k \in Nat
  PROVE  /\ IsFiniteSet(Below(S, k)) /\ Rank(S, k) \in Nat /\ Rank(S, k) <= Cardinality(S)
         /\ Rank(S, k + 1) = IF k \in S THEN Rank(S, k) + 1 ELSE Rank(S, k)
         /\ k \in S => Rank(S, k) < Cardinality(S)
<1>1. IsFiniteSet(Below(S, k)) /\ Rank(S, k) <= Cardinality(S) /\ Rank(S, k) \in Nat
  BY FS_Subset, FS_CardinalityType DEF Below, Rank
<1>0. \A j \in S : j \in Nat /\ (j < k + 1 <=> j < k \/ j = k)  OBVIOUS
<1>2. Below(S, k + 1) = IF k \in S THEN Below(S, k) \cup {k} ELSE Below(S, k)
  BY <1>0, Zenon DEF Below
<1>3. Rank(S, k + 1) = IF k \in S THEN Rank(S, k) + 1 ELSE Rank(S, k)
  <2>1. k \notin Below(S, k)  BY DEF Below
  <2>2. CASE k \in S
    <3>1. Cardinality(Below(S, k) \cup {k}) = Cardinality(Below(S, k)) + 1
      BY <1>1, <2>1, FS_AddElement
    <3> QED  BY <1>2, <2>2, <3>1 DEF Rank
  <2>3. CASE k \notin S  BY <1>2, <2>3 DEF Rank
  <2> QED  BY <2>2, <2>3
<1>4. Rank(S, k + 1) <= Cardinality(S) /\ Cardinality(S) \in Nat
  BY FS_Subset, FS_CardinalityType DEF Below, Rank
<1> QED  BY <1>1, <1>3, <1>4

LEMMA RankGrows ==
  ASSUME NEW S \in SUBSET Nat, IsFiniteSet(S), NEW j \in Nat, NEW k \in Nat, j <= k
  PROVE  /\ Rank(S, j) <= Rank(S, k)
         /\ j \in S /\ j < k => Rank(S, j) < Rank(S, k)
<1>0. \A i \in S : i < j => i < k  OBVIOUS
<1>1. Below(S, j) \in SUBSET Below(S, k)  BY <1>0, Zenon DEF Below
<1>2. Rank(S, j) <= Rank(S, k)  BY <1>1, RankIs, FS_Subset DEF Rank
<1>3. ASSUME j \in S, j < k PROVE Rank(S, j) < Rank(S, k)
  <2>0. \A i \in S : i < j + 1 => i < k  BY <1>3
  <2>1. Below(S, j + 1) \in SUBSET Below(S, k)  BY <2>0, Zenon DEF Below
  <2>2. Rank(S, j + 1) <= Rank(S, k)  BY <2>1, RankIs, FS_Subset DEF Rank
  <2> QED  BY <1>3, <2>2, RankIs
<1> QED  BY <1>2, <1>3

LEMMA SameRank ==
  ASSUME NEW S \in SUBSET Nat, IsFiniteSet(S), NEW j \in S, NEW k \in S,
         Rank(S, j) = Rank(S, k)
  PROVE  j = k
<1>1. j \in Nat /\ k \in Nat /\ Rank(S, j) \in Nat  BY RankIs
<1>2. ~(j < k) /\ ~(k < j)  BY <1>1, RankGrows
<1> QED  BY <1>1, <1>2

LEMMA OrderedIs ==
  ASSUME NEW S \in SUBSET Nat, IsFiniteSet(S), NEW k \in S
  PROVE  /\ Rank(S, k) + 1 \in 1..Cardinality(S)
         /\ Ordered(S)[Rank(S, k) + 1] = k
<1>1. /\ Rank(S, k) \in Nat /\ Rank(S, k) < Cardinality(S) /\ Cardinality(S) \in Nat
  BY RankIs, FS_CardinalityType
<1> DEFINE n == Rank(S, k) + 1
<1>2. n \in 1..Cardinality(S) /\ n - 1 = Rank(S, k)  BY <1>1
<1>3. Ordered(S)[n] = CHOOSE i \in S : Rank(S, i) = n - 1
  BY <1>2 DEF Ordered, Rank, Below
<1>4. \A i \in S : Rank(S, i) = n - 1 => i = k  BY <1>2, SameRank
<1> HIDE DEF n
<1>5. (CHOOSE i \in S : Rank(S, i) = n - 1) = k  BY <1>2, <1>4
<1> QED  BY <1>2, <1>3, <1>5 DEF n

\* the places of the names that count, and the names once those below m have been added
Firsts(us) == {i \in DOMAIN us : us[i] # None /\ FirstOf(us, i)}
NamesSo(us, m, got) ==
  /\ Len(got) = IF Rank(Firsts(us), m) > MaxAuthors THEN MaxAuthors ELSE Rank(Firsts(us), m)
  /\ \A n \in 1..Len(got) :
       \E i \in Firsts(us) : i < m /\ Rank(Firsts(us), i) = n - 1 /\ got[n] = us[i]

LEMMA FirstsAre ==
  ASSUME NEW T, NEW us \in Seq(T)
  PROVE  /\ Len(us) \in Nat /\ DOMAIN us = 1..Len(us)
         /\ Firsts(us) \in SUBSET (1..Len(us)) /\ Firsts(us) \in SUBSET Nat
         /\ IsFiniteSet(Firsts(us))
<1>1. Len(us) \in Nat /\ DOMAIN us = 1..Len(us)  BY LenProperties
<1>2. Firsts(us) \in SUBSET (1..Len(us))  BY <1>1 DEF Firsts
<1>3. IsFiniteSet(1..Len(us))  BY <1>1, FS_Interval
<1> QED  BY <1>1, <1>2, <1>3, FS_Subset

LEMMA NamesNone ==
  ASSUME CapacityAssumption, NEW T, NEW us \in Seq(T)
  PROVE  NamesSo(us, 1, <<>>)
<1>1. Below(Firsts(us), 1) = {}  BY FirstsAre DEF Below
<1>2. Rank(Firsts(us), 1) = 0  BY <1>1, FS_EmptySet DEF Rank
<1>3. Len(<<>>) = 0 /\ 1..0 = {}  BY EmptySeq
<1> QED  BY <1>2, <1>3 DEF NamesSo, CapacityAssumption

\* a name that is not the first of its kind is there already, unless there is no room
LEMMA NameIsThere ==
  ASSUME NEW T, NEW us \in Seq(T), NEW m \in 1..Len(us), NEW got \in Seq(T), NamesSo(us, m, got),
         MaxAuthors \in Nat, Len(got) < MaxAuthors, us[m] # None, ~FirstOf(us, m)
  PROVE  \E n \in DOMAIN got : got[n] = us[m]
<1> DEFINE S == Firsts(us)
           J == {j \in 1..(m - 1) : us[j] = us[m]}
<1>1. J \in SUBSET Nat /\ J # {}  BY DEF FirstOf
<1>2. PICK i \in J : \A j \in J : i <= j  BY <1>1, LeastExists
<1>3. /\ S \in SUBSET Nat /\ IsFiniteSet(S) /\ m \in Nat /\ i \in Nat /\ i < m
      /\ i \in DOMAIN us /\ us[i] = us[m]
  BY <1>2, FirstsAre
<1>4. FirstOf(us, i)
  <2> SUFFICES ASSUME NEW j \in 1..(i - 1), us[j] = us[i] PROVE FALSE  BY DEF FirstOf
  <2>1. j \in J  BY <1>2, <1>3
  <2> QED  BY <1>2, <1>3, <2>1
<1>5. i \in S  BY <1>3, <1>4 DEF Firsts
<1>6. Rank(S, i) \in Nat /\ Rank(S, m) \in Nat /\ Rank(S, i) < Rank(S, m)
  BY <1>3, <1>5, RankIs, RankGrows
<1>7. Len(got) \in Nat /\ DOMAIN got = 1..Len(got) /\ Len(got) = Rank(S, m)
      /\ \A n \in 1..Len(got) : \E k \in S : Rank(S, k) = n - 1 /\ got[n] = us[k]
  BY <1>6, LenProperties DEF NamesSo
<1> HIDE DEF S, J
<1> DEFINE n == Rank(S, i) + 1
<1>8. n \in 1..Len(got) /\ n - 1 = Rank(S, i)  BY <1>6, <1>7
<1>9. PICK k \in S : Rank(S, k) = n - 1 /\ got[n] = us[k]  BY <1>7, <1>8
<1>10. k = i  BY <1>3, <1>5, <1>8, <1>9, SameRank
<1> QED  BY <1>3, <1>7, <1>8, <1>9, <1>10

LEMMA NamesStep ==
  ASSUME CapacityAssumption, NEW T, NEW us \in Seq(T), NEW m \in 1..Len(us),
         NEW got \in Seq(T), NamesSo(us, m, got)
  PROVE  AddAuthor(got, us[m]) \in Seq(T) /\ NamesSo(us, m + 1, AddAuthor(got, us[m]))
<1> DEFINE S == Firsts(us)
           a == us[m]
<1>1. /\ S \in SUBSET Nat /\ IsFiniteSet(S) /\ m \in Nat /\ m + 1 \in Nat /\ m \in DOMAIN us
      /\ S \in SUBSET (1..Len(us)) /\ Len(us) \in Nat /\ MaxAuthors \in Nat /\ a \in T
  BY FirstsAre, ElementOfSeq DEF CapacityAssumption
<1>2. /\ Len(got) \in Nat /\ DOMAIN got = 1..Len(got)
      /\ Len(got) = IF Rank(S, m) > MaxAuthors THEN MaxAuthors ELSE Rank(S, m)
      /\ \A n \in 1..Len(got) : \E i \in S : i < m /\ Rank(S, i) = n - 1 /\ got[n] = us[i]
  BY LenProperties DEF NamesSo
<1>3. /\ Rank(S, m) \in Nat
      /\ Rank(S, m + 1) = IF m \in S THEN Rank(S, m) + 1 ELSE Rank(S, m)
  BY <1>1, RankIs
<1>4. \A n \in 1..Len(got) : \E i \in S : i < m + 1 /\ Rank(S, i) = n - 1 /\ got[n] = us[i]
  <2>1. \A i \in S : i < m => i < m + 1  BY <1>1
  <2> QED  BY <1>2, <2>1
<1>5. m \in S <=> a # None /\ FirstOf(us, m)  BY <1>1 DEF Firsts
<1> HIDE DEF S
<1>6. CASE m \notin S \/ Len(got) >= MaxAuthors
  <2>1. AddAuthor(got, a) = got
    <3>1. CASE a = None \/ Len(got) >= MaxAuthors  BY <3>1 DEF AddAuthor
    <3>2. CASE a # None /\ ~FirstOf(us, m) /\ Len(got) < MaxAuthors
      BY <1>1, <3>2, NameIsThere DEF AddAuthor
    <3> QED  BY <1>1, <1>2, <1>5, <1>6, <3>1, <3>2
  <2>2. Len(got) = IF Rank(S, m + 1) > MaxAuthors THEN MaxAuthors ELSE Rank(S, m + 1)
    BY <1>1, <1>2, <1>3, <1>6
  <2> QED  BY <1>2, <1>4, <2>1, <2>2 DEF NamesSo, S
<1>7. CASE m \in S /\ Len(got) < MaxAuthors
  <2>1. \A n \in DOMAIN got : got[n] # a
    <3> SUFFICES ASSUME NEW n \in DOMAIN got, got[n] = a PROVE FALSE  OBVIOUS
    <3>1. PICK i \in S : i < m /\ got[n] = us[i]  BY <1>2
    <3>2. i \in 1..(m - 1)  BY <1>1, <3>1
    <3> QED  BY <1>5, <1>7, <3>1, <3>2 DEF FirstOf
  <2>2. AddAuthor(got, a) = Append(got, a)
    BY <1>1, <1>2, <1>5, <1>7, <2>1 DEF AddAuthor
  <2> DEFINE new == Append(got, a)
  <2>3. /\ new \in Seq(T) /\ Len(new) = Len(got) + 1
        /\ \A n \in 1..Len(got) : new[n] = got[n]
        /\ new[Len(got) + 1] = a
    BY <1>1, <1>2, AppendProperties
  <2> HIDE DEF new
  <2>4. Len(got) = Rank(S, m)  BY <1>1, <1>2, <1>3, <1>7
  <2>5. Len(new) = IF Rank(S, m + 1) > MaxAuthors THEN MaxAuthors ELSE Rank(S, m + 1)
    BY <1>1, <1>3, <1>7, <2>3, <2>4
  <2>6. ASSUME NEW n \in 1..Len(new)
        PROVE  \E i \in S : i < m + 1 /\ Rank(S, i) = n - 1 /\ new[n] = us[i]
    <3>1. CASE n \in 1..Len(got)  BY <1>4, <2>3, <3>1
    <3>2. CASE n = Len(got) + 1
      <4>1. m < m + 1 /\ Rank(S, m) = n - 1  BY <1>1, <1>2, <2>4, <3>2
      <4> QED  BY <1>7, <2>3, <3>2, <4>1
    <3> QED  BY <1>2, <2>3, <3>1, <3>2
  <2>7. NamesSo(us, m + 1, new)  BY <2>3, <2>5, <2>6 DEF NamesSo, S
  <2> QED  BY <2>2, <2>7 DEF new
<1> QED  BY <1>1, <1>2, <1>6, <1>7

\* SubSeq of a function that is a sequence
LEMMA PickIs ==
  ASSUME NEW v, NEW S, IsFiniteSet(S), NEW T, \A n \in 1..Cardinality(S) : v[Ordered(S)[n]] \in T
  PROVE  /\ Pick(v, S) \in Seq(T) /\ Len(Pick(v, S)) = Cardinality(S)
         /\ \A n \in 1..Cardinality(S) : Pick(v, S)[n] = v[Ordered(S)[n]]
<1> DEFINE e(n) == v[Ordered(S)[n]]
           m == Cardinality(S)
<1>1. m \in Nat  BY FS_CardinalityType
<1>2. Pick(v, S) = [n \in 1..m |-> e(n)]  BY DEF Pick
<1>3. \A n \in 1..m : e(n) \in T  OBVIOUS
<1> HIDE DEF e, m
<1>4. [n \in 1..m |-> e(n)] \in Seq(T)  BY <1>1, <1>3, IsASeq
<1>5. DOMAIN Pick(v, S) = 1..m /\ Pick(v, S) \in Seq(T)  BY <1>2, <1>4
<1>6. Len(Pick(v, S)) = m  BY <1>1, <1>5, LenProperties
<1> QED  BY <1>2, <1>5, <1>6 DEF e, m

LEMMA TakeIs ==
  ASSUME NEW T, NEW s \in Seq(T), NEW n \in Nat
  PROVE  /\ Take(s, n) \in Seq(T)
         /\ Len(Take(s, n)) = IF Len(s) > n THEN n ELSE Len(s)
         /\ DOMAIN Take(s, n) = 1..Len(Take(s, n))
         /\ \A i \in 1..Len(Take(s, n)) : Take(s, n)[i] = s[i]
<1> DEFINE m == IF Len(s) > n THEN n ELSE Len(s)
<1>1. Len(s) \in Nat /\ m \in Nat /\ m <= Len(s)  BY LenProperties
<1>2. \A i \in 1..m : s[i] \in T  BY <1>1, ElementOfSeq
<1>3. Take(s, n) = SubSeq(s, 1, m)  BY DEF Take
<1> HIDE DEF m
<1>4. /\ SubSeq(s, 1, m) \in Seq(T)
      /\ Len(SubSeq(s, 1, m)) = IF 1 <= m THEN m - 1 + 1 ELSE 0
      /\ \A i \in 1..(m - 1 + 1) : SubSeq(s, 1, m)[i] = s[1 + i - 1]
  BY <1>1, <1>2, SubSeqProperties
<1>5. Len(Take(s, n)) = m /\ \A i \in 1..m : i \in 1..(m - 1 + 1) /\ 1 + i - 1 = i
  BY <1>1, <1>3, <1>4
<1> QED  BY <1>3, <1>4, <1>5, LenProperties DEF m

LEMMA NamesAll ==
  ASSUME CapacityAssumption, NEW T, NEW us \in Seq(T), NEW got \in Seq(T),
         NamesSo(us, Len(us) + 1, got)
  PROVE  got = Distinct(us)
<1> DEFINE S == Firsts(us)
           m == Len(us) + 1
           all == [n \in 1..Cardinality(S) |-> us[Ordered(S)[n]]]
           U == T \cup {all[n] : n \in DOMAIN all}
<1>1. /\ S \in SUBSET Nat /\ IsFiniteSet(S) /\ m \in Nat /\ S \in SUBSET (1..Len(us))
      /\ Len(us) \in Nat /\ MaxAuthors \in Nat /\ Cardinality(S) \in Nat
  BY FirstsAre, FS_CardinalityType DEF CapacityAssumption
<1>2. Below(S, m) = S  BY <1>1 DEF Below
<1>3. /\ Len(got) \in Nat
      /\ Len(got) = IF Cardinality(S) > MaxAuthors THEN MaxAuthors ELSE Cardinality(S)
      /\ \A n \in 1..Len(got) : \E i \in S : Rank(S, i) = n - 1 /\ got[n] = us[i]
  BY <1>2, LenProperties DEF NamesSo, Rank
<1>4. \A n \in 1..Len(got) : got[n] = us[Ordered(S)[n]]
  <2> SUFFICES ASSUME NEW n \in 1..Len(got) PROVE got[n] = us[Ordered(S)[n]]  OBVIOUS
  <2>1. PICK i \in S : Rank(S, i) = n - 1 /\ got[n] = us[i]  BY <1>3
  <2>2. Rank(S, i) + 1 = n  BY <1>3, <2>1
  <2> QED  BY <1>1, <2>1, <2>2, OrderedIs
<1>5. \A n \in 1..Cardinality(S) : us[Ordered(S)[n]] \in U  OBVIOUS
<1>6. Distinct(us) = Take(Pick(us, S), MaxAuthors)  BY DEF Distinct, Firsts
<1> HIDE DEF S, U
<1>7. /\ Pick(us, S) \in Seq(U) /\ Len(Pick(us, S)) = Cardinality(S)
      /\ \A n \in 1..Cardinality(S) : Pick(us, S)[n] = us[Ordered(S)[n]]
  BY <1>1, <1>5, PickIs
<1>8. /\ Distinct(us) \in Seq(U) /\ Len(Distinct(us)) = Len(got)
      /\ \A n \in 1..Len(got) : Distinct(us)[n] = Pick(us, S)[n]
  <2> DEFINE p == Pick(us, S)
  <2>1. p \in Seq(U) /\ Len(p) = Cardinality(S)  BY <1>7
  <2> HIDE DEF p
  <2>2. /\ Take(p, MaxAuthors) \in Seq(U)
        /\ Len(Take(p, MaxAuthors)) = IF Len(p) > MaxAuthors THEN MaxAuthors ELSE Len(p)
        /\ \A n \in 1..Len(Take(p, MaxAuthors)) : Take(p, MaxAuthors)[n] = p[n]
    BY <1>1, <2>1, TakeIs
  <2>3. Distinct(us) = Take(p, MaxAuthors)  BY <1>6 DEF p
  <2>4. Len(Take(p, MaxAuthors)) = Len(got)  BY <1>3, <2>1, <2>2
  <2> QED  BY <2>2, <2>3, <2>4 DEF p
<1>9. \A n \in 1..Len(got) : Distinct(us)[n] = got[n]
  <2>1. \A n \in 1..Len(got) : n \in 1..Cardinality(S)  BY <1>1, <1>3
  <2> QED  BY <1>4, <1>7, <1>8, <2>1
<1>10. got \in Seq(U) /\ Distinct(us) \in Seq(U)
  <2>1. T \subseteq U  BY DEF U
  <2> QED  BY <1>3, <1>8, <2>1
<1> QED  BY <1>8, <1>9, <1>10, SeqEqual

-----------------------------------------------------------------------------
(* What a load gives. *)

\* what GivesTheDocument says of a load that is over
Given ==
  /\ ~short /\ Tagged(doc) => (result <=> Accepts(doc))
  /\ ~result => file = NoFile
  /\ result =>
       /\ InOrder
       /\ IF doc.format = "shnext" /\ short THEN Remains(Published, doc)
          ELSE Tagged(doc) => Published = Cheats(doc) /\ file.authors = Names(doc)

LEMMA GivenIs == (pc = "done" => Given) => GivesTheDocument
BY DEF GivesTheDocument, Given, InOrder

LEMMA SameDocument ==
  ASSUME doc' = doc
  PROVE  /\ Accepts(doc)' = Accepts(doc) /\ Tagged(doc)' = Tagged(doc)
         /\ Cheats(doc)' = Cheats(doc) /\ Names(doc)' = Names(doc)
OBVIOUS

LEMMA RefusalIsGiven ==
  ASSUME file' = NoFile, result' = FALSE, doc' = doc, short' \/ ~Tagged(doc) \/ ~Accepts(doc)
  PROVE  Given'
BY SameDocument DEF Given

\* the file is not touched, or only its name and authors are
LEMMA NamesStay ==
  ASSUME Good, UNCHANGED <<blocks, cheat>>, file'.cheat_count = file.cheat_count,
         file'.cheats = file.cheats
  PROVE  Stays /\ Entry' = Entry /\ \A i : Patch(i)' = Patch(i)
<1>1. cheatBlocks' = cheatBlocks /\ patchBlocks' = patchBlocks /\ cheat' = cheat  BY DEF blocks
<1>2. Slots' = Slots /\ Entry' = Entry  BY <1>1 DEF Slots, Entry
<1>3. Kept  BY <1>1, <1>2 DEF Kept
<1> QED  BY <1>1, <1>2, <1>3, KeptIs DEF Patch

LEMMA FileStays ==
  ASSUME Good, UNCHANGED fileVars
  PROVE  Stays /\ Entry' = Entry /\ (\A i : Patch(i)' = Patch(i)) /\ file' = file
BY NamesStay DEF fileVars

-----------------------------------------------------------------------------
(* JSON: the cheats published are those of the objects passed. *)

JsonCheat(d, k) ==
  [text |-> k, author |-> None,
   patches |-> [i \in DOMAIN d.items[k].memory |-> PatchOf(d.items[k].memory[i], i, JsonDigits)]]
JsonInMod == {"json_fields", "json_patch", "json_value"}
JsonPassed ==
  /\ doc.header /\ InOrder /\ file.cheat_count = item - 1 /\ item <= Len(doc.items) + 1
  /\ \A k \in 1..(item - 1) : JsonGood(doc.items[k]) /\ Published[k] = JsonCheat(doc, k)
JsonNamed ==
  IF pc = "json_authors"
  THEN item = 1 /\ line <= Len(JsonAuthors) + 1 /\ NamesSo(JsonAuthors, line, file.authors)
  ELSE doc.list /\ file.authors = JsonNames(doc)
JsonFilled ==
  /\ Mod.name /\ Mod.memory # Missing /\ Entry.text = item /\ Entry.author = None
  /\ Entry.patch_count = line - 1
  /\ line <= Len(Mod.memory) + (IF pc = "json_value" THEN 0 ELSE 1)
  /\ \A i \in 1..(line - 1) :
       /\ GoodPatch(Mod.memory[i], JsonDigits)
       /\ Patch(i) = PatchOf(Mod.memory[i], i, JsonDigits)
JsonSo ==
  /\ pc \in JsonAt => ~doc.empty
  /\ pc = "json" => file = NoFile /\ item = 1 /\ line = 1
  /\ pc \in JsonAt \ {"json"} => JsonPassed /\ JsonNamed
  /\ pc \in JsonInMod => item <= Len(doc.items) /\ Mod.closed
  /\ pc \in {"json_mod", "json_fields"} => line = 1
  /\ pc \in {"json_patch", "json_value"} => JsonFilled

LEMMA JsonTyped ==
  ASSUME DocsAssumption, Place, pc \in JsonAt
  PROVE  /\ doc.format = "json" /\ item \in Nat \ {0} /\ line \in Nat \ {0}
         /\ Len(doc.items) \in Nat /\ DOMAIN doc.items = 1..Len(doc.items)
         /\ \A k \in 1..Len(doc.items) : doc.items[k].memory # Missing =>
              /\ Len(doc.items[k].memory) \in Nat
              /\ DOMAIN doc.items[k].memory = 1..Len(doc.items[k].memory)
              /\ \A i \in 1..Len(doc.items[k].memory) : IsPatch(doc.items[k].memory[i])
         /\ \E T : doc.credits \in Seq(T) /\ doc.authors \in Seq(T)
BY DEF Place, DocsAssumption, Known, Formats, JsonDoc, IsSequence

LEMMA JsonAcceptsIs ==
  ASSUME doc.format = "json", Accepts(doc)
  PROVE  JsonAccepts(doc)
BY DEF Accepts

\* what is refused is not what the format allows, or memory ran out
LEMMA JsonRefuses ==
  ASSUME CapacityAssumption, ValueAssumption, DocsAssumption, Inv, JsonSo,
         \/ JsonNoHeader \/ JsonNoList \/ JsonModRefused \/ JsonNoFields \/ JsonNoRoom
         \/ JsonBadValue \/ JsonNoPatches \/ JsonNoMods
  PROVE  Given' /\ pc' = "return"
<1>1. pc \in JsonAt /\ Reject
  BY DEF JsonNoHeader, JsonNoList, JsonModRefused, JsonNoFields, JsonNoRoom, JsonBadValue,
         JsonNoPatches, JsonNoMods, JsonAt
<1>2. file' = NoFile /\ result' = FALSE /\ doc' = doc /\ pc' = "return"
  BY <1>1 DEF Reject, Clear, Give
<1>3. /\ doc.format = "json" /\ item \in Nat \ {0} /\ line \in Nat \ {0}
      /\ Len(doc.items) \in Nat /\ DOMAIN doc.items = 1..Len(doc.items)
  BY <1>1, JsonTyped DEF Inv
<1>4. /\ file.cheat_count \in Nat /\ file.cheat_capacity \in Nat
      /\ MaxCheats \in Nat \ {0} /\ MaxPatches \in Nat \ {0}
  BY DEF Inv, Good, Typed, Files, CapacityAssumption
<1>5. ASSUME JsonAccepts(doc), pc \in JsonInMod
      PROVE  /\ item \in DOMAIN doc.items /\ JsonGood(Mod) /\ Mod.memory # Missing
             /\ Len(Mod.memory) \in 1..MaxPatches /\ DOMAIN Mod.memory = 1..Len(Mod.memory)
             /\ \A i \in 1..Len(Mod.memory) : IsPatch(Mod.memory[i])
  <2>1. item \in DOMAIN doc.items  BY <1>3, <1>5 DEF JsonSo
  <2>2. JsonGood(Mod)  BY <2>1, <1>5 DEF JsonAccepts, Mod
  <2> QED  BY <1>1, <1>3, <2>1, <2>2, JsonTyped DEF JsonGood, Mod, Inv
<1>6. CASE JsonNoHeader
  <2>1. ~JsonAccepts(doc)  BY <1>6 DEF JsonNoHeader, JsonAccepts
  <2> QED  BY <1>2, <1>3, <2>1, JsonAcceptsIs, RefusalIsGiven
<1>7. CASE JsonNoList
  <2>1. ~JsonAccepts(doc)  BY <1>7 DEF JsonNoList, JsonAccepts
  <2> QED  BY <1>2, <1>3, <2>1, JsonAcceptsIs, RefusalIsGiven
<1>8. CASE JsonModRefused
  <2>1. ASSUME JsonAccepts(doc) PROVE short'
    <3>1. item \in DOMAIN doc.items /\ Mod.closed
      BY <1>3, <1>8, <2>1 DEF JsonModRefused, JsonAccepts, JsonGood, Mod
    <3>2. ~SlotFree /\ file.cheat_count = item - 1
      BY <1>8, <3>1 DEF JsonModRefused, CheatRefused, JsonSo, JsonPassed, JsonAt
    <3>3. item <= MaxCheats  BY <1>3, <1>4, <2>1, <3>1 DEF JsonAccepts
    <3>4. MayGrow  BY <1>3, <1>4, <3>2, <3>3 DEF SlotFree, MayGrow
    <3> QED  BY <1>8, <3>1, <3>4 DEF JsonModRefused, NoteShort
  <2> QED  BY <1>2, <1>3, <2>1, JsonAcceptsIs, RefusalIsGiven
<1>9. CASE JsonNoFields
  <2>1. pc \in JsonInMod  BY <1>9 DEF JsonNoFields, JsonInMod
  <2>2. ~JsonAccepts(doc)  BY <1>5, <1>9, <2>1 DEF JsonNoFields, JsonGood
  <2> QED  BY <1>2, <1>3, <2>2, JsonAcceptsIs, RefusalIsGiven
<1>10. CASE JsonNoRoom
  <2>1. pc \in JsonInMod /\ JsonFilled /\ cheat # NoRef
    BY <1>10 DEF JsonNoRoom, JsonInMod, JsonSo, Inv, Slot, Holding
  <2>2. ASSUME JsonAccepts(doc) PROVE short'
    <3>1. line <= MaxPatches /\ Entry.patch_count = line - 1
      BY <1>3, <1>4, <1>5, <1>10, <2>1, <2>2 DEF JsonNoRoom, JsonFilled
    <3>2. ~PatchFree /\ Entry.patch_capacity \in Nat
      BY <1>10, <2>1, EntryIs DEF JsonNoRoom, PatchRefused, Entries, Inv
    <3>3. MayGrowPatches  BY <1>3, <1>4, <3>1, <3>2 DEF PatchFree, MayGrowPatches
    <3> QED  BY <1>10, <3>3 DEF JsonNoRoom, NoteShort
  <2> QED  BY <1>2, <1>3, <2>2, JsonAcceptsIs, RefusalIsGiven
<1>11. CASE JsonBadValue
  <2>1. pc \in JsonInMod /\ JsonFilled /\ pc = "json_value"
    BY <1>11 DEF JsonBadValue, JsonInMod, JsonSo
  <2>2. ~JsonAccepts(doc)
    <3> SUFFICES ASSUME JsonAccepts(doc) PROVE FALSE  OBVIOUS
    <3>1. line \in 1..Len(Mod.memory) /\ IsPatch(Mod.memory[line])
          /\ GoodPatch(Mod.memory[line], JsonDigits)
      BY <1>3, <1>5, <2>1 DEF JsonFilled, JsonGood
    <3> QED  BY <1>11, <3>1, JsonPatchIs DEF JsonBadValue, JsonOn, JsonOff
  <2> QED  BY <1>2, <1>3, <2>2, JsonAcceptsIs, RefusalIsGiven
<1>12. CASE JsonNoPatches
  <2>1. pc \in JsonInMod /\ JsonFilled
    BY <1>12 DEF JsonNoPatches, JsonInMod, JsonSo
  <2>2. ~JsonAccepts(doc)
    BY <1>3, <1>5, <1>12, <2>1 DEF JsonNoPatches, JsonFilled
  <2> QED  BY <1>2, <1>3, <2>2, JsonAcceptsIs, RefusalIsGiven
<1>13. CASE JsonNoMods
  <2>1. file.cheat_count = item - 1  BY <1>13 DEF JsonNoMods, JsonSo, JsonPassed, JsonAt
  <2>2. ~JsonAccepts(doc)
    BY <1>3, <1>13, <2>1 DEF JsonNoMods, JsonAccepts
  <2> QED  BY <1>2, <1>3, <2>2, JsonAcceptsIs, RefusalIsGiven
<1> QED
  BY <1>6, <1>7, <1>8, <1>9, <1>10, <1>11, <1>12, <1>13

LEMMA JsonPassedStays ==
  ASSUME JsonPassed, Stays, doc' = doc, item' = item, file'.cheat_count = file.cheat_count
  PROVE  JsonPassed'
BY DEF JsonPassed, Stays

LEMMA NamesPlus ==
  ASSUME CapacityAssumption, NEW us, NEW got, NEW m, \E T : us \in Seq(T) /\ got \in Seq(T),
         m \in 1..Len(us), NamesSo(us, m, got)
  PROVE  NamesSo(us, m + 1, AddAuthor(got, us[m]))
BY NamesStep

LEMMA NamesEnd ==
  ASSUME CapacityAssumption, NEW us, NEW got, NEW m, \E T : us \in Seq(T) /\ got \in Seq(T),
         m = Len(us) + 1, NamesSo(us, m, got)
  PROVE  got = Distinct(us)
BY NamesAll

LEMMA NoAuthor == ASSUME NEW got PROVE AddAuthor(got, None) = got
BY DEF AddAuthor

LEMMA JsonAuthorsAre ==
  ASSUME DocsAssumption, Inv, pc \in JsonAt
  PROVE  /\ Len(JsonAuthors) \in Nat
         /\ \E T : JsonAuthors \in Seq(T) /\ file.authors \in Seq(T)
<1>1. doc.credits \in Seq(Nat) /\ doc.authors \in Seq(Nat)
  BY DEF Inv, Place, DocsAssumption, JsonDoc
<1>2. JsonAuthors \in Seq(Nat)  BY <1>1, ConcatProperties, Zenon DEF JsonAuthors
<1>3. file.authors \in Seq(Nat)  BY DEF Inv, Good, Typed, Files
<1> QED  BY <1>2, <1>3, LenProperties, Zenon

\* the object being read has what its format allows
LEMMA JsonModIs ==
  ASSUME DocsAssumption, Inv, JsonSo, pc \in {"json_patch", "json_value"}
  PROVE  /\ item \in Nat \ {0} /\ item <= Len(doc.items) /\ Len(doc.items) \in Nat
         /\ line \in Nat \ {0} /\ Len(Mod.memory) \in Nat /\ DOMAIN Mod.memory = 1..Len(Mod.memory)
         /\ \A i \in 1..Len(Mod.memory) : IsPatch(Mod.memory[i])
         /\ JsonPassed /\ JsonNamed /\ JsonFilled /\ Mod.closed /\ ~doc.empty
         /\ cheat # NoRef /\ Good /\ Entry \in Entries /\ Holds(Entry, patchBlocks)
<1>1. pc \in JsonAt /\ pc \in JsonInMod  BY DEF JsonAt, JsonInMod
<1>2. JsonPassed /\ JsonNamed /\ JsonFilled /\ item <= Len(doc.items) /\ Mod.closed /\ ~doc.empty
  BY <1>1 DEF JsonSo
<1>3. cheat # NoRef /\ Good  BY DEF Inv, Slot, Holding
<1>4. Entry \in Entries /\ Holds(Entry, patchBlocks)  BY <1>3, EntryIs
<1>5. item \in 1..Len(doc.items) /\ Mod.memory # Missing
  BY <1>1, <1>2, JsonTyped DEF Inv, JsonFilled
<1> QED  BY <1>1, <1>2, <1>3, <1>4, <1>5, JsonTyped DEF Inv, Mod

LEMMA JsonPatchSays ==
  ASSUME CapacityAssumption, ValueAssumption, DocsAssumption, Inv, Inv', JsonSo,
         JsonRoom \/ JsonValue
  PROVE  JsonSo' /\ pc' # "return"
<1>1. pc \in {"json_patch", "json_value"} /\ pc' \in {"json_patch", "json_value"}
      /\ doc' = doc /\ item' = item
  BY DEF JsonRoom, JsonValue, At, parser
<1> DEFINE m == Mod.memory
<1>2. /\ item \in Nat \ {0} /\ item <= Len(doc.items) /\ Len(doc.items) \in Nat
      /\ line \in Nat \ {0} /\ Len(m) \in Nat /\ DOMAIN m = 1..Len(m)
      /\ \A i \in 1..Len(m) : IsPatch(m[i])
      /\ JsonPassed /\ JsonNamed /\ JsonFilled /\ Mod.closed /\ ~doc.empty
      /\ cheat # NoRef /\ Good /\ Entry \in Entries /\ Holds(Entry, patchBlocks)
  BY <1>1, JsonModIs
<1>3. Mod' = Mod  BY <1>1 DEF Mod
<1>4. CASE JsonRoom
  <2>1. EnsurePatch /\ pc = "json_patch" /\ pc' = "json_value" /\ line' = line /\ line <= Len(m)
    BY <1>4 DEF JsonRoom, At, parser
  <2>2. /\ Stays /\ file' = file /\ Entry'.text = Entry.text /\ Entry'.author = Entry.author
        /\ Entry'.patch_count = Entry.patch_count
        /\ \A i \in 1..Entry.patch_count : Patch(i)' = Patch(i)
    BY <1>2, <2>1, EnsurePatchStays
  <2>3. JsonPassed'  BY <1>1, <1>2, <2>2, JsonPassedStays
  <2>4. JsonNamed'  BY <1>1, <1>2, <2>1, <2>2 DEF JsonNamed
  <2>5. JsonFilled'
    BY <1>1, <1>2, <1>3, <2>1, <2>2 DEF JsonFilled
  <2> QED
    BY <1>1, <1>2, <1>3, <2>1, <2>3, <2>4, <2>5 DEF JsonSo, JsonInMod, JsonAt
<1>5. CASE JsonValue
  <2> DEFINE p == ParsedPatch(line, JsonOn, JsonOff)
  <2>1. /\ AddPatch(p) /\ pc = "json_value" /\ pc' = "json_patch" /\ line' = line + 1
        /\ Sound(m[line], JsonOn, JsonOff)
    BY <1>5 DEF JsonValue, At
  <2>2. line \in 1..Len(m) /\ Entry.patch_count = line - 1 /\ Entry.patch_count + 1 = line
    BY <1>2, <2>1 DEF JsonFilled
  <2>3. GoodPatch(m[line], JsonDigits) /\ p = PatchOf(m[line], line, JsonDigits)
    BY <1>2, <2>1, <2>2, JsonPatchIs DEF JsonOn, JsonOff
  <2>4. Entry.patch_count < Entry.patch_capacity  BY <2>1 DEF Inv, Slot, Valued
  <2> HIDE DEF p
  <2>5. /\ Stays /\ file' = file /\ Entry'.text = Entry.text /\ Entry'.author = Entry.author
        /\ Entry'.patch_count = Entry.patch_count + 1
        /\ \A i \in 1..Entry.patch_count : Patch(i)' = Patch(i)
        /\ \A i : i = Entry.patch_count + 1 => Patch(i)' = p
    BY <1>2, <2>1, <2>4, AddPatchStays
  <2>6. JsonPassed'  BY <1>1, <1>2, <2>5, JsonPassedStays
  <2>7. JsonNamed'  BY <1>1, <1>2, <2>1, <2>5 DEF JsonNamed
  <2>8. ASSUME NEW i \in 1..line
        PROVE  GoodPatch(m[i], JsonDigits) /\ Patch(i)' = PatchOf(m[i], i, JsonDigits)
    <3>1. CASE i = line  BY <2>2, <2>3, <2>5, <3>1
    <3>2. CASE i # line
      <4>1. i \in 1..(line - 1)  BY <1>2, <3>2
      <4> QED  BY <1>2, <2>2, <2>5, <4>1 DEF JsonFilled
    <3> QED  BY <3>1, <3>2
  <2>9. line' - 1 = line /\ line' <= Len(m) + 1  BY <2>1, <2>2, <1>2
  <2>10. JsonFilled'
    <3>1. Mod'.name /\ m' # Missing /\ Entry'.text = item' /\ Entry'.author = None
          /\ Entry'.patch_count = line' - 1 /\ line' <= Len(m') + 1
      BY <1>1, <1>2, <1>3, <2>2, <2>5, <2>9 DEF JsonFilled
    <3>2. pc' # "json_value"  BY <2>1
    <3>3. \A i \in 1..(line' - 1) : GoodPatch(Mod'.memory[i], JsonDigits)
             /\ Patch(i)' = PatchOf(Mod'.memory[i], i, JsonDigits)
      BY <1>3, <2>8, <2>9
    <3> QED  BY <3>1, <3>2, <3>3 DEF JsonFilled
  <2> QED
    BY <1>1, <1>2, <1>3, <2>1, <2>6, <2>7, <2>10 DEF JsonSo, JsonInMod, JsonAt
<1> QED  BY <1>4, <1>5

LEMMA JsonPublishSays ==
  ASSUME CapacityAssumption, DocsAssumption, Inv, Inv', JsonSo, JsonPublish
  PROVE  JsonSo' /\ pc' # "return"
<1> DEFINE m == Mod.memory
<1>1. /\ pc = "json_patch" /\ pc' = "json_mod" /\ doc' = doc /\ item' = item + 1 /\ line' = 1
      /\ line > Len(m) /\ Entry.patch_count > 0 /\ Publish
  BY DEF JsonPublish, At, Skip
<1>2. /\ item \in Nat \ {0} /\ item <= Len(doc.items) /\ Len(doc.items) \in Nat
      /\ line \in Nat \ {0} /\ Len(m) \in Nat /\ DOMAIN m = 1..Len(m)
      /\ JsonPassed /\ JsonNamed /\ JsonFilled /\ Mod.closed /\ ~doc.empty
      /\ cheat # NoRef /\ Good /\ Entry \in Entries /\ Holds(Entry, patchBlocks)
  BY <1>1, JsonModIs
<1>3. /\ file'.cheat_count = file.cheat_count + 1
      /\ file'.authors = AddAuthor(file.authors, Entry.author)
      /\ \A k \in 1..file.cheat_count : Published'[k] = Published[k]
      /\ Published'[file.cheat_count + 1] = Filled
      /\ InOrder => InOrder'
  BY <1>1, <1>2, PublishSays
<1>4. line = Len(m) + 1 /\ Entry.patch_count = Len(m) /\ line - 1 = Len(m)
  BY <1>1, <1>2 DEF JsonFilled
<1>5. Len(m) \in 1..MaxPatches
  BY <1>1, <1>2, <1>4 DEF Holds, Entries, CapacityAssumption
<1>6. /\ m # Missing /\ Mod.name /\ Entry.text = item /\ Entry.author = None
      /\ \A i \in 1..Len(m) : GoodPatch(m[i], JsonDigits) /\ Patch(i) = PatchOf(m[i], i, JsonDigits)
  BY <1>2, <1>4 DEF JsonFilled
<1>7. JsonGood(doc.items[item])
  BY <1>2, <1>5, <1>6 DEF JsonGood, Mod
<1>8. Filled = JsonCheat(doc, item)
  BY <1>2, <1>4, <1>6 DEF Filled, JsonCheat, Mod
<1>9. JsonPassed'
  <2>1. file.cheat_count = item - 1 /\ InOrder /\ doc.header
        /\ \A k \in 1..(item - 1) : JsonGood(doc.items[k]) /\ Published[k] = JsonCheat(doc, k)
    BY <1>2 DEF JsonPassed
  <2>2. item' - 1 = item /\ file.cheat_count + 1 = item /\ item' <= Len(doc.items) + 1
        /\ \A k \in 1..item : k \in 1..(item - 1) \/ k = item
    BY <1>1, <1>2, <2>1
  <2>3. \A k \in 1..(item' - 1) : JsonGood(doc.items[k]) /\ Published'[k] = JsonCheat(doc, k)
    BY <1>3, <1>7, <1>8, <2>1, <2>2
  <2> QED  BY <1>1, <1>3, <2>1, <2>2, <2>3 DEF JsonPassed
<1>10. JsonNamed'
  BY <1>1, <1>2, <1>3, <1>6, NoAuthor DEF JsonNamed
<1> QED  BY <1>1, <1>2, <1>9, <1>10 DEF JsonSo, JsonInMod, JsonAt

LEMMA JsonSays ==
  ASSUME CapacityAssumption, ValueAssumption, DocsAssumption, Inv, Inv', JsonSo, JsonParse
  PROVE  JsonSo' /\ (pc' = "return" => Given')
<1>1. CASE JsonNoHeader \/ JsonNoList \/ JsonModRefused \/ JsonNoFields \/ JsonNoRoom
           \/ JsonBadValue \/ JsonNoPatches \/ JsonNoMods
  BY <1>1, JsonRefuses DEF JsonSo, JsonInMod, JsonAt
<1>2. CASE JsonRoom \/ JsonValue  BY <1>2, JsonPatchSays
<1>3. CASE JsonPublish  BY <1>3, JsonPublishSays
<1>0. pc \in JsonAt /\ Good
  BY DEF JsonParse, JsonHeader, JsonNoHeader, JsonAuthor, JsonList, JsonNoList, JsonMod,
        JsonModRefused, JsonFields, JsonNoFields, JsonRoom, JsonNoRoom, JsonValue, JsonBadValue,
        JsonPublish, JsonNoPatches, JsonDone, JsonNoMods, At, Goes, JsonAt, Inv
<1> DEFINE us == JsonAuthors
<1>4. /\ item \in Nat \ {0} /\ line \in Nat \ {0} /\ doc.format = "json" /\ ~doc.empty
      /\ Len(doc.items) \in Nat /\ DOMAIN doc.items = 1..Len(doc.items)
      /\ Len(us) \in Nat /\ \E T : us \in Seq(T) /\ file.authors \in Seq(T)
  BY <1>0, JsonTyped, JsonAuthorsAre DEF Inv, JsonSo
<1>5. CASE JsonHeader
  <2>1. /\ pc = "json" /\ pc' = "json_authors" /\ UNCHANGED <<blocks, cheat, doc, item, line>>
        /\ doc.header /\ file' = [file EXCEPT !.named = TRUE] /\ file = NoFile /\ item = 1 /\ line = 1
    BY <1>5 DEF JsonHeader, At, parser, JsonSo
  <2>2. file'.cheat_count = 0 /\ file'.authors = <<>>  BY <2>1 DEF NoFile
  <2>3. 1..0 = {} /\ item' - 1 = 0 /\ item' <= Len(doc.items) + 1 /\ InOrder'
    BY <1>4, <2>1, <2>2 DEF InOrder
  <2>4. JsonPassed'  BY <2>1, <2>2, <2>3 DEF JsonPassed
  <2>5. NamesSo(us, 1, <<>>)  BY <1>4, NamesNone
  <2>6. JsonAuthors' = us  BY <2>1 DEF JsonAuthors
  <2>7. item' = 1 /\ line' <= Len(us) + 1 /\ line' = 1  BY <1>4, <2>1
  <2>8. JsonNamed'  BY <2>1, <2>2, <2>5, <2>6, <2>7 DEF JsonNamed
  <2> QED  BY <1>4, <2>1, <2>4, <2>8 DEF JsonSo, JsonInMod, JsonAt
<1>6. CASE JsonAuthor
  <2>1. /\ pc = "json_authors" /\ pc' = "json_authors" /\ UNCHANGED <<blocks, cheat, doc, item>>
        /\ line <= Len(us) /\ line' = line + 1
        /\ file' = [file EXCEPT !.authors = AddAuthor(@, us[line])]
        /\ JsonPassed /\ JsonNamed
    BY <1>6 DEF JsonAuthor, At, JsonSo, JsonAt
  <2>2. /\ file'.cheat_count = file.cheat_count /\ file'.cheats = file.cheats
        /\ file'.authors = AddAuthor(file.authors, us[line])
    BY <2>1 DEF Inv, Good, Typed, Files
  <2>3. JsonPassed'  BY <1>0, <2>1, <2>2, NamesStay, JsonPassedStays
  <2>4. NamesSo(us, line + 1, AddAuthor(file.authors, us[line]))
    BY <1>4, <2>1, NamesPlus DEF JsonNamed
  <2>5. JsonAuthors' = us  BY <2>1 DEF JsonAuthors
  <2>6. item' = 1 /\ line' <= Len(us) + 1 /\ line' = line + 1  BY <1>4, <2>1 DEF JsonNamed
  <2>7. JsonNamed'  BY <2>1, <2>2, <2>4, <2>5, <2>6 DEF JsonNamed
  <2> QED  BY <1>4, <2>1, <2>3, <2>7 DEF JsonSo, JsonInMod, JsonAt
<1>7. CASE JsonList
  <2>1. /\ pc = "json_authors" /\ pc' = "json_mod" /\ UNCHANGED <<fileVars, doc, item>>
        /\ line > Len(us) /\ doc.list /\ line' = 1 /\ JsonPassed /\ JsonNamed
    BY <1>7 DEF JsonList, Goes, At, JsonSo, JsonAt
  <2>2. Stays /\ file' = file  BY <1>0, <2>1, FileStays
  <2>3. JsonPassed'  BY <2>1, <2>2, JsonPassedStays
  <2>4. line = Len(us) + 1 /\ NamesSo(us, line, file.authors)
    BY <1>4, <2>1 DEF JsonNamed
  <2>5. file.authors = JsonNames(doc)
    BY <1>4, <2>4, NamesEnd DEF JsonNames, JsonAuthors
  <2>6. JsonNamed'  BY <2>1, <2>2, <2>5 DEF JsonNamed
  <2> QED  BY <1>4, <2>1, <2>3, <2>6 DEF JsonSo, JsonInMod, JsonAt
<1>8. CASE JsonMod
  <2>1. /\ pc = "json_mod" /\ pc' = "json_fields" /\ UNCHANGED <<doc, item, line>>
        /\ item <= Len(doc.items) /\ Mod.closed /\ EnsureCheat /\ JsonPassed /\ JsonNamed /\ line = 1
        /\ cheat = NoRef
    BY <1>8 DEF JsonMod, At, parser, JsonSo, JsonAt, Inv, Slot, Holding
  <2>2. Stays /\ file'.cheat_count = file.cheat_count /\ file'.authors = file.authors
    BY <1>0, <2>1, EnsureCheatStays
  <2>3. JsonPassed'  BY <2>1, <2>2, JsonPassedStays
  <2>4. JsonNamed'  BY <2>1, <2>2 DEF JsonNamed
  <2>5. Mod' = Mod  BY <2>1 DEF Mod
  <2> QED  BY <1>4, <2>1, <2>3, <2>4, <2>5 DEF JsonSo, JsonInMod, JsonAt
<1>9. CASE JsonFields
  <2> DEFINE e == [NoCheat EXCEPT !.text = item]
  <2>1. /\ pc = "json_fields" /\ pc' = "json_patch"
        /\ UNCHANGED <<patchBlocks, cheat, doc, item, line>>
        /\ Mod.name /\ Mod.memory # Missing /\ SetEntry(e) /\ JsonPassed /\ JsonNamed /\ line = 1
        /\ item <= Len(doc.items) /\ Mod.closed /\ cheat # NoRef
    BY <1>9 DEF JsonFields, At, parser, JsonSo, JsonAt, JsonInMod, Inv, Slot, Holding
  <2>2. e \in Entries /\ e.text = item /\ e.author = None /\ e.patch_count = 0
    BY <1>4 DEF NoCheat, None, Entries
  <2> HIDE DEF e
  <2>3. Stays /\ file' = file /\ Entry' = e  BY <1>0, <2>1, <2>2, SetEntryStays
  <2>4. JsonPassed'  BY <2>1, <2>3, JsonPassedStays
  <2>5. JsonNamed'  BY <2>1, <2>3 DEF JsonNamed
  <2>6. Mod' = Mod  BY <2>1 DEF Mod
  <2>7. Len(Mod.memory) \in Nat
    <3>1. item \in 1..Len(doc.items)  BY <1>4, <2>1
    <3> QED  BY <1>0, <2>1, <3>1, JsonTyped DEF Inv, Mod
  <2>8. line' - 1 = 0 /\ 1..0 = {} /\ line' <= Len(Mod.memory) + 1  BY <2>1, <2>7
  <2>9. JsonFilled'  BY <2>1, <2>2, <2>3, <2>6, <2>8 DEF JsonFilled
  <2> QED  BY <1>4, <2>1, <2>4, <2>5, <2>6, <2>9 DEF JsonSo, JsonInMod, JsonAt
<1>10. CASE JsonDone
  <2>1. /\ pc = "json_mod" /\ pc' = "return" /\ result' = TRUE /\ UNCHANGED <<fileVars, doc, short>>
        /\ item > Len(doc.items) /\ file.cheat_count > 0 /\ JsonPassed /\ JsonNamed
    BY <1>10 DEF JsonDone, Give, JsonSo, JsonAt
  <2>2. Stays /\ file' = file  BY <1>0, <2>1, FileStays
  <2>3. /\ InOrder /\ doc.header /\ file.cheat_count = item - 1 /\ item = Len(doc.items) + 1
        /\ \A k \in 1..(item - 1) : JsonGood(doc.items[k]) /\ Published[k] = JsonCheat(doc, k)
    BY <1>4, <2>1 DEF JsonPassed
  <2>4. file.cheat_count = Len(doc.items) /\ item - 1 = Len(doc.items)  BY <1>4, <2>3
  <2>5. Len(doc.items) \in 1..MaxCheats
    BY <1>0, <1>4, <2>1, <2>4 DEF Good, Typed, Files, CapacityAssumption
  <2>6. JsonAccepts(doc)  BY <1>4, <2>1, <2>3, <2>4, <2>5 DEF JsonAccepts, JsonNamed
  <2>7. Accepts(doc)  BY <1>4, <2>6 DEF Accepts, Known, Formats
  <2>8. Published = JsonCheats(doc)
    BY <1>4, <2>3, <2>4 DEF Published, JsonCheats, JsonCheat
  <2>9. Published = Cheats(doc) /\ file.authors = Names(doc)
    BY <1>4, <2>1, <2>8 DEF Cheats, Names, JsonNamed
  <2>10. Given'
    BY <1>4, <2>1, <2>2, <2>3, <2>7, <2>9, SameDocument DEF Given, Stays
  <2> QED  BY <2>1, <2>10 DEF JsonSo, JsonInMod, JsonAt
<1> QED
  BY <1>1, <1>2, <1>3, <1>5, <1>6, <1>7, <1>8, <1>9, <1>10 DEF JsonParse

-----------------------------------------------------------------------------
(* SHN and MC4: tags are searched for, so what has been passed is counted by rank. *)

LEMMA RankSkips ==
  ASSUME NEW S \in SUBSET Nat, NEW j \in Nat, NEW k \in Nat, j <= k,
         \A i \in S : j <= i => k <= i
  PROVE  Rank(S, k) = Rank(S, j)
<1>1. \A i \in S : i < k <=> i < j  OBVIOUS
<1>2. Below(S, k) = Below(S, j)  BY <1>1, Zenon DEF Below
<1> QED  BY <1>2 DEF Rank

LEMMA RankEnds ==
  ASSUME NEW S \in SUBSET Nat, NEW k \in Nat, \A i \in S : i < k
  PROVE  Rank(S, k) = Cardinality(S)
<1>1. Below(S, k) = S  BY Zenon DEF Below
<1> QED  BY <1>1 DEF Rank

LEMMA RankOfFirst ==
  ASSUME NEW S \in SUBSET Nat, NEW k \in Nat, \A i \in S : k <= i
  PROVE  Rank(S, k) = 0
<1>1. \A i \in S : ~(i < k)  OBVIOUS
<1>2. Below(S, k) = {}  BY <1>1, Zenon DEF Below
<1> QED  BY <1>2, FS_EmptySet DEF Rank

\* the lines of the cheat being read
InThis == Tags("line", item, EndOfCheat)
ShnInCheat == {"shn_text", "shn_line", "shn_value"}
ShnInList == {"shn_cheat"} \cup ShnInCheat
ShnFilled ==
  /\ doc.items[item].name /\ Entry.text = item /\ Entry.author = None /\ item <= line
  /\ Entry.patch_count = Rank(InThis, line)
  /\ \A n \in 1..Entry.patch_count : \E j \in InThis :
       /\ j < line /\ Rank(InThis, j) = n - 1
       /\ Patch(n) = PatchOf(doc.items[j], j, ShnDigits)
  /\ \A j \in InThis : j < line => GoodPatch(doc.items[j], ShnDigits)

ShnGood(d, k) ==
  /\ d.items[k].name /\ Cardinality(InCheat(d, k)) \in 1..MaxPatches
  /\ \A j \in InCheat(d, k) : GoodPatch(d.items[j], ShnDigits)
ShnCheatOf(d, k) ==
  [text |-> k, author |-> None,
   patches |-> [i \in DOMAIN Ordered(InCheat(d, k)) |->
                  PatchOf(d.items[Ordered(InCheat(d, k))[i]], Ordered(InCheat(d, k))[i], ShnDigits)]]
ShnPassed ==
  /\ file.cheat_count = Rank(Opens(doc), item)
  /\ \A n \in 1..file.cheat_count : \E k \in Opens(doc) :
       k < item /\ Rank(Opens(doc), k) = n - 1 /\ Published[n] = ShnCheatOf(doc, k)
  /\ \A k \in Opens(doc) : k < item => ShnGood(doc, k)

ShnSo ==
  /\ pc \in ShnAt => ~doc.empty /\ InOrder
  /\ pc \in {"mc4", "shn", "shn_trainer"} => file = NoFile /\ item = 1
  /\ pc = "mc4" => doc.format = "mc4"
  /\ pc \in ShnAt \ {"mc4"} => (doc.format = "mc4" => doc.sealed)
  /\ pc \in ShnInList => doc.header /\ file.authors = ShnNames(doc)
                         /\ (Nested(doc) => ShnPassed)
  /\ pc \in ShnInCheat => item \in Opens(doc)
  /\ pc = "shn_text" => line = item
  /\ pc \in {"shn_line", "shn_value"} => ShnFilled
  /\ pc = "shn_value" => line \in InThis

LEMMA ShnTyped ==
  ASSUME DocsAssumption, Place, pc \in ShnAt
  PROVE  /\ doc.format \in {"shn", "mc4"} /\ item \in Nat \ {0} /\ line \in Nat \ {0}
         /\ Len(doc.items) \in Nat /\ DOMAIN doc.items = 1..Len(doc.items)
         /\ doc.moder \in Nat
         /\ \A k \in 1..Len(doc.items) : doc.items[k].tag = "line" => IsPatch(doc.items[k])
         /\ pc \in ShnInCheat => Tags("end", item, Len(doc.items)) # {}
BY DEF Place, DocsAssumption, Known, Formats, ShnDoc, IsSequence, ShnAt, ShnInCheat

LEMMA OpensAre ==
  ASSUME DocsAssumption, Place, pc \in ShnAt
  PROVE  /\ Opens(doc) \in SUBSET Nat /\ IsFiniteSet(Opens(doc))
         /\ Opens(doc) \in SUBSET (1..Len(doc.items))
<1>1. Len(doc.items) \in Nat /\ DOMAIN doc.items = 1..Len(doc.items)  BY ShnTyped
<1>2. Opens(doc) \in SUBSET (1..Len(doc.items))  BY <1>1 DEF Opens
<1>3. IsFiniteSet(1..Len(doc.items))  BY <1>1, FS_Interval
<1> QED  BY <1>1, <1>2, <1>3, FS_Subset

LEMMA InThisIs ==
  ASSUME DocsAssumption, Place, pc \in ShnInCheat
  PROVE  /\ InThis \in SUBSET Nat /\ IsFiniteSet(InThis) /\ InThis \in SUBSET (1..Len(doc.items))
         /\ EndOfCheat \in Tags("end", item, Len(doc.items)) /\ EndOfCheat \in Nat
         /\ item <= EndOfCheat /\ EndOfCheat <= Len(doc.items)
         /\ \A j \in Tags("end", item, Len(doc.items)) : EndOfCheat <= j
         /\ \A j \in InThis : item <= j /\ doc.items[j].tag = "line" /\ IsPatch(doc.items[j])
<1>1. pc \in ShnAt  BY DEF ShnAt, ShnInCheat
<1>2. /\ item \in Nat \ {0} /\ Len(doc.items) \in Nat
      /\ \A k \in 1..Len(doc.items) : doc.items[k].tag = "line" => IsPatch(doc.items[k])
      /\ Tags("end", item, Len(doc.items)) # {}
  BY <1>1, ShnTyped
<1>3. /\ EndOfCheat \in Tags("end", item, Len(doc.items)) /\ EndOfCheat \in Nat
      /\ item <= EndOfCheat
      /\ \A j \in Tags("end", item, Len(doc.items)) : EndOfCheat <= j
  BY <1>2, FirstTagIs DEF EndOfCheat
<1>4. EndOfCheat <= Len(doc.items)  BY <1>2, <1>3 DEF Tags
<1>5. \A j \in InThis : j \in 1..Len(doc.items) /\ item <= j /\ doc.items[j].tag = "line"
  BY <1>2, <1>3, <1>4 DEF InThis, Tags
<1>6. IsFiniteSet(1..Len(doc.items))
  <2>1. Len(doc.items) \in Nat  BY <1>2
  <2> QED  BY <2>1, FS_Interval
<1>7. InThis \in SUBSET (1..Len(doc.items))  BY <1>5
<1>8. IsFiniteSet(InThis)
  <2> DEFINE S == 1..Len(doc.items)
  <2>1. InThis \in SUBSET S /\ IsFiniteSet(S)  BY <1>6, <1>7
  <2> HIDE DEF S
  <2> QED  BY <2>1, FS_Subset
<1>9. InThis \in SUBSET Nat  BY <1>5
<1> QED  BY <1>2, <1>3, <1>4, <1>5, <1>7, <1>8, <1>9

\* where tags are nested, the end that is found is the cheat's own
LEMMA OwnEnd ==
  ASSUME DocsAssumption, Place, pc \in ShnInCheat, item \in Opens(doc), Nested(doc)
  PROVE  /\ InCheat(doc, item) = InThis
         /\ \A k \in Opens(doc) : item < k => EndOfCheat < k
<1> DEFINE e == EndOfCheat
<1>1. /\ item \in Nat \ {0} /\ Len(doc.items) \in Nat /\ doc.items[item].tag = "cheat"
      /\ Opens(doc) \in SUBSET (1..Len(doc.items))
      /\ \A k \in Opens(doc) : doc.items[k].tag = "cheat"
  BY ShnTyped, OpensAre DEF ShnAt, ShnInCheat, Opens
<1>2. /\ e \in Nat /\ item <= e /\ e <= Len(doc.items) /\ doc.items[e].tag = "end"
      /\ \A j \in Tags("end", item, Len(doc.items)) : e <= j
  BY InThisIs DEF Tags
<1>3. item < e  BY <1>1, <1>2
<1> HIDE DEF e
<1>4. \A c \in Closes(doc, item) : c = e
  <2> SUFFICES ASSUME NEW c \in Closes(doc, item) PROVE c = e  OBVIOUS
  <2>1. /\ c \in item..Len(doc.items) /\ doc.items[c].tag = "end"
        /\ \A j \in (item + 1)..(c - 1) : doc.items[j].tag = "line"
    BY DEF Closes
  <2>2. e <= c  BY <1>2, <2>1 DEF Tags
  <2>3. ~(e < c)
    <3>1. e < c => e \in (item + 1)..(c - 1)  BY <1>1, <1>2, <1>3, <2>1
    <3> QED  BY <1>2, <2>1, <3>1
  <2> QED  BY <1>1, <1>2, <2>1, <2>2, <2>3
<1>5. e \in Closes(doc, item)  BY <1>4 DEF Nested
<1>6. \A j \in (item + 1)..(e - 1) : doc.items[j].tag = "line"
  BY <1>5 DEF Closes
<1>7. \A j : j \in InCheat(doc, item) <=> j \in (item + 1)..Len(doc.items) /\ j < e
  BY <1>4, <1>5 DEF InCheat
<1>8. \A j : j \in InThis <=> j \in item..e /\ doc.items[j].tag = "line"
  BY DEF InThis, Tags, e
<1>9. \A j : j \in InCheat(doc, item) <=> j \in (item + 1)..(e - 1)
  BY <1>1, <1>2, <1>7
<1>10. \A j : j \in InThis <=> j \in (item + 1)..(e - 1)
  <2>1. \A j \in item..e : j = item \/ j = e \/ j \in (item + 1)..(e - 1)  BY <1>1, <1>2
  <2>2. \A j \in (item + 1)..(e - 1) : j \in item..e  BY <1>1, <1>2
  <2> QED  BY <1>1, <1>2, <1>6, <1>8, <2>1, <2>2
<1>11. InCheat(doc, item) = InThis  BY <1>9, <1>10
<1>12. ASSUME NEW k \in Opens(doc), item < k PROVE e < k
  <2>1. k \in Nat /\ k \notin (item + 1)..(e - 1) /\ k # e  BY <1>1, <1>2, <1>6
  <2> QED  BY <1>1, <1>2, <1>12, <2>1
<1> QED  BY <1>11, <1>12 DEF e

\* what the search finds next
LEMMA NextCheatIs ==
  ASSUME DocsAssumption, Place, pc = "shn_cheat"
  PROVE  /\ More => /\ NextCheat \in Opens(doc) /\ NextCheat \in Nat \ {0} /\ item <= NextCheat
                    /\ \A k \in Opens(doc) : item <= k => NextCheat <= k
         /\ ~More => \A k \in Opens(doc) : k < item
<1>1. /\ item \in Nat \ {0} /\ Len(doc.items) \in Nat /\ DOMAIN doc.items = 1..Len(doc.items)
  BY ShnTyped DEF ShnAt
<1>2. \A k : k \in Tags("cheat", item, Len(doc.items)) <=> k \in Opens(doc) /\ item <= k
  BY <1>1 DEF Tags, Opens
<1>3. ASSUME More
      PROVE  /\ NextCheat \in Tags("cheat", item, Len(doc.items)) /\ NextCheat \in Nat
             /\ item <= NextCheat
             /\ \A j \in Tags("cheat", item, Len(doc.items)) : NextCheat <= j
  BY <1>1, <1>3, FirstTagIs DEF More, NextCheat
<1>4. ASSUME ~More PROVE \A k \in Opens(doc) : k < item
  <2>1. \A k \in Opens(doc) : ~(item <= k) /\ k \in Nat  BY <1>1, <1>2, <1>4 DEF More, Opens
  <2> QED  BY <1>1, <2>1
<1> QED  BY <1>1, <1>2, <1>3, <1>4

LEMMA NextLineIs ==
  ASSUME DocsAssumption, Place, pc = "shn_line", item <= line
  PROVE  /\ Lines # {} => /\ NextLine \in InThis /\ NextLine \in Nat \ {0} /\ line <= NextLine
                          /\ \A j \in InThis : line <= j => NextLine <= j
         /\ Lines = {} => \A j \in InThis : j < line
<1>1. item \in Nat \ {0} /\ line \in Nat \ {0}  BY DEF Place
<1>2. EndOfCheat \in Nat /\ InThis \in SUBSET Nat  BY InThisIs DEF ShnInCheat
<1>3. \A j : j \in Lines <=> j \in InThis /\ line <= j
  BY <1>1, <1>2 DEF Lines, InThis, Tags
<1>4. ASSUME Lines # {}
      PROVE  NextLine \in Lines /\ NextLine \in Nat /\ line <= NextLine
             /\ \A j \in Lines : NextLine <= j
  BY <1>1, <1>4, FirstTagIs DEF Lines, NextLine
<1>5. ASSUME Lines = {} PROVE \A j \in InThis : j < line
  BY <1>1, <1>2, <1>3, <1>5
<1> QED  BY <1>1, <1>3, <1>4, <1>5

\* a document that its format allows, at a cheat of it
LEMMA ShnAllows ==
  ASSUME DocsAssumption, Place, pc \in ShnInCheat, item \in Opens(doc), Nested(doc), ShnAccepts(doc)
  PROVE  /\ doc.items[item].name /\ Cardinality(InThis) \in 1..MaxPatches
         /\ \A j \in InThis : GoodPatch(doc.items[j], ShnDigits)
BY OwnEnd DEF ShnAccepts

\* what is refused is not what the format allows, or memory ran out
LEMMA ShnRefuses ==
  ASSUME CapacityAssumption, ValueAssumption, DocsAssumption, Inv, ShnSo,
         \/ Mc4Fails \/ ShnNoCopy \/ ShnNoTrainer \/ ShnCheatRefused \/ ShnNoText \/ ShnNoRoom
         \/ ShnBadValue \/ ShnNoLines \/ ShnNoCheats
  PROVE  Given' /\ pc' \in {"return", "shn_return"}
<1>1. /\ pc \in ShnAt /\ result' = FALSE /\ doc' = doc /\ pc' \in {"return", "shn_return"}
      /\ file' = NoFile
  BY DEF Mc4Fails, ShnNoCopy, ShnNoTrainer, ShnCheatRefused, ShnNoText, ShnNoRoom, ShnBadValue,
         ShnNoLines, ShnNoCheats, ShnReject, Clear, Give, At, ShnAt, ShnSo, fileVars
<1>2. /\ doc.format \in {"shn", "mc4"} /\ item \in Nat \ {0} /\ line \in Nat \ {0}
      /\ Opens(doc) \in SUBSET Nat /\ IsFiniteSet(Opens(doc))
      /\ DOMAIN doc.items = 1..Len(doc.items) /\ Len(doc.items) \in Nat
  BY <1>1, ShnTyped, OpensAre DEF Inv
<1>3. /\ file.cheat_count \in Nat /\ file.cheat_capacity \in Nat
      /\ MaxCheats \in Nat \ {0} /\ MaxPatches \in Nat \ {0} /\ Place
  BY DEF Inv, Good, Typed, Files, CapacityAssumption
<1> SUFFICES ASSUME Nested(doc), ShnAccepts(doc) PROVE short'
  <2>1. Accepts(doc) => ShnAccepts(doc)  BY <1>2 DEF Accepts
  <2>2. Tagged(doc) => Nested(doc)  BY <1>2 DEF Tagged
  <2> QED  BY <1>1, <2>1, <2>2, RefusalIsGiven
<1>4. ASSUME pc \in ShnInCheat
      PROVE  /\ doc.items[item].name /\ Cardinality(InThis) \in 1..MaxPatches
             /\ \A j \in InThis : GoodPatch(doc.items[j], ShnDigits)
             /\ InThis \in SUBSET Nat /\ IsFiniteSet(InThis)
  BY <1>3, <1>4, ShnAllows, InThisIs DEF ShnSo
<1>5. Cardinality(Opens(doc)) \in 1..MaxCheats  BY DEF ShnAccepts
<1>6. CASE Mc4Fails
  BY <1>6 DEF Mc4Fails, NoteShort, ShnSo, ShnAt, ShnAccepts
<1>7. CASE ShnNoCopy  BY <1>7 DEF ShnNoCopy
<1>8. CASE ShnNoTrainer  BY <1>8 DEF ShnNoTrainer, ShnAccepts
<1>9. CASE ShnCheatRefused
  <2>1. pc = "shn_cheat" /\ More /\ ShnPassed
    BY <1>9 DEF ShnCheatRefused, ShnSo, ShnInList
  <2>2. /\ NextCheat \in Opens(doc) /\ NextCheat \in Nat \ {0} /\ item <= NextCheat
    BY <1>3, <2>1, NextCheatIs
  <2>3. Ended
    <3>1. PICK e \in Closes(doc, NextCheat) : TRUE  BY <2>2 DEF Nested
    <3>2. e \in Tags("end", NextCheat, Len(doc.items))  BY <3>1 DEF Closes, Tags
    <3> QED  BY <3>2 DEF Ended
  <2>4. Rank(Opens(doc), item) <= Rank(Opens(doc), NextCheat)
        /\ Rank(Opens(doc), NextCheat) < Cardinality(Opens(doc))
        /\ Rank(Opens(doc), NextCheat) \in Nat /\ Rank(Opens(doc), item) \in Nat
    BY <1>2, <2>2, RankGrows, RankIs
  <2>5. file.cheat_count < MaxCheats  BY <1>3, <1>5, <2>1, <2>4 DEF ShnPassed
  <2>6. ~SlotFree  BY <1>9, <2>3 DEF ShnCheatRefused, CheatRefused
  <2>7. MayGrow  BY <1>3, <2>5, <2>6 DEF SlotFree, MayGrow
  <2> QED  BY <1>9, <2>3, <2>7 DEF ShnCheatRefused, NoteShort
<1>10. CASE ShnNoText  BY <1>4, <1>10 DEF ShnNoText, ShnInCheat
<1>11. CASE ShnNoRoom
  <2>1. pc = "shn_line" /\ Lines # {} /\ ShnFilled /\ pc \in ShnInCheat /\ cheat # NoRef
    BY <1>11 DEF ShnNoRoom, ShnSo, ShnInCheat, Inv, Slot, Holding
  <2>2. NextLine \in InThis /\ NextLine \in Nat \ {0} /\ line <= NextLine
    BY <1>3, <2>1, NextLineIs DEF ShnFilled
  <2>3. Rank(InThis, line) <= Rank(InThis, NextLine) /\ Rank(InThis, NextLine) < Cardinality(InThis)
        /\ Rank(InThis, line) \in Nat /\ Rank(InThis, NextLine) \in Nat
    BY <1>2, <1>4, <2>1, <2>2, RankGrows, RankIs
  <2>4. Entry.patch_count < MaxPatches /\ Entry.patch_count \in Nat
    BY <1>3, <1>4, <2>1, <2>3 DEF ShnFilled
  <2>5. ~PatchFree /\ Entry.patch_capacity \in Nat
    BY <1>11, <2>1, EntryIs DEF ShnNoRoom, PatchRefused, Entries, Inv
  <2>6. MayGrowPatches  BY <1>3, <2>4, <2>5 DEF PatchFree, MayGrowPatches
  <2> QED  BY <1>11, <2>6 DEF ShnNoRoom, NoteShort
<1>12. CASE ShnBadValue
  <2>1. line \in InThis /\ pc \in ShnInCheat
    BY <1>12 DEF ShnBadValue, ShnSo, ShnInCheat
  <2>2. IsPatch(doc.items[line]) /\ GoodPatch(doc.items[line], ShnDigits)
    BY <1>3, <1>4, <2>1, InThisIs
  <2> QED  BY <1>12, <2>2, ShnPatchIs DEF ShnBadValue, ShnOn, ShnOff
<1>13. CASE ShnNoLines
  <2>1. pc = "shn_line" /\ Lines = {} /\ ShnFilled /\ pc \in ShnInCheat /\ Entry.patch_count = 0
    BY <1>13 DEF ShnNoLines, ShnSo, ShnInCheat
  <2>2. \A j \in InThis : j < line  BY <1>3, <2>1, NextLineIs DEF ShnFilled
  <2>3. Rank(InThis, line) = Cardinality(InThis)  BY <1>2, <1>4, <2>1, <2>2, RankEnds
  <2>4. Cardinality(InThis) = 0  BY <2>1, <2>3 DEF ShnFilled
  <2>5. Cardinality(InThis) \in 1..MaxPatches  BY <1>4, <2>1
  <2> QED  BY <2>4, <2>5
<1>14. CASE ShnNoCheats
  <2>1. pc = "shn_cheat" /\ ~More /\ ShnPassed /\ file.cheat_count = 0
    BY <1>14 DEF ShnNoCheats, ShnSo, ShnInList
  <2>2. \A k \in Opens(doc) : k < item  BY <1>3, <2>1, NextCheatIs
  <2>3. Rank(Opens(doc), item) = Cardinality(Opens(doc))  BY <1>2, <2>2, RankEnds
  <2>4. Cardinality(Opens(doc)) = 0  BY <2>1, <2>3 DEF ShnPassed
  <2> QED  BY <1>5, <2>4
<1> QED  BY <1>6, <1>7, <1>8, <1>9, <1>10, <1>11, <1>12, <1>13, <1>14

\* nothing that is published changes, and the search goes on to the next cheat at most
LEMMA ShnPassedStays ==
  ASSUME ShnPassed, Stays, doc' = doc, file'.cheat_count = file.cheat_count,
         item \in Nat, item' \in Nat, item <= item', Opens(doc) \in SUBSET Nat,
         \A k \in Opens(doc) : item <= k => item' <= k
  PROVE  ShnPassed'
<1>1. Rank(Opens(doc), item') = Rank(Opens(doc), item)  BY RankSkips
<1>2. \A k \in Opens(doc) : k < item' <=> k < item  OBVIOUS
<1>3. Opens(doc)' = Opens(doc) /\ Published' = Published /\ \A k : ShnGood(doc, k)' = ShnGood(doc, k)
      /\ ShnCheatOf(doc, k)' = ShnCheatOf(doc, k)
  BY DEF Stays
<1> QED  BY <1>1, <1>2, <1>3 DEF ShnPassed

\* while a cheat is read
LEMMA ShnReads ==
  ASSUME DocsAssumption, Inv, ShnSo, pc \in ShnInCheat
  PROVE  /\ item \in Nat \ {0} /\ line \in Nat \ {0} /\ item \in Opens(doc)
         /\ Opens(doc) \in SUBSET Nat /\ IsFiniteSet(Opens(doc))
         /\ InThis \in SUBSET Nat /\ IsFiniteSet(InThis)
         /\ \A j \in InThis : item <= j /\ IsPatch(doc.items[j])
         /\ InOrder /\ ~doc.empty /\ doc.header /\ file.authors = ShnNames(doc)
         /\ (doc.format = "mc4" => doc.sealed) /\ (Nested(doc) => ShnPassed)
         /\ cheat # NoRef /\ Good /\ Entry \in Entries /\ Holds(Entry, patchBlocks)
<1>1. pc \in ShnAt /\ pc \in ShnInList /\ pc # "mc4" /\ pc \in Holding /\ Good /\ Place
  BY DEF ShnAt, ShnInCheat, ShnInList, Holding, Inv
<1>2. cheat # NoRef /\ Entry \in Entries /\ Holds(Entry, patchBlocks)
  BY <1>1, EntryIs DEF Inv, Slot
<1> QED  BY <1>1, <1>2, OpensAre, InThisIs DEF ShnSo, Place

LEMMA ShnTextSays ==
  ASSUME CapacityAssumption, DocsAssumption, Inv, Inv', ShnSo, ShnText
  PROVE  ShnSo'
<1> DEFINE e == [NoCheat EXCEPT !.text = item]
<1>1. /\ pc = "shn_text" /\ pc' = "shn_line" /\ UNCHANGED <<patchBlocks, cheat, doc, item, line>>
      /\ doc.items[item].name /\ SetEntry(e) /\ line = item
  BY DEF ShnText, At, parser, ShnSo
<1>2. /\ item \in Nat \ {0} /\ item \in Opens(doc) /\ Opens(doc) \in SUBSET Nat
      /\ InThis \in SUBSET Nat /\ \A j \in InThis : item <= j
      /\ InOrder /\ ~doc.empty /\ doc.header /\ file.authors = ShnNames(doc)
      /\ (doc.format = "mc4" => doc.sealed) /\ (Nested(doc) => ShnPassed)
      /\ cheat # NoRef /\ Good
  BY <1>1, ShnReads DEF ShnInCheat
<1>3. e \in Entries /\ e.text = item /\ e.author = None /\ e.patch_count = 0
  BY <1>2 DEF NoCheat, None, Entries
<1> HIDE DEF e
<1>4. Stays /\ file' = file /\ Entry' = e  BY <1>1, <1>2, <1>3, SetEntryStays
<1>5. Nested(doc) => ShnPassed'
  BY <1>1, <1>2, <1>4, ShnPassedStays
<1>6. InThis' = InThis  BY <1>1 DEF InThis, Tags, EndOfCheat, FirstTag
<1>7. Rank(InThis, line) = 0  BY <1>1, <1>2, RankOfFirst
<1>8. 1..0 = {} /\ \A j \in InThis : ~(j < line)  BY <1>1, <1>2
<1>9. ShnFilled'  BY <1>1, <1>2, <1>3, <1>4, <1>6, <1>7, <1>8 DEF ShnFilled
<1> QED
  BY <1>1, <1>2, <1>4, <1>5, <1>9 DEF ShnSo, ShnAt, ShnInList, ShnInCheat, Stays

LEMMA ShnRoomSays ==
  ASSUME CapacityAssumption, DocsAssumption, Inv, Inv', ShnSo, ShnRoom
  PROVE  ShnSo'
<1>1. /\ pc = "shn_line" /\ pc' = "shn_value" /\ UNCHANGED <<doc, item>>
      /\ Lines # {} /\ EnsurePatch /\ line' = NextLine /\ ShnFilled
  BY DEF ShnRoom, At, ShnSo
<1>2. /\ item \in Nat \ {0} /\ line \in Nat \ {0} /\ item \in Opens(doc) /\ Opens(doc) \in SUBSET Nat
      /\ InThis \in SUBSET Nat
      /\ InOrder /\ ~doc.empty /\ doc.header /\ file.authors = ShnNames(doc)
      /\ (doc.format = "mc4" => doc.sealed) /\ (Nested(doc) => ShnPassed)
      /\ cheat # NoRef /\ Good
  BY <1>1, ShnReads DEF ShnInCheat
<1>3. /\ Stays /\ file' = file /\ Entry'.text = Entry.text /\ Entry'.author = Entry.author
      /\ Entry'.patch_count = Entry.patch_count
      /\ \A i \in 1..Entry.patch_count : Patch(i)' = Patch(i)
  BY <1>1, <1>2, EnsurePatchStays
<1>4. Nested(doc) => ShnPassed'
  BY <1>1, <1>2, <1>3, ShnPassedStays
<1>5. InThis' = InThis  BY <1>1 DEF InThis, Tags, EndOfCheat, FirstTag
<1>6. /\ NextLine \in InThis /\ NextLine \in Nat \ {0} /\ line <= NextLine
      /\ \A j \in InThis : line <= j => NextLine <= j
  BY <1>1, NextLineIs DEF Inv, ShnFilled
<1>7. Rank(InThis, NextLine) = Rank(InThis, line)  BY <1>2, <1>6, RankSkips
<1>8. item <= NextLine /\ \A j \in InThis : j < NextLine <=> j < line
  BY <1>1, <1>2, <1>6 DEF ShnFilled
<1>9. ShnFilled'
  BY <1>1, <1>3, <1>5, <1>7, <1>8 DEF ShnFilled
<1> QED
  BY <1>1, <1>2, <1>3, <1>4, <1>5, <1>6, <1>9 DEF ShnSo, ShnAt, ShnInList, ShnInCheat, Stays

LEMMA ShnValueSays ==
  ASSUME CapacityAssumption, ValueAssumption, DocsAssumption, Inv, Inv', ShnSo, ShnValue
  PROVE  ShnSo'
<1> DEFINE p == ParsedPatch(line, ShnOn, ShnOff)
           c == Entry.patch_count
<1>1. /\ pc = "shn_value" /\ pc' = "shn_line" /\ UNCHANGED <<doc, item>> /\ line' = line + 1
      /\ Sound(doc.items[line], ShnOn, ShnOff) /\ AddPatch(p) /\ ShnFilled /\ line \in InThis
  BY DEF ShnValue, At, ShnSo
<1>2. /\ item \in Nat \ {0} /\ line \in Nat \ {0} /\ item \in Opens(doc) /\ Opens(doc) \in SUBSET Nat
      /\ InThis \in SUBSET Nat /\ IsFiniteSet(InThis) /\ IsPatch(doc.items[line])
      /\ InOrder /\ ~doc.empty /\ doc.header /\ file.authors = ShnNames(doc)
      /\ (doc.format = "mc4" => doc.sealed) /\ (Nested(doc) => ShnPassed)
      /\ cheat # NoRef /\ Good /\ Entry \in Entries
  BY <1>1, ShnReads DEF ShnInCheat
<1>3. GoodPatch(doc.items[line], ShnDigits) /\ p = PatchOf(doc.items[line], line, ShnDigits)
  BY <1>1, <1>2, ShnPatchIs DEF ShnOn, ShnOff
<1>4. Entry.patch_count < Entry.patch_capacity  BY <1>1 DEF Inv, Slot, Valued
<1> HIDE DEF p
<1>5. /\ Stays /\ file' = file /\ Entry'.text = Entry.text /\ Entry'.author = Entry.author
      /\ Entry'.patch_count = c + 1
      /\ \A i \in 1..c : Patch(i)' = Patch(i)
      /\ \A i : i = c + 1 => Patch(i)' = p
  BY <1>1, <1>2, <1>4, AddPatchStays
<1>6. Nested(doc) => ShnPassed'
  BY <1>1, <1>2, <1>5, ShnPassedStays
<1>7. InThis' = InThis  BY <1>1 DEF InThis, Tags, EndOfCheat, FirstTag
<1>8. Rank(InThis, line + 1) = c + 1 /\ Rank(InThis, line) = c /\ c \in Nat
  BY <1>1, <1>2, RankIs DEF ShnFilled, Entries
<1>9. item <= line + 1 /\ \A j \in InThis : j < line + 1 <=> j < line \/ j = line
  BY <1>1, <1>2 DEF ShnFilled
<1>10. \A n \in 1..(c + 1) : \E j \in InThis :
         /\ j < line + 1 /\ Rank(InThis, j) = n - 1
         /\ Patch(n)' = PatchOf(doc.items[j], j, ShnDigits)
  <2> SUFFICES ASSUME NEW n \in 1..(c + 1)
               PROVE  \E j \in InThis : /\ j < line + 1 /\ Rank(InThis, j) = n - 1
                                        /\ Patch(n)' = PatchOf(doc.items[j], j, ShnDigits)
    OBVIOUS
  <2>1. CASE n \in 1..c
    <3>1. PICK j \in InThis : /\ j < line /\ Rank(InThis, j) = n - 1
                              /\ Patch(n) = PatchOf(doc.items[j], j, ShnDigits)
      BY <1>1, <2>1 DEF ShnFilled
    <3>2. j < line + 1  BY <1>9, <3>1
    <3> QED  BY <1>5, <2>1, <3>1, <3>2
  <2>2. CASE n = c + 1
    <3>1. c = n - 1 /\ line < line + 1  BY <1>2, <1>8, <2>2
    <3> QED  BY <1>1, <1>3, <1>5, <1>8, <2>2, <3>1
  <2> QED  BY <1>8, <2>1, <2>2
<1>11. ShnFilled'
  <2>1. /\ doc'.items[item'].name /\ Entry'.text = item' /\ Entry'.author = None /\ item' <= line'
        /\ Entry'.patch_count = Rank(InThis', line')
    BY <1>1, <1>5, <1>7, <1>8, <1>9 DEF ShnFilled
  <2>2. \A j \in InThis : j < line + 1 => GoodPatch(doc.items[j], ShnDigits)
    BY <1>1, <1>3, <1>9 DEF ShnFilled
  <2> QED  BY <1>1, <1>5, <1>7, <1>10, <2>1, <2>2 DEF ShnFilled
<1> QED
  BY <1>1, <1>2, <1>5, <1>6, <1>11 DEF ShnSo, ShnAt, ShnInList, ShnInCheat, Stays

LEMMA ShnPublishSays ==
  ASSUME CapacityAssumption, DocsAssumption, Inv, Inv', ShnSo, ShnPublish
  PROVE  ShnSo'
<1> DEFINE c == file.cheat_count
           S == Opens(doc)
<1>1. /\ pc = "shn_line" /\ pc' = "shn_cheat" /\ doc' = doc /\ item' = EndOfCheat + 1
      /\ Lines = {} /\ Entry.patch_count > 0 /\ Publish /\ ShnFilled
  BY DEF ShnPublish, At, ShnSo
<1>2. /\ item \in Nat \ {0} /\ line \in Nat \ {0} /\ item \in S
      /\ S \in SUBSET Nat /\ IsFiniteSet(S)
      /\ InThis \in SUBSET Nat /\ IsFiniteSet(InThis)
      /\ InOrder /\ ~doc.empty /\ doc.header /\ file.authors = ShnNames(doc)
      /\ (doc.format = "mc4" => doc.sealed) /\ (Nested(doc) => ShnPassed)
      /\ cheat # NoRef /\ Good /\ Entry \in Entries /\ Holds(Entry, patchBlocks)
  BY <1>1, ShnReads DEF ShnInCheat
<1>3. /\ file'.cheat_count = c + 1 /\ file'.authors = AddAuthor(file.authors, Entry.author)
      /\ \A k \in 1..c : Published'[k] = Published[k]
      /\ Published'[c + 1] = Filled /\ InOrder'
  BY <1>1, <1>2, PublishSays
<1>4. file'.authors = ShnNames(doc)  BY <1>1, <1>2, <1>3, NoAuthor DEF ShnFilled
<1>5. EndOfCheat \in Nat /\ item <= EndOfCheat  BY <1>1, InThisIs DEF ShnInCheat, Inv
<1>6. ASSUME Nested(doc) PROVE ShnPassed'
  <2> DEFINE L == InThis
  <2>1. InCheat(doc, item) = L /\ \A k \in S : item < k => EndOfCheat < k
    BY <1>1, <1>2, <1>6, OwnEnd DEF ShnInCheat, Inv
  <2>2. \A j \in L : j < line  BY <1>1, NextLineIs DEF Inv, ShnFilled
  <2>3. Entry.patch_count = Cardinality(L)
    BY <1>1, <1>2, <2>2, RankEnds DEF ShnFilled
  <2>4. /\ Entry.patch_count \in Nat /\ Entry.patch_count > 0 /\ Entry.patch_count <= MaxPatches
    BY <1>1, <1>2 DEF Entries, Holds, CapacityAssumption
  <2>5. Cardinality(L) \in 1..MaxPatches  BY <2>3, <2>4 DEF CapacityAssumption
  <2>6. ShnGood(doc, item)
    BY <1>1, <2>1, <2>2, <2>5 DEF ShnGood, ShnFilled
  <2>7. \A n \in 1..Entry.patch_count :
          Patch(n) = PatchOf(doc.items[Ordered(L)[n]], Ordered(L)[n], ShnDigits)
    <3> SUFFICES ASSUME NEW n \in 1..Entry.patch_count
                 PROVE  Patch(n) = PatchOf(doc.items[Ordered(L)[n]], Ordered(L)[n], ShnDigits)
      OBVIOUS
    <3>1. PICK j \in L : Rank(L, j) = n - 1 /\ Patch(n) = PatchOf(doc.items[j], j, ShnDigits)
      BY <1>1 DEF ShnFilled
    <3>2. Rank(L, j) + 1 = n  BY <2>4, <3>1
    <3>3. Ordered(L)[Rank(L, j) + 1] = j  BY <1>2, OrderedIs
    <3> QED  BY <3>1, <3>2, <3>3
  <2>8. DOMAIN Ordered(L) = 1..Entry.patch_count  BY <2>3 DEF Ordered
  <2>9. Filled = ShnCheatOf(doc, item)
    BY <1>1, <2>1, <2>7, <2>8 DEF Filled, ShnCheatOf, ShnFilled
  <2>10. ShnPassed  BY <1>2, <1>6
  <2> HIDE DEF L, c
  <2>11. c \in Nat /\ Rank(S, item) = c /\ Rank(S, item + 1) = c + 1
    BY <1>2, <2>10, RankIs DEF ShnPassed, c
  <2>12. \A k \in S : (k < item + 1 <=> k < item \/ k = item)
                      /\ (k < EndOfCheat + 1 <=> k < item + 1)
    BY <1>2, <1>5, <2>1
  <2>13. Rank(S, EndOfCheat + 1) = c + 1
    <3>1. \A k \in S : item + 1 <= k => EndOfCheat + 1 <= k  BY <1>2, <1>5, <2>1
    <3>2. item + 1 \in Nat /\ EndOfCheat + 1 \in Nat /\ item + 1 <= EndOfCheat + 1  BY <1>2, <1>5
    <3>3. Rank(S, EndOfCheat + 1) = Rank(S, item + 1)  BY <1>2, <3>1, <3>2, RankSkips
    <3> QED  BY <2>11, <3>3
  <2>14. \A n \in 1..(c + 1) : \E k \in S :
           k < EndOfCheat + 1 /\ Rank(S, k) = n - 1 /\ Published'[n] = ShnCheatOf(doc, k)
    <3> SUFFICES ASSUME NEW n \in 1..(c + 1)
                 PROVE  \E k \in S : /\ k < EndOfCheat + 1 /\ Rank(S, k) = n - 1
                                     /\ Published'[n] = ShnCheatOf(doc, k)
      OBVIOUS
    <3>1. CASE n \in 1..c
      <4>1. PICK k \in S : k < item /\ Rank(S, k) = n - 1 /\ Published[n] = ShnCheatOf(doc, k)
        BY <2>10, <3>1 DEF ShnPassed, c
      <4> QED  BY <1>3, <2>12, <3>1, <4>1 DEF c
    <3>2. CASE n = c + 1
      <4>1. c = n - 1  BY <2>11, <3>2
      <4> QED  BY <1>2, <1>3, <2>9, <2>11, <2>12, <3>2, <4>1 DEF c
    <3> QED  BY <2>11, <3>1, <3>2
  <2>15. \A k \in S : k < EndOfCheat + 1 => ShnGood(doc, k)
    BY <2>6, <2>10, <2>12 DEF ShnPassed
  <2>16. /\ \A k : ShnGood(doc, k)' = ShnGood(doc, k) /\ ShnCheatOf(doc, k)' = ShnCheatOf(doc, k)
         /\ Opens(doc)' = S
    BY <1>1
  <2>17. file'.cheat_count = c + 1  BY <1>3 DEF c
  <2> HIDE DEF S
  <2> QED  BY <1>1, <2>13, <2>14, <2>15, <2>16, <2>17 DEF ShnPassed
<1> QED
  BY <1>1, <1>2, <1>3, <1>4, <1>6 DEF ShnSo, ShnAt, ShnInList, ShnInCheat

LEMMA ShnTrainerSays ==
  ASSUME CapacityAssumption, DocsAssumption, Inv, Inv', ShnSo, ShnTrainer
  PROVE  ShnSo'
<1> DEFINE us == <<doc.moder>>
<1>1. /\ pc = "shn_trainer" /\ pc' = "shn_cheat" /\ UNCHANGED <<blocks, cheat, doc, item, line>>
      /\ doc.header /\ file' = [file EXCEPT !.named = TRUE, !.authors = AddAuthor(@, doc.moder)]
      /\ file = NoFile /\ item = 1 /\ ~doc.empty /\ (doc.format = "mc4" => doc.sealed)
  BY DEF ShnTrainer, At, parser, ShnSo, ShnAt
<1>2. file'.cheat_count = 0 /\ file'.authors = AddAuthor(<<>>, doc.moder)  BY <1>1 DEF NoFile
<1>3. /\ us \in Seq(Nat) /\ <<>> \in Seq(Nat) /\ Len(us) = 1 /\ us[1] = doc.moder
  BY <1>1, ShnTyped DEF Inv, ShnAt
<1>4. NamesSo(us, 1, <<>>)  BY <1>3, NamesNone, Zenon
<1>5. AddAuthor(<<>>, us[1]) \in Seq(Nat) /\ NamesSo(us, 1 + 1, AddAuthor(<<>>, us[1]))
  <2>1. 1 \in 1..Len(us)  BY <1>3
  <2> HIDE DEF us
  <2> QED  BY <1>3, <1>4, <2>1, NamesStep, Zenon
<1>6. file'.authors = ShnNames(doc)
  <2>1. 1 + 1 = Len(us) + 1  BY <1>3
  <2>2. ShnNames(doc) = Distinct(us)  BY DEF ShnNames
  <2> HIDE DEF us
  <2>3. AddAuthor(<<>>, us[1]) = Distinct(us)  BY <1>3, <1>5, <2>1, NamesAll, Zenon
  <2> QED  BY <1>2, <1>3, <2>2, <2>3
<1>7. ShnPassed'
  <2>1. Opens(doc) \in SUBSET (1..Len(doc.items)) /\ Opens(doc) \in SUBSET Nat
    BY <1>1, OpensAre DEF Inv, ShnAt
  <2>2. \A k \in Opens(doc) : 1 <= k /\ ~(k < 1)  BY <2>1
  <2>3. Rank(Opens(doc), 1) = 0  BY <2>1, <2>2, RankOfFirst
  <2>4. 1..0 = {}  OBVIOUS
  <2> QED  BY <1>1, <1>2, <2>2, <2>3, <2>4 DEF ShnPassed
<1>8. InOrder'  BY <1>2 DEF InOrder
<1> QED  BY <1>1, <1>6, <1>7, <1>8 DEF ShnSo, ShnAt, ShnInList, ShnInCheat

LEMMA ShnCheatSays ==
  ASSUME CapacityAssumption, DocsAssumption, Inv, Inv', ShnSo, ShnCheat
  PROVE  ShnSo'
<1>1. /\ pc = "shn_cheat" /\ pc' = "shn_text" /\ doc' = doc /\ item' = NextCheat /\ line' = NextCheat
      /\ More /\ EnsureCheat /\ cheat = NoRef /\ Good /\ Place
      /\ InOrder /\ ~doc.empty /\ doc.header /\ file.authors = ShnNames(doc)
      /\ (doc.format = "mc4" => doc.sealed) /\ (Nested(doc) => ShnPassed)
  BY DEF ShnCheat, At, ShnSo, ShnAt, ShnInList, Inv, Slot, Holding
<1>2. /\ NextCheat \in Opens(doc) /\ NextCheat \in Nat \ {0} /\ item <= NextCheat
      /\ \A k \in Opens(doc) : item <= k => NextCheat <= k
  BY <1>1, NextCheatIs
<1>3. Opens(doc) \in SUBSET Nat /\ item \in Nat  BY <1>1, OpensAre DEF ShnAt, Place
<1>4. Stays /\ file'.cheat_count = file.cheat_count /\ file'.authors = file.authors
  BY <1>1, EnsureCheatStays
<1>5. Nested(doc) => ShnPassed'
  BY <1>1, <1>2, <1>3, <1>4, ShnPassedStays
<1> QED
  BY <1>1, <1>2, <1>4, <1>5 DEF ShnSo, ShnAt, ShnInList, ShnInCheat, Stays

LEMMA ShnDoneSays ==
  ASSUME CapacityAssumption, DocsAssumption, Inv, Inv', ShnSo, ShnDone
  PROVE  Given' /\ pc' = "shn_return"
<1> DEFINE c == file.cheat_count
           S == Opens(doc)
<1>1. /\ pc = "shn_cheat" /\ pc' = "shn_return" /\ result' = TRUE /\ UNCHANGED <<fileVars, doc, short>>
      /\ ~More /\ c > 0 /\ Good /\ Place
      /\ InOrder /\ ~doc.empty /\ doc.header /\ file.authors = ShnNames(doc)
      /\ (doc.format = "mc4" => doc.sealed) /\ (Nested(doc) => ShnPassed)
  BY DEF ShnDone, At, ShnSo, ShnAt, ShnInList, Inv
<1>2. /\ doc.format \in {"shn", "mc4"} /\ S \in SUBSET Nat /\ IsFiniteSet(S) /\ item \in Nat
  BY <1>1, ShnTyped, OpensAre DEF ShnAt
<1>3. Stays /\ file' = file  BY <1>1, FileStays
<1>4. ASSUME Nested(doc)
      PROVE  Accepts(doc) /\ Published = Cheats(doc) /\ file.authors = Names(doc)
  <2>1. \A k \in S : k < item  BY <1>1, NextCheatIs
  <2>2. c = Cardinality(S)  BY <1>1, <1>2, <1>4, <2>1, RankEnds DEF ShnPassed
  <2>3. \A k \in S : ShnGood(doc, k)  BY <1>1, <1>4, <2>1 DEF ShnPassed
  <2>4. Cardinality(S) \in 1..MaxCheats
    <3>1. c \in Nat /\ c > 0 /\ c <= MaxCheats /\ MaxCheats \in Nat
      BY <1>1 DEF Good, Typed, Files, CapacityAssumption
    <3> HIDE DEF c
    <3> QED  BY <2>2, <3>1
  <2>5. ShnAccepts(doc)  BY <1>1, <2>3, <2>4 DEF ShnAccepts, ShnGood
  <2>6. Accepts(doc)  BY <1>1, <1>2, <2>5 DEF Accepts, Known, Formats
  <2>7. \A n \in 1..c : Published[n] = ShnCheatOf(doc, Ordered(S)[n])
    <3> SUFFICES ASSUME NEW n \in 1..c PROVE Published[n] = ShnCheatOf(doc, Ordered(S)[n])
      OBVIOUS
    <3>1. PICK k \in S : Rank(S, k) = n - 1 /\ Published[n] = ShnCheatOf(doc, k)
      BY <1>1, <1>4 DEF ShnPassed
    <3>2. Rank(S, k) + 1 = n  BY <3>1
    <3>3. Ordered(S)[Rank(S, k) + 1] = k  BY <1>2, OrderedIs
    <3> QED  BY <3>1, <3>2, <3>3
  <2>8. DOMAIN Ordered(S) = 1..c  BY <2>2 DEF Ordered
  <2>9. ShnCheats(doc) = [n \in 1..c |-> ShnCheatOf(doc, Ordered(S)[n])]
    BY <2>8 DEF ShnCheats, ShnCheatOf
  <2>10. Published = [n \in 1..c |-> Published[n]]  BY DEF Published
  <2>11. Published = ShnCheats(doc)  BY <2>7, <2>9, <2>10
  <2>12. Cheats(doc) = ShnCheats(doc) /\ Names(doc) = ShnNames(doc)
    BY <1>2 DEF Cheats, Names
  <2> QED  BY <1>1, <2>6, <2>11, <2>12
<1>5. Tagged(doc) => Nested(doc)  BY <1>2 DEF Tagged
<1> QED  BY <1>1, <1>2, <1>3, <1>4, <1>5, SameDocument DEF Given, Stays

\* what the parser of SHN and MC4 documents makes of them
LEMMA ShnSays ==
  ASSUME CapacityAssumption, ValueAssumption, DocsAssumption, Inv, Inv', ShnSo, ShnParse,
         pc = "shn_return" => Given
  PROVE  ShnSo' /\ (pc' \in {"return", "shn_return"} => Given')
<1>1. CASE \/ Mc4Fails \/ ShnNoCopy \/ ShnNoTrainer \/ ShnCheatRefused \/ ShnNoText \/ ShnNoRoom
           \/ ShnBadValue \/ ShnNoLines \/ ShnNoCheats
  BY <1>1, ShnRefuses DEF ShnSo, ShnAt, ShnInList, ShnInCheat
<1>2. CASE ShnTrainer
  BY <1>2, ShnTrainerSays DEF ShnTrainer, At
<1>3. CASE ShnCheat \/ ShnText \/ ShnRoom \/ ShnValue \/ ShnPublish
  BY <1>3, ShnCheatSays, ShnTextSays, ShnRoomSays, ShnValueSays, ShnPublishSays
  DEF ShnCheat, ShnText, ShnRoom, ShnValue, ShnPublish, At
<1>4. CASE ShnDone
  BY <1>4, ShnDoneSays DEF ShnSo, ShnAt, ShnInList, ShnInCheat
<1>5. CASE Mc4Decrypt \/ ShnCopy
  <2>1. /\ \/ pc = "mc4" /\ pc' = "shn" /\ doc.sealed
           \/ pc = "shn" /\ pc' = "shn_trainer"
        /\ UNCHANGED <<fileVars, doc, item>>
    BY <1>5 DEF Mc4Decrypt, ShnCopy, At
  <2>2. Stays /\ file' = file  BY <2>1, FileStays DEF Inv
  <2> QED  BY <2>1, <2>2 DEF ShnSo, ShnAt, ShnInList, ShnInCheat, Stays
<1>6. CASE ShnReturn
  <2>1. pc = "shn_return" /\ pc' = "return" /\ UNCHANGED <<fileVars, doc, result, short>>
    BY <1>6 DEF ShnReturn, At
  <2>2. Stays /\ file' = file  BY <2>1, FileStays DEF Inv
  <2> QED
    BY <2>1, <2>2, SameDocument DEF Given, Stays, ShnSo, ShnAt, ShnInList, ShnInCheat
<1> QED  BY <1>1, <1>2, <1>3, <1>4, <1>5, <1>6 DEF ShnParse

-----------------------------------------------------------------------------
(* SHNEXT: every entry that opens and says something is published, in order, until the  *)
(* limit; where memory runs out, the entries that are published still come in order,    *)
(* each with patches of its own.                                                        *)

ExtReading == {"ext_vars", "ext_value", "ext_close"}
Least(m, n) == IF m > n THEN n ELSE m

\* a cheat that entry k of the document gave, or what memory allowed of it
ExtFrom(got, d, k) ==
  /\ got.text = ExtCheat(d, k).text /\ got.author = ExtCheat(d, k).author
  /\ \A i \in DOMAIN got.patches : ExtPatch(got.patches[i], d.items[k])
  /\ \A i, j \in DOMAIN got.patches : i < j => got.patches[i].of < got.patches[j].of
ExtLeft ==
  \E of \in [1..file.cheat_count -> Opened(doc)] :
    /\ \A j, k \in 1..file.cheat_count : j < k => of[j] < of[k]
    /\ \A k \in 1..file.cheat_count : of[k] < item /\ ExtFrom(Published[k], doc, of[k])
\* the authors of the cheats the document allows
ExtAuthors(d) == [n \in DOMAIN ExtCheats(d) |-> ExtCheats(d)[n].author]
ExtPassed ==
  /\ file.cheat_count = Least(Rank(ExtKept(doc), item), MaxCheats)
  /\ \A n \in 1..file.cheat_count : \E k \in ExtKept(doc) :
       k < item /\ Rank(ExtKept(doc), k) = n - 1 /\ Published[n] = ExtCheat(doc, k)
  /\ NamesSo(ExtAuthors(doc), file.cheat_count + 1, file.authors)

\* the entry being filled
ExtTexts == Entry.text = (IF Sealed.name THEN item ELSE None) /\ Entry.author = Sealed.author
ExtPartly ==
  /\ \A n \in 1..Entry.patch_count : ExtPatch(Patch(n), Sealed) /\ Patch(n).of \in 1..(line - 1)
  /\ \A m, n \in 1..Entry.patch_count : m < n => Patch(m).of < Patch(n).of
ExtFilled ==
  LET S == Numbered(Sealed)
  IN /\ Entry.patch_count = Least(Rank(S, line), MaxPatches)
     /\ \A n \in 1..Entry.patch_count : \E j \in S :
          /\ j < line /\ Rank(S, j) = n - 1
          /\ Patch(n) = Variable(Sealed.vars[j], j, TRUE, TRUE)
     /\ pc = "ext_close" => Entry.patch_count = MaxPatches \/ \A j \in S : j < line

ExtSo ==
  /\ pc \in ExtAt => ~doc.empty /\ InOrder
  /\ pc \in {"ext", "ext_json", "ext_header"} => file = NoFile /\ item = 1
  /\ pc \in ExtAt \ ExtReading => line = 1
  /\ pc \in Counting => ExtLeft /\ (~short => ExtPassed)
  /\ pc \in ExtReading => ExtTexts /\ ExtPartly /\ (~short => ExtFilled)
  /\ pc \in {"ext_value", "ext_close"} => Sealed.vars # Missing
  /\ pc = "ext_value" => line <= Len(Sealed.vars)

\* before a parser begins, and once it has returned
Begun ==
  /\ pc \in {"open", "read", "parse"} => item = 1 /\ line = 1
  /\ pc \in {"open", "read"} => file = NoFile
  /\ pc \in {"read", "parse"} => ~doc.empty
GivenInv ==
  JsonSo /\ ShnSo /\ ExtSo /\ Begun /\ (pc \in {"return", "shn_return", "done"} => Given)

LEMMA ExtTyped ==
  ASSUME DocsAssumption, Place, pc \in ExtAt
  PROVE  /\ doc \in Docs /\ doc.format = "shnext" /\ item \in Nat \ {0} /\ line \in Nat \ {0}
         /\ Len(doc.items) \in Nat /\ DOMAIN doc.items = 1..Len(doc.items)
BY DEF Place, DocsAssumption, Known, Formats, IsSequence

\* the entries that are published, and the variables of one of them
LEMMA KeptAre ==
  ASSUME DocsAssumption, doc \in Docs, doc.format = "shnext"
  PROVE  /\ ExtKept(doc) \in SUBSET Opened(doc) /\ ExtKept(doc) \in SUBSET Nat
         /\ IsFiniteSet(ExtKept(doc)) /\ Cardinality(ExtKept(doc)) \in Nat
         /\ \A k \in Opened(doc) : k \in 1..Len(doc.items)
<1>1. Opened(doc) \subseteq Nat /\ IsFiniteSet(Opened(doc))  BY OpenedIs
<1>2. ExtKept(doc) \in SUBSET Opened(doc)  BY DEF ExtKept
<1>3. \A k \in Opened(doc) : k \in 1..Len(doc.items)
  BY DEF Opened, DocsAssumption, Known, Formats, IsSequence
<1> QED  BY <1>1, <1>2, <1>3, FS_Subset, FS_CardinalityType

LEMMA NumberedAre ==
  ASSUME DocsAssumption, doc \in Docs, doc.format = "shnext", NEW k \in Opened(doc)
  PROVE  /\ Numbered(doc.items[k]) \in SUBSET (Nat \ {0}) /\ IsFiniteSet(Numbered(doc.items[k]))
         /\ Numbered(doc.items[k]) \in SUBSET Nat /\ Cardinality(Numbered(doc.items[k])) \in Nat
         /\ doc.items[k].vars # Missing =>
              /\ Len(doc.items[k].vars) \in Nat
              /\ \A j : j \in Numbered(doc.items[k]) <=>
                   j \in 1..Len(doc.items[k].vars) /\ doc.items[k].vars[j].number
         /\ doc.items[k].vars = Missing => Numbered(doc.items[k]) = {}
<1> DEFINE e == doc.items[k]
           S == Numbered(e)
<1>1. k \in DOMAIN doc.items  BY DEF Opened
<1>2. e.vars # Missing => Len(e.vars) \in Nat /\ DOMAIN e.vars = 1..Len(e.vars)
  BY <1>1 DEF DocsAssumption, ExtDoc, IsSequence
<1> HIDE DEF e
<1>3. CASE e.vars = Missing
  <2>1. S = {}  BY <1>3 DEF Numbered
  <2> QED  BY <1>3, <2>1, FS_EmptySet DEF e
<1>4. CASE e.vars # Missing
  <2>1. \A j : j \in S <=> j \in 1..Len(e.vars) /\ e.vars[j].number
    BY <1>2, <1>4 DEF Numbered
  <2>2. Len(e.vars) \in Nat  BY <1>2, <1>4
  <2>3. IsFiniteSet(1..Len(e.vars))  BY <2>2, FS_Interval
  <2>4. S \subseteq 1..Len(e.vars)  BY <2>1
  <2>5. IsFiniteSet(S) /\ Cardinality(S) \in Nat  BY <2>3, <2>4, FS_Subset, FS_CardinalityType
  <2>6. S \in SUBSET (Nat \ {0}) /\ S \in SUBSET Nat  BY <2>2, <2>4
  <2> QED  BY <1>4, <2>1, <2>2, <2>5, <2>6 DEF e
<1> QED  BY <1>3, <1>4

\* the first elements of a sequence
LEMMA TakeOf ==
  ASSUME NEW s, \E T : s \in Seq(T), NEW max \in Nat
  PROVE  /\ Take(s, max) = [i \in 1..Least(Len(s), max) |-> s[i]]
         /\ Least(Len(s), max) \in Nat /\ 1..Least(Len(s), max) \subseteq 1..Len(s)
<1> DEFINE t == Take(s, max)
           p == Least(Len(s), max)
<1>1. PICK T : s \in Seq(T)  OBVIOUS
<1>2. Len(s) \in Nat  BY <1>1, LenProperties
<1>3. /\ t \in Seq(T) /\ Len(t) = p /\ DOMAIN t = 1..Len(t)
      /\ \A i \in 1..Len(t) : t[i] = s[i]
  BY <1>1, TakeIs DEF Least
<1>4. p \in Nat /\ 1..p \subseteq 1..Len(s)  BY <1>2 DEF Least
<1> HIDE DEF t, p
<1>5. t = [i \in 1..p |-> s[i]]  BY <1>3, LenProperties
<1> QED  BY <1>4, <1>5 DEF t, p

LEMMA OrderedSeq ==
  ASSUME NEW S, NEW T, NEW m, m = Cardinality(S), \A n \in 1..m : Ordered(S)[n] \in T
  PROVE  Ordered(S) \in [1..m -> T]
<1> DEFINE o(n) == CHOOSE k \in S : Cardinality({j \in S : j < k}) = n - 1
<1>1. Ordered(S) = [n \in 1..m |-> o(n)]  BY DEF Ordered
<1> HIDE DEF o
<1> QED  BY <1>1

LEMMA ExtCheatIs ==
  ASSUME CapacityAssumption, DocsAssumption, doc \in Docs, doc.format = "shnext",
         NEW k \in Opened(doc), NEW S, S = Numbered(doc.items[k]), NEW c,
         c = Least(Cardinality(S), MaxPatches)
  PROVE  ExtCheat(doc, k) =
           [text |-> IF doc.items[k].name THEN k ELSE None, author |-> doc.items[k].author,
            patches |-> [n \in 1..c |-> Variable(doc.items[k].vars[Ordered(S)[n]], Ordered(S)[n], TRUE, TRUE)]]
<1> DEFINE e == doc.items[k]
           m == Cardinality(S)
           v(i) == Variable(e.vars[Ordered(S)[i]], Ordered(S)[i], TRUE, TRUE)
           s == [i \in 1..m |-> v(i)]
           T == {s[i] : i \in 1..m}
           t == Take(s, MaxPatches)
<1>1. m \in Nat /\ MaxPatches \in Nat  BY NumberedAre DEF CapacityAssumption
<1>2. DOMAIN Ordered(S) = 1..m  BY DEF Ordered
<1>3. ExtCheat(doc, k) = [text |-> IF e.name THEN k ELSE None, author |-> e.author, patches |-> t]
  BY <1>2 DEF ExtCheat
<1> HIDE DEF v
<1>4. \A i \in 1..m : s[i] = v(i) /\ s[i] \in T  OBVIOUS
<1> HIDE DEF T
<1>5. s \in Seq(T)
  <2>1. \A i \in 1..m : v(i) \in T  BY <1>4
  <2> QED  BY <1>1, <2>1, IsASeq
<1>6. Len(s) = m
  <2>1. DOMAIN s = 1..m  OBVIOUS
  <2> HIDE DEF s, m
  <2> QED  BY <1>1, <1>5, <2>1, LenProperties
<1> HIDE DEF s
<1>7. t = [n \in 1..c |-> s[n]] /\ 1..c \subseteq 1..m
  <2> DEFINE p == Least(Len(s), MaxPatches)
  <2>1. t = [n \in 1..p |-> s[n]] /\ 1..p \subseteq 1..Len(s)  BY <1>1, <1>5, TakeOf
  <2>2. p = c  BY <1>6
  <2> HIDE DEF p, t, m
  <2> QED  BY <1>6, <2>1, <2>2
<1> HIDE DEF t, m
<1>8. t = [n \in 1..c |-> v(n)]  BY <1>4, <1>7
<1> QED  BY <1>3, <1>8 DEF v

LEMMA ExtCheatsAre ==
  ASSUME CapacityAssumption, DocsAssumption, doc \in Docs, doc.format = "shnext",
         NEW S, S = ExtKept(doc), NEW c, c = Least(Cardinality(S), MaxCheats)
  PROVE  /\ ExtCheats(doc) = [n \in 1..c |-> ExtCheat(doc, Ordered(S)[n])]
         /\ ExtAuthors(doc) = [n \in 1..c |-> ExtCheat(doc, Ordered(S)[n]).author]
         /\ c \in Nat
<1> DEFINE m == Cardinality(S)
           s == Ordered(S)
           T == {s[i] : i \in 1..m}
           t == Take(s, MaxCheats)
<1>1. m \in Nat /\ MaxCheats \in Nat  BY KeptAre DEF CapacityAssumption
<1>2. s \in Seq(T) /\ Len(s) = m
  <2>1. \A i \in 1..m : s[i] \in T  OBVIOUS
  <2> HIDE DEF T
  <2>2. s \in [1..m -> T]  BY <2>1, OrderedSeq
  <2> HIDE DEF s, m
  <2>3. [i \in 1..m |-> s[i]] \in Seq(T)  BY <1>1, <2>1, IsASeq
  <2>4. s \in Seq(T) /\ DOMAIN s = 1..m  BY <2>2, <2>3
  <2> QED  BY <1>1, <2>4, LenProperties
<1>3. ExtCheats(doc) = [n \in DOMAIN t |-> ExtCheat(doc, t[n])]  BY DEF ExtCheats
<1> HIDE DEF s, T
<1>4. t = [n \in 1..c |-> s[n]] /\ c \in Nat
  <2> DEFINE p == Least(Len(s), MaxCheats)
  <2>1. \E U : s \in Seq(U)  BY <1>2
  <2>2. t = [n \in 1..p |-> s[n]] /\ p \in Nat  BY <1>1, <2>1, TakeOf
  <2>3. p = c  BY <1>2
  <2> HIDE DEF p, t
  <2> QED  BY <2>2, <2>3
<1> HIDE DEF t
<1>5. ExtCheats(doc) = [n \in 1..c |-> ExtCheat(doc, s[n])]  BY <1>3, <1>4
<1>6. ExtAuthors(doc) = [n \in 1..c |-> ExtCheat(doc, s[n]).author]
  BY <1>5 DEF ExtAuthors
<1> QED  BY <1>4, <1>5, <1>6 DEF s

LEMMA WiderSeq ==
  ASSUME NEW S, NEW T, S \subseteq T, NEW w \in Seq(S)
  PROVE  w \in Seq(T)
<1>1. Len(w) \in Nat /\ DOMAIN w = 1..Len(w) /\ \A i \in 1..Len(w) : w[i] \in T
  BY LenProperties, ElementOfSeq
<1>2. [i \in 1..Len(w) |-> w[i]] \in Seq(T)  BY <1>1, IsASeq
<1>3. w = [i \in 1..Len(w) |-> w[i]]  BY <1>1, LenProperties
<1> QED  BY <1>2, <1>3

LEMMA ExtAuthorsAre ==
  ASSUME CapacityAssumption, DocsAssumption, doc \in Docs, doc.format = "shnext",
         file.authors \in Seq(Nat)
  PROVE  /\ Len(ExtAuthors(doc)) = Least(Cardinality(ExtKept(doc)), MaxCheats)
         /\ \E T : ExtAuthors(doc) \in Seq(T) /\ file.authors \in Seq(T)
         /\ \A k \in ExtKept(doc) :
              /\ Rank(ExtKept(doc), k) \in Nat
              /\ Rank(ExtKept(doc), k) < MaxCheats =>
                   /\ Rank(ExtKept(doc), k) + 1 \in 1..Len(ExtAuthors(doc))
                   /\ ExtAuthors(doc)[Rank(ExtKept(doc), k) + 1] = doc.items[k].author
<1> DEFINE S == ExtKept(doc)
           m == Cardinality(S)
           c == Least(m, MaxCheats)
           us == ExtAuthors(doc)
           T == Nat \cup {us[n] : n \in 1..c}
<1>1. us = [n \in 1..c |-> ExtCheat(doc, Ordered(S)[n]).author] /\ c \in Nat
  BY ExtCheatsAre
<1>2. us = [n \in 1..c |-> us[n]] /\ DOMAIN us = 1..c  BY <1>1
<1>3. \A n \in 1..c : us[n] \in T  OBVIOUS
<1>4. S \in SUBSET Opened(doc) /\ S \in SUBSET Nat /\ IsFiniteSet(S) /\ m \in Nat /\ MaxCheats \in Nat
  BY KeptAre DEF CapacityAssumption
<1>5. c = IF m > MaxCheats THEN MaxCheats ELSE m  BY DEF Least
<1>6. Nat \subseteq T  OBVIOUS
<1> HIDE DEF c, us, T
<1>7. [n \in 1..c |-> us[n]] \in Seq(T)  BY <1>1, <1>3, IsASeq
<1>8. us \in Seq(T)  BY <1>2, <1>7
<1>9. Len(us) = c  BY <1>1, <1>2, <1>8, LenProperties
<1>10. file.authors \in Seq(T)  BY <1>6, WiderSeq, Zenon
<1>11. ASSUME NEW k \in S
       PROVE  /\ Rank(S, k) \in Nat
              /\ Rank(S, k) < MaxCheats => Rank(S, k) + 1 \in 1..c
                                           /\ us[Rank(S, k) + 1] = doc.items[k].author
  <2>1. Rank(S, k) \in Nat /\ Rank(S, k) < m  BY <1>4, RankIs
  <2>2. Ordered(S)[Rank(S, k) + 1] = k  BY <1>4, OrderedIs
  <2>3. ExtCheat(doc, k).author = doc.items[k].author  BY DEF ExtCheat
  <2>4. Rank(S, k) < MaxCheats => Rank(S, k) + 1 \in 1..c  BY <1>4, <1>5, <2>1
  <2> QED  BY <1>1, <2>1, <2>2, <2>3, <2>4
<1> QED  BY <1>8, <1>9, <1>10, <1>11 DEF us, c

\* nothing that is published changes, and what is passed had nothing to publish, or no room
LEMMA ExtLeftStays ==
  ASSUME DocsAssumption, Place, pc \in ExtAt, ExtLeft, Stays, doc' = doc,
         file'.cheat_count = file.cheat_count, item' \in {item, item + 1}
  PROVE  ExtLeft'
<1> DEFINE c == file.cheat_count
<1>1. PICK of \in [1..c -> Opened(doc)] :
        /\ \A j, k \in 1..c : j < k => of[j] < of[k]
        /\ \A k \in 1..c : of[k] < item /\ ExtFrom(Published[k], doc, of[k])
  BY DEF ExtLeft
<1>2. Opened(doc) \subseteq Nat /\ item \in Nat  BY ExtTyped, OpenedIs
<1>3. \A k \in 1..c : of[k] < item'  BY <1>1, <1>2
<1>4. /\ Opened(doc)' = Opened(doc) /\ Published' = Published
      /\ \A k \in 1..c : ExtFrom(Published[k], doc, of[k])' = ExtFrom(Published[k], doc, of[k])
  BY DEF Stays
<1>5. /\ of \in [1..file'.cheat_count -> Opened(doc)']
      /\ \A j, k \in 1..file'.cheat_count : j < k => of[j] < of[k]
      /\ \A k \in 1..file'.cheat_count : of[k] < item' /\ ExtFrom(Published[k], doc, of[k])'
  BY <1>1, <1>3, <1>4
<1> QED  BY <1>5 DEF ExtLeft

LEMMA ExtPassedStays ==
  ASSUME CapacityAssumption, DocsAssumption, Place, pc \in ExtAt, ExtPassed, Stays, doc' = doc,
         file'.cheat_count = file.cheat_count, file'.authors = file.authors,
         \/ item' = item
         \/ item' = item + 1 /\ (item \notin ExtKept(doc) \/ file.cheat_count = MaxCheats)
  PROVE  ExtPassed'
<1> DEFINE S == ExtKept(doc)
           c == file.cheat_count
<1>1. S \in SUBSET Nat /\ IsFiniteSet(S) /\ item \in Nat /\ MaxCheats \in Nat
  BY ExtTyped, KeptAre DEF CapacityAssumption
<1>2. /\ Rank(S, item) \in Nat
      /\ Rank(S, item + 1) = IF item \in S THEN Rank(S, item) + 1 ELSE Rank(S, item)
  BY <1>1, RankIs
<1>3. c = Least(Rank(S, item), MaxCheats)  BY DEF ExtPassed
<1>4. c = Least(Rank(S, item'), MaxCheats)  BY <1>1, <1>2, <1>3 DEF Least
<1>5. \A k \in S : k < item => k < item'  BY <1>1
<1>6. \A n \in 1..c : \E k \in S : k < item' /\ Rank(S, k) = n - 1 /\ Published[n] = ExtCheat(doc, k)
  <2>1. \A n \in 1..c : \E k \in S : k < item /\ Rank(S, k) = n - 1 /\ Published[n] = ExtCheat(doc, k)
    BY DEF ExtPassed
  <2> QED  BY <1>5, <2>1
<1>7. /\ ExtKept(doc)' = S /\ Published' = Published /\ ExtAuthors(doc)' = ExtAuthors(doc)
      /\ \A k : ExtCheat(doc, k)' = ExtCheat(doc, k)
  BY DEF Stays
<1> HIDE DEF S
<1> QED  BY <1>4, <1>6, <1>7 DEF ExtPassed

\* the parser goes on with the entry, or passes it
LEMMA ExtGoesOn ==
  ASSUME CapacityAssumption, DocsAssumption, Place, pc \in Counting, ExtSo, Stays,
         doc' = doc, file'.cheat_count = file.cheat_count, file'.authors = file.authors,
         ~short' => ~short,
         \/ item' = item
         \/ /\ item' = item + 1
            /\ ~short' => item \notin ExtKept(doc) \/ file.cheat_count = MaxCheats
  PROVE  ExtLeft' /\ (~short' => ExtPassed') /\ InOrder' /\ ~doc'.empty
<1>1. pc \in ExtAt  BY DEF ExtAt, Counting, InEntry
<1>2. ExtLeft /\ (~short => ExtPassed) /\ InOrder /\ ~doc.empty  BY <1>1 DEF ExtSo
<1>3. ExtLeft'  BY <1>1, <1>2, ExtLeftStays
<1>4. ~short' => ExtPassed'  BY <1>1, <1>2, ExtPassedStays
<1> QED  BY <1>2, <1>3, <1>4 DEF Stays

\* an entry is published
LEMMA ExtLeftGrows ==
  ASSUME CapacityAssumption, DocsAssumption, Inv, pc \in InEntry, ExtSo, Publish, cheat # NoRef,
         item \in Opened(doc), ExtTexts, ExtPartly, doc' = doc, item' = item + 1
  PROVE  ExtLeft'
<1> DEFINE c == file.cheat_count
<1>1. pc \in ExtAt /\ pc \in Counting /\ Good /\ Place  BY DEF ExtAt, Counting, Inv
<1>2. PICK of \in [1..c -> Opened(doc)] :
        /\ \A j, k \in 1..c : j < k => of[j] < of[k]
        /\ \A k \in 1..c : of[k] < item /\ ExtFrom(Published[k], doc, of[k])
  BY <1>1 DEF ExtSo, ExtLeft
<1>3. /\ file'.cheat_count = c + 1
      /\ \A k \in 1..c : Published'[k] = Published[k]
      /\ Published'[c + 1] = Filled
  BY <1>1, PublishSays
<1>4. Opened(doc) \subseteq Nat /\ item \in Nat /\ c \in Nat
  BY <1>1, ExtTyped, OpenedIs DEF Good, Typed, Files
<1>5. Filled.text = ExtCheat(doc, item).text /\ Filled.author = ExtCheat(doc, item).author
  BY DEF Filled, ExtTexts, ExtCheat, Sealed
<1>6. ExtFrom(Filled, doc, item)
  <2> DEFINE m == Entry.patch_count
             ps == [i \in 1..m |-> Patch(i)]
  <2>1. Filled.patches = ps  BY DEF Filled
  <2>2. DOMAIN ps = 1..m /\ \A i \in 1..m : ps[i] = Patch(i)  OBVIOUS
  <2>3. \A i \in 1..m : ExtPatch(Patch(i), doc.items[item])  BY DEF ExtPartly, Sealed
  <2>4. \A i, j \in 1..m : i < j => Patch(i).of < Patch(j).of  BY DEF ExtPartly
  <2> HIDE DEF ps, m
  <2> QED  BY <1>5, <2>1, <2>2, <2>3, <2>4 DEF ExtFrom
<1>7. \A k \in 1..(c + 1) : k = c + 1 \/ (k \in 1..c /\ k # c + 1)  BY <1>4
<1>8. \A k \in 1..c : k # c + 1 /\ k \in 1..(c + 1)  BY <1>4
<1>9. PICK up \in [1..(c + 1) -> Opened(doc)] :
        up[c + 1] = item /\ \A k \in 1..c : up[k] = of[k]
  <2> DEFINE w == [k \in 1..(c + 1) |-> IF k = c + 1 THEN item ELSE of[k]]
  <2>1. w \in [1..(c + 1) -> Opened(doc)]  BY <1>7
  <2>2. w[c + 1] = item /\ \A k \in 1..c : w[k] = of[k]  BY <1>4, <1>8
  <2> QED  BY <2>1, <2>2
<1> HIDE DEF c
<1>10. \A j, k \in 1..(c + 1) : j < k => up[j] < up[k]
  <2> SUFFICES ASSUME NEW j \in 1..(c + 1), NEW k \in 1..(c + 1), j < k PROVE up[j] < up[k]
    OBVIOUS
  <2>1. j \in 1..c  BY <1>4
  <2> QED  BY <1>2, <1>7, <1>9, <2>1 DEF c
<1>11. \A k \in 1..(c + 1) : up[k] < item + 1 /\ ExtFrom(Published'[k], doc, up[k])
  <2> SUFFICES ASSUME NEW k \in 1..(c + 1)
               PROVE  up[k] < item + 1 /\ ExtFrom(Published'[k], doc, up[k])
    OBVIOUS
  <2>1. CASE k = c + 1
    <3>1. item < item + 1  BY <1>4
    <3> QED  BY <1>3, <1>6, <1>9, <2>1, <3>1 DEF c
  <2>2. CASE k \in 1..c
    <3>1. of[k] \in Nat /\ of[k] < item /\ ExtFrom(Published[k], doc, of[k])
      BY <1>2, <1>4, <2>2 DEF c
    <3>2. of[k] < item + 1  BY <1>4, <3>1
    <3> QED  BY <1>3, <1>9, <2>2, <3>1, <3>2 DEF c
  <2> QED  BY <1>7, <2>1, <2>2
<1>12. /\ Opened(doc)' = Opened(doc) /\ file'.cheat_count = c + 1
       /\ \A k \in 1..(c + 1) : ExtFrom(Published[k], doc, up[k])' = ExtFrom(Published'[k], doc, up[k])
  BY <1>3 DEF c
<1> QED  BY <1>9, <1>10, <1>11, <1>12 DEF ExtLeft

LEMMA ExtPassedGrows ==
  ASSUME CapacityAssumption, DocsAssumption, Inv, pc \in InEntry, ExtPassed, InOrder, Publish,
         cheat # NoRef, item \in ExtKept(doc), Filled = ExtCheat(doc, item), doc' = doc, item' = item + 1
  PROVE  ExtPassed'
<1> DEFINE c == file.cheat_count
           S == ExtKept(doc)
           us == ExtAuthors(doc)
           got == file.authors
<1>1. pc \in ExtAt /\ Good /\ Place  BY DEF ExtAt, Inv
<1>2. /\ file'.cheat_count = c + 1 /\ file'.authors = AddAuthor(got, Entry.author)
      /\ \A k \in 1..c : Published'[k] = Published[k]
      /\ Published'[c + 1] = Filled
  BY <1>1, PublishSays
<1>3. /\ doc \in Docs /\ doc.format = "shnext" /\ item \in Nat /\ c \in Nat
      /\ S \in SUBSET Nat /\ IsFiniteSet(S) /\ MaxCheats \in Nat /\ got \in Seq(Nat)
  BY <1>1, ExtTyped, KeptAre DEF Good, Typed, Files, CapacityAssumption
<1>4. c < MaxCheats
  <2>1. cheat.at = c + 1 /\ cheat.at \in 1..file.cheat_capacity  BY <1>1, EntryIs
  <2>2. file.cheat_capacity \in Nat /\ file.cheat_capacity <= MaxCheats
    BY <1>1 DEF Good, Typed, Files
  <2> QED  BY <1>3, <2>1, <2>2
<1>5. /\ Rank(S, item) \in Nat /\ Rank(S, item + 1) = Rank(S, item) + 1
  BY <1>3, RankIs
<1>6. c = Least(Rank(S, item), MaxCheats)  BY DEF ExtPassed
<1>7. Rank(S, item) = c /\ c + 1 = Least(Rank(S, item + 1), MaxCheats)
  BY <1>3, <1>4, <1>5, <1>6 DEF Least
<1>8. \A n \in 1..(c + 1) : \E k \in S :
        k < item + 1 /\ Rank(S, k) = n - 1 /\ Published'[n] = ExtCheat(doc, k)
  <2> SUFFICES ASSUME NEW n \in 1..(c + 1)
               PROVE  \E k \in S : k < item + 1 /\ Rank(S, k) = n - 1 /\ Published'[n] = ExtCheat(doc, k)
    OBVIOUS
  <2>1. CASE n \in 1..c
    <3>1. PICK k \in S : k < item /\ Rank(S, k) = n - 1 /\ Published[n] = ExtCheat(doc, k)
      BY <2>1 DEF ExtPassed
    <3>2. k < item + 1  BY <1>3, <3>1
    <3> QED  BY <1>2, <2>1, <3>1, <3>2
  <2>2. CASE n = c + 1
    <3>1. c = n - 1 /\ item < item + 1  BY <1>3, <2>2
    <3> QED  BY <1>2, <1>7, <2>2, <3>1
  <2> QED  BY <1>3, <2>1, <2>2
<1>9. NamesSo(us, c + 1 + 1, AddAuthor(got, Entry.author))
  <2>1. NamesSo(us, c + 1, got)  BY DEF ExtPassed
  <2>2. \E T : us \in Seq(T) /\ got \in Seq(T)  BY <1>3, ExtAuthorsAre
  <2>3. c + 1 \in 1..Len(us) /\ us[c + 1] = doc.items[item].author
    BY <1>3, <1>4, <1>7, ExtAuthorsAre
  <2>4. Entry.author = doc.items[item].author
    <3>1. Filled.author = Entry.author  BY DEF Filled
    <3>2. ExtCheat(doc, item).author = doc.items[item].author  BY DEF ExtCheat
    <3> QED  BY <3>1, <3>2
  <2> HIDE DEF us, got, c
  <2> QED  BY <2>1, <2>2, <2>3, <2>4, NamesPlus
<1>10. /\ ExtKept(doc)' = S /\ ExtAuthors(doc)' = us
       /\ \A k : ExtCheat(doc, k)' = ExtCheat(doc, k)
  OBVIOUS
<1>11. file'.cheat_count = c + 1 /\ file'.authors = AddAuthor(got, Entry.author)  BY <1>2
<1> HIDE DEF S, us, c
<1> QED  BY <1>7, <1>8, <1>9, <1>10, <1>11 DEF ExtPassed

\* an entry whose variables have been read says what the document says, without a fault
LEMMA ExtFilledIs ==
  ASSUME CapacityAssumption, DocsAssumption, Inv, pc = "ext_close", ExtFilled, ExtTexts,
         Sealed.vars # Missing, item \in Opened(doc)
  PROVE  /\ Entry.patch_count > 0 <=> item \in ExtKept(doc)
         /\ Filled = ExtCheat(doc, item)
<1> DEFINE S == Numbered(Sealed)
           p == Entry.patch_count
           v(j) == Variable(Sealed.vars[j], j, TRUE, TRUE)
<1>1. /\ doc \in Docs /\ doc.format = "shnext" /\ line \in Nat /\ Sealed = doc.items[item]
      /\ MaxPatches \in Nat \ {0}
  BY ExtTyped DEF ExtAt, InEntry, Sealed, CapacityAssumption, Inv
<1>2. S \in SUBSET Nat /\ IsFiniteSet(S) /\ Cardinality(S) \in Nat
  BY <1>1, NumberedAre
<1>3. Rank(S, line) \in Nat /\ Rank(S, line) <= Cardinality(S)  BY <1>1, <1>2, RankIs
<1>4. p = Least(Cardinality(S), MaxPatches)
  <2>1. p = Least(Rank(S, line), MaxPatches)  BY DEF ExtFilled
  <2>2. CASE p = MaxPatches  BY <1>1, <1>2, <1>3, <2>1, <2>2 DEF Least
  <2>3. CASE \A j \in S : j < line
    <3>1. Rank(S, line) = Cardinality(S)  BY <1>1, <1>2, <2>3, RankEnds
    <3> QED  BY <2>1, <3>1
  <2> QED  BY <2>2, <2>3 DEF ExtFilled
<1>5. \A n \in 1..p : Patch(n) = v(Ordered(S)[n])
  <2> SUFFICES ASSUME NEW n \in 1..p PROVE Patch(n) = v(Ordered(S)[n])  OBVIOUS
  <2>1. PICK j \in S : Rank(S, j) = n - 1 /\ Patch(n) = v(j)  BY DEF ExtFilled
  <2>2. n \in Nat  BY <1>1, <1>2, <1>4 DEF Least
  <2>3. Rank(S, j) + 1 = n  BY <2>1, <2>2
  <2>4. Ordered(S)[Rank(S, j) + 1] = j  BY <1>2, OrderedIs
  <2> QED  BY <2>1, <2>3, <2>4
<1>6. ExtCheat(doc, item) =
        [text |-> IF Sealed.name THEN item ELSE None, author |-> Sealed.author,
         patches |-> [n \in 1..p |-> v(Ordered(S)[n])]]
  BY <1>1, <1>4, ExtCheatIs
<1>7. Filled = [text |-> IF Sealed.name THEN item ELSE None, author |-> Sealed.author,
                patches |-> [n \in 1..p |-> Patch(n)]]
  BY DEF Filled, ExtTexts
<1>8. Filled = ExtCheat(doc, item)
  <2> HIDE DEF v, p, S
  <2> QED  BY <1>5, <1>6, <1>7
<1>9. p > 0 <=> S # {}
  <2>1. Cardinality(S) = 0 <=> S = {}  BY <1>2, FS_EmptySet
  <2>2. MaxPatches \in Nat /\ MaxPatches # 0  BY DEF CapacityAssumption
  <2> DEFINE m == Cardinality(S)
  <2>3. m \in Nat /\ p = Least(m, MaxPatches) /\ (m = 0 <=> S = {})  BY <1>2, <1>4, <2>1
  <2> HIDE DEF S, p, m
  <2> QED  BY <2>2, <2>3 DEF Least
<1>10. item \in ExtKept(doc) <=> S # {}  BY <1>1 DEF ExtKept
<1> QED  BY <1>8, <1>9, <1>10

\* an entry with a name and no list of variables
LEMMA ExtNamedIs ==
  ASSUME CapacityAssumption, DocsAssumption, Inv, pc = "ext_vars", ExtTexts,
         Sealed.vars = Missing, item \in Opened(doc)
  PROVE  /\ Sealed.name <=> item \in ExtKept(doc)
         /\ Filled = ExtCheat(doc, item)
<1> DEFINE S == Numbered(Sealed)
           p == Entry.patch_count
           v(n) == Variable(Sealed.vars[Ordered(S)[n]], Ordered(S)[n], TRUE, TRUE)
<1>1. /\ doc \in Docs /\ doc.format = "shnext" /\ Sealed = doc.items[item]
      /\ MaxPatches \in Nat \ {0}
  BY ExtTyped DEF ExtAt, InEntry, Sealed, CapacityAssumption, Inv
<1>2. S = {}  BY DEF Numbered
<1>3. p = 0
  <2>1. Entry.patches = None /\ cheat # NoRef /\ Good  BY DEF Inv, Slot, Holding
  <2> QED  BY <2>1, EntryIs DEF Holds, Entries
<1>4. p = Least(Cardinality(S), MaxPatches)
  <2>1. Cardinality(S) = 0  BY <1>2, FS_EmptySet
  <2> HIDE DEF S
  <2> QED  BY <1>1, <1>3, <2>1 DEF Least
<1>5. ExtCheat(doc, item) =
        [text |-> IF Sealed.name THEN item ELSE None, author |-> Sealed.author,
         patches |-> [n \in 1..p |-> v(n)]]
  BY <1>1, <1>4, ExtCheatIs
<1>6. Filled = [text |-> IF Sealed.name THEN item ELSE None, author |-> Sealed.author,
                patches |-> [n \in 1..p |-> Patch(n)]]
  BY DEF Filled, ExtTexts
<1>7. Filled = ExtCheat(doc, item)
  <2>1. \A n \in 1..p : FALSE  BY <1>3
  <2> HIDE DEF v, p
  <2>2. [n \in 1..p |-> v(n)] = [n \in 1..p |-> Patch(n)]  BY <2>1
  <2> QED  BY <1>5, <1>6, <2>2
<1>8. Sealed.name <=> item \in ExtKept(doc)  BY <1>1, <1>2 DEF ExtKept
<1> QED  BY <1>7, <1>8

\* before the loop over the entries
LEMMA ExtBeginSays ==
  ASSUME CapacityAssumption, DocsAssumption, Inv, Inv', ExtSo,
         ExtInflate \/ ExtParseRoot \/ ExtUnreadable \/ ExtHeader
  PROVE  ExtSo' /\ (pc' = "return" => Given')
<1>0. pc \in ExtAt
  BY DEF ExtInflate, ExtParseRoot, ExtUnreadable, ExtHeader, At, ExtAt
<1>1. /\ doc \in Docs /\ doc.format = "shnext" /\ ~doc.empty /\ InOrder /\ Good
  BY <1>0, ExtTyped DEF Inv, ExtSo
<1>2. CASE ExtInflate \/ ExtParseRoot
  <2>1. /\ pc \in {"ext", "ext_json"} /\ pc' \in {"ext_json", "ext_header"}
        /\ UNCHANGED <<fileVars, doc, item, line>>
    BY <1>2 DEF ExtInflate, ExtParseRoot, At, rest
  <2>2. Stays /\ file' = file  BY <1>1, <2>1, FileStays
  <2> QED
    BY <1>1, <2>1, <2>2 DEF ExtSo, ExtAt, Counting, InEntry, ExtReading, Stays
<1>3. CASE ExtUnreadable
  <2>1. /\ pc \in {"ext", "ext_json"} /\ pc' = "return" /\ result' = FALSE
        /\ UNCHANGED <<fileVars, doc>> /\ (short' \/ ~doc.packed \/ ~doc.parses)
    BY <1>3 DEF ExtUnreadable, Give, NoteShort, rest
  <2>2. file' = NoFile  BY <2>1 DEF ExtSo, fileVars
  <2>3. Accepts(doc) => doc.packed /\ doc.parses
    BY <1>1 DEF Accepts, ExtAccepts, ExtKept, Opened
  <2> QED
    BY <2>1, <2>2, <2>3, RefusalIsGiven DEF ExtSo, ExtAt, Counting, InEntry, ExtReading
<1>4. CASE ExtHeader
  <2>1. /\ pc = "ext_header" /\ pc' = "ext_entry" /\ UNCHANGED <<doc, item, line>>
        /\ file = NoFile /\ item = 1 /\ line = 1
        /\ \E named : file' = [file EXCEPT !.named = named]
    BY <1>4 DEF ExtHeader, At, ExtSo, ExtAt, ExtReading
  <2>2. file'.cheat_count = 0 /\ file'.authors = <<>>  BY <2>1 DEF NoFile
  <2>3. \A k \in 1..0 : FALSE  OBVIOUS
  <2>4. InOrder'  BY <2>2, <2>3 DEF InOrder
  <2>5. ExtLeft'
    <3>1. [k \in 1..0 |-> 0] \in [1..0 -> Opened(doc)']  BY <2>3
    <3> QED  BY <2>2, <2>3, <3>1 DEF ExtLeft
  <2>6. ExtPassed'
    <3> DEFINE S == ExtKept(doc)
               us == ExtAuthors(doc)
    <3>1. S \in SUBSET Nat /\ \A k \in S : k \in 1..Len(doc.items)  BY <1>1, KeptAre
    <3>2. \A k \in S : 1 <= k  BY <3>1
    <3>3. Rank(S, 1) = 0  BY <3>1, <3>2, RankOfFirst
    <3>4. 0 = Least(0, MaxCheats)  BY DEF Least, CapacityAssumption
    <3>5. PICK T : us \in Seq(T)
      <4>1. file.authors \in Seq(Nat)  BY <1>1 DEF Good, Typed, Files
      <4> QED  BY <1>1, <4>1, ExtAuthorsAre
    <3> HIDE DEF us
    <3>6. NamesSo(us, 1, <<>>)  BY <3>5, NamesNone
    <3>7. ExtKept(doc)' = S /\ ExtAuthors(doc)' = us  BY <2>1 DEF us
    <3>8. Rank(ExtKept(doc), item)' = 0  BY <2>1, <3>3
    <3>9. NamesSo(ExtAuthors(doc), file.cheat_count + 1, file.authors)'
      BY <2>2, <3>6, <3>7
    <3> QED  BY <2>2, <2>3, <3>4, <3>8, <3>9 DEF ExtPassed
  <2> QED
    BY <1>1, <2>1, <2>4, <2>5, <2>6 DEF ExtSo, ExtAt, Counting, InEntry, ExtReading
<1> QED  BY <1>2, <1>3, <1>4

\* the entry is passed over, or opened, or a slot is found for it
LEMMA ExtOpenSays ==
  ASSUME CapacityAssumption, DocsAssumption, Inv, Inv', ExtSo,
         ExtNotText \/ ExtOpen \/ ExtBroken \/ ExtSlot \/ ExtNoSlot
  PROVE  ExtSo' /\ pc' # "return"
<1>1. /\ pc \in Counting \ ExtReading /\ pc' \in Counting \ ExtReading /\ pc \in ExtAt
      /\ doc' = doc /\ (~short' => ~short) /\ (item' \in {item, item + 1}) /\ (line' = line \/ line' = 1)
  <2> USE DEF At, Counting, InEntry, ExtReading, ExtAt
  <2>1. CASE ExtNotText  BY <2>1 DEF ExtNotText, Skip
  <2>2. CASE ExtOpen  BY <2>2 DEF ExtOpen, Open, rest
  <2>3. CASE ExtBroken  BY <2>3 DEF ExtBroken, Break, Skip, NoteShort
  <2>4. CASE ExtSlot  BY <2>4 DEF ExtSlot, parser
  <2>5. CASE ExtNoSlot  BY <2>5 DEF ExtNoSlot, Skip, NoteShort
  <2> QED  BY <2>1, <2>2, <2>3, <2>4, <2>5
<1>2. /\ doc \in Docs /\ doc.format = "shnext" /\ Good /\ Place /\ line = 1
      /\ file.cheat_count \in Nat /\ file.cheat_capacity \in Nat /\ MaxCheats \in Nat
      /\ file.cheat_count <= file.cheat_capacity /\ file.cheat_capacity <= MaxCheats
  BY <1>1, ExtTyped DEF Inv, ExtSo, Good, Typed, Files, CapacityAssumption
<1>3. ExtKept(doc) \in SUBSET Opened(doc)  BY <1>2, KeptAre
<1>4. /\ Stays /\ file'.cheat_count = file.cheat_count /\ file'.authors = file.authors
  <2>1. CASE ExtSlot
    <3>1. cheat = NoRef /\ EnsureCheat  BY <2>1 DEF ExtSlot, At, Inv, Slot, Holding
    <3> QED  BY <1>2, <3>1, EnsureCheatStays
  <2>2. CASE ExtNotText \/ ExtOpen \/ ExtBroken \/ ExtNoSlot
    <3>1. UNCHANGED fileVars
      BY <2>2 DEF ExtNotText, ExtOpen, Open, ExtBroken, Break, ExtNoSlot, rest
    <3> QED  BY <1>2, <3>1, FileStays
  <2> QED  BY <2>1, <2>2
<1>5. \/ item' = item
      \/ item' = item + 1 /\ (~short' => item \notin ExtKept(doc) \/ file.cheat_count = MaxCheats)
  <2>1. CASE ExtOpen \/ ExtSlot  BY <2>1 DEF ExtOpen, Open, ExtSlot, parser
  <2>2. CASE ExtNotText
    <3>1. item' = item + 1 /\ ~doc.items[item].string  BY <2>2 DEF ExtNotText, Skip, Sealed
    <3> QED  BY <1>3, <3>1 DEF Opened
  <2>3. CASE ExtBroken
    <3>1. item' = item + 1 /\ (~short' => doc.items[item].broken \in {"cipher", "deflate", "json"})
      BY <2>3 DEF ExtBroken, Break, Skip, NoteShort, Sealed
    <3>2. ~short' => item \notin Opened(doc)  BY <3>1 DEF Opened
    <3> QED  BY <1>3, <3>1, <3>2
  <2>4. CASE ExtNoSlot
    <3>1. item' = item + 1 /\ (~short' => ~MayGrow) /\ ~SlotFree
      BY <2>4 DEF ExtNoSlot, Skip, NoteShort, CheatRefused
    <3>2. ~short' => file.cheat_count = MaxCheats  BY <1>2, <3>1 DEF MayGrow, SlotFree
    <3> QED  BY <3>1, <3>2
  <2> QED  BY <2>1, <2>2, <2>3, <2>4
<1>6. ExtLeft' /\ (~short' => ExtPassed') /\ InOrder' /\ ~doc'.empty
  BY <1>1, <1>2, <1>4, <1>5, ExtGoesOn
<1>7. pc \notin {"return", "ext", "ext_json", "ext_header"} /\ pc' \notin {"return", "ext", "ext_json", "ext_header"}
  BY <1>1 DEF Counting, InEntry
<1> QED
  BY <1>1, <1>2, <1>6, <1>7 DEF ExtSo, ExtReading

\* while an entry is read into a slot
LEMMA ExtReads ==
  ASSUME DocsAssumption, Inv, Counted, ExtSo, pc \in ExtReading
  PROVE  /\ doc \in Docs /\ doc.format = "shnext" /\ item \in Opened(doc) /\ line \in Nat \ {0}
         /\ Sealed = doc.items[item] /\ ExtTexts /\ ExtPartly /\ (~short => ExtFilled)
         /\ ExtLeft /\ (~short => ExtPassed) /\ InOrder /\ ~doc.empty
         /\ cheat # NoRef /\ Good /\ Entry \in Entries /\ Holds(Entry, patchBlocks)
         /\ Place /\ pc \in Counting /\ pc \in InEntry /\ pc \in ExtAt /\ pc # "return"
<1>1. pc \in ExtAt /\ pc \in InSlot /\ pc \in Counting /\ pc \in InEntry /\ pc \in Holding /\ pc # "return"
  BY DEF ExtReading, ExtAt, InSlot, Counting, InEntry, Holding
<1>2. Good /\ Place /\ cheat # NoRef  BY <1>1 DEF Inv, Slot
<1>3. Entry \in Entries /\ Holds(Entry, patchBlocks)  BY <1>2, EntryIs
<1>4. item \in Opened(doc)  BY <1>1, SlotIsOpened
<1> QED  BY <1>1, <1>2, <1>3, <1>4, ExtTyped DEF ExtSo, Sealed

LEMMA ExtFieldsSays ==
  ASSUME CapacityAssumption, DocsAssumption, Inv, Inv', Counted, ExtSo, ExtFields
  PROVE  ExtSo' /\ pc' # "return"
<1> DEFINE e == [NoCheat EXCEPT !.text = IF Sealed.name THEN item ELSE None, !.author = Sealed.author]
<1>1. /\ pc = "ext_fields" /\ pc' = "ext_vars" /\ UNCHANGED <<doc, item, line, short, cheat>>
      /\ SetEntry(e) /\ patchBlocks' = Without(patchBlocks, {Entry.patches})
  BY DEF ExtFields, ClearPending, At, parser
<1>2. /\ pc \in ExtAt /\ pc \in InSlot /\ pc \in Counting /\ pc \in Holding /\ pc \in ExtAt \ ExtReading
  BY <1>1 DEF ExtReading, ExtAt, InSlot, Counting, InEntry, Holding
<1>3. /\ doc \in Docs /\ doc.format = "shnext" /\ item \in Nat \ {0} /\ line = 1
      /\ Good /\ Place /\ cheat # NoRef /\ item \in Opened(doc) /\ Sealed = doc.items[item]
  BY <1>2, ExtTyped, SlotIsOpened DEF Inv, Slot, ExtSo, Sealed
<1>4. Sealed.author \in Nat
  BY <1>3 DEF Opened, DocsAssumption, ExtDoc
<1>5. /\ e \in Entries /\ e.text = (IF Sealed.name THEN item ELSE None) /\ e.author = Sealed.author
      /\ e.patch_count = 0
  BY <1>3, <1>4 DEF NoCheat, None, Entries
<1> HIDE DEF e
<1>6. Stays /\ file' = file /\ Entry' = e  BY <1>1, <1>3, <1>5, SetEntryStays
<1>7. ExtLeft' /\ (~short' => ExtPassed') /\ InOrder' /\ ~doc'.empty
  BY <1>1, <1>2, <1>3, <1>6, ExtGoesOn
<1>8. Sealed' = Sealed  BY <1>1 DEF Sealed
<1>9. \A n \in 1..0 : FALSE  OBVIOUS
<1>10. ExtTexts' /\ ExtPartly'  BY <1>1, <1>5, <1>6, <1>8, <1>9 DEF ExtTexts, ExtPartly
<1>11. ExtFilled'
  <2> DEFINE S == Numbered(Sealed)
  <2>1. S \in SUBSET Nat /\ \A j \in S : j \in Nat \ {0}  BY <1>3, NumberedAre
  <2>2. \A j \in S : 1 <= j  BY <2>1
  <2>3. Rank(S, 1) = 0  BY <2>1, <2>2, RankOfFirst
  <2>4. 0 = Least(0, MaxPatches)  BY DEF Least, CapacityAssumption
  <2>5. Entry'.patch_count = 0 /\ Numbered(Sealed') = S /\ line' = 1 /\ pc' # "ext_close"
    BY <1>1, <1>3, <1>5, <1>6, <1>8
  <2> HIDE DEF S
  <2> QED  BY <1>9, <2>3, <2>4, <2>5 DEF ExtFilled
<1> QED
  BY <1>1, <1>7, <1>10, <1>11 DEF ExtSo, ExtAt, Counting, InEntry, ExtReading

LEMMA ExtRoomSays ==
  ASSUME CapacityAssumption, DocsAssumption, Inv, Inv', Counted, ExtSo, ExtRoom
  PROVE  ExtSo' /\ pc' # "return"
<1>1. /\ pc = "ext_vars" /\ pc' = "ext_value" /\ UNCHANGED <<doc, item, line, short>>
      /\ Sealed.vars # Missing /\ line <= Len(Sealed.vars) /\ EnsurePatch /\ pc \in ExtReading
  BY DEF ExtRoom, At, parser, ExtReading
<1>2. /\ ExtTexts /\ ExtPartly /\ (~short => ExtFilled) /\ cheat # NoRef /\ Good
      /\ Place /\ pc \in Counting
  BY <1>1, ExtReads
<1>3. /\ Stays /\ file' = file /\ Entry'.text = Entry.text /\ Entry'.author = Entry.author
      /\ Entry'.patch_count = Entry.patch_count
      /\ \A i \in 1..Entry.patch_count : Patch(i)' = Patch(i)
  BY <1>1, <1>2, EnsurePatchStays
<1>4. ExtLeft' /\ (~short' => ExtPassed') /\ InOrder' /\ ~doc'.empty
  BY <1>1, <1>2, <1>3, ExtGoesOn
<1>5. Sealed' = Sealed  BY <1>1 DEF Sealed
<1>6. ExtTexts'  BY <1>1, <1>2, <1>3, <1>5 DEF ExtTexts
<1>7. ExtPartly'  BY <1>1, <1>2, <1>3, <1>5 DEF ExtPartly
<1>8. ~short' => ExtFilled'  BY <1>1, <1>2, <1>3, <1>5 DEF ExtFilled
<1> QED
  BY <1>1, <1>4, <1>5, <1>6, <1>7, <1>8 DEF ExtSo, ExtAt, Counting, InEntry, ExtReading

LEMMA ExtNoRoomSays ==
  ASSUME CapacityAssumption, DocsAssumption, Inv, Inv', Counted, ExtSo, ExtNoRoom
  PROVE  ExtSo' /\ pc' # "return"
<1>1. /\ pc = "ext_vars" /\ pc' = "ext_close" /\ UNCHANGED <<fileVars, doc, item, line>>
      /\ Sealed.vars # Missing /\ PatchRefused /\ (~short' => ~short /\ ~MayGrowPatches)
      /\ pc \in ExtReading
  BY DEF ExtNoRoom, At, rest, ExtReading, NoteShort
<1>2. /\ ExtTexts /\ ExtPartly /\ (~short => ExtFilled) /\ cheat # NoRef /\ Good
      /\ Place /\ pc \in Counting /\ Entry \in Entries /\ Holds(Entry, patchBlocks)
  BY <1>1, ExtReads
<1>3. Stays /\ file' = file /\ Entry' = Entry /\ \A i : Patch(i)' = Patch(i)
  BY <1>1, <1>2, FileStays
<1>4. ExtLeft' /\ (~short' => ExtPassed') /\ InOrder' /\ ~doc'.empty
  BY <1>1, <1>2, <1>3, ExtGoesOn
<1>5. Sealed' = Sealed  BY <1>1 DEF Sealed
<1>6. ExtTexts'  BY <1>1, <1>2, <1>3, <1>5 DEF ExtTexts
<1>7. ExtPartly'  BY <1>1, <1>2, <1>3, <1>5 DEF ExtPartly
<1>8. ASSUME ~short' PROVE ExtFilled'
  <2>1. ~PatchFree /\ ~MayGrowPatches  BY <1>1, <1>8 DEF PatchRefused
  <2>2. Entry.patch_count = MaxPatches
    BY <1>2, <2>1 DEF PatchFree, MayGrowPatches, Entries, Holds, CapacityAssumption
  <2> QED  BY <1>1, <1>2, <1>3, <1>5, <1>8, <2>2 DEF ExtFilled
<1> QED
  BY <1>1, <1>4, <1>5, <1>6, <1>7, <1>8 DEF ExtSo, ExtAt, Counting, InEntry, ExtReading

LEMMA ExtLastSays ==
  ASSUME CapacityAssumption, DocsAssumption, Inv, Inv', Counted, ExtSo, ExtLast
  PROVE  ExtSo' /\ pc' # "return"
<1>1. /\ pc = "ext_vars" /\ pc' = "ext_close" /\ UNCHANGED <<fileVars, doc, item, line, short>>
      /\ Sealed.vars # Missing /\ line > Len(Sealed.vars) /\ pc \in ExtReading
  BY DEF ExtLast, Goes, At, ExtReading
<1>2. /\ ExtTexts /\ ExtPartly /\ (~short => ExtFilled) /\ cheat # NoRef /\ Good
      /\ Place /\ pc \in Counting /\ doc \in Docs /\ doc.format = "shnext"
      /\ item \in Opened(doc) /\ Sealed = doc.items[item] /\ line \in Nat
  BY <1>1, ExtReads
<1>3. Stays /\ file' = file /\ Entry' = Entry /\ \A i : Patch(i)' = Patch(i)
  BY <1>1, <1>2, FileStays
<1>4. ExtLeft' /\ (~short' => ExtPassed') /\ InOrder' /\ ~doc'.empty
  BY <1>1, <1>2, <1>3, ExtGoesOn
<1>5. Sealed' = Sealed  BY <1>1 DEF Sealed
<1>6. ExtTexts'  BY <1>1, <1>2, <1>3, <1>5 DEF ExtTexts
<1>7. ExtPartly'  BY <1>1, <1>2, <1>3, <1>5 DEF ExtPartly
<1>8. ASSUME ~short' PROVE ExtFilled'
  <2>1. \A j \in Numbered(Sealed) : j < line
    <3>1. Len(Sealed.vars) \in Nat /\ \A j \in Numbered(Sealed) : j \in 1..Len(Sealed.vars)
      BY <1>1, <1>2, NumberedAre
    <3> QED  BY <1>1, <1>2, <3>1
  <2>2. ExtFilled  BY <1>1, <1>2, <1>8
  <2> QED  BY <1>1, <1>3, <1>5, <2>1, <2>2 DEF ExtFilled
<1> QED
  BY <1>1, <1>4, <1>5, <1>6, <1>7, <1>8 DEF ExtSo, ExtAt, Counting, InEntry, ExtReading

LEMMA ExtNotVariableSays ==
  ASSUME CapacityAssumption, DocsAssumption, Inv, Inv', Counted, ExtSo, ExtNotVariable
  PROVE  ExtSo' /\ pc' # "return"
<1> DEFINE S == Numbered(Sealed)
<1>1. /\ pc = "ext_value" /\ pc' = "ext_vars" /\ UNCHANGED <<fileVars, doc, item, short>>
      /\ line' = line + 1 /\ Sealed.vars # Missing /\ ~Sealed.vars[line].number /\ pc \in ExtReading
  BY DEF ExtNotVariable, At, ExtReading, ExtSo
<1>2. /\ ExtTexts /\ ExtPartly /\ (~short => ExtFilled) /\ cheat # NoRef /\ Good
      /\ Place /\ pc \in Counting /\ doc \in Docs /\ doc.format = "shnext"
      /\ item \in Opened(doc) /\ Sealed = doc.items[item] /\ line \in Nat \ {0}
  BY <1>1, ExtReads
<1>3. Stays /\ file' = file /\ Entry' = Entry /\ \A i : Patch(i)' = Patch(i)
  BY <1>1, <1>2, FileStays
<1>4. ExtLeft' /\ (~short' => ExtPassed') /\ InOrder' /\ ~doc'.empty
  BY <1>1, <1>2, <1>3, ExtGoesOn
<1>5. Sealed' = Sealed  BY <1>1 DEF Sealed
<1>6. ExtTexts'  BY <1>1, <1>2, <1>3, <1>5 DEF ExtTexts
<1>7. ExtPartly'
  <2>1. 1..(line - 1) \subseteq 1..(line' - 1)  BY <1>1, <1>2
  <2> QED  BY <1>1, <1>2, <1>3, <1>5, <2>1 DEF ExtPartly
<1>8. ASSUME ~short' PROVE ExtFilled'
  <2>1. S \in SUBSET Nat /\ IsFiniteSet(S) /\ line \notin S
    BY <1>1, <1>2, NumberedAre
  <2>2. Rank(S, line') = Rank(S, line) /\ \A j \in S : j < line => j < line'
    BY <1>1, <1>2, <2>1, RankIs
  <2>3. ExtFilled /\ S' = S /\ pc' # "ext_close"  BY <1>1, <1>2, <1>5, <1>8
  <2> HIDE DEF S
  <2>4. /\ Entry'.patch_count = Least(Rank(S, line'), MaxPatches)
        /\ \A n \in 1..Entry'.patch_count : \E j \in S :
             /\ j < line' /\ Rank(S, j) = n - 1
             /\ Patch(n)' = Variable(Sealed.vars[j], j, TRUE, TRUE)
    BY <1>3, <2>2, <2>3 DEF ExtFilled, S
  <2> QED  BY <1>5, <2>3, <2>4 DEF ExtFilled, S
<1> QED
  BY <1>1, <1>4, <1>5, <1>6, <1>7, <1>8 DEF ExtSo, ExtAt, Counting, InEntry, ExtReading

LEMMA ExtVariableSays ==
  ASSUME CapacityAssumption, DocsAssumption, Inv, Inv', Counted, ExtSo, ExtVariable
  PROVE  ExtSo' /\ pc' # "return"
<1> DEFINE S == Numbered(Sealed)
           c == Entry.patch_count
<1>1. /\ pc = "ext_value" /\ pc' = "ext_vars" /\ UNCHANGED <<doc, item>>
      /\ line' = line + 1 /\ Sealed.vars # Missing /\ Sealed.vars[line].number
      /\ line <= Len(Sealed.vars) /\ pc \in ExtReading /\ pc \in Valued
  BY DEF ExtVariable, At, ExtReading, ExtSo, Valued
<1>2. PICK on \in Allocs, off \in Allocs :
        AddPatch(Variable(Sealed.vars[line], line, on, off)) /\ NoteShort(~on \/ ~off)
  BY DEF ExtVariable
<1>3. PICK p : p = Variable(Sealed.vars[line], line, on, off)  OBVIOUS
<1>4. /\ ExtTexts /\ ExtPartly /\ (~short => ExtFilled) /\ cheat # NoRef /\ Good
      /\ Place /\ pc \in Counting /\ doc \in Docs /\ doc.format = "shnext"
      /\ item \in Opened(doc) /\ Sealed = doc.items[item] /\ line \in Nat \ {0}
      /\ Entry \in Entries /\ Holds(Entry, patchBlocks)
  BY <1>1, ExtReads
<1>5. c < Entry.patch_capacity  BY <1>1 DEF Inv, Slot
<1>6. /\ Stays /\ file' = file /\ Entry'.text = Entry.text /\ Entry'.author = Entry.author
      /\ Entry'.patch_count = c + 1
      /\ \A i \in 1..c : Patch(i)' = Patch(i)
      /\ \A i : i = c + 1 => Patch(i)' = p
  BY <1>2, <1>3, <1>4, <1>5, AddPatchStays
<1>7. ~short' => ~short /\ on = TRUE /\ off = TRUE  BY <1>2 DEF NoteShort, Allocs
<1>8. ExtLeft' /\ (~short' => ExtPassed') /\ InOrder' /\ ~doc'.empty
  BY <1>1, <1>4, <1>6, <1>7, ExtGoesOn
<1>9. Sealed' = Sealed  BY <1>1 DEF Sealed
<1>10. ExtTexts'  BY <1>1, <1>4, <1>6, <1>9 DEF ExtTexts
<1>11. line \in S  BY <1>1, <1>4, NumberedAre
<1>12. /\ c \in Nat /\ \A i \in 1..(c + 1) : i \in 1..c \/ i = c + 1
       /\ \A i, j \in 1..(c + 1) : i < j => i \in 1..c
  BY <1>4 DEF Entries
<1>13. ExtPartly'
  <2>1. ExtPatch(p, Sealed) /\ p.of = line
    BY <1>3, <1>11 DEF ExtPatch, Variable
  <2>2. /\ 1..(line - 1) \subseteq 1..line /\ line \in 1..line /\ line' - 1 = line
        /\ \A i \in 1..(line - 1) : i < line
    BY <1>1, <1>4
  <2>3. /\ \A n \in 1..c : ExtPatch(Patch(n), Sealed) /\ Patch(n).of \in 1..(line - 1)
        /\ \A m, n \in 1..c : m < n => Patch(m).of < Patch(n).of
    BY <1>4 DEF ExtPartly
  <2> HIDE DEF c
  <2>4. \A n \in 1..(c + 1) : ExtPatch(Patch(n)', Sealed) /\ Patch(n)'.of \in 1..(line' - 1)
    <3> SUFFICES ASSUME NEW n \in 1..(c + 1)
                 PROVE  ExtPatch(Patch(n)', Sealed) /\ Patch(n)'.of \in 1..line
      BY <2>2
    <3>1. CASE n \in 1..c  BY <1>6, <2>2, <2>3, <3>1
    <3>2. CASE n = c + 1  BY <1>6, <2>1, <2>2, <3>2
    <3> QED  BY <1>12, <3>1, <3>2
  <2>5. \A m, n \in 1..(c + 1) : m < n => Patch(m)'.of < Patch(n)'.of
    <3> SUFFICES ASSUME NEW m \in 1..(c + 1), NEW n \in 1..(c + 1), m < n
                 PROVE  Patch(m)'.of < Patch(n)'.of
      OBVIOUS
    <3>0. m \in 1..c  BY <1>12
    <3>1. CASE n \in 1..c  BY <1>6, <2>3, <3>0, <3>1
    <3>2. CASE n = c + 1
      <4>1. Patch(m)' = Patch(m) /\ Patch(n)' = p  BY <1>6, <3>0, <3>2
      <4>2. Patch(m).of < line  BY <2>2, <2>3, <3>0
      <4> QED  BY <2>1, <4>1, <4>2
    <3> QED  BY <1>12, <3>1, <3>2
  <2>6. \A a : ExtPatch(a, Sealed)' = ExtPatch(a, Sealed)  BY <1>9
  <2>7. Entry'.patch_count = c + 1  BY <1>6
  <2> QED  BY <1>9, <2>4, <2>5, <2>6, <2>7 DEF ExtPartly
<1>14. ASSUME ~short' PROVE ExtFilled'
  <2>1. S \in SUBSET Nat /\ IsFiniteSet(S) /\ MaxPatches \in Nat
    BY <1>4, NumberedAre DEF CapacityAssumption
  <2>2. /\ Rank(S, line') = Rank(S, line) + 1 /\ Rank(S, line) \in Nat
        /\ \A j \in S : j < line => j < line'
        /\ line < line'
    <3>1. line \in Nat /\ line' = line + 1  BY <1>1, <1>4
    <3>2. Rank(S, line + 1) = Rank(S, line) + 1 /\ Rank(S, line) \in Nat
      BY <1>11, <2>1, <3>1, RankIs
    <3> HIDE DEF S
    <3> QED  BY <2>1, <3>1, <3>2
  <2>3. ExtFilled /\ S' = S /\ pc' # "ext_close"  BY <1>1, <1>4, <1>7, <1>9, <1>14
  <2>4. p = Variable(Sealed.vars[line], line, TRUE, TRUE)  BY <1>3, <1>7, <1>14
  <2>5. c = Least(Rank(S, line), MaxPatches)  BY <2>3 DEF ExtFilled
  <2>6. c < MaxPatches  BY <1>4, <1>5, <2>1 DEF Entries, Holds
  <2>7. /\ \A n \in 1..c : \E j \in S :
             /\ j < line /\ Rank(S, j) = n - 1
             /\ Patch(n) = Variable(Sealed.vars[j], j, TRUE, TRUE)
    BY <2>3 DEF ExtFilled
  <2> HIDE DEF S, c
  <2>8. Rank(S, line) = c /\ c + 1 = Least(Rank(S, line'), MaxPatches)
    BY <1>12, <2>1, <2>2, <2>5, <2>6 DEF Least
  <2>9. \A n \in 1..(c + 1) : \E j \in S :
          /\ j < line' /\ Rank(S, j) = n - 1
          /\ Patch(n)' = Variable(Sealed.vars[j], j, TRUE, TRUE)
    <3> SUFFICES ASSUME NEW n \in 1..(c + 1)
                 PROVE  \E j \in S : /\ j < line' /\ Rank(S, j) = n - 1
                                     /\ Patch(n)' = Variable(Sealed.vars[j], j, TRUE, TRUE)
      OBVIOUS
    <3>1. CASE n \in 1..c  BY <1>6, <2>2, <2>7, <3>1
    <3>2. CASE n = c + 1
      <4>1. n - 1 = c  BY <1>12, <3>2
      <4> QED  BY <1>6, <1>11, <2>2, <2>4, <2>8, <3>2, <4>1
    <3> QED  BY <1>12, <3>1, <3>2
  <2>10. Entry'.patch_count = c + 1  BY <1>6
  <2>11. Numbered(Sealed') = S  BY <1>9 DEF S
  <2> QED  BY <1>9, <2>3, <2>8, <2>9, <2>10, <2>11 DEF ExtFilled
<1> QED
  BY <1>1, <1>8, <1>10, <1>13, <1>14 DEF ExtSo, ExtAt, Counting, InEntry, ExtReading

\* the entry becomes a cheat of the file, or is given up
LEMMA ExtPublishSays ==
  ASSUME CapacityAssumption, DocsAssumption, Inv, Counted, ExtSo, pc \in {"ext_vars", "ext_close"},
         Publish, pc' = "ext_entry", item' = item + 1, line' = 1, UNCHANGED <<doc, short>>,
         ~short => item \in ExtKept(doc) /\ Filled = ExtCheat(doc, item)
  PROVE  ExtSo'
<1>1. pc \in ExtReading  BY DEF ExtReading
<1>2. /\ ExtTexts /\ ExtPartly /\ cheat # NoRef /\ Good /\ pc \in InEntry
      /\ item \in Opened(doc) /\ InOrder /\ ~doc.empty /\ (~short => ExtPassed)
  BY <1>1, ExtReads
<1>3. ExtLeft'  BY <1>2, ExtLeftGrows
<1>4. InOrder'  BY <1>2, PublishSays
<1>5. ~short' => ExtPassed'  BY <1>2, ExtPassedGrows
<1> QED
  BY <1>2, <1>3, <1>4, <1>5 DEF ExtSo, ExtAt, Counting, InEntry, ExtReading

LEMMA ExtPassSays ==
  ASSUME CapacityAssumption, DocsAssumption, Inv, Counted, ExtSo, pc \in {"ext_vars", "ext_close"},
         Stays, file' = file, pc' = "ext_entry", item' = item + 1, line' = 1,
         UNCHANGED <<doc, short>>, ~short => item \notin ExtKept(doc)
  PROVE  ExtSo'
<1>1. pc \in ExtReading  BY DEF ExtReading
<1>2. Place /\ pc \in Counting  BY <1>1, ExtReads
<1>3. ExtLeft' /\ (~short' => ExtPassed') /\ InOrder' /\ ~doc'.empty
  BY <1>2, ExtGoesOn
<1> QED
  BY <1>3 DEF ExtSo, ExtAt, Counting, InEntry, ExtReading

LEMMA ExtNoVarsSays ==
  ASSUME CapacityAssumption, DocsAssumption, Inv, Inv', Counted, ExtSo, ExtNoVars
  PROVE  ExtSo' /\ pc' # "return"
<1>1. /\ pc = "ext_vars" /\ pc' = "ext_entry" /\ UNCHANGED <<doc, short>>
      /\ item' = item + 1 /\ line' = 1 /\ Sealed.vars = Missing /\ pc \in ExtReading
      /\ IF Sealed.name THEN Publish ELSE cheat' = NoRef /\ UNCHANGED <<file, blocks>>
  BY DEF ExtNoVars, At, Skip, ExtReading
<1>2. /\ ExtTexts /\ Good /\ item \in Opened(doc)  BY <1>1, ExtReads
<1>3. /\ Sealed.name <=> item \in ExtKept(doc)
      /\ Filled = ExtCheat(doc, item)
  BY <1>1, <1>2, ExtNamedIs
<1>4. CASE Sealed.name
  BY <1>1, <1>3, <1>4, ExtPublishSays
<1>5. CASE ~Sealed.name
  <2>1. UNCHANGED <<file, cheatBlocks, patchBlocks>>  BY <1>1, <1>5 DEF blocks
  <2>2. Slots' = Slots  BY <2>1 DEF Slots
  <2>3. Kept  BY <2>1, <2>2 DEF Kept
  <2>4. Stays  BY <1>2, <2>3, KeptIs
  <2> QED  BY <1>1, <1>3, <1>5, <2>1, <2>4, ExtPassSays
<1> QED  BY <1>1, <1>4, <1>5

LEMMA ExtCloseSays ==
  ASSUME CapacityAssumption, DocsAssumption, Inv, Inv', Counted, ExtSo, ExtClose
  PROVE  ExtSo' /\ pc' # "return"
<1>1. /\ pc = "ext_close" /\ pc' = "ext_entry" /\ UNCHANGED <<doc, short>>
      /\ item' = item + 1 /\ line' = 1 /\ Sealed.vars # Missing /\ pc \in ExtReading
      /\ \/ Entry.patch_count > 0 /\ Publish
         \/ Entry.patch_count = 0 /\ ClearPending(NoCheat) /\ cheat' = NoRef
  BY DEF ExtClose, At, Skip, ExtReading, ExtSo
<1>2. /\ ExtTexts /\ Good /\ item \in Opened(doc) /\ (~short => ExtFilled) /\ cheat # NoRef
  BY <1>1, ExtReads
<1>3. ~short => /\ Entry.patch_count > 0 <=> item \in ExtKept(doc)
                /\ Filled = ExtCheat(doc, item)
  BY <1>1, <1>2, ExtFilledIs
<1>4. CASE Entry.patch_count > 0 /\ Publish
  BY <1>1, <1>3, <1>4, ExtPublishSays
<1>5. CASE Entry.patch_count = 0 /\ ClearPending(NoCheat)
  <2>1. NoCheat \in Entries  BY DEF NoCheat, None, Entries
  <2>2. SetEntry(NoCheat) /\ patchBlocks' = Without(patchBlocks, {Entry.patches})
    BY <1>5 DEF ClearPending
  <2>3. Stays /\ file' = file  BY <1>2, <2>1, <2>2, SetEntryStays
  <2> QED  BY <1>1, <1>3, <1>5, <2>3, ExtPassSays
<1> QED  BY <1>1, <1>4, <1>5

\* the loop over the entries is over
LEMMA ExtDoneSays ==
  ASSUME CapacityAssumption, DocsAssumption, Inv, Inv', ExtSo, ExtDone
  PROVE  Given' /\ pc' = "return"
<1> DEFINE c == file.cheat_count
           S == ExtKept(doc)
<1>1. /\ pc = "ext_entry" /\ pc' = "return" /\ UNCHANGED <<doc, short>> /\ ~InList
      /\ result' = (c > 0) /\ (c > 0 => UNCHANGED fileVars) /\ (~(c > 0) => Clear)
      /\ pc \in ExtAt
  BY DEF ExtDone, Give, ExtAt
<1>2. /\ Good /\ Place /\ ExtLeft /\ (~short => ExtPassed) /\ InOrder /\ ~doc.empty
  BY <1>1 DEF ExtSo, Counting, Inv
<1>3. /\ doc \in Docs /\ doc.format = "shnext" /\ item \in Nat /\ c \in Nat
      /\ DOMAIN doc.items = 1..Len(doc.items) /\ Len(doc.items) \in Nat
      /\ file.authors \in Seq(Nat)
  BY <1>1, <1>2, ExtTyped DEF Good, Typed, Files
<1>4. /\ S \in SUBSET Opened(doc) /\ S \in SUBSET Nat /\ IsFiniteSet(S) /\ Cardinality(S) \in Nat
      /\ \A k \in Opened(doc) : k \in 1..Len(doc.items)
  BY <1>3, KeptAre
<1>5. \A k \in S : k < item
  <2>1. CASE ~doc.list  BY <1>4, <2>1 DEF Opened
  <2>2. CASE item > Len(doc.items)
    <3>1. \A k \in S : k \in 1..Len(doc.items)  BY <1>4
    <3> HIDE DEF S
    <3> QED  BY <1>3, <2>2, <3>1
  <2>3. ~doc.list \/ item > Len(doc.items)  BY <1>1, <1>3 DEF InList
  <2> QED  BY <2>1, <2>2, <2>3
<1>6. Rank(S, item) = Cardinality(S)  BY <1>3, <1>4, <1>5, RankEnds
<1>7. ~short => c = Least(Cardinality(S), MaxCheats)  BY <1>2, <1>6 DEF ExtPassed
<1>8. Accepts(doc) <=> S # {}
  BY <1>2, <1>3 DEF Accepts, Known, Formats, ExtAccepts
<1>9. MaxCheats \in Nat /\ MaxCheats # 0  BY DEF CapacityAssumption
<1>10. S # {} <=> Cardinality(S) # 0  BY <1>4, FS_EmptySet
<1>11. ~short => (c > 0 <=> Accepts(doc))
  <2> DEFINE m == Cardinality(S)
  <2>1. m \in Nat /\ (~short => c = Least(m, MaxCheats)) /\ (Accepts(doc) <=> m # 0)
    BY <1>4, <1>7, <1>8, <1>10
  <2> HIDE DEF m, c, S
  <2> QED  BY <1>3, <1>9, <2>1 DEF Least
<1>12. CASE ~(c > 0)
  <2>1. file' = NoFile /\ doc' = doc /\ short' = short  BY <1>1, <1>12 DEF Clear
  <2>2. (c > 0) = FALSE  BY <1>12
  <2>3. result' = FALSE  BY <1>1, <2>2
  <2>4. short' \/ ~Accepts(doc)  BY <1>11, <1>12, <2>1
  <2> QED  BY <1>1, <2>1, <2>3, <2>4, RefusalIsGiven
<1>13. CASE c > 0
  <2>1. Stays /\ file' = file /\ result' = TRUE  BY <1>1, <1>2, <1>13, FileStays
  <2>2. short => Remains(Published, doc)
    <3>1. DOMAIN Published = 1..c  BY DEF Published
    <3> QED  BY <1>2, <3>1 DEF ExtLeft, ExtFrom, Remains
  <2>3. ASSUME ~short PROVE Published = Cheats(doc) /\ file.authors = Names(doc)
    <3>1. c = Least(Cardinality(S), MaxCheats) /\ ExtPassed  BY <1>2, <1>7, <2>3
    <3>2. \A n \in 1..c : Published[n] = ExtCheat(doc, Ordered(S)[n])
      <4> SUFFICES ASSUME NEW n \in 1..c PROVE Published[n] = ExtCheat(doc, Ordered(S)[n])
        OBVIOUS
      <4>1. PICK k \in S : Rank(S, k) = n - 1 /\ Published[n] = ExtCheat(doc, k)
        BY <3>1 DEF ExtPassed
      <4>2. Rank(S, k) + 1 = n  BY <1>3, <4>1
      <4>3. Ordered(S)[Rank(S, k) + 1] = k  BY <1>4, OrderedIs
      <4> QED  BY <4>1, <4>2, <4>3
    <3>3. ExtCheats(doc) = [n \in 1..c |-> ExtCheat(doc, Ordered(S)[n])]
      BY <1>3, <3>1, ExtCheatsAre
    <3>4. Published = [n \in 1..c |-> Published[n]]  BY DEF Published
    <3> HIDE DEF c, S
    <3>5. Published = ExtCheats(doc)  BY <3>2, <3>3, <3>4
    <3>6. file.authors = ExtNames(doc)
      <4> DEFINE us == ExtAuthors(doc)
      <4>1. Len(us) = c /\ \E T : us \in Seq(T) /\ file.authors \in Seq(T)
        BY <1>3, <3>1, ExtAuthorsAre DEF S
      <4>2. NamesSo(us, c + 1, file.authors)  BY <3>1 DEF ExtPassed, c
      <4>3. ExtNames(doc) = Distinct(us)  BY DEF ExtNames, ExtAuthors
      <4> HIDE DEF us
      <4> QED  BY <4>1, <4>2, <4>3, NamesEnd
    <3>7. Cheats(doc) = ExtCheats(doc) /\ Names(doc) = ExtNames(doc)
      BY <1>3 DEF Cheats, Names
    <3> QED  BY <3>5, <3>6, <3>7
  <2>4. /\ Published' = Published /\ InOrder' /\ short' = short /\ doc' = doc /\ file' = file
        /\ result' = TRUE
    BY <1>1, <1>2, <2>1 DEF Stays
  <2>5. Remains(Published, doc)' = Remains(Published, doc)  BY <2>4
  <2> HIDE DEF c, S
  <2>6. ~short => Accepts(doc)  BY <1>11, <1>13
  <2>7. /\ Accepts(doc)' = Accepts(doc) /\ Cheats(doc)' = Cheats(doc) /\ Names(doc)' = Names(doc)
    BY <2>4, SameDocument
  <2>8. ~short' => (result' <=> Accepts(doc)')  BY <2>4, <2>6, <2>7
  <2>9. IF short' THEN Remains(Published, doc)'
        ELSE Published' = Cheats(doc)' /\ file'.authors = Names(doc)'
    BY <2>2, <2>3, <2>4, <2>5, <2>7
  <2>10. doc'.format = "shnext" /\ result' /\ InOrder'  BY <1>3, <2>4
  <2> QED  BY <1>1, <2>8, <2>9, <2>10, Zenon DEF Given
<1> QED  BY <1>1, <1>12, <1>13

\* what the parser of SHNEXT documents makes of them
LEMMA ExtSays ==
  ASSUME CapacityAssumption, DocsAssumption, Inv, Inv', Counted, ExtSo, ExtParse
  PROVE  ExtSo' /\ (pc' = "return" => Given')
<1>1. CASE ExtInflate \/ ExtParseRoot \/ ExtUnreadable \/ ExtHeader
  BY <1>1, ExtBeginSays
<1>2. CASE ExtNotText \/ ExtOpen \/ ExtBroken \/ ExtSlot \/ ExtNoSlot
  BY <1>2, ExtOpenSays
<1>3. CASE ExtFields \/ ExtNoVars \/ ExtClose
  BY <1>3, ExtFieldsSays, ExtNoVarsSays, ExtCloseSays
<1>4. CASE ExtRoom \/ ExtNoRoom \/ ExtVariable \/ ExtNotVariable \/ ExtLast
  BY <1>4, ExtRoomSays, ExtNoRoomSays, ExtVariableSays, ExtNotVariableSays, ExtLastSays
<1>5. CASE ExtDone
  BY <1>5, ExtDoneSays DEF ExtSo, ExtAt, Counting, InEntry, ExtReading
<1> QED  BY <1>1, <1>2, <1>3, <1>4, <1>5 DEF ExtParse

-----------------------------------------------------------------------------
(* The factory, and the theorem. *)

\* what is said of a parser is nothing while another one is at work
LEMMA Elsewhere ==
  /\ pc' \notin JsonAt => JsonSo'
  /\ pc' \notin ShnAt => ShnSo'
  /\ pc' \notin ExtAt => ExtSo'
  /\ pc' \notin {"open", "read", "parse"} => Begun'
<1>1. pc' \notin JsonAt => JsonSo'  BY DEF JsonSo, JsonAt, JsonInMod
<1>2. pc' \notin ShnAt => ShnSo'  BY DEF ShnSo, ShnAt, ShnInList, ShnInCheat
<1>3. pc' \notin ExtAt => ExtSo'  BY DEF ExtSo, ExtAt, ExtReading, Counting, InEntry
<1> QED  BY <1>1, <1>2, <1>3 DEF Begun

LEMMA GivenStays ==
  ASSUME Good, Given, UNCHANGED <<fileVars, doc, result, short>>
  PROVE  Given'
<1>1. Stays /\ file' = file  BY FileStays
<1> QED  BY <1>1, SameDocument DEF Given, Stays

\* a parser begins with no file, and at the first item of the document
LEMMA ParseSays ==
  ASSUME Inv, Begun, Parse
  PROVE  GivenInv'
<1>1. /\ pc = "parse" /\ UNCHANGED <<doc, item, line>> /\ Clear /\ item = 1 /\ line = 1
      /\ ~doc.empty /\ pc' = IF doc.format = "shnext" THEN "ext" ELSE doc.format
  BY DEF Parse, parser, Begun
<1>2. doc.format \in Formats  BY <1>1 DEF Inv, Place, Known
<1>3. file' = NoFile  BY <1>1 DEF Clear
<1>4. InOrder'
  <2>1. file'.cheat_count = 0  BY <1>3 DEF NoFile
  <2>2. \A k \in 1..0 : FALSE  OBVIOUS
  <2> QED  BY <2>1, <2>2 DEF InOrder
<1>5. CASE doc.format = "json"
  <2>1. pc' = "json"  BY <1>1, <1>5
  <2>2. JsonSo'  BY <1>1, <1>3, <2>1 DEF JsonSo, JsonAt, JsonInMod
  <2> QED  BY <2>1, <2>2, Elsewhere DEF GivenInv, ShnAt, ExtAt, InEntry
<1>6. CASE doc.format \in {"shn", "mc4"}
  <2>1. pc' \in {"shn", "mc4"} /\ pc' = doc.format  BY <1>1, <1>6
  <2>2. ShnSo'  BY <1>1, <1>3, <1>4, <2>1 DEF ShnSo, ShnAt, ShnInList, ShnInCheat
  <2> QED  BY <2>1, <2>2, Elsewhere DEF GivenInv, JsonAt, ExtAt, InEntry
<1>7. CASE doc.format = "shnext"
  <2>1. pc' = "ext"  BY <1>1, <1>7
  <2>2. ExtSo'  BY <1>1, <1>3, <1>4, <2>1 DEF ExtSo, ExtAt, ExtReading, Counting, InEntry
  <2> QED  BY <2>1, <2>2, Elsewhere DEF GivenInv, JsonAt, ShnAt
<1> QED  BY <1>2, <1>5, <1>6, <1>7 DEF Formats

\* a load begins, and reads the file, or refuses it
LEMMA LoadSays ==
  ASSUME Inv, Begun,
         LoadFile \/ LoadBuffer \/ LoadNothing \/ OpenFile \/ OpenFails \/ ReadFile \/ ReadFails
  PROVE  GivenInv'
<1>1. /\ pc' \notin JsonAt /\ pc' \notin ShnAt /\ pc' \notin ExtAt
      /\ pc' \notin {"shn_return", "done"}
  BY DEF LoadFile, LoadBuffer, LoadNothing, OpenFile, OpenFails, ReadFile, ReadFails,
         Begin, At, Give, JsonAt, ShnAt, ExtAt, InEntry
<1>2. Begun' /\ (pc' = "return" => Given')
  <2>1. CASE LoadFile \/ LoadNothing
    <3>1. /\ item' = 1 /\ line' = 1 /\ result' = FALSE /\ Clear
          /\ \/ pc' = "open"
             \/ pc' = "return" /\ (~Known(doc') \/ doc'.empty)
      BY <2>1 DEF LoadFile, LoadNothing, Begin
    <3>2. file' = NoFile  BY <3>1 DEF Clear
    <3> QED  BY <3>1, <3>2 DEF Begun, Given, Accepts
  <2>2. CASE LoadBuffer
    <3>1. item' = 1 /\ line' = 1 /\ pc' = "parse" /\ ~doc'.empty
      BY <2>2 DEF LoadBuffer, Begin
    <3> QED  BY <3>1 DEF Begun
  <2>3. CASE OpenFile \/ ReadFile
    <3>1. /\ \/ pc = "open" /\ pc' = "read"
             \/ pc = "read" /\ pc' = "parse"
          /\ UNCHANGED <<file, doc, item, line>> /\ (pc = "open" => ~doc.empty)
      BY <2>3 DEF OpenFile, ReadFile, At, fileVars, parser
    <3> QED  BY <3>1 DEF Begun
  <2>4. CASE OpenFails \/ ReadFails
    <3>1. /\ pc \in {"open", "read"} /\ pc' = "return" /\ result' = FALSE
          /\ UNCHANGED <<file, doc, item, line>> /\ (short' \/ doc.empty)
      BY <2>4 DEF OpenFails, ReadFails, Give, NoteShort, fileVars
    <3>2. file' = NoFile  BY <3>1 DEF Begun
    <3>3. Given'  BY <3>1, <3>2, RefusalIsGiven DEF Accepts
    <3> QED  BY <3>1, <3>3 DEF Begun
  <2> QED  BY <2>1, <2>2, <2>3, <2>4
<1> QED  BY <1>1, <1>2, Elsewhere DEF GivenInv

LEMMA ReturnSays ==
  ASSUME Inv, pc = "return" => Given, Return
  PROVE  GivenInv'
<1>1. pc = "return" /\ pc' = "done" /\ UNCHANGED <<fileVars, doc, result, short>>
  BY DEF Return, At
<1>2. Given'  BY <1>1, GivenStays DEF Inv
<1> QED  BY <1>1, <1>2, Elsewhere DEF GivenInv, JsonAt, ShnAt, ExtAt, InEntry

\* a step that changes nothing
LEMMA NothingSays ==
  ASSUME CapacityAssumption, DocsAssumption, Inv, GivenInv, UNCHANGED allVars
  PROVE  GivenInv'
<1>1. UNCHANGED <<fileVars, doc, item, line, result, short, pc>>  BY DEF allVars, parser
<1>2. Good /\ Place  BY DEF Inv
<1>3. Stays /\ Entry' = Entry /\ (\A i : Patch(i)' = Patch(i)) /\ file' = file
  BY <1>1, <1>2, FileStays
<1>4. JsonSo'
  <2>1. JsonAuthors' = JsonAuthors /\ Mod' = Mod  BY <1>1 DEF JsonAuthors, Mod
  <2>2. JsonPassed => JsonPassed'  BY <1>1, <1>3 DEF JsonPassed, Stays
  <2>3. JsonNamed => JsonNamed'  BY <1>1, <1>3, <2>1 DEF JsonNamed
  <2>4. JsonFilled => JsonFilled'  BY <1>1, <1>3, <2>1 DEF JsonFilled
  <2> QED  BY <1>1, <1>3, <2>1, <2>2, <2>3, <2>4 DEF GivenInv, JsonSo
<1>5. ShnSo'
  <2>1. InThis' = InThis  BY <1>1 DEF InThis, Tags, EndOfCheat, FirstTag
  <2>2. ShnPassed => ShnPassed'  BY <1>1, <1>3 DEF ShnPassed, Stays
  <2>3. ShnFilled => ShnFilled'  BY <1>1, <1>3, <2>1 DEF ShnFilled
  <2> QED  BY <1>1, <1>3, <2>1, <2>2, <2>3 DEF GivenInv, ShnSo, Stays
<1>6. ExtSo'
  <2>1. Sealed' = Sealed  BY <1>1 DEF Sealed
  <2>2. pc \in Counting => ExtLeft' /\ (~short' => ExtPassed')
    BY <1>1, <1>2, <1>3, ExtGoesOn DEF GivenInv
  <2>3. ExtTexts => ExtTexts'  BY <1>1, <1>3, <2>1 DEF ExtTexts
  <2>4. ExtPartly => ExtPartly'  BY <1>1, <1>3, <2>1 DEF ExtPartly
  <2>5. ExtFilled => ExtFilled'  BY <1>1, <1>3, <2>1 DEF ExtFilled
  <2> QED  BY <1>1, <1>3, <2>1, <2>2, <2>3, <2>4, <2>5 DEF GivenInv, ExtSo, Stays
<1>7. Begun'  BY <1>1, <1>3 DEF GivenInv, Begun
<1>8. Given => Given'  BY <1>1, <1>2, GivenStays
<1> QED  BY <1>1, <1>4, <1>5, <1>6, <1>7, <1>8 DEF GivenInv

LEMMA NextSays ==
  ASSUME CapacityAssumption, ValueAssumption, DocsAssumption, Inv, Inv', Counted, GivenInv,
         [Next]_allVars
  PROVE  GivenInv'
<1>1. CASE LoadFile \/ LoadBuffer \/ LoadNothing \/ OpenFile \/ OpenFails \/ ReadFile \/ ReadFails
  BY <1>1, LoadSays DEF GivenInv
<1>2. CASE Parse  BY <1>2, ParseSays DEF GivenInv
<1>3. CASE JsonParse
  <2>1. JsonSo' /\ (pc' = "return" => Given')  BY <1>3, JsonSays DEF GivenInv
  <2>2. pc' \in JsonAt \cup {"return"}
    BY <1>3
    DEF JsonParse, JsonHeader, JsonNoHeader, JsonAuthor, JsonList, JsonNoList, JsonMod, JsonModRefused,
        JsonFields, JsonNoFields, JsonRoom, JsonNoRoom, JsonValue, JsonBadValue, JsonPublish,
        JsonNoPatches, JsonDone, JsonNoMods, At, Goes, Reject, Give, JsonAt
  <2> QED  BY <2>1, <2>2, Elsewhere DEF GivenInv, JsonAt, ShnAt, ExtAt, InEntry
<1>4. CASE ShnParse
  <2>1. ShnSo' /\ (pc' \in {"return", "shn_return"} => Given')
    BY <1>4, ShnSays DEF GivenInv
  <2>2. pc' \in ShnAt \cup {"shn_return", "return"}
    BY <1>4
    DEF ShnParse, Mc4Decrypt, Mc4Fails, ShnCopy, ShnNoCopy, ShnTrainer, ShnNoTrainer, ShnCheat,
        ShnCheatRefused, ShnText, ShnNoText, ShnRoom, ShnNoRoom, ShnValue, ShnBadValue, ShnPublish,
        ShnNoLines, ShnDone, ShnNoCheats, ShnReturn, ShnReject, Reject, Give, At, Goes, ShnAt
  <2> QED  BY <2>1, <2>2, Elsewhere DEF GivenInv, JsonAt, ShnAt, ExtAt, InEntry
<1>5. CASE ExtParse
  <2>1. ExtSo' /\ (pc' = "return" => Given')  BY <1>5, ExtSays DEF GivenInv
  <2>2. pc' \in ExtAt \cup {"return"}
    BY <1>5
    DEF ExtParse, ExtInflate, ExtParseRoot, ExtUnreadable, ExtHeader, ExtNotText, ExtOpen, Open,
        ExtBroken, Break, ExtSlot, ExtNoSlot, ExtFields, ExtNoVars, ExtRoom, ExtNoRoom, ExtVariable,
        ExtNotVariable, ExtLast, ExtClose, ExtDone, At, Goes, Give, ExtAt, InEntry
  <2> QED  BY <2>1, <2>2, Elsewhere DEF GivenInv, JsonAt, ShnAt, ExtAt, InEntry
<1>6. CASE Return  BY <1>6, ReturnSays DEF GivenInv
<1>7. CASE UNCHANGED allVars  BY <1>7, NothingSays
<1> QED  BY <1>1, <1>2, <1>3, <1>4, <1>5, <1>6, <1>7 DEF Next

\* Whatever document is loaded, from a file or from a buffer, after whatever other documents:
\* the load answers true just when the document is one its format allows, and the file then
\* holds what the document says, all of it, in order, and nothing else; false leaves no file.
\* Where memory runs out JSON, SHN and MC4 refuse the document, and SHNEXT keeps entries of
\* it, in order, with variables of theirs (cheat_parser_factory.cpp:61-87 and the parsers).
THEOREM LoadGivesTheDocument == Spec => []GivesTheDocument
<1>1. Init => GivenInv
  BY Zenon
  DEF Init, GivenInv, JsonSo, ShnSo, ExtSo, Begun, JsonAt, JsonInMod, ShnAt, ShnInList, ShnInCheat,
      ExtAt, ExtReading, Counting, InEntry
<1>2. Inv /\ Inv' /\ WipeInv /\ GivenInv /\ [Next]_allVars => GivenInv'
  BY NextSays, CapacityAssumption, ValueAssumption, DocsAssumption DEF WipeInv
<1>3. GivenInv => GivesTheDocument
  BY GivenIs DEF GivenInv
<1> QED  BY <1>1, <1>2, <1>3, InvHolds, WipeInvHolds, PTL DEF Spec
=============================================================================
