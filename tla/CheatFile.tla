------------------------------- MODULE CheatFile -------------------------------
(* CheatFile (src/domain/owned_cheat_file.cpp): an array of cheats, each with an   *)
(* array of patches, which grow by realloc while parsers fill them. A block of     *)
(* memory is a number, used again only once nothing is allocated; realloc always    *)
(* moves, so that a pointer kept too long names a block that is gone.               *)
EXTENDS Naturals, Sequences

CONSTANTS
  MaxCheats,      \* kMaxCheats
  MaxPatches,     \* kMaxPatchesPerCheat
  MaxAuthors,     \* kMaxAuthors
  FirstCapacity,  \* 4: elements of the first block
  Faults          \* "memory", "file": what may fail

ASSUME CapacityAssumption ==
  /\ {MaxCheats, MaxPatches, FirstCapacity} \subseteq Nat \ {0}
  /\ FirstCapacity <= MaxCheats /\ FirstCapacity <= MaxPatches /\ MaxAuthors \in Nat

VARIABLES
  file,        \* CheatFile
  cheatBlocks, \* the blocks of CheatEntry that are allocated
  patchBlocks, \* the blocks of Patch that are allocated
  fresh,       \* the next block
  cheat        \* the parser's CheatEntry&: a block and a place in it

None == 0      \* nullptr, and an empty text
NoPatch == [of |-> None, on |-> <<>>, off |-> <<>>, assembly |-> FALSE]
NoCheat == [id |-> 0, text |-> None, author |-> None,
            patches |-> None, patch_count |-> 0, patch_capacity |-> 0]
NoFile == [named |-> FALSE, authors |-> <<>>,
           cheats |-> None, cheat_count |-> 0, cheat_capacity |-> 0]
NoRef == [block |-> None, at |-> 0]

blocks == <<cheatBlocks, patchBlocks, fresh>>
fileVars == <<file, blocks, cheat>>

Slots == IF file.cheats = None THEN <<>> ELSE cheatBlocks[file.cheats]
Entry == cheatBlocks[cheat.block][cheat.at]

-----------------------------------------------------------------------------
(* malloc, free and realloc. *)

Without(h, bs) == [b \in DOMAIN h \ bs |-> h[b]]
Moved(h, b, blank, n) ==
  [x \in (DOMAIN h \ {b}) \cup {fresh} |->
     IF x # fresh THEN h[x]
     ELSE [k \in 1..n |-> IF b \in DOMAIN h /\ k \in DOMAIN h[b] THEN h[b][k] ELSE blank]]

\* mutant: the limit does not cut what doubling gives
Unlimited(c, max) == IF c = 0 THEN FirstCapacity ELSE 2 * c
Doubled(c, max) == IF c = 0 THEN FirstCapacity ELSE IF 2 * c > max THEN max ELSE 2 * c

-----------------------------------------------------------------------------
(* The operations. *)

\* clear_cheat_file: the slots up to the capacity, the one being filled included
Clear ==
  /\ patchBlocks' = Without(patchBlocks, {Slots[k].patches : k \in DOMAIN Slots})
  /\ cheatBlocks' = Without(cheatBlocks, {file.cheats})
  /\ file' = NoFile /\ cheat' = NoRef
  /\ fresh' = 1

\* ensure_cheat, and the parser taking a reference to the slot it made sure of
SlotFree == file.cheat_count < file.cheat_capacity
MayGrow == file.cheat_capacity < MaxCheats
StaleRef(b) == [block |-> file.cheats, at |-> file.cheat_count + 1]   \* mutant: taken before
RefIn(b) == [block |-> b, at |-> file.cheat_count + 1]
TakeSlot ==
  /\ SlotFree /\ cheat' = RefIn(file.cheats)
  /\ UNCHANGED <<file, blocks>>
GrowCheats ==
  /\ ~SlotFree /\ MayGrow
  /\ LET n == Doubled(file.cheat_capacity, MaxCheats)
     IN /\ cheatBlocks' = Moved(cheatBlocks, file.cheats, NoCheat, n)
        /\ file' = [file EXCEPT !.cheats = fresh, !.cheat_capacity = n]
  /\ cheat' = RefIn(fresh) /\ fresh' = fresh + 1
  /\ UNCHANGED patchBlocks
EnsureCheat == TakeSlot \/ GrowCheats
CheatRefused == ~SlotFree /\ (~MayGrow \/ "memory" \in Faults)

\* ensure_patch on the cheat referred to
PatchFree == Entry.patch_count < Entry.patch_capacity
MayGrowPatches == Entry.patch_capacity < MaxPatches
GrowPatches ==
  /\ ~PatchFree /\ MayGrowPatches
  /\ LET n == Doubled(Entry.patch_capacity, MaxPatches)
     IN /\ patchBlocks' = Moved(patchBlocks, Entry.patches, NoPatch, n)
        /\ cheatBlocks' = [cheatBlocks EXCEPT
             ![cheat.block][cheat.at].patches = fresh,
             ![cheat.block][cheat.at].patch_capacity = n]
  /\ fresh' = fresh + 1 /\ UNCHANGED <<file, cheat>>
EnsurePatch == (PatchFree /\ UNCHANGED fileVars) \/ GrowPatches
PatchRefused == ~PatchFree /\ (~MayGrowPatches \/ "memory" \in Faults)

\* memset of the cheat referred to, and its texts
SetEntry(e) ==
  /\ cheatBlocks' = [cheatBlocks EXCEPT ![cheat.block][cheat.at] = e]
  /\ UNCHANGED <<file, fresh>>

\* a parsed patch goes into the slot that was made sure of
AddPatch(p) ==
  /\ patchBlocks' = [patchBlocks EXCEPT ![Entry.patches][Entry.patch_count + 1] = p]
  /\ cheatBlocks' = [cheatBlocks EXCEPT ![cheat.block][cheat.at].patch_count = @ + 1]
  /\ UNCHANGED <<file, fresh, cheat>>

\* a cheat becomes part of the file: its id is its index
Identified == [Entry EXCEPT !.id = file.cheat_count]
AddAuthor(as, a) ==
  IF a = None \/ Len(as) >= MaxAuthors \/ \E i \in DOMAIN as : as[i] = a THEN as
  ELSE Append(as, a)
Publish ==
  /\ cheatBlocks' = [cheatBlocks EXCEPT ![cheat.block][cheat.at] = Identified]
  /\ file' = [file EXCEPT !.cheat_count = @ + 1,
                          !.authors = AddAuthor(@, Entry.author)]
  /\ cheat' = NoRef
  /\ UNCHANGED <<patchBlocks, fresh>>

-----------------------------------------------------------------------------
(* Properties. *)

BlocksOf(s) == {s[k].patches : k \in DOMAIN s} \ {None}
\* Every block is owned by the file, once, and every pointer of the file leads to a block
\* of the size it is taken to have: no block is lost when a parse is given up half way,
\* freed twice or used after a realloc (owned_cheat_file.cpp:16-57).
OwnsExactly ==
  /\ DOMAIN cheatBlocks = {file.cheats} \ {None}
  /\ DOMAIN patchBlocks = BlocksOf(Slots)
  /\ \A j, k \in DOMAIN Slots :
       j # k /\ Slots[j].patches # None => Slots[j].patches # Slots[k].patches
  /\ DOMAIN Slots = 1..file.cheat_capacity /\ file.cheat_count <= file.cheat_capacity
  /\ \A k \in DOMAIN Slots :
       /\ Slots[k].patch_count <= Slots[k].patch_capacity
       /\ IF Slots[k].patches = None THEN Slots[k].patch_capacity = 0
          ELSE DOMAIN patchBlocks[Slots[k].patches] = 1..Slots[k].patch_capacity
  /\ cheat # NoRef => cheat = RefIn(file.cheats) /\ cheat.at \in DOMAIN Slots
\* Growing stops at the limits, which the fixed arrays of a snapshot rely on
\* (owned_cheat_file.cpp:33-35 and 48-50).
WithinLimits ==
  /\ file.cheat_capacity <= MaxCheats /\ Len(file.authors) <= MaxAuthors
  /\ \A k \in DOMAIN Slots : Slots[k].patch_capacity <= MaxPatches
=============================================================================
