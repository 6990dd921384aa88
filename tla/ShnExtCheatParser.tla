---------------------------- MODULE ShnExtCheatParser ----------------------------
(* ShnExtCheatParser::parse and parse_shnext (src/parsers/shnext_core.cpp). A         *)
(* document is [packed: it inflates, parses: to JSON, header: the process name        *)
(* decrypts, list: patchEntries is an array, items]; an entry is [string, broken:     *)
(* the stage it cannot be opened at, name, author, vars], and vars the variables,     *)
(* [number: the offset, on, off], or Missing.                                         *)
EXTENDS ShnCheatParser

CONSTANT Keystone   \* EZ_CHEATS_HAS_KEYSTONE

Allocs == {TRUE} \cup (IF "memory" \in Faults THEN {FALSE} ELSE {})

\* shnext_asm_value_to_bytes: "nop:n", or text for the assembler, which may get no memory
Nop == <<"9", "0">>
Assembles(v) == Keystone /\ v.kind = "asm" /\ Len(v.bytes) \in 1..MaxPatchBytes
Code(v, works) ==
  IF v.kind = "nop" /\ v.count \in 1..MaxPatchBytes THEN [k \in 1..v.count |-> Nop]
  ELSE IF Assembles(v) /\ works THEN v.bytes ELSE <<>>
Variable(v, i, on, off) ==
  [of |-> i, on |-> Code(v.on, on), off |-> Code(v.off, off),
   assembly |-> <<>> \in {Code(v.on, on), Code(v.off, off)}]

Sealed == doc.items[item]
InList == doc.list /\ item <= Len(doc.items)
rest == <<fileVars, doc, line>>

\* the document: inflated, then parsed
ExtInflate ==
  /\ At("ext", "ext_json") /\ doc.packed
  /\ Buffers(clear \cup {"json"}) /\ UNCHANGED <<rest, item, result, short>>
ExtParseRoot ==
  /\ At("ext_json", "ext_header") /\ doc.parses
  /\ Buffers((clear \ {"json"}) \cup {"root"}) /\ UNCHANGED <<rest, item, result, short>>
ExtUnreadable ==
  /\ \/ pc = "ext" /\ (~doc.packed \/ "memory" \in Faults) /\ NoteShort(doc.packed)
     \/ pc = "ext_json" /\ (~doc.parses \/ "memory" \in Faults) /\ NoteShort(doc.parses)
  /\ Wipe("json") /\ Give(FALSE) /\ UNCHANGED <<rest, item>>
ExtHeader ==
  /\ At("ext_header", "ext_entry")
  /\ \E works \in Allocs : /\ file' = [file EXCEPT !.named = doc.header /\ works]
                           /\ NoteShort(doc.header /\ ~works)
  /\ UNCHANGED <<blocks, cheat, doc, item, line, result, clear, bared>>

\* the loop over patchEntries, and the stages at which an entry is opened or passed over
ExtNotText ==
  /\ At("ext_entry", "ext_entry") /\ InList /\ ~Sealed.string
  /\ Skip /\ UNCHANGED <<fileVars, doc, result, short, clear, bared>>
Open(here, there, stage, was, is) ==
  /\ At(here, there) /\ InList /\ Sealed.string /\ Sealed.broken # stage
  /\ Buffers((clear \ {was}) \cup {is}) /\ UNCHANGED <<rest, item, result, short>>
Break(here, stage, was) ==
  /\ At(here, "ext_entry") /\ InList /\ Sealed.string
  /\ Sealed.broken = stage \/ "memory" \in Faults
  /\ NoteShort(Sealed.broken # stage)
  /\ Wipe(was) /\ Skip /\ UNCHANGED <<fileVars, doc, result>>
ExtOpen ==
  \/ Open("ext_entry", "ext_plain", "cipher", "none", "plain")
  \/ Open("ext_plain", "ext_text", "deflate", "plain", "text")
  \/ Open("ext_text", "ext_slot", "json", "text", "entry")
ExtBroken ==
  \/ Break("ext_entry", "cipher", "none")
  \/ Break("ext_plain", "deflate", "plain")
  \/ Break("ext_text", "json", "text")

\* a slot, cleared of what an earlier entry left in it
ExtSlot == At("ext_slot", "ext_fields") /\ EnsureCheat /\ UNCHANGED parser
ExtNoSlot ==
  /\ At("ext_slot", "ext_entry") /\ CheatRefused
  /\ NoteShort(MayGrow) /\ Drop("entry") /\ Skip /\ UNCHANGED <<fileVars, doc, result>>
ClearPending(e) == patchBlocks' = Without(patchBlocks, {Entry.patches}) /\ SetEntry(e)
ExtFields ==
  /\ At("ext_fields", "ext_vars")
  /\ ClearPending([NoCheat EXCEPT !.text = IF Sealed.name THEN item ELSE None,
                                  !.author = Sealed.author])
  /\ UNCHANGED <<cheat, parser>>
ExtNoVars ==
  /\ At("ext_vars", "ext_entry") /\ Sealed.vars = Missing
  /\ IF Sealed.name THEN Publish ELSE cheat' = NoRef /\ UNCHANGED <<file, blocks>>
  /\ Wipe("entry") /\ Skip /\ UNCHANGED <<doc, result, short>>

\* the loop over Variables
ExtRoom ==
  /\ At("ext_vars", "ext_value") /\ Sealed.vars # Missing /\ line <= Len(Sealed.vars)
  /\ EnsurePatch /\ UNCHANGED parser
ExtNoRoom ==
  /\ At("ext_vars", "ext_close") /\ Sealed.vars # Missing /\ line <= Len(Sealed.vars)
  /\ PatchRefused /\ NoteShort(MayGrowPatches)
  /\ UNCHANGED <<rest, item, result, clear, bared>>
ExtVariable ==
  /\ At("ext_value", "ext_vars") /\ Sealed.vars[line].number
  /\ \E on, off \in Allocs : /\ AddPatch(Variable(Sealed.vars[line], line, on, off))
                             /\ NoteShort(~on \/ ~off)
  /\ line' = line + 1 /\ UNCHANGED <<doc, item, result, clear, bared>>
ExtNotVariable ==
  /\ At("ext_value", "ext_vars") /\ ~Sealed.vars[line].number
  /\ line' = line + 1 /\ UNCHANGED <<fileVars, doc, item, result, short, clear, bared>>
ExtLast ==
  /\ Goes("ext_vars", "ext_close") /\ Sealed.vars # Missing /\ line > Len(Sealed.vars)
  /\ UNCHANGED <<item, line>>
ExtClose ==
  /\ At("ext_close", "ext_entry")
  /\ \/ Entry.patch_count > 0 /\ Publish
     \/ Entry.patch_count = 0 /\ ClearPending(NoCheat) /\ cheat' = NoRef
  /\ Wipe("entry") /\ Skip /\ UNCHANGED <<doc, result, short>>

ExtDone ==
  /\ pc = "ext_entry" /\ ~InList /\ Wipe("root") /\ Give(file.cheat_count > 0)
  /\ IF file.cheat_count > 0 THEN UNCHANGED fileVars ELSE Clear
  /\ UNCHANGED <<doc, item, line, short>>

ExtParse ==
  \/ ExtInflate \/ ExtParseRoot \/ ExtUnreadable \/ ExtHeader
  \/ ExtNotText \/ ExtOpen \/ ExtBroken \/ ExtSlot \/ ExtNoSlot \/ ExtFields \/ ExtNoVars
  \/ ExtRoom \/ ExtNoRoom \/ ExtVariable \/ ExtNotVariable \/ ExtLast \/ ExtClose \/ ExtDone

-----------------------------------------------------------------------------
(* What such a document says: the entries that open and that have a variable with an  *)
(* offset, or a name and no list of variables, as many as the limits allow.            *)

Opened(d) == IF d.packed /\ d.parses /\ d.list
             THEN {k \in DOMAIN d.items : d.items[k].string /\ d.items[k].broken = "no"}
             ELSE {}
Numbered(e) == IF e.vars = Missing THEN {} ELSE {j \in DOMAIN e.vars : e.vars[j].number}
ExtKept(d) == {k \in Opened(d) : \/ Numbered(d.items[k]) # {}
                                 \/ d.items[k].vars = Missing /\ d.items[k].name}
ExtAccepts(d) == ExtKept(d) # {}
\* with one more chance for every value that the assembler got no memory
ExtPatch(p, e) == \E j \in Numbered(e) : \E on, off \in Allocs : p = Variable(e.vars[j], j, on, off)
ExtCheat(d, k) ==
  LET e == d.items[k]
      vars == Ordered(Numbered(e))
  IN [text |-> IF e.name THEN k ELSE None, author |-> e.author,
      patches |-> Take([i \in DOMAIN vars |-> Variable(e.vars[vars[i]], vars[i], TRUE, TRUE)],
                       MaxPatches)]
ExtCheats(d) ==
  LET kept == Take(Ordered(ExtKept(d)), MaxCheats)
  IN [n \in DOMAIN kept |-> ExtCheat(d, kept[n])]
ExtNames(d) == Distinct([n \in DOMAIN ExtCheats(d) |-> ExtCheats(d)[n].author])
=============================================================================
