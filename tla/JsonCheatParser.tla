---------------------------- MODULE JsonCheatParser ----------------------------
(* JsonCheatParser::parse (src/parsers/json_cheat_parser.cpp). A document is         *)
(* [header: process and name are there, credits, authors, list: mods is an array     *)
(* that ends, items: its objects]; an object [closed, name, memory], and memory       *)
(* the patches, or Missing.                                                           *)
EXTENDS CheatParser

CONSTANT Missing   \* a field that is not there, or not of its type

Mod == doc.items[item]

JsonHeader ==
  /\ At("json", "json_authors") /\ doc.header
  /\ file' = [file EXCEPT !.named = TRUE]
  /\ UNCHANGED <<blocks, cheat, parser>>
JsonNoHeader == pc = "json" /\ ~doc.header /\ Reject /\ UNCHANGED short

\* parse_authors of "credits" and of "authors"
JsonAuthors == doc.credits \o doc.authors
JsonAuthor ==
  /\ At("json_authors", "json_authors") /\ line <= Len(JsonAuthors)
  /\ file' = [file EXCEPT !.authors = AddAuthor(@, JsonAuthors[line])]
  /\ line' = line + 1 /\ UNCHANGED <<blocks, cheat, doc, item, result, short, clear, bared>>
JsonList ==
  /\ Goes("json_authors", "json_mod") /\ line > Len(JsonAuthors) /\ doc.list
  /\ line' = 1 /\ UNCHANGED item
JsonNoList ==
  /\ pc = "json_authors" /\ line > Len(JsonAuthors) /\ ~doc.list
  /\ Reject /\ UNCHANGED short

\* the loop over mods: a slot, and the beginning of parse_mod, which zeroes it
JsonMod ==
  /\ At("json_mod", "json_fields") /\ item <= Len(doc.items) /\ Mod.closed
  /\ EnsureCheat /\ UNCHANGED parser
JsonModRefused ==
  /\ pc = "json_mod" /\ item <= Len(doc.items)
  /\ ~Mod.closed \/ CheatRefused
  /\ Reject /\ NoteShort(Mod.closed /\ MayGrow)
JsonFields ==
  /\ At("json_fields", "json_patch") /\ Mod.name /\ Mod.memory # Missing
  /\ SetEntry([NoCheat EXCEPT !.text = item]) /\ UNCHANGED <<patchBlocks, cheat, parser>>
JsonNoFields ==
  /\ pc = "json_fields" /\ (~Mod.name \/ Mod.memory = Missing)
  /\ Reject /\ UNCHANGED short

\* the loop over memory
JsonRoom ==
  /\ At("json_patch", "json_value") /\ line <= Len(Mod.memory)
  /\ EnsurePatch /\ UNCHANGED parser
JsonNoRoom ==
  /\ pc = "json_patch" /\ line <= Len(Mod.memory) /\ PatchRefused
  /\ Reject /\ NoteShort(MayGrowPatches)
JsonOn == JsonDigits(Mod.memory[line].on)
JsonOff == JsonDigits(Mod.memory[line].off)
JsonValue ==
  /\ At("json_value", "json_patch") /\ Sound(Mod.memory[line], JsonOn, JsonOff)
  /\ AddPatch(ParsedPatch(line, JsonOn, JsonOff))
  /\ line' = line + 1 /\ UNCHANGED <<doc, item, result, short, clear, bared>>
JsonBadValue ==
  /\ pc = "json_value" /\ ~Sound(Mod.memory[line], JsonOn, JsonOff)
  /\ Reject /\ UNCHANGED short
JsonPublish ==
  /\ At("json_patch", "json_mod") /\ line > Len(Mod.memory) /\ Entry.patch_count > 0
  /\ Publish /\ Skip /\ UNCHANGED <<doc, result, short, clear, bared>>
JsonNoPatches ==
  /\ pc = "json_patch" /\ line > Len(Mod.memory) /\ Entry.patch_count = 0
  /\ Reject /\ UNCHANGED short

JsonDone ==
  /\ pc = "json_mod" /\ item > Len(doc.items) /\ file.cheat_count > 0
  /\ Give(TRUE) /\ UNCHANGED <<fileVars, doc, item, line, short, clear, bared>>
JsonNoMods ==
  /\ pc = "json_mod" /\ item > Len(doc.items) /\ file.cheat_count = 0
  /\ Reject /\ UNCHANGED short

JsonParse ==
  \/ JsonHeader \/ JsonNoHeader \/ JsonAuthor \/ JsonList \/ JsonNoList
  \/ JsonMod \/ JsonModRefused \/ JsonFields \/ JsonNoFields
  \/ JsonRoom \/ JsonNoRoom \/ JsonValue \/ JsonBadValue \/ JsonPublish \/ JsonNoPatches
  \/ JsonDone \/ JsonNoMods

-----------------------------------------------------------------------------
(* What a JSON document says, whatever the parser makes of it. *)

Take(s, n) == SubSeq(s, 1, IF Len(s) > n THEN n ELSE Len(s))
\* the first MaxAuthors names, each once
FirstOf(as, i) == \A j \in 1..(i - 1) : as[j] # as[i]
Distinct(as) ==
  Take(Pick(as, {i \in DOMAIN as : as[i] # None /\ FirstOf(as, i)}), MaxAuthors)
\* bytes of a value, the first digit of an odd number standing alone
Shift(v) == Len(v) % 2
Bytes(v) ==
  [k \in 1..((Len(v) + 1) \div 2) |->
     <<IF 2 * k - 1 - Shift(v) = 0 THEN "0" ELSE v[2 * k - 1 - Shift(v)], v[2 * k - Shift(v)]>>]
AllHex(v) == {v[i] : i \in DOMAIN v} \subseteq HexDigits /\ v # <<>>
PatchOf(t, i, Digits(_)) ==
  [of |-> i, on |-> Bytes(Digits(t.on)), off |-> Bytes(Digits(t.off)), assembly |-> FALSE]
GoodPatch(t, Digits(_)) == t.sound /\ AllHex(Digits(t.on)) /\ AllHex(Digits(t.off))

JsonGood(m) ==
  /\ m.closed /\ m.name /\ m.memory # Missing /\ Len(m.memory) \in 1..MaxPatches
  /\ \A i \in DOMAIN m.memory : GoodPatch(m.memory[i], JsonDigits)
JsonAccepts(d) ==
  /\ d.header /\ d.list /\ Len(d.items) \in 1..MaxCheats
  /\ \A i \in DOMAIN d.items : JsonGood(d.items[i])
JsonCheats(d) ==
  [k \in DOMAIN d.items |->
     [text |-> k, author |-> None,
      patches |-> [i \in DOMAIN d.items[k].memory |-> PatchOf(d.items[k].memory[i], i, JsonDigits)]]]
JsonNames(d) == Distinct(d.credits \o d.authors)
=============================================================================
