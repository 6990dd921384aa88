--------------------------- MODULE CheatParserFactory ---------------------------
(* CheatParserFactory (src/parsers/cheat_parser_factory.cpp) with the four parsers:  *)
(* one CheatFile, into which document after document is loaded, from a file or from  *)
(* a buffer.                                                                         *)
EXTENDS ShnExtCheatParser

CONSTANT Docs    \* documents, each [format, empty, ...]

Formats == {"json", "shn", "mc4", "shnext"}
\* the stages at which an entry of an SHNEXT document is given up, or none
Stages == {"no", "cipher", "deflate", "json"}
Known(d) == d.format \in Formats

\* items, patches and variables come in sequences, values are of characters, authors numbers
IsSequence(s) == Len(s) \in Nat /\ DOMAIN s = 1..Len(s)
IsPatch(t) == t.on \in Seq(STRING) /\ t.off \in Seq(STRING)
JsonDoc(d) ==
  /\ d.credits \in Seq(Nat) /\ d.authors \in Seq(Nat)
  /\ \A k \in DOMAIN d.items : d.items[k].memory # Missing =>
       /\ IsSequence(d.items[k].memory)
       /\ \A i \in DOMAIN d.items[k].memory : IsPatch(d.items[k].memory[i])
ShnDoc(d) ==
  /\ d.moder \in Nat
  /\ \A k \in DOMAIN d.items : d.items[k].tag = "line" => IsPatch(d.items[k])
ExtDoc(d) ==
  \A k \in DOMAIN d.items :
    /\ d.items[k].author \in Nat /\ d.items[k].broken \in Stages
    /\ d.items[k].vars # Missing => IsSequence(d.items[k].vars)
ASSUME DocsAssumption ==
  \A d \in Docs :
    /\ Known(d) => IsSequence(d.items)
    /\ d.format = "json" => JsonDoc(d)
    /\ d.format \in {"shn", "mc4"} => ShnDoc(d)
    /\ d.format = "shnext" => ExtDoc(d)

Init ==
  /\ file = NoFile /\ cheatBlocks = <<>> /\ patchBlocks = <<>> /\ fresh = 1 /\ cheat = NoRef
  /\ doc \in Docs /\ pc = "start" /\ item = 1 /\ line = 1
  /\ result = FALSE /\ short = FALSE /\ clear = {} /\ bared = {}

\* a call begins: what the last one gave has been seen
Begin(there) ==
  /\ pc \in {"start", "done"} /\ pc' = there
  /\ item' = 1 /\ line' = 1 /\ short' = FALSE /\ bared' = {} /\ result' = FALSE
  /\ UNCHANGED clear
LoadFile ==
  /\ doc' \in Docs /\ Begin(IF Known(doc') THEN "open" ELSE "return") /\ Clear
LoadBuffer ==
  /\ doc' \in {d \in Docs : Known(d) /\ ~d.empty} /\ Begin("parse") /\ UNCHANGED fileVars
LoadNothing ==
  /\ doc' \in {d \in Docs : ~Known(d) \/ d.empty} /\ Begin("return") /\ Clear

\* fopen, the length, the buffer, and fread into it
OpenFile ==
  /\ At("open", "read") /\ ~doc.empty /\ UNCHANGED <<fileVars, parser>>
OpenFails ==
  /\ pc = "open" /\ (doc.empty \/ Faults \cap {"file", "memory"} # {})
  /\ NoteShort(~doc.empty) /\ Give(FALSE)
  /\ UNCHANGED <<fileVars, doc, item, line, clear, bared>>
ReadFile ==
  /\ At("read", "parse") /\ Buffers(clear \cup {"file"})
  /\ UNCHANGED <<fileVars, doc, item, line, result, short>>
ReadFails ==
  /\ pc = "read" /\ "file" \in Faults /\ Give(FALSE) /\ short' = TRUE
  /\ Buffers(clear \cup {"file"}) /\ UNCHANGED <<fileVars, doc, item, line>>
\* the parser for the extension, which begins by clearing the file
Parse ==
  /\ pc = "parse"
  /\ pc' = IF doc.format = "shnext" THEN "ext" ELSE doc.format
  /\ Clear /\ UNCHANGED parser
\* mutant: only a file that was parsed is wiped
ReturnInHaste ==
  /\ At("return", "done") /\ (IF result THEN Wipe("file") ELSE Drop("file"))
  /\ UNCHANGED <<fileVars, doc, item, line, result, short>>
Return ==
  /\ At("return", "done") /\ Wipe("file")
  /\ UNCHANGED <<fileVars, doc, item, line, result, short>>

Next ==
  \/ LoadFile \/ LoadBuffer \/ LoadNothing \/ OpenFile \/ OpenFails \/ ReadFile \/ ReadFails
  \/ Parse \/ JsonParse \/ ShnParse \/ ExtParse \/ Return
Spec == Init /\ [][Next]_allVars

-----------------------------------------------------------------------------
(* Properties. *)

Accepts(d) ==
  /\ Known(d) /\ ~d.empty
  /\ CASE d.format = "json" -> JsonAccepts(d)
       [] d.format = "shnext" -> ExtAccepts(d)
       [] OTHER -> ShnAccepts(d)
Cheats(d) == CASE d.format = "json" -> JsonCheats(d)
               [] d.format = "shnext" -> ExtCheats(d)
               [] OTHER -> ShnCheats(d)
Names(d) == CASE d.format = "json" -> JsonNames(d)
              [] d.format = "shnext" -> ExtNames(d)
              [] OTHER -> ShnNames(d)

\* the tags of an SHN or MC4 document are nested
Tagged(d) == d.format \in {"shn", "mc4"} => Nested(d)
Seen(e) == [text |-> e.text, author |-> e.author,
            patches |-> [i \in 1..e.patch_count |-> patchBlocks[e.patches][i]]]
Published == [k \in 1..file.cheat_count |-> Seen(Slots[k])]
\* what is left of a document of independent entries when memory ran out now and then
Remains(got, d) ==
  \E of \in [DOMAIN got -> Opened(d)] :
    /\ \A j, k \in DOMAIN got : j < k => of[j] < of[k]
    /\ \A k \in DOMAIN got :
         /\ got[k].text = ExtCheat(d, of[k]).text /\ got[k].author = ExtCheat(d, of[k]).author
         /\ \A i \in DOMAIN got[k].patches : ExtPatch(got[k].patches[i], d.items[of[k]])
         /\ \A i, j \in DOMAIN got[k].patches :
              i < j => got[k].patches[i].of < got[k].patches[j].of

\* A load answers true just for a document its format allows, and then the file holds all
\* its cheats, in order and numbered from 0, each with all its patches and their bytes, and
\* its authors once each; false leaves the file empty. Where memory runs out, JSON, SHN and
\* MC4 refuse the document, and SHNEXT keeps part of it. Nothing of the file loaded before
\* remains (cheat_parser_factory.cpp:61-87 and the parsers).
GivesTheDocument ==
  pc = "done" =>
    /\ ~short /\ Tagged(doc) => (result <=> Accepts(doc))
    /\ ~result => file = NoFile
    /\ result =>
         /\ \A k \in 1..file.cheat_count : Slots[k].id = k - 1
         /\ IF doc.format = "shnext" /\ short THEN Remains(Published, doc)
            ELSE Tagged(doc) => Published = Cheats(doc) /\ file.authors = Names(doc)
\* When a load is over no buffer with text of the document in the clear has been given back
\* as it was, except an entry of an SHNEXT file that got no slot: ONIONHEN_MIGRATION_PLAN.md
\* (lines 163 and 193) asks for buffers to be zeroed (secure_zero in the parsers).
DecryptedIsWiped ==
  pc = "done" =>
    /\ clear = {} /\ bared \subseteq {"entry"}
    /\ bared # {} => doc.format = "shnext"
                     /\ (short \/ Cardinality(Opened(doc)) > file.cheat_count)
=============================================================================
