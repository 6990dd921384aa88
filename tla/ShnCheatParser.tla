----------------------------- MODULE ShnCheatParser -----------------------------
(* ShnCheatParser::parse (src/parsers/shn_cheat_parser.cpp) and Mc4CheatParser::parse *)
(* (src/parsers/mc4_cheat_parser.cpp), which decrypts and hands on. The tags of a     *)
(* document are its items: a <Cheat ...> is [tag |-> "cheat", name], "end" is          *)
(* </Cheat>, "line" a <Cheatline> with its patch. Tags are searched for, not nested.   *)
EXTENDS JsonCheatParser

Tags(tag, from, to) == {k \in from..to : doc.items[k].tag = tag}
FirstTag(tag, from, to) ==
  CHOOSE k \in Tags(tag, from, to) : \A j \in Tags(tag, from, to) : k <= j
EndOfCheat == FirstTag("end", item, Len(doc.items))

\* Base64 and AES of an .mc4
Mc4Decrypt ==
  /\ At("mc4", "shn") /\ doc.sealed
  /\ Buffers(clear \cup {"plaintext"}) /\ UNCHANGED <<fileVars, doc, item, line, result, short>>
Mc4Fails ==
  /\ pc = "mc4" /\ (~doc.sealed \/ "memory" \in Faults)
  /\ Give(FALSE) /\ NoteShort(doc.sealed) /\ UNCHANGED <<fileVars, doc, item, line, clear, bared>>

\* the copy that is searched, and the attributes of <Trainer
ShnCopy ==
  /\ At("shn", "shn_trainer")
  /\ Buffers(clear \cup {"xml"}) /\ UNCHANGED <<fileVars, doc, item, line, result, short>>
ShnNoCopy ==
  /\ At("shn", "shn_return") /\ "memory" \in Faults
  /\ result' = FALSE /\ short' = TRUE /\ UNCHANGED <<fileVars, doc, item, line, clear, bared>>
ShnReject == Clear /\ pc' = "shn_return" /\ result' = FALSE /\ UNCHANGED <<doc, item, line, clear, bared>>
ShnTrainer ==
  /\ At("shn_trainer", "shn_cheat") /\ doc.header
  /\ file' = [file EXCEPT !.named = TRUE, !.authors = AddAuthor(@, doc.moder)]
  /\ UNCHANGED <<blocks, cheat, parser>>
ShnNoTrainer == pc = "shn_trainer" /\ ~doc.header /\ ShnReject /\ UNCHANGED short

\* the loop over <Cheat: item is where the search goes on, then the cheat's opening tag
More == Tags("cheat", item, Len(doc.items)) # {}
NextCheat == FirstTag("cheat", item, Len(doc.items))
Ended == Tags("end", NextCheat, Len(doc.items)) # {}
ShnCheat ==
  /\ At("shn_cheat", "shn_text") /\ More /\ Ended
  /\ EnsureCheat /\ item' = NextCheat /\ line' = NextCheat
  /\ UNCHANGED <<doc, result, short, clear, bared>>
ShnCheatRefused ==
  /\ pc = "shn_cheat" /\ More /\ (~Ended \/ CheatRefused)
  /\ ShnReject /\ NoteShort(Ended /\ MayGrow)
ShnText ==
  /\ At("shn_text", "shn_line") /\ doc.items[item].name
  /\ SetEntry([NoCheat EXCEPT !.text = item]) /\ UNCHANGED <<patchBlocks, cheat, parser>>
ShnNoText == pc = "shn_text" /\ ~doc.items[item].name /\ ShnReject /\ UNCHANGED short

\* the loop over <Cheatline> up to the cheat's </Cheat>
Lines == Tags("line", line, EndOfCheat)
NextLine == FirstTag("line", line, EndOfCheat)
ShnRoom ==
  /\ At("shn_line", "shn_value") /\ Lines # {} /\ EnsurePatch
  /\ line' = NextLine /\ UNCHANGED <<doc, item, result, short, clear, bared>>
ShnNoRoom ==
  /\ pc = "shn_line" /\ Lines # {} /\ PatchRefused
  /\ ShnReject /\ NoteShort(MayGrowPatches)
ShnOn == ShnDigits(doc.items[line].on)
ShnOff == ShnDigits(doc.items[line].off)
ShnValue ==
  /\ At("shn_value", "shn_line") /\ Sound(doc.items[line], ShnOn, ShnOff)
  /\ AddPatch(ParsedPatch(line, ShnOn, ShnOff))
  /\ line' = line + 1 /\ UNCHANGED <<doc, item, result, short, clear, bared>>
ShnBadValue ==
  /\ pc = "shn_value" /\ ~Sound(doc.items[line], ShnOn, ShnOff) /\ ShnReject /\ UNCHANGED short
ShnPublish ==
  /\ At("shn_line", "shn_cheat") /\ Lines = {} /\ Entry.patch_count > 0
  /\ Publish /\ item' = EndOfCheat + 1 /\ UNCHANGED <<doc, line, result, short, clear, bared>>
ShnNoLines ==
  /\ pc = "shn_line" /\ Lines = {} /\ Entry.patch_count = 0 /\ ShnReject /\ UNCHANGED short
ShnDone ==
  /\ At("shn_cheat", "shn_return") /\ ~More /\ file.cheat_count > 0
  /\ result' = TRUE /\ UNCHANGED <<fileVars, doc, item, line, short, clear, bared>>
ShnNoCheats ==
  /\ pc = "shn_cheat" /\ ~More /\ file.cheat_count = 0 /\ ShnReject /\ UNCHANGED short

\* both parsers zero what they decrypted or copied
ShnReturn ==
  /\ At("shn_return", "return")
  /\ Buffers(clear \ {"xml", "plaintext"}) /\ UNCHANGED <<fileVars, doc, item, line, result, short>>

ShnParse ==
  \/ Mc4Decrypt \/ Mc4Fails \/ ShnCopy \/ ShnNoCopy \/ ShnTrainer \/ ShnNoTrainer
  \/ ShnCheat \/ ShnCheatRefused \/ ShnText \/ ShnNoText
  \/ ShnRoom \/ ShnNoRoom \/ ShnValue \/ ShnBadValue \/ ShnPublish \/ ShnNoLines
  \/ ShnDone \/ ShnNoCheats \/ ShnReturn

-----------------------------------------------------------------------------
(* What a document says whose tags are nested as they should be: every "cheat" is      *)
(* followed by lines only, and then by its "end". Tags between cheats say nothing.     *)

Closes(d, k) == {e \in k..Len(d.items) : d.items[e].tag = "end"
                   /\ \A j \in (k + 1)..(e - 1) : d.items[j].tag = "line"}
Opens(d) == {k \in DOMAIN d.items : d.items[k].tag = "cheat"}
Nested(d) == \A k \in Opens(d) : Closes(d, k) # {}
InCheat(d, k) == {j \in (k + 1)..Len(d.items) : \E e \in Closes(d, k) : j < e}
ShnAccepts(d) ==
  /\ d.header /\ (d.format = "mc4" => d.sealed) /\ Cardinality(Opens(d)) \in 1..MaxCheats
  /\ \A k \in Opens(d) :
       /\ d.items[k].name /\ Cardinality(InCheat(d, k)) \in 1..MaxPatches
       /\ \A j \in InCheat(d, k) : GoodPatch(d.items[j], ShnDigits)
ShnCheats(d) ==
  LET opens == Ordered(Opens(d))
      lines(k) == Ordered(InCheat(d, k))
  IN [n \in DOMAIN opens |->
        [text |-> opens[n], author |-> None,
         patches |-> [i \in DOMAIN lines(opens[n]) |->
                        PatchOf(d.items[lines(opens[n])[i]], lines(opens[n])[i], ShnDigits)]]]
ShnNames(d) == Distinct(<<d.moder>>)
=============================================================================
