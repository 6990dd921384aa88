------------------------------ MODULE CheatParser ------------------------------
(* What the parsers share: the document, the place they have got to in it, the     *)
(* values of patches (src/parsers/parser_utils.cpp), and the buffers that hold     *)
(* text of the document. A document is what its bytes say, not the bytes.          *)
EXTENDS CheatFile, FiniteSets

CONSTANTS
  MaxPatchBytes,  \* kMaxPatchBytes
  HexDigits       \* the digits values are written with; "-" and others are not

ASSUME ValueAssumption == MaxPatchBytes \in Nat \ {0}

VARIABLES
  doc,       \* the document
  pc,        \* where the parser is
  item,      \* the item of the document it is at
  line,      \* the patch it is at
  result,    \* what it returns
  short,     \* history: memory or a file failed
  clear,     \* buffers that hold text in the clear
  bared      \* history: buffers given back with the text still in them

parser == <<doc, item, line, result, short, clear, bared>>
allVars == <<fileVars, parser, pc>>

At(here, there) == pc = here /\ pc' = there
Buffers(c) == clear' = c /\ UNCHANGED bared
\* secure_zero and free; and free alone
Wipe(b) == clear' = clear \ {b} /\ UNCHANGED bared
Drop(b) == clear' = clear \ {b} /\ bared' = bared \cup ({b} \cap clear)
NoteShort(cond) == short' = (short \/ cond)
Give(v) == pc' = "return" /\ result' = v
\* clear_cheat_file and return false
Reject == Clear /\ Give(FALSE) /\ UNCHANGED <<doc, item, line, clear, bared>>
Goes(here, there) ==
  /\ At(here, there) /\ UNCHANGED <<fileVars, doc, result, short, clear, bared>>
Skip == item' = item + 1 /\ line' = 1

-----------------------------------------------------------------------------
(* Values of patches: sequences of characters. *)

Longest == 2 * MaxPatchBytes      \* what fits in the buffer, one byte less than its size
Cut(v) == IF Len(v) > Longest THEN SubSeq(v, 1, Longest) ELSE v
\* a finite set of numbers from the least up, and the elements of v at those places (the
\* sequences that SelectSeq and SetToSortSeq give, without the recursion they are defined by)
Ordered(S) ==
  [n \in 1..Cardinality(S) |-> CHOOSE k \in S : Cardinality({j \in S : j < k}) = n - 1]
Pick(v, S) == [n \in 1..Cardinality(S) |-> v[Ordered(S)[n]]]
Undashed(v) == Pick(v, {i \in DOMAIN v : v[i] # "-"})

\* decode_hex: an odd number of digits begins with half a byte
IsHex(v) == \A i \in DOMAIN v : v[i] \in HexDigits
Fits(v) == (Len(v) + 1) \div 2 <= MaxPatchBytes
PaddedLast(v) == IF Len(v) % 2 = 0 THEN v ELSE Append(v, "0")    \* mutant: half a byte at the end
Padded(v) == IF Len(v) % 2 = 0 THEN v ELSE <<"0">> \o v
Decoded(v) == [k \in 1..(Len(Padded(v)) \div 2) |-> <<Padded(v)[2 * k - 1], Padded(v)[2 * k]>>]
Decodes(v) == Fits(v) /\ IsHex(v) /\ Len(v) > 0

\* parse_patch of JSON, and of SHN, which takes the dashes out of what has been cut
JsonDigits(v) == Cut(v)
ShnDigits(v) == Undashed(Cut(v))
Sound(t, on, off) == t.sound /\ Decodes(on) /\ Decodes(off)
ParsedPatch(i, on, off) ==
  [of |-> i, on |-> Decoded(on), off |-> Decoded(off), assembly |-> FALSE]
=============================================================================
