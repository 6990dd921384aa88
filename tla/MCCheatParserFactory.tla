-------------------------- MODULE MCCheatParserFactory --------------------------
EXTENDS CheatParserFactory

\* values: odd and even, with dashes, too long for their buffer, not hexadecimal, empty
Odd == <<"a">>
Even == <<"a", "b">>
Dashed == <<"a", "b", "-", "b", "a">>
Long == <<"a", "b", "b", "a", "b">>
Wrong == <<"x", "a">>
Line(on, off) == [tag |-> "line", sound |-> TRUE, on |-> on, off |-> off]
Fine == Line(Odd, Even)
Unsound == [Fine EXCEPT !.sound = FALSE]

Mods(memories) == [k \in DOMAIN memories |->
                     [closed |-> TRUE, name |-> TRUE, memory |-> memories[k]]]
Json(items) == [format |-> "json", empty |-> FALSE, header |-> TRUE, list |-> TRUE,
                credits |-> <<1, 2>>, authors |-> <<2, 0, 3>>, items |-> items]
OneMod == Json(Mods(<< <<Fine>> >>))
JsonDocs ==
  {Json(Mods(m)) : m \in {<<>>, << <<>> >>, << <<Fine, Line(Long, Dashed)>> >>,
     << <<Fine>>, <<Line(Even, Long), Fine>> >>, << <<Fine>>, <<Fine, Unsound>> >>,
     << <<Fine>>, <<Fine, Line(Wrong, Odd)>> >>, << <<Fine>>, <<>> >>,
     << <<Fine, Fine, Fine>> >>, << <<Fine, Fine, Fine, Fine>> >>, <<Missing>>,
     << <<Fine>>, <<Fine>>, <<Fine, Fine>> >>, << <<Fine>>, <<Fine>>, <<Fine>>, <<Fine>> >>}}
  \cup {[OneMod EXCEPT !.header = FALSE], [OneMod EXCEPT !.list = FALSE],
        [OneMod EXCEPT !.items[1].name = FALSE], [OneMod EXCEPT !.items[1].closed = FALSE]}

Opening(named) == [tag |-> "cheat", name |-> named]
Closing == [tag |-> "end"]
Shn(items) == [format |-> "shn", empty |-> FALSE, sealed |-> TRUE, header |-> TRUE,
               moder |-> 1, items |-> items]
OneCheat == <<Opening(TRUE), Fine, Closing>>
ShnDocs ==
  {Shn(s) : s \in {<<>>, OneCheat, OneCheat \o <<Opening(TRUE), Line(Long, Odd), Line(Even, Even), Closing>>,
     <<Opening(FALSE), Fine, Closing>>, <<Opening(TRUE), Closing>>,
     OneCheat \o <<Opening(TRUE), Line(Dashed, Even), Closing>>,
     OneCheat \o <<Opening(TRUE), Fine, Line(Wrong, Odd), Closing>>,
     OneCheat \o <<Opening(TRUE), Fine, Fine, Fine, Fine, Closing>>,
     OneCheat \o OneCheat \o OneCheat, OneCheat \o OneCheat \o OneCheat \o OneCheat,
     <<Unsound, Closing>> \o OneCheat \o <<Fine>> \o OneCheat,
     OneCheat \o <<Opening(TRUE), Fine>>, <<Opening(TRUE), Fine>> \o OneCheat}}
  \cup {[Shn(OneCheat) EXCEPT !.header = FALSE, !.moder = None]}
Mc4Docs == {[Shn(s) EXCEPT !.format = "mc4", !.sealed = ok] :
              s \in {OneCheat, <<Opening(TRUE), Unsound, Closing>>}, ok \in BOOLEAN}

Nops(n) == [kind |-> "nop", count |-> n]
Asm(n) == [kind |-> "asm", bytes |-> [k \in 1..n |-> Even]]
Vars(on, off, isNumber) == [number |-> isNumber, on |-> on, off |-> off]
Var == Vars(Nops(2), Asm(1), TRUE)
NoOffset == Vars(Nops(1), Nops(1), FALSE)
Entries(vars) == [k \in DOMAIN vars |->
  [string |-> TRUE, broken |-> "no", name |-> TRUE, author |-> k % 2, vars |-> vars[k]]]
Ext(items) == [format |-> "shnext", empty |-> FALSE, packed |-> TRUE, parses |-> TRUE,
               header |-> TRUE, list |-> TRUE, items |-> items]
OneEntry == Entries(<< <<Var>> >>)
Broken(stage) == [OneEntry EXCEPT ![1].broken = stage]
Unnamed(e) == [e EXCEPT ![1].name = FALSE]
ExtDocs ==
  {Ext(e) : e \in {<<>>, OneEntry, Entries(<< <<NoOffset, Var>>, <<Vars(Asm(3), Nops(3), TRUE), Var>> >>),
     Entries(<< <<Var>>, <<Var, Var>>, <<Var>>, <<Var>> >>), Entries(<< <<Var, Var, Var, Var>> >>),
     Entries(<< <<NoOffset>>, Missing, <<>> >>),
     Unnamed(Entries(<<Missing, <<Var>> >>)), Unnamed(OneEntry),
     [OneEntry EXCEPT ![1].string = FALSE]}
     \cup {Broken(stage) \o OneEntry : stage \in {"cipher", "deflate", "json"}}}
  \cup {[Ext(OneEntry) EXCEPT !.packed = FALSE], [Ext(OneEntry) EXCEPT !.parses = FALSE],
        [Ext(OneEntry) EXCEPT !.list = FALSE], [Ext(OneEntry) EXCEPT !.header = FALSE]}

AllDocs == JsonDocs \cup ShnDocs \cup Mc4Docs \cup ExtDocs
           \cup {[OneMod EXCEPT !.empty = TRUE], [OneMod EXCEPT !.format = "txt"]}
=============================================================================
