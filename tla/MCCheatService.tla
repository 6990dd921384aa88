--------------------------- MODULE MCCheatService ---------------------------
(* Small instances of CheatService for TLC: eight cells, a module at cell 4, two   *)
(* process ids and two starts of the same title.                                   *)
EXTENDS CheatService

MCBase == [p \in Pids |-> 4]
MCImage == [p \in Pids |-> [x \in Cells |-> IF x \in 4..7 THEN 0 ELSE Unmapped]]
MCTitleOf == [a \in Apps |-> "t1"]

P(o, on, off) == [offset |-> o, absolute |-> FALSE, assembly |-> FALSE,
                  section |-> TRUE, on |-> on, off |-> off]
Cheat(patches) == [master |-> FALSE, mc |-> FALSE, patches |-> patches]

\* two versions of one file: the second swaps what the cheats of the first do
First == <<Cheat(<<P(0, <<1>>, <<0>>)>>), Cheat(<<P(1, <<1>>, <<0>>)>>)>>
Second == <<Cheat(<<P(1, <<1>>, <<0>>)>>)>>

\* one whose cheats overlap: a patch of the first begins in the module's last cell and
\* crosses into a page nobody has mapped, so that a code cave replaces cells of the second
HardBase == [p \in Pids |-> 2]
HardImage == [p \in Pids |-> [x \in Cells |-> IF x \in 2..5 THEN 0 ELSE Unmapped]]
Crossing == <<Cheat(<<P(0, <<1>>, <<0>>), P(3, <<1, 2>>, <<0, 0>>)>>), Cheat(<<P(2, <<1>>, <<0, 0>>)>>)>>

OneFormat == <<"json">>
TwoFormats == <<"json", "shn">>
PlainDocs == {First, Second}
HardDocs == {Crossing, Second}
\* their patches put back what the game has there, as those of the plain ones do
ASSUME FilesAreHonest == HonestDocs
Lifetime == {Toggle(1, TRUE), Toggle(1, FALSE), Toggle(2, TRUE), Refresh, Stop}
Refreshes == {Refresh}
=============================================================================
