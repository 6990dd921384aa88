--------------------------- MODULE MCCheatApplier ---------------------------
(* Small instances of CheatApplier for TLC: 16 cells in pages of 4, a module   *)
(* at cell 4 whose only page is 4..7, a free page at 8..11 for code caves.      *)
EXTENDS CheatApplier

MCBase == [p \in Pids |-> 4]
MCImage == [p \in Pids |-> [x \in Cells |-> IF x \in 4..7 THEN 0 ELSE Unmapped]]

P(o, on, off) == [offset |-> o, absolute |-> FALSE, assembly |-> FALSE,
                  section |-> TRUE, on |-> on, off |-> off]
Absolute(o, on, off) == [P(o, on, off) EXCEPT !.absolute = TRUE]
Assembly(o, on, off) == [P(o, on, off) EXCEPT !.assembly = TRUE]
Cheat(patches) == [master |-> FALSE, mc |-> FALSE, patches |-> patches]
Master(patches) == [Cheat(patches) EXCEPT !.master = TRUE]
Follower(patches) == [Cheat(patches) EXCEPT !.mc = TRUE]

\* disjoint cheats: one with overlapping patches, one whose second patch is half in a page
\* that is mapped, so that its code cave replaces what both cheats have written there
Plain == << Cheat(<<P(0, <<1, 1>>, <<0, 0>>), P(1, <<2>>, <<0>>)>>),
            Cheat(<<P(2, <<1>>, <<0>>), P(3, <<2, 1>>, <<0, 1>>)>>) >>
\* cheats that fail half way: assembly, overflow, sizes no cave may be made for
Odd == << Cheat(<<P(0, <<1>>, <<0>>), Assembly(1, <<1>>, <<0>>)>>),
          Cheat(<<>>),
          Cheat(<<Absolute(6, <<1>>, <<0>>), P(4, <<2, 2>>, <<1>>)>>),
          Cheat(<<P(1, <<1>>, <<0>>), P(12, <<1>>, <<0>>)>>) >>
\* a master code and a follower whose bytes occur once in it
Mastered == << Master(<<P(0, <<1, 2>>, <<0, 0>>)>>),
               Follower(<<P(3, <<1>>, <<2>>)>>) >>

\* bound: cells left unknown at the same time, and none once a code cave has replaced some
FewStray == Cardinality(stray) <= IF wiped = {} THEN 1 ELSE 0

AllFiles == {Plain, Odd, Mastered}
MasteredFiles == {Mastered}
=============================================================================
