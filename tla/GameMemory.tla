------------------------------ MODULE GameMemory ------------------------------
(* The backends (src/memory/ps5_memory_backends.cpp) on the memory of one game, as *)
(* the applier calls them: a code cave is mapped over the pages of a range         *)
(* (CodeCave), then the range is copied through the page tables (KernelMemory).    *)
EXTENDS CodeCave, Sequences, FiniteSets

CONSTANTS
  Levels, Fan, Spans, AddrMax, PhysMax, Layouts, MaxSize,  \* of KernelMemory
  Spots      \* ranges caves are asked for: [layout, first, size]

ASSUME SizeAssumption ==
  /\ {Levels, Fan} \subseteq Nat \ {0} /\ {AddrMax, PhysMax, MaxSize} \subseteq Nat
  /\ Spans \in [0..Levels -> Nat \ {0}] /\ (PhysMax + 1) % Spans[0] = 0
  /\ \A l \in 1..Levels : Spans[l] = Fan * Spans[l - 1]

VARIABLES
  layout, phys, before, buffer, writing, first, address, remaining,
  level, table, physical, physicalEnd, at, copied, failed,     \* of KernelMemory
  given      \* what the game has mapped when it starts

Kernel == INSTANCE KernelMemory WITH pc <- at, result <- copied
ASSUME LayoutAssumption == \A l \in Layouts : Kernel!WellFormed(l)

walk == <<buffer, writing, first, address, remaining, level, table, physical, physicalEnd,
          at, copied, failed>>
memory == <<layout, phys, before>>
all == <<vars, walk, memory, given>>

-----------------------------------------------------------------------------
(* page_range. *)

PageCells == Spans[0]
Size == Kernel!Size
PageRangeFits ==
  /\ first # 0 /\ Size # 0 /\ Size <= AddrMax - first
  /\ first + Size <= AddrMax - (PageCells - 1)
PageStart == first - (first % PageCells)
\* mutant: the end is not rounded up
RoundedDown == ((first + Size) \div PageCells) * PageCells
PageEnd == ((first + Size + PageCells - 1) \div PageCells) * PageCells

\* mmap with MAP_FIXED: what was mapped in the range gives way, large pages are split,
\* and frames that nobody uses, filled with zeros, take its place.
Pages(a, b) == {v \in a .. b - 1 : v % PageCells = 0}
Small(v, p) == [v |-> v, p |-> p, level |-> 0]
Split(g) == {Small(v, g.p + v - g.v) : v \in Pages(g.v, g.v + Kernel!Span(g.level))}
Hit(g) == \E v \in Pages(PageStart, PageEnd) : Kernel!Holds(g, v)
Kept == {g \in layout : ~Hit(g)} \cup
        {s \in UNION {Split(g) : g \in {h \in layout : Hit(h)}} :
           s.v \notin Pages(PageStart, PageEnd)}
Used(g) == g.p .. g.p + Kernel!Span(g.level) - 1
Free == {p \in Pages(0, PhysMax + 1) : \A g \in Kept : p \notin Used(g)}
Frames == {f \in [Pages(PageStart, PageEnd) -> Free] :
             \A v, w \in DOMAIN f : f[v] = f[w] => v = w}
MapFixed ==
  \E f \in Frames :
    /\ layout' = Kept \cup {Small(v, f[v]) : v \in DOMAIN f}
    /\ phys' = [x \in DOMAIN phys |->
                  IF \E v \in DOMAIN f : x - (x % PageCells) = f[v] THEN 0 ELSE phys[x]]
    /\ before' = phys'

-----------------------------------------------------------------------------
MemoryInit == Init /\ Kernel!Init /\ given = layout

\* map_code_cave_common, called before the copy for the ranges of Spots
CallCave ==
  /\ at = "start" /\ [layout |-> given, first |-> first, size |-> Size] \in Spots
  /\ Call /\ (pc' = "attach" <=> PageRangeFits)
  /\ UNCHANGED <<walk, memory, given>>
Maps == pages' = "fresh" /\ pages # "fresh"
CaveWorks ==
  /\ Works
  /\ IF Maps THEN PageEnd <= Kernel!Span(Levels) /\ MapFixed ELSE UNCHANGED memory
  /\ UNCHANGED <<walk, given>>
GameDies == at = "start" /\ Die /\ UNCHANGED <<walk, memory, given>>
GameRestarts ==
  /\ at = "start" /\ Restart
  /\ layout' = given /\ UNCHANGED <<walk, phys, before, given>>
Copy ==
  /\ pc = "idle" /\ Alive /\ Kernel!Next
  /\ UNCHANGED <<vars, given>>

MemoryNext == CallCave \/ CaveWorks \/ GameDies \/ GameRestarts \/ Copy
MemorySpec == MemoryInit /\ [][MemoryNext]_all /\ WF_all(CaveWorks)

-----------------------------------------------------------------------------
(* Properties, with those of CodeCave and KernelMemory. *)

PrefixCopied == Kernel!PrefixCopied
SucceedsWhenMapped == Kernel!SucceedsWhenMapped

\* A cave that was made is exactly the pages that its range touches: every cell of them
\* is mapped and zero, at whatever offset the range starts and ends, and no cell of any
\* other page has moved (ps5_memory_backends.cpp:125-134 and 147-161).
Touched(x) == \E i \in 1..Size : (first + i - 1) \div PageCells = x \div PageCells
Where(l, x) == {g.p + x - g.v : g \in {h \in l : Kernel!Holds(h, x)}}
CaveIsTheRange ==
  result /\ pc = "idle" /\ Alive /\ at = "start" =>
    \A x \in 0 .. Kernel!Span(Levels) - 1 :
      IF Touched(x) THEN Kernel!Mapped(x) /\ phys[Kernel!Physical(x)] = 0
      ELSE Where(layout, x) = Where(given, x)
=============================================================================
