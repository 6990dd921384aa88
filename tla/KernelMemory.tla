----------------------------- MODULE KernelMemory -----------------------------
(* KdirectMemoryBackend::copy (src/memory/ps5_memory_backends.cpp): bytes of a    *)
(* game are read and written through the kernel's direct map. The page tables are *)
(* walked for every chunk, from the top level down, and a chunk ends where the    *)
(* page that was found ends.                                                      *)
EXTENDS Integers, Sequences

CONSTANTS
  Levels,      \* levels of page tables (four: shifts 39, 30, 21 and 12)
  Fan,         \* entries of a table (512)
  Spans,       \* cells that an entry of a table of each level stands for: 1 << shift
  AddrMax,     \* UINT64_MAX
  PhysMax,     \* last cell of physical memory
  Layouts,     \* what games have mapped: sets of pages [v, p, level]
  MaxSize,     \* bound on the size of a copy
  Faults       \* "kernel": copies of the kernel that fail

VARIABLES
  layout,    \* the pages of the game
  phys,      \* physical memory
  before,    \* history: physical memory when the copy began
  buffer,    \* the caller's buffer
  writing,   \* to_process
  first,     \* the address asked for
  address, remaining,        \* of copy
  level, table,              \* of virtual_to_physical: shift and table
  physical, physicalEnd,     \* what it found
  pc, result,
  failed     \* history: a copy of the kernel failed

vars == <<layout, phys, before, buffer, writing, first, address, remaining,
          level, table, physical, physicalEnd, pc, result, failed>>
inputs == <<layout, before, writing, first>>
data == <<phys, buffer>>
loop == <<address, remaining>>
found == <<physical, physicalEnd>>

Span(l) == Spans[l]
\* What the kernel may have mapped: aligned pages of physical memory in the space of the
\* tables, no two of them at one address.
Page(g) ==
  /\ g \in [v : Nat, p : Nat, level : 0 .. Levels - 1]
  /\ g.v % Span(g.level) = 0 /\ g.v + Span(g.level) <= Span(Levels)
  /\ g.p % Span(g.level) = 0 /\ g.p + Span(g.level) <= PhysMax + 1
Apart(g, h) == g.v + Span(g.level) <= h.v \/ h.v + Span(h.level) <= g.v
WellFormed(l) == \A g \in l : Page(g) /\ \A h \in l : g = h \/ Apart(g, h)

\* The tables the kernel keeps for a layout. A table is named by the part of the address
\* that leads to it; an entry is absent, a page, or another table.
Absent == [present |-> FALSE, page |-> FALSE, to |-> 0]
PageHere(l, n) == {g \in layout : g.level = l /\ g.v = n * Span(l)}
PagesBelow(l, n) == {g \in layout : g.level < l /\ g.v \div Span(l) = n}
Entry(l, n) ==
  IF PageHere(l, n) # {} THEN [present |-> TRUE, page |-> TRUE,
                               to |-> (CHOOSE g \in PageHere(l, n) : TRUE).p]
  ELSE IF PagesBelow(l, n) # {} THEN [present |-> TRUE, page |-> FALSE, to |-> n]
  ELSE Absent

-----------------------------------------------------------------------------
Init ==
  /\ layout \in Layouts
  /\ phys = [x \in 0..PhysMax |-> x % 3] /\ before = phys
  /\ writing \in BOOLEAN /\ first \in 0..AddrMax
  /\ \E n \in 0..MaxSize : /\ remaining = n
                           /\ buffer = [i \in 1..n |-> IF writing THEN 3 + i ELSE 0]
  /\ address = first /\ level = 0 /\ table = 0 /\ physical = 0 /\ physicalEnd = 0
  /\ pc = "start" /\ result = FALSE /\ failed = FALSE
Size == Len(buffer)

Refuse ==
  /\ pc = "start" /\ (first = 0 \/ Size = 0 \/ Size > AddrMax - first) /\ pc' = "done"
  /\ UNCHANGED <<inputs, data, loop, level, table, found, result, failed>>
\* page_table, and the top of the loop
Begin ==
  /\ pc = "start" /\ first # 0 /\ Size # 0 /\ Size <= AddrMax - first /\ pc' = "next"
  /\ UNCHANGED <<inputs, data, loop, level, table, found, result, failed>>
NextChunk ==
  /\ pc = "next" /\ remaining > 0
  /\ pc' = "walk" /\ level' = Levels - 1 /\ table' = 0
  /\ UNCHANGED <<inputs, data, loop, found, result, failed>>
AllCopied ==
  /\ pc = "next" /\ remaining = 0 /\ pc' = "done" /\ result' = TRUE
  /\ UNCHANGED <<inputs, data, loop, level, table, found, failed>>
KernelError ==
  /\ pc \in {"start", "walk", "copy"} /\ "kernel" \in Faults /\ pc' = "done" /\ failed' = TRUE
  /\ UNCHANGED <<inputs, data, loop, level, table, found, result>>

\* virtual_to_physical: one turn of its loop reads the entry of one level
Index(l) == (address \div Span(l)) % Fan
Read(l) == Entry(l, table * Fan + Index(l))
Offset(l) == address % Span(l)
NotMapped ==
  /\ pc = "walk" /\ ~Read(level).present /\ pc' = "done"
  /\ UNCHANGED <<inputs, data, loop, level, table, found, result, failed>>
\* mutant: the walk stays in the table it came from
SameTable ==
  /\ pc = "walk" /\ Read(level).present /\ ~Read(level).page /\ level' = level - 1
  /\ UNCHANGED <<inputs, data, loop, table, found, pc, result, failed>>
Descend ==
  /\ pc = "walk" /\ Read(level).present /\ ~Read(level).page
  /\ level' = level - 1 /\ table' = Read(level).to
  /\ UNCHANGED <<inputs, data, loop, found, pc, result, failed>>
\* mutant: a large page ends where a small one would
SmallEnd ==
  /\ pc = "walk" /\ Read(level).present /\ Read(level).page /\ pc' = "copy"
  /\ physical' = Read(level).to + Offset(0)
  /\ physicalEnd' = Read(level).to + Span(0)
  /\ UNCHANGED <<inputs, data, loop, level, table, result, failed>>
PageFound ==
  /\ pc = "walk" /\ Read(level).present /\ Read(level).page /\ pc' = "copy"
  /\ physical' = Read(level).to + Offset(level)
  /\ physicalEnd' = Read(level).to + Span(level)
  /\ UNCHANGED <<inputs, data, loop, level, table, result, failed>>

Chunk == IF physicalEnd - physical > remaining THEN remaining ELSE physicalEnd - physical
Done == Size - remaining
CopyChunk ==
  /\ pc = "copy" /\ pc' = "next"
  /\ LET n == Chunk
     IN /\ IF writing
           THEN phys' = [x \in DOMAIN phys |-> IF x \in physical .. physical + n - 1
                           THEN buffer[Done + 1 + x - physical] ELSE phys[x]] /\ UNCHANGED buffer
           ELSE buffer' = [i \in DOMAIN buffer |-> IF i \in Done + 1 .. Done + n
                             THEN phys[physical + i - Done - 1] ELSE buffer[i]] /\ UNCHANGED phys
        /\ address' = address + n /\ remaining' = remaining - n
  /\ UNCHANGED <<inputs, level, table, found, result, failed>>

Finished == pc = "done" /\ UNCHANGED vars
Walk == NotMapped \/ Descend \/ PageFound
Next == Refuse \/ Begin \/ NextChunk \/ AllCopied \/ KernelError \/ Walk \/ CopyChunk \/ Finished
Spec == Init /\ [][Next]_vars

-----------------------------------------------------------------------------
(* Properties. The reference knows pages, not tables. *)

Holds(g, x) == x \in g.v .. g.v + Span(g.level) - 1
Mapped(x) == \E g \in layout : Holds(g, x)
Physical(x) == LET g == CHOOSE g \in layout : Holds(g, x) IN g.p + x - g.v

\* The cells asked for, in order; an address beyond the space of the tables is taken for
\* the one its low bits name (line 236).
Cell(i) == (first + i - 1) % Span(Levels)
From(n, x) == {i \in 1..n : Physical(Cell(i)) = x}
CopiedOut(n) == phys = before /\ \A i \in 1..n : buffer[i] = before[Physical(Cell(i))]
CopiedIn(n) ==
  \A x \in DOMAIN phys : IF From(n, x) = {} THEN phys[x] = before[x]
                         ELSE \E i \in From(n, x) : phys[x] = buffer[i]

\* At any moment the game and the buffer are as if the cells had been copied one by one
\* up to here, whatever pages of whatever size they lie in: a copy that fails has
\* written a prefix of mapped cells and nothing else (ps5_memory_backends.cpp:261-281).
PrefixCopied ==
  /\ \A i \in 1..Done : Mapped(Cell(i))
  /\ IF writing THEN CopiedIn(Done) ELSE CopiedOut(Done)

\* When the kernel's own copies do not fail, a copy that is not refused at once succeeds
\* if and only if every cell is mapped (ps5_memory_backends.cpp:229-281).
SucceedsWhenMapped ==
  pc = "done" /\ ~failed =>
    (result <=> /\ first # 0 /\ Size \in 1 .. AddrMax - first
                /\ \A i \in 1..Size : Mapped(Cell(i)))
=============================================================================
