----------------------------- MODULE MCGameMemory -----------------------------
(* GameMemory for TLC: three levels of two entries, pages of two cells, twice the    *)
(* sixteen addresses that the tables distinguish, and every kernel call failing.      *)
EXTENDS GameMemory

MCSpans == [l \in 0..Levels |-> 2 * Fan ^ l]
Pg(v, p, l) == [v |-> v, p |-> p, level |-> l]
\* small pages apart and out of order; a large page between small ones; a huge page; holes
Scattered == {Pg(2, 8, 0), Pg(4, 2, 0), Pg(6, 6, 0), Pg(12, 12, 0), Pg(14, 0, 0)}
Mixed == {Pg(0, 0, 0), Pg(2, 10, 0), Pg(4, 4, 1), Pg(8, 14, 0)}
MCLayouts == {
  Scattered, Mixed,
  {Pg(0, 8, 2), Pg(8, 4, 1), Pg(12, 2, 0)},
  {Pg(2, 4, 0), Pg(6, 0, 0), Pg(8, 8, 2)}}
Spot(l, a, n) == [layout |-> l, first |-> a, size |-> n]
\* in one page, over two, on the edge of a page, in a large page, at the end of the space
MCSpots == {Spot(Scattered, 9, 1), Spot(Scattered, 7, 3), Spot(Scattered, 10, 2),
            Spot(Mixed, 5, 2), Spot(Mixed, 28, 1), Spot(Mixed, 30, 1)}
AllFaults == {"attach", "getregs", "resolve", "setregs", "step", "mmap", "protect", "kernel"}
=============================================================================
