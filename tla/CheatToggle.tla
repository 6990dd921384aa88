---------------------------- MODULE CheatToggle ----------------------------
(* What CheatApplier promises to those who look at the game between its calls    *)
(* (README.md:112-114): switching a cheat is one step. Either one flag changes    *)
(* and, with it, the memory of one process, or the call fails, no flag changes    *)
(* and neither does the memory, except in cells that were declared lost.          *)
CONSTANTS Pids, NoPid, Cells

VARIABLES
  memory,  \* memory[p]: the memory of process p, as calls that are over left it
  flags,   \* flags[c]: cheat c is reported enabled
  pid,     \* the process the flags are about, or NoPid
  lost     \* cells <<p, x>> of which nothing is promised any more

vars == <<memory, flags, pid>>

OnlyIn(p) == \A q \in Pids \ {p} : memory'[q] = memory[q]
AllOff(f) == \A c \in DOMAIN f : ~f[c]

Init == AllOff(flags) /\ pid = NoPid

\* a cheat is switched on or off in process p
Switch(c, p) ==
  /\ pid \in {p, NoPid} /\ OnlyIn(p)
  /\ flags' = [flags EXCEPT ![c] = ~@] /\ pid' = p

\* the cheats turn out to live in another process: what was known of them is dropped
Drop ==
  /\ pid # NoPid /\ pid' = NoPid
  /\ AllOff(flags') /\ DOMAIN flags' = DOMAIN flags /\ UNCHANGED memory

\* a call fails in process p
Fail(p) ==
  /\ OnlyIn(p)
  /\ \A x \in Cells : memory'[p][x] # memory[p][x] => <<p, x>> \in lost
  /\ UNCHANGED <<flags, pid>>

Next ==
  \/ \E p \in Pids : Fail(p) \/ \E c \in DOMAIN flags : Switch(c, p)
  \/ Drop
Spec == Init /\ [][Next]_vars
=============================================================================
