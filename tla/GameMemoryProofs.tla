--------------------------- MODULE GameMemoryProofs ---------------------------
(* Proofs about the memory backends. Of CodeCave, for any number of steps, calls and *)
(* failures: the game gets its registers back, is let go, and a call that returns    *)
(* true has made its cave. Of KernelMemory on top of it, for tables of any size and  *)
(* whatever the game has mapped: a copy is as if made cell by cell.                  *)
EXTENDS GameMemory, WellFoundedInduction, TLAPS

-----------------------------------------------------------------------------
(* The inductive invariant of CodeCave. The properties speak of a game that runs, or of a call  *)
(* that is over; they follow from what the call knows while the game is stopped:    *)
(* dirty_ is set whenever the registers may be foreign, and backup_ is the game's   *)
(* own registers whenever they may be written back.                                 *)

Inside == {"getregs", "resolve", "setregs", "step", "restore", "protect", "release"}
Stops == game = "stopped" => pc \in Inside \cup {"detach"}
Held == pc \in Inside => game # "runs"
DirtyOnlyInside == dirty => pc \in {"step", "restore", "release"}
DirtyInCall == pc \in {"step", "restore"} => dirty
CleanIsOwn == ~dirty /\ Alive => regs = "own" \/ stuck
BackupIsOwn == pc \in Inside \ {"getregs"} /\ Alive => backup = "own" \/ stuck
Attached == attached => pc \in Inside \cup {"wait", "detach"}
MappedIsFresh == mapped => pc \in {"step", "restore", "protect", "release", "detach", "done", "idle"}
FreshPages == mapped /\ pc \in {"step", "restore", "protect"} /\ Alive => pages = "fresh"
ToProtect == pc = "protect" => mapped /\ ~dirty /\ (Alive => regs = backup)
CaveMade ==
  result => /\ pc \in {"release", "detach", "done", "idle"} /\ ~dirty
            /\ Alive => pages = "executable" /\ regs = backup
                        /\ (pc \in {"done", "idle"} => game = "runs")

\* TypeOK in two halves, for the provers: the counters, and the rest
Counters == steps \in 0..StepLimit /\ calls \in 0..MaxCalls
Shapes ==
  /\ game \in {"runs", "stopped", "dead"}
  /\ regs \in Remote \cup {"own"} /\ backup \in Remote \cup {"own"}
  /\ pages \in {"before", "fresh", "executable"}
  /\ attached \in BOOLEAN /\ dirty \in BOOLEAN /\ mapped \in BOOLEAN
  /\ result \in BOOLEAN /\ stuck \in BOOLEAN
  /\ pc \in {"idle", "attach", "wait", "getregs", "resolve", "setregs", "step", "restore",
             "protect", "release", "detach", "done"}

IInv ==
  /\ Shapes /\ Stops /\ Held /\ DirtyOnlyInside /\ DirtyInCall /\ CleanIsOwn /\ BackupIsOwn
  /\ Attached /\ MappedIsFresh /\ FreshPages /\ ToProtect /\ CaveMade

LEMMA InitInv == Init => IInv
BY DEF Init, IInv, Shapes, Stops, Held, DirtyOnlyInside, DirtyInCall, CleanIsOwn, BackupIsOwn,
       Attached, MappedIsFresh, FreshPages, ToProtect, CaveMade, Inside, Alive, Remote

\* Every action keeps the shapes: nothing but its own assignments is needed.
LEMMA ShapesInv ==
  ASSUME Shapes, [Next]_vars
  PROVE  Shapes'
<1> USE DEF Shapes, Remote, target
<1>1. CASE Call
  BY <1>1 DEF Call
<1>2. CASE Attach
  BY <1>2 DEF Attach
<1>3. CASE AttachError
  BY <1>3 DEF AttachError
<1>4. CASE WaitStopped
  BY <1>4 DEF WaitStopped
<1>5. CASE WaitDead
  BY <1>5 DEF WaitDead
<1>6. CASE GetRegs
  BY <1>6 DEF GetRegs
<1>7. CASE GetRegsError
  BY <1>7 DEF GetRegsError
<1>8. CASE Resolve
  BY <1>8 DEF Resolve
<1>9. CASE ResolveError
  BY <1>9 DEF ResolveError
<1>10. CASE SetRegs
  BY <1>10 DEF SetRegs
<1>11. CASE SetRegsError
  BY <1>11 DEF SetRegsError
<1>12. CASE Step
  BY <1>12 DEF Step, MayStep, Progress
<1>13. CASE StepError
  BY <1>13 DEF StepError, MayStep, Progress
<1>14. CASE GaveUp
  BY <1>14 DEF GaveUp
<1>15. CASE Returned
  BY <1>15 DEF Returned
<1>16. CASE Restore
  BY <1>16 DEF Restore, PutBack
<1>17. CASE RestoreError
  BY <1>17 DEF RestoreError
<1>18. CASE Protect
  BY <1>18 DEF Protect
<1>19. CASE ProtectError
  BY <1>19 DEF ProtectError
<1>20. CASE ReleaseClean
  BY <1>20 DEF ReleaseClean
<1>21. CASE ReleaseDirty
  BY <1>21 DEF ReleaseDirty, PutBack
<1>22. CASE ReleaseError
  BY <1>22 DEF ReleaseError
<1>23. CASE Detach
  BY <1>23 DEF Detach
<1>24. CASE Return
  BY <1>24 DEF Return
<1>25. CASE Die
  BY <1>25 DEF Die
<1>26. CASE Restart
  BY <1>26 DEF Restart
<1>27. CASE UNCHANGED vars
  BY <1>27 DEF vars
<1> QED BY <1>1, <1>2, <1>3, <1>4, <1>5, <1>6, <1>7, <1>8, <1>9, <1>10, <1>11, <1>12,
           <1>13, <1>14, <1>15, <1>16, <1>17, <1>18, <1>19, <1>20, <1>21, <1>22,
           <1>23, <1>24, <1>25, <1>26, <1>27 DEF Next, Works, Invoke

\* One step per action; the destructors and the loop are where an invariant could break.
LEMMA NextInv ==
  ASSUME IInv, [Next]_vars
  PROVE  IInv'
<1>0. Shapes'
  BY ShapesInv DEF IInv
<1> USE DEF IInv, Shapes, Stops, Held, DirtyOnlyInside, DirtyInCall, CleanIsOwn, BackupIsOwn,
        Attached, MappedIsFresh, FreshPages, ToProtect, CaveMade, Inside, Alive, Remote,
        target
<1>1. CASE Call
  BY <1>0, <1>1 DEF Call
<1>2. CASE Attach
  BY <1>0, <1>2 DEF Attach
<1>3. CASE AttachError
  BY <1>0, <1>3 DEF AttachError
<1>4. CASE WaitStopped
  <2> USE <1>4 DEF WaitStopped
  <2>1. Stops' /\ Held'
    OBVIOUS
  <2>2. DirtyOnlyInside' /\ DirtyInCall' /\ CleanIsOwn' /\ BackupIsOwn'
    OBVIOUS
  <2>3. Attached' /\ MappedIsFresh' /\ FreshPages'
    OBVIOUS
  <2>4. ToProtect' /\ CaveMade'
    OBVIOUS
  <2> QED BY <1>0, <2>1, <2>2, <2>3, <2>4 DEF IInv
<1>5. CASE WaitDead
  BY <1>0, <1>5 DEF WaitDead
<1>6. CASE GetRegs
  BY <1>0, <1>6 DEF GetRegs
<1>7. CASE GetRegsError
  BY <1>0, <1>7 DEF GetRegsError
<1>8. CASE Resolve
  BY <1>0, <1>8 DEF Resolve
<1>9. CASE ResolveError
  BY <1>0, <1>9 DEF ResolveError
<1>10. CASE SetRegs
  <2> USE <1>10 DEF SetRegs
  <2>1. Stops' /\ Held'
    OBVIOUS
  <2>2. DirtyOnlyInside' /\ DirtyInCall' /\ CleanIsOwn' /\ BackupIsOwn'
    OBVIOUS
  <2>3. Attached' /\ MappedIsFresh' /\ FreshPages'
    OBVIOUS
  <2>4. ToProtect' /\ CaveMade'
    OBVIOUS
  <2> QED BY <1>0, <2>1, <2>2, <2>3, <2>4 DEF IInv
<1>11. CASE SetRegsError
  BY <1>0, <1>11 DEF SetRegsError
<1>12. CASE Step
  <2> USE <1>12 DEF Step, MayStep, Progress
  <2>1. Stops' /\ Held'
    OBVIOUS
  <2>2. DirtyOnlyInside' /\ DirtyInCall' /\ CleanIsOwn' /\ BackupIsOwn'
    OBVIOUS
  <2>3. Attached' /\ MappedIsFresh' /\ FreshPages'
    OBVIOUS
  <2>4. ToProtect' /\ CaveMade'
    OBVIOUS
  <2> QED BY <1>0, <2>1, <2>2, <2>3, <2>4 DEF IInv
<1>13. CASE StepError
  <2> USE <1>13 DEF StepError, MayStep, Progress
  <2>1. Stops' /\ Held'
    OBVIOUS
  <2>2. DirtyOnlyInside' /\ DirtyInCall' /\ CleanIsOwn' /\ BackupIsOwn'
    OBVIOUS
  <2>3. Attached' /\ MappedIsFresh' /\ FreshPages'
    OBVIOUS
  <2>4. ToProtect' /\ CaveMade'
    OBVIOUS
  <2> QED BY <1>0, <2>1, <2>2, <2>3, <2>4 DEF IInv
<1>14. CASE GaveUp
  BY <1>0, <1>14 DEF GaveUp
<1>15. CASE Returned
  BY <1>0, <1>15 DEF Returned
<1>16. CASE Restore
  BY <1>0, <1>16 DEF Restore, PutBack
<1>17. CASE RestoreError
  BY <1>0, <1>17 DEF RestoreError
<1>18. CASE Protect
  BY <1>0, <1>18 DEF Protect
<1>19. CASE ProtectError
  BY <1>0, <1>19 DEF ProtectError
<1>20. CASE ReleaseClean
  BY <1>0, <1>20 DEF ReleaseClean
<1>21. CASE ReleaseDirty
  BY <1>0, <1>21 DEF ReleaseDirty, PutBack
<1>22. CASE ReleaseError
  BY <1>0, <1>22 DEF ReleaseError
<1>23. CASE Detach
  <2> USE <1>23 DEF Detach
  <2>1. Stops' /\ Held'
    OBVIOUS
  <2>2. DirtyOnlyInside' /\ DirtyInCall' /\ CleanIsOwn' /\ BackupIsOwn'
    OBVIOUS
  <2>3. Attached' /\ MappedIsFresh' /\ FreshPages'
    OBVIOUS
  <2>4. ToProtect' /\ CaveMade'
    OBVIOUS
  <2> QED BY <1>0, <2>1, <2>2, <2>3, <2>4 DEF IInv
<1>24. CASE Return
  BY <1>0, <1>24 DEF Return
<1>25. CASE Die
  <2> USE <1>25 DEF Die
  <2>1. Stops' /\ Held'
    OBVIOUS
  <2>2. DirtyOnlyInside' /\ DirtyInCall' /\ CleanIsOwn' /\ BackupIsOwn'
    OBVIOUS
  <2>3. Attached' /\ MappedIsFresh' /\ FreshPages'
    OBVIOUS
  <2>4. ToProtect' /\ CaveMade'
    OBVIOUS
  <2> QED BY <1>0, <2>1, <2>2, <2>3, <2>4 DEF IInv
<1>26. CASE Restart
  <2> USE <1>26 DEF Restart
  <2>1. Stops' /\ Held'
    OBVIOUS
  <2>2. DirtyOnlyInside' /\ DirtyInCall' /\ CleanIsOwn' /\ BackupIsOwn'
    OBVIOUS
  <2>3. Attached' /\ MappedIsFresh' /\ FreshPages'
    OBVIOUS
  <2>4. ToProtect' /\ CaveMade'
    OBVIOUS
  <2> QED BY <1>0, <2>1, <2>2, <2>3, <2>4 DEF IInv
<1>27. CASE UNCHANGED vars
  BY <1>0, <1>27 DEF vars
<1> QED BY <1>1, <1>2, <1>3, <1>4, <1>5, <1>6, <1>7, <1>8, <1>9, <1>10, <1>11, <1>12,
           <1>13, <1>14, <1>15, <1>16, <1>17, <1>18, <1>19, <1>20, <1>21, <1>22,
           <1>23, <1>24, <1>25, <1>26, <1>27 DEF Next, Works, Invoke

LEMMA Invariance == Spec => []IInv
BY InitInv, NextInv, PTL DEF Spec

-----------------------------------------------------------------------------
\* The variables keep their types, and the loop its limit (ps5_memory_backends.cpp:95).
THEOREM TypeCorrect == Spec => []TypeOK
<1>1. Init => Counters
  BY LimitAssumption DEF Init, Counters
<1>2. ASSUME Counters, [Next]_vars
      PROVE  Counters'
  <2> USE LimitAssumption DEF Counters
  <2>1. CASE Call
    BY <1>2, <2>1 DEF Call
  <2>2. CASE SetRegs
    BY <1>2, <2>2 DEF SetRegs
  <2>3. CASE Step
    BY <1>2, <2>3 DEF Step, MayStep
  <2>4. CASE UNCHANGED <<steps, calls>>
    BY <1>2, <2>4
  <2> QED BY <1>2, <2>1, <2>2, <2>3, <2>4
             DEF Next, Works, Invoke, vars, Attach, AttachError, WaitStopped, WaitDead, GetRegs,
                 GetRegsError, Resolve, ResolveError, SetRegsError, StepError, GaveUp, Returned,
                 Restore, RestoreError, Protect, ProtectError, ReleaseClean, ReleaseDirty,
                 ReleaseError, Detach, Return, Die, Restart
<1>3. IInv /\ Counters => TypeOK
  BY DEF IInv, Shapes, Counters, TypeOK
<1> QED BY <1>1, <1>2, <1>3, Invariance, PTL DEF Spec

\* Whatever failed, a game that runs on has its own registers, unless the destructor
\* itself could not write them back (ps5_memory_backends.cpp:64, 99-104 and 110-117).
THEOREM RegistersAreRestored == Spec => []RegistersRestored
<1>1. IInv => RegistersRestored
  BY DEF IInv, RegistersRestored, Held, DirtyOnlyInside, CleanIsOwn, Inside, Alive
<1> QED BY <1>1, Invariance, PTL

\* Between two calls nobody is attached and the game is not stopped (lines 43-45).
THEOREM GameIsLetGo == Spec => []LetGo
<1>1. IInv => LetGo
  BY DEF IInv, LetGo, Attached, Stops, Inside
<1> QED BY <1>1, Invariance, PTL

\* A call that returned true has left fresh executable pages and the game's registers
\* as it found them (lines 156-161).
THEOREM TrueMeansMapped == Spec => []TrueMeansCave
<1>1. IInv => TrueMeansCave
  BY DEF IInv, TrueMeansCave, CaveMade
<1> QED BY <1>1, Invariance, PTL

-----------------------------------------------------------------------------
(* Arithmetic of pages and tables.                                                 *)

LEMMA DivMod ==
  ASSUME NEW a \in Nat, NEW b \in Nat \ {0}
  PROVE  /\ a \div b \in Nat /\ a % b \in Nat /\ a % b < b
         /\ a = b * (a \div b) + (a % b)
OBVIOUS

LEMMA DivIs ==
  ASSUME NEW a \in Nat, NEW b \in Nat \ {0}, NEW q \in Nat, NEW r \in 0 .. b - 1, a = b * q + r
  PROVE  a \div b = q /\ a % b = r
OBVIOUS

LEMMA DivTwice ==
  ASSUME NEW a \in Nat, NEW b \in Nat \ {0}, NEW c \in Nat \ {0}
  PROVE  a \div (b * c) = (a \div b) \div c
OBVIOUS

LEMMA TimesOrder ==
  ASSUME NEW a \in Nat, NEW b \in Nat, NEW c \in Nat \ {0}, c * a < c * b
  PROVE  c * a + c <= c * b
<1>1. a < b  OBVIOUS
<1>2. c * (a + 1) <= c * b  BY <1>1
<1> QED BY <1>2

\* A multiple of b below another is a whole b below it.
LEMMA MultipleBelow ==
  ASSUME NEW x \in Nat, NEW y \in Nat, NEW b \in Nat \ {0}, x % b = 0, y % b = 0, x < y
  PROVE  x + b <= y
<1> DEFINE i == x \div b
           j == y \div b
<1>1. i \in Nat /\ j \in Nat /\ x = b * i /\ y = b * j  BY DivMod
<1> HIDE DEF i, j
<1> QED BY <1>1, TimesOrder

\* The largest k for which something holds, or the least, is found below a bound.
LEMMA Least ==
  ASSUME NEW T, T \subseteq Nat, T # {}
  PROVE  \E t \in T : \A u \in T : t <= u
<1>1. PICK t \in T : \A u \in T : ~(<<u, t>> \in OpToRel(<, Nat))
  BY NatLessThanWellFounded, WFMin
<1>2. \A u \in T : u \in Nat /\ t \in Nat  OBVIOUS
<1>3. \A u \in T : ~(u < t)  BY <1>1, <1>2, Zenon DEF OpToRel
<1> QED BY <1>2, <1>3

LEMMA SpanIs ==
  ASSUME NEW l \in 0 .. Levels
  PROVE  Kernel!Span(l) = Spans[l] /\ Spans[l] \in Nat \ {0} /\ Levels \in Nat \ {0}
BY SizeAssumption DEF Kernel!Span

\* What a table entry stands for is so many times what an entry further down stands for.
LEMMA Multiples ==
  ASSUME NEW k \in 0 .. Levels, NEW l \in k .. Levels
  PROVE  \E m \in Nat \ {0} : Spans[l] = Spans[k] * m
<1> DEFINE T == {t \in k .. Levels : ~ \E m \in Nat \ {0} : Spans[t] = Spans[k] * m}
<1> HIDE DEF T
<1>1. SUFFICES ASSUME T # {} PROVE FALSE  BY DEF T
<1>2. T \subseteq Nat  BY SizeAssumption DEF T
<1>3. PICK t \in T : \A u \in T : t <= u  BY <1>1, <1>2, Least
<1>4. t \in k .. Levels /\ k \in Nat /\ Levels \in Nat  BY <1>3, SizeAssumption DEF T
<1>5. t # k
  <2>1. Spans[k] = Spans[k] * 1  BY SpanIs
  <2> QED BY <2>1, <1>3 DEF T
<1>6. t - 1 \in k .. Levels /\ t - 1 \notin T  BY <1>2, <1>3, <1>4, <1>5
<1>7. PICK m \in Nat \ {0} : Spans[t - 1] = Spans[k] * m  BY <1>6 DEF T
<1>8. Spans[t] = Fan * Spans[t - 1] /\ Fan \in Nat \ {0}  BY <1>4, <1>5, SizeAssumption
<1>9. Spans[t] = Spans[k] * (Fan * m) /\ Fan * m \in Nat \ {0}
  BY <1>7, <1>8, SpanIs
<1> QED BY <1>3, <1>9 DEF T

\* The first and the last cell of a page, and whatever is between, have the same number.
LEMMA InBlock ==
  ASSUME NEW a \in Nat, NEW b \in Nat \ {0}, NEW x \in Nat, a % b = 0, a <= x, x < a + b
  PROVE  x \div b = a \div b /\ x % b = x - a /\ a = b * (a \div b)
<1> DEFINE q == a \div b
<1>1. q \in Nat /\ a = b * q  BY DivMod
<1> HIDE DEF q
<1>2. x = b * q + (x - a) /\ x - a \in 0 .. b - 1  BY <1>1
<1>3. x \div b = q /\ x % b = x - a  BY <1>1, <1>2, DivIs
<1> QED BY <1>1, <1>3 DEF q

-----------------------------------------------------------------------------
(* Pages, and the walk that finds the one that holds an address.                   *)

\* the address as the tables distinguish it
Low == address % Kernel!Span(Levels)

LEMMA PageIs ==
  ASSUME NEW g, Kernel!Page(g)
  PROVE  /\ g.v \in Nat /\ g.p \in Nat /\ g.level \in 0 .. Levels - 1 /\ g.level \in 0 .. Levels
         /\ Spans[g.level] \in Nat \ {0} /\ Kernel!Span(g.level) = Spans[g.level]
         /\ g.v % Spans[g.level] = 0 /\ g.v + Spans[g.level] <= Spans[Levels]
         /\ g.p % Spans[g.level] = 0 /\ g.p + Spans[g.level] <= PhysMax + 1
         /\ \A x : Kernel!Holds(g, x) <=> x \in Nat /\ g.v <= x /\ x < g.v + Spans[g.level]
<1>1. g \in [v : Nat, p : Nat, level : 0 .. Levels - 1]  BY DEF Kernel!Page
<1>2. g.v \in Nat /\ g.p \in Nat /\ g.level \in 0 .. Levels - 1  BY <1>1
<1>3. g.level \in 0 .. Levels /\ Levels \in 0 .. Levels  BY <1>2, SizeAssumption
<1>4. Kernel!Span(g.level) = Spans[g.level] /\ Spans[g.level] \in Nat \ {0}
      /\ Kernel!Span(Levels) = Spans[Levels]
  BY <1>3, SpanIs
<1>5. \A x : Kernel!Holds(g, x) <=> x \in Nat /\ g.v <= x /\ x < g.v + Spans[g.level]
  BY <1>2, <1>4 DEF Kernel!Holds
<1> QED BY <1>2, <1>3, <1>4, <1>5 DEF Kernel!Page

\* No two pages hold one address, so the address has one place in physical memory.
LEMMA OnePage ==
  ASSUME Kernel!WellFormed(layout), NEW g \in layout, NEW x, Kernel!Holds(g, x)
  PROVE  /\ \A h \in layout : Kernel!Holds(h, x) => h = g
         /\ Kernel!Mapped(x) /\ Kernel!Physical(x) = g.p + x - g.v
<1>1. ASSUME NEW h \in layout, Kernel!Holds(h, x) PROVE h = g
  <2>1. Kernel!Page(g) /\ Kernel!Page(h) /\ (g = h \/ Kernel!Apart(g, h))  BY DEF Kernel!WellFormed
  <2> QED BY <1>1, <2>1, PageIs DEF Kernel!Apart
<1>2. (CHOOSE h \in layout : Kernel!Holds(h, x)) = g  BY <1>1
<1> QED BY <1>1, <1>2 DEF Kernel!Mapped, Kernel!Physical

\* The place in the tables that the walk looks at is the one that Low leads to.
LEMMA EntryIs ==
  ASSUME NEW l \in 0 .. Levels - 1, address \in Nat, table = Low \div Kernel!Span(l + 1)
  PROVE  /\ Low \in Nat /\ Low < Spans[Levels]
         /\ table * Fan + Kernel!Index(l) = Low \div Spans[l]
         /\ Low % Spans[l] = address % Spans[l]
<1> DEFINE S == Spans[l]
           M == Spans[Levels]
           A == address
<1>1. l \in 0 .. Levels /\ l + 1 \in 0 .. Levels /\ Levels \in l + 1 .. Levels
      /\ Levels \in 0 .. Levels /\ (l + 1) - 1 = l /\ l + 1 \in 1 .. Levels
  BY SizeAssumption
<1>2. /\ Kernel!Span(l) = S /\ Kernel!Span(l + 1) = Fan * S /\ Kernel!Span(Levels) = M
      /\ S \in Nat \ {0} /\ M \in Nat \ {0} /\ Fan \in Nat \ {0}
  BY <1>1, SpanIs, SizeAssumption
<1>3. PICK m \in Nat \ {0} : M = (Fan * S) * m  BY <1>1, <1>2, Multiples, SpanIs
<1>4. Low = A % M /\ A \in Nat  BY <1>2 DEF Low
<1> HIDE DEF A, M, S
<1> DEFINE L == A % M
           k == A \div M
           f == L \div S
           r == L % S
<1>5. L \in Nat /\ L < M /\ k \in Nat /\ A = M * k + L  BY <1>2, <1>4, DivMod
<1>6. f \in Nat /\ r \in Nat /\ r < S /\ L = S * f + r  BY <1>2, <1>5, DivMod
<1> HIDE DEF f, r, k, L
<1>7. A = S * ((Fan * m) * k + f) + r /\ (Fan * m) * k + f \in Nat
  <2>1. M * k = S * ((Fan * m) * k)  BY <1>2, <1>3, <1>5
  <2>2. (Fan * m) * k \in Nat  BY <1>2, <1>5
  <2>3. S * ((Fan * m) * k + f) = S * ((Fan * m) * k) + S * f  BY <1>2, <1>6, <2>2
  <2> QED BY <1>2, <1>5, <1>6, <2>1, <2>2, <2>3
<1>8. A \div S = (Fan * m) * k + f /\ A % S = r  BY <1>2, <1>4, <1>6, <1>7, DivIs
<1> DEFINE t == f \div Fan
           i == f % Fan
<1>9. t \in Nat /\ i \in Nat /\ i < Fan /\ f = Fan * t + i  BY <1>2, <1>6, DivMod
<1> HIDE DEF t, i
<1>10. (A \div S) % Fan = i
  <2>1. (Fan * m) * k + f = Fan * (m * k + t) + i /\ m * k + t \in Nat
    <3>1. m * k \in Nat /\ (Fan * m) * k = Fan * (m * k)  BY <1>2, <1>5
    <3> QED BY <1>2, <1>9, <3>1
  <2> DEFINE n == A \div S
  <2>2. n = Fan * (m * k + t) + i /\ n \in Nat  BY <1>2, <1>7, <1>8, <2>1
  <2>3. i \in 0 .. Fan - 1  BY <1>2, <1>9
  <2> HIDE DEF n
  <2>4. n % Fan = i  BY <1>2, <2>1, <2>2, <2>3, DivIs
  <2> QED BY <2>4 DEF n
<1>11. L \div (Fan * S) = t
  <2>3. L \in Nat /\ S \in Nat \ {0} /\ Fan \in Nat \ {0}  BY <1>2, <1>5
  <2>1. L \div (S * Fan) = (L \div S) \div Fan  BY <2>3, DivTwice, Zenon
  <2>2. S * Fan = Fan * S  BY <1>2
  <2> QED BY <2>1, <2>2 DEF t, f
<1>12. table = t  BY <1>2, <1>4, <1>11 DEF L
<1>13. Kernel!Index(l) = i  BY <1>2, <1>10 DEF Kernel!Index, A
<1>14. table * Fan + Kernel!Index(l) = f  BY <1>2, <1>9, <1>12, <1>13
<1>15. Low = L  BY <1>4 DEF L
<1> QED BY <1>5, <1>8, <1>14, <1>15 DEF f, r, S, M, A

\* Of the pages of its level the entry leads to the one that holds the address, and to all
\* pages further down that do.
LEMMA EntryLeads ==
  ASSUME Kernel!WellFormed(layout), NEW l \in 0 .. Levels - 1, address \in Nat,
         NEW n, n = Low \div Spans[l], NEW g \in layout
  PROVE  /\ g.level = l => (Kernel!Holds(g, Low) <=> g.v = n * Kernel!Span(l))
         /\ g.level < l /\ Kernel!Holds(g, Low) => g.v \div Kernel!Span(l) = n
<1>1. Kernel!Page(g)  BY DEF Kernel!WellFormed
<1>2. l \in 0 .. Levels /\ Levels \in 0 .. Levels  BY SizeAssumption
<1>3. Kernel!Span(l) = Spans[l] /\ Spans[l] \in Nat \ {0} /\ Kernel!Span(Levels) \in Nat \ {0}
  BY <1>2, SpanIs
<1>4. Low \in Nat  BY <1>3, DivMod DEF Low
<1> DEFINE S == Spans[l]
           s == Spans[g.level]
<1>5. /\ g.v \in Nat /\ s \in Nat \ {0} /\ g.v % s = 0 /\ g.level \in 0 .. Levels
      /\ Kernel!Holds(g, Low) <=> g.v <= Low /\ Low < g.v + s
  BY <1>1, <1>4, PageIs
<1>6. n \in Nat /\ Low % S \in Nat /\ Low % S < S /\ Low = S * n + (Low % S)
  BY <1>3, <1>4, DivMod
<1>7. ASSUME g.level = l PROVE Kernel!Holds(g, Low) <=> g.v = n * S
  <2>1. s = S  BY <1>7
  <2>2. ASSUME Kernel!Holds(g, Low) PROVE g.v = n * S
    <3>1. Low \div s = g.v \div s /\ g.v = s * (g.v \div s)  BY <1>4, <1>5, <2>2, InBlock
    <3> QED BY <1>3, <1>6, <2>1, <3>1
  <2>3. ASSUME g.v = n * S PROVE Kernel!Holds(g, Low)
    <3>1. n * S = S * n  BY <1>3, <1>6
    <3> QED BY <1>3, <1>4, <1>5, <1>6, <2>1, <2>3, <3>1
  <2> QED BY <2>2, <2>3
<1>8. ASSUME g.level < l, Kernel!Holds(g, Low) PROVE g.v \div S = n
  <2>1. l \in g.level .. Levels  BY <1>2, <1>5, <1>8
  <2>2. PICK m \in Nat \ {0} : S = s * m  BY <1>5, <2>1, Multiples
  <2>3. Low \div s = g.v \div s  BY <1>4, <1>5, <1>8, InBlock
  <2> HIDE DEF s, S
  <2>4. Low \div (s * m) = (Low \div s) \div m  BY <1>4, <1>5, DivTwice, Zenon
  <2>5. g.v \div (s * m) = (g.v \div s) \div m  BY <1>5, DivTwice, Zenon
  <2> QED BY <2>2, <2>3, <2>4, <2>5 DEF S
<1> QED BY <1>3, <1>7, <1>8

\* what is known while the walk looks at `level`
Walking ==
  /\ Kernel!WellFormed(layout) /\ address \in Nat
  /\ level \in 0 .. Levels - 1 /\ table = Low \div Kernel!Span(level + 1)
  /\ \A g \in layout : Kernel!Holds(g, Low) => g.level <= level

\* The walk finds the page that holds the address, at its level, or that there is none.
LEMMA WalkFinds ==
  ASSUME Walking, NEW e, e = Kernel!Read(level)
  PROVE  /\ e.present /\ e.page =>
              \E g \in layout : /\ Kernel!Holds(g, Low) /\ g.level = level
                                /\ e.to = g.p /\ Kernel!Offset(level) = Low - g.v
         /\ e.present /\ ~e.page =>
              /\ level # 0 /\ e.to = Low \div Kernel!Span(level)
              /\ \A g \in layout : Kernel!Holds(g, Low) => g.level < level
         /\ ~e.present => ~Kernel!Mapped(Low)
<1> DEFINE n == table * Fan + Kernel!Index(level)
<1>1. level \in 0 .. Levels - 1 /\ level \in 0 .. Levels /\ address \in Nat
      /\ Kernel!WellFormed(layout)
  BY SizeAssumption DEF Walking
<1>2. Low \in Nat /\ n = Low \div Spans[level] /\ Low % Spans[level] = address % Spans[level]
  BY <1>1, EntryIs DEF Walking
<1> HIDE DEF n
<1>3. Kernel!Span(level) = Spans[level] /\ Spans[level] \in Nat \ {0}  BY <1>1, SpanIs
<1>4. \A g \in layout :
        /\ g.level = level => (Kernel!Holds(g, Low) <=> g.v = n * Kernel!Span(level))
        /\ g.level < level /\ Kernel!Holds(g, Low) => g.v \div Kernel!Span(level) = n
  BY <1>1, <1>2, EntryLeads
<1>5. \A g \in layout : Kernel!Page(g) /\ g.level \in 0 .. Levels - 1
  BY <1>1, PageIs DEF Kernel!WellFormed
<1>6. \A g \in layout : Kernel!Holds(g, Low) => g.level <= level  BY DEF Walking
<1>7. e = Kernel!Entry(level, n)  BY DEF Kernel!Read, n
<1>8. CASE Kernel!PageHere(level, n) # {}
  <2> DEFINE g == CHOOSE g \in Kernel!PageHere(level, n) : TRUE
  <2>1. g \in Kernel!PageHere(level, n)  BY <1>8
  <2>2. e.present /\ e.page /\ e.to = g.p  BY <1>7, <1>8 DEF Kernel!Entry
  <2> HIDE DEF g
  <2>3. g \in layout /\ g.level = level /\ g.v = n * Kernel!Span(level)
    BY <2>1 DEF Kernel!PageHere
  <2>4. Kernel!Holds(g, Low)  BY <1>4, <2>3
  <2>5. Kernel!Offset(level) = Low - g.v
    <3>1. g.v \in Nat /\ g.v % Spans[level] = 0 /\ g.v <= Low /\ Low < g.v + Spans[level]
      BY <1>5, <2>3, <2>4, PageIs
    <3>2. Low % Spans[level] = Low - g.v  BY <1>2, <1>3, <3>1, InBlock
    <3> QED BY <1>2, <1>3, <3>2 DEF Kernel!Offset
  <2> QED BY <2>2, <2>3, <2>4, <2>5
<1>9. CASE Kernel!PageHere(level, n) = {}
  <2>1. \A g \in layout : Kernel!Holds(g, Low) => g.level # level
    BY <1>4, <1>9 DEF Kernel!PageHere
  <2>2. \A g \in layout : Kernel!Holds(g, Low) => g.level < level
    BY <1>1, <1>5, <1>6, <2>1
  <2>3. \A g \in layout : Kernel!Holds(g, Low) => g \in Kernel!PagesBelow(level, n)
    BY <1>4, <2>2 DEF Kernel!PagesBelow
  <2>4. CASE Kernel!PagesBelow(level, n) # {}
    <3>1. e.present /\ ~e.page /\ e.to = n  BY <1>7, <1>9, <2>4 DEF Kernel!Entry
    <3>2. level # 0  BY <1>1, <1>5, <2>4 DEF Kernel!PagesBelow
    <3> QED BY <1>2, <1>3, <2>2, <3>1, <3>2
  <2>5. CASE Kernel!PagesBelow(level, n) = {}
    <3>1. ~e.present  BY <1>7, <1>9, <2>5 DEF Kernel!Entry, Kernel!Absent
    <3> QED BY <2>3, <2>5, <3>1 DEF Kernel!Mapped
  <2> QED BY <2>4, <2>5
<1> QED BY <1>8, <1>9

-----------------------------------------------------------------------------
(* The copy.                                                                       *)

Asking == first # 0 /\ Size \in 1 .. AddrMax - first
CopyTyped ==
  /\ phys \in [0 .. PhysMax -> Nat] /\ before \in [0 .. PhysMax -> Nat]
  /\ buffer \in Seq(Nat) /\ writing \in BOOLEAN /\ first \in Nat
  /\ remaining \in 0 .. Size /\ address = first + (Size - remaining)
  /\ copied \in BOOLEAN /\ failed \in BOOLEAN
  /\ at \in {"start", "next", "walk", "copy", "done"}
\* what is known at each place of the code: in the walk that no larger page holds the
\* address than those still to be looked for, before a chunk which page it is in
Copying ==
  /\ at = "start" => remaining = Size /\ phys = before /\ ~copied /\ ~failed
  /\ at \in {"next", "walk", "copy"} => Asking /\ ~copied /\ ~failed
  /\ at \in {"walk", "copy"} => remaining # 0
  /\ at = "walk" => Walking
  /\ at = "copy" => \E g \in layout : /\ Kernel!Holds(g, Low) /\ physical = g.p + Low - g.v
                                      /\ physicalEnd = g.p + Kernel!Span(g.level)
CopyInv ==
  /\ Kernel!WellFormed(layout) /\ CopyTyped /\ Copying /\ PrefixCopied /\ SucceedsWhenMapped

\* The next cell to copy is the one the tables are asked for.
LEMMA NextCell ==
  ASSUME CopyTyped
  PROVE  /\ Size \in Nat /\ Kernel!Done \in 0 .. Size /\ remaining = Size - Kernel!Done
         /\ address = first + Kernel!Done /\ address \in Nat
         /\ Kernel!Cell(Kernel!Done + 1) = Low
<1>1. Size \in Nat /\ Size = Kernel!Size /\ Size = Len(buffer)
  BY DEF CopyTyped, Size, Kernel!Size
<1>2. /\ Kernel!Done \in 0 .. Size /\ remaining = Size - Kernel!Done
      /\ address = first + Kernel!Done /\ address \in Nat /\ first \in Nat
  BY <1>1 DEF CopyTyped, Kernel!Done
<1>3. first + (Kernel!Done + 1) - 1 = address  BY <1>1, <1>2
<1> QED BY <1>1, <1>2, <1>3 DEF Kernel!Cell, Low

\* A chunk is a part of one page: its cells follow each other in the game as they do in
\* physical memory, and do not pass the end of the space.
LEMMA ChunkIs ==
  ASSUME CopyInv, at = "copy", NEW n, n = Kernel!Chunk
  PROVE  /\ n \in 1 .. remaining /\ physical \in Nat /\ physical + n <= PhysMax + 1
         /\ \A j \in 0 .. n - 1 :
              LET c == Kernel!Cell(Kernel!Done + 1 + j)
              IN Kernel!Mapped(c) /\ Kernel!Physical(c) = physical + j
<1>1. Kernel!WellFormed(layout) /\ CopyTyped /\ remaining # 0  BY DEF CopyInv, Copying
<1>2. PICK g \in layout : /\ Kernel!Holds(g, Low) /\ physical = g.p + Low - g.v
                          /\ physicalEnd = g.p + Kernel!Span(g.level)
  BY DEF CopyInv, Copying
<1>3. Kernel!Page(g)  BY <1>1 DEF Kernel!WellFormed
<1> DEFINE S == Spans[g.level]
           M == Spans[Levels]
<1>4. /\ g.v \in Nat /\ g.p \in Nat /\ S \in Nat \ {0} /\ g.v + S <= M
      /\ g.p + S <= PhysMax + 1 /\ Kernel!Span(g.level) = S
      /\ \A x : Kernel!Holds(g, x) <=> x \in Nat /\ g.v <= x /\ x < g.v + S
  BY <1>3, PageIs
<1>5. Kernel!Span(Levels) = M /\ M \in Nat \ {0}
  <2>1. Levels \in 0 .. Levels  BY SizeAssumption
  <2> QED BY <2>1, SpanIs
<1> HIDE DEF S, M
<1>6. Low \in Nat /\ g.v <= Low /\ Low < g.v + S  BY <1>2, <1>4
<1>7. remaining \in Nat /\ remaining \in 0 .. Size /\ Size \in Nat
  BY <1>1, NextCell DEF CopyTyped
<1>8. physicalEnd - physical = g.v + S - Low /\ physical \in Nat /\ PhysMax \in Nat
  <2>1. physicalEnd = g.p + S /\ physical = g.p + Low - g.v  BY <1>2, <1>4
  <2>2. g.p \in Nat /\ g.v \in Nat /\ S \in Nat /\ Low \in Nat /\ g.v <= Low  BY <1>4, <1>6
  <2>3. PhysMax \in Nat  BY SizeAssumption
  <2> QED BY <2>1, <2>2, <2>3
<1>9. n \in 1 .. remaining /\ n <= g.v + S - Low
  BY <1>1, <1>4, <1>6, <1>7, <1>8 DEF Kernel!Chunk
<1>10. physical + n <= PhysMax + 1  BY <1>2, <1>4, <1>6, <1>8, <1>9
<1>11. ASSUME NEW j \in 0 .. n - 1
       PROVE  LET c == Kernel!Cell(Kernel!Done + 1 + j)
              IN Kernel!Mapped(c) /\ Kernel!Physical(c) = physical + j
  <2>1. Kernel!Cell(Kernel!Done + 1 + j) = (address + j) % M
    <3>1. first + (Kernel!Done + 1 + j) - 1 = address + j
      <4> DEFINE d == Kernel!Done
      <4>1. d \in Nat /\ first \in Nat /\ address = first + d  BY <1>1, <1>7, NextCell DEF CopyTyped
      <4>2. j \in Nat  BY <1>7, <1>9
      <4> HIDE DEF d
      <4>3. first + (d + 1 + j) - 1 = address + j  BY <4>1, <4>2
      <4> QED BY <4>3 DEF d
    <3> QED BY <1>5, <3>1 DEF Kernel!Cell
  <2>2. (address + j) % M = Low + j
    <3> DEFINE k == address \div M
    <3>1. k \in Nat /\ address \in Nat /\ address = M * k + Low
      BY <1>1, <1>5, NextCell, DivMod DEF Low
    <3> HIDE DEF k
    <3>2. Low + j \in 0 .. M - 1 /\ j \in Nat  BY <1>4, <1>5, <1>6, <1>7, <1>9
    <3>3. address + j \in Nat /\ address + j = M * k + (Low + j)  BY <1>5, <1>6, <3>1, <3>2
    <3> DEFINE a == address + j
               r == Low + j
    <3>4. a \in Nat /\ r \in 0 .. M - 1 /\ a = M * k + r  BY <3>2, <3>3
    <3> HIDE DEF a, r
    <3>5. a % M = r  BY <1>5, <3>1, <3>4, DivIs
    <3> QED BY <3>5 DEF a, r
  <2>3. Kernel!Holds(g, Low + j)  BY <1>4, <1>6, <1>7, <1>9
  <2>4. Kernel!Mapped(Low + j) /\ Kernel!Physical(Low + j) = g.p + (Low + j) - g.v
    BY <1>1, <2>3, OnePage
  <2>5. g.p + (Low + j) - g.v = physical + j  BY <1>2, <1>4, <1>6, <1>7, <1>9
  <2> QED BY <2>1, <2>2, <2>4, <2>5
<1> QED BY <1>8, <1>9, <1>10, <1>11

\* Where a cell is depends on what the game has mapped, and which cell it is on `first`.
LEMMA SamePlaces ==
  ASSUME layout' = layout, first' = first
  PROVE  /\ Kernel!WellFormed(layout)' <=> Kernel!WellFormed(layout)
         /\ \A i : Kernel!Cell(i)' = Kernel!Cell(i)
         /\ \A x : Kernel!Mapped(x)' <=> Kernel!Mapped(x)
         /\ \A x : Kernel!Physical(x)' = Kernel!Physical(x)
         /\ \A n, x : Kernel!From(n, x)' = Kernel!From(n, x)
<1>1. \A i : Kernel!Cell(i)' = Kernel!Cell(i)  BY DEF Kernel!Cell, Kernel!Span
<1>2. \A x : Kernel!Mapped(x)' <=> Kernel!Mapped(x)  BY DEF Kernel!Mapped, Kernel!Holds, Kernel!Span
<1>3. \A x : Kernel!Physical(x)' = Kernel!Physical(x)
  BY DEF Kernel!Physical, Kernel!Holds, Kernel!Span
<1>4. \A n, x : Kernel!From(n, x)' = Kernel!From(n, x)  BY <1>1, <1>3 DEF Kernel!From
<1>5. Kernel!WellFormed(layout)' <=> Kernel!WellFormed(layout)
  BY DEF Kernel!WellFormed, Kernel!Page, Kernel!Apart, Kernel!Span
<1> QED BY <1>1, <1>2, <1>3, <1>4, <1>5

LEMMA PrefixStays ==
  ASSUME PrefixCopied, UNCHANGED <<layout, first, writing, phys, before, buffer, remaining>>
  PROVE  PrefixCopied'
<1>1. Kernel!Done' = Kernel!Done  BY DEF Kernel!Done, Kernel!Size
<1>2. \A i \in 1 .. Kernel!Done' : Kernel!Mapped(Kernel!Cell(i))'
  BY <1>1, SamePlaces DEF PrefixCopied, Kernel!PrefixCopied
<1>3. CASE writing
  <2>1. Kernel!CopiedIn(Kernel!Done)  BY <1>3 DEF PrefixCopied, Kernel!PrefixCopied
  <2>2. Kernel!CopiedIn(Kernel!Done)'  BY <1>1, <2>1, SamePlaces DEF Kernel!CopiedIn
  <2> QED BY <1>2, <1>3, <2>2 DEF PrefixCopied, Kernel!PrefixCopied
<1>4. CASE ~writing
  <2>1. Kernel!CopiedOut(Kernel!Done)  BY <1>4 DEF PrefixCopied, Kernel!PrefixCopied
  <2>2. Kernel!CopiedOut(Kernel!Done)'  BY <1>1, <2>1, SamePlaces DEF Kernel!CopiedOut
  <2> QED BY <1>2, <1>4, <2>2 DEF PrefixCopied, Kernel!PrefixCopied
<1> QED BY <1>3, <1>4

\* A chunk that is copied continues the prefix.
LEMMA ChunkInv ==
  ASSUME CopyInv, Kernel!CopyChunk
  PROVE  CopyInv'
<1> DEFINE n == Kernel!Chunk
           d == Kernel!Done
<1>1. Kernel!WellFormed(layout) /\ CopyTyped /\ Copying /\ PrefixCopied /\ at = "copy"
  BY DEF CopyInv, Kernel!CopyChunk
<1>2. /\ n \in 1 .. remaining /\ physical \in Nat /\ physical + n <= PhysMax + 1
      /\ \A j \in 0 .. n - 1 :
           /\ Kernel!Mapped(Kernel!Cell(d + 1 + j))
           /\ Kernel!Physical(Kernel!Cell(d + 1 + j)) = physical + j
  BY <1>1, ChunkIs
<1>3. /\ Size \in Nat /\ d \in 0 .. Size /\ remaining = Size - d /\ address = first + d
  BY <1>1, NextCell
<1>4. /\ at' = "next" /\ layout' = layout /\ before' = before /\ writing' = writing
      /\ first' = first /\ copied' = copied /\ failed' = failed
      /\ address' = address + n /\ remaining' = remaining - n
      /\ IF writing
         THEN phys' = [x \in DOMAIN phys |-> IF x \in physical .. physical + n - 1
                         THEN buffer[d + 1 + x - physical] ELSE phys[x]] /\ UNCHANGED buffer
         ELSE buffer' = [i \in DOMAIN buffer |-> IF i \in d + 1 .. d + n
                           THEN phys[physical + i - d - 1] ELSE buffer[i]] /\ UNCHANGED phys
  BY DEF Kernel!CopyChunk, Kernel!inputs
<1> HIDE DEF n, d
<1>5. /\ phys \in [0 .. PhysMax -> Nat] /\ before \in [0 .. PhysMax -> Nat]
      /\ buffer \in [1 .. Size -> Nat] /\ buffer \in Seq(Nat) /\ Len(buffer) = Size
      /\ writing \in BOOLEAN /\ first \in Nat /\ PhysMax \in Nat /\ n \in Nat
  <2>1. PhysMax \in Nat /\ n \in Nat  BY <1>2, <1>3, SizeAssumption
  <2>2. buffer \in Seq(Nat) /\ Len(buffer) = Size  BY <1>1 DEF CopyTyped, Size, Kernel!Size
  <2>3. buffer \in [1 .. Size -> Nat]  BY <2>2
  <2> QED BY <1>1, <2>1, <2>2, <2>3 DEF CopyTyped
<1>6. phys' \in [0 .. PhysMax -> Nat] /\ buffer' \in [1 .. Size -> Nat]
  <2>1. CASE writing
    <3>1. \A x \in physical .. physical + n - 1 : d + 1 + x - physical \in 1 .. Size
      BY <1>2, <1>3, <1>5
    <3> QED BY <1>4, <1>5, <2>1, <3>1
  <2>2. CASE ~writing
    <3>1. \A i \in d + 1 .. d + n : physical + i - d - 1 \in 0 .. PhysMax
      BY <1>2, <1>3, <1>5
    <3> QED BY <1>4, <1>5, <2>2, <3>1
  <2> QED BY <2>1, <2>2
<1>7. buffer' \in Seq(Nat) /\ Size' = Size
  <2>1. buffer' \in Seq(Nat) /\ Len(buffer') = Size  BY <1>3, <1>6
  <2> QED BY <2>1 DEF Size, Kernel!Size
<1>8. Kernel!Done' = d + n
  BY <1>2, <1>3, <1>4, <1>5, <1>7 DEF Kernel!Done, Size
<1>9. CopyTyped'
  <2>1. remaining' \in 0 .. Size /\ address' = first + (Size - remaining')
    BY <1>2, <1>3, <1>4, <1>5
  <2> QED BY <1>1, <1>4, <1>5, <1>6, <1>7, <2>1 DEF CopyTyped
<1>10. Copying'
  BY <1>1, <1>4, <1>7 DEF Copying, Asking
<1>11. \A j : j \in d + 1 .. d + n =>
         /\ Kernel!Mapped(Kernel!Cell(j))
         /\ Kernel!Physical(Kernel!Cell(j)) = physical + j - d - 1
  <2> SUFFICES ASSUME NEW j \in d + 1 .. d + n
               PROVE  /\ Kernel!Mapped(Kernel!Cell(j))
                      /\ Kernel!Physical(Kernel!Cell(j)) = physical + j - d - 1
    OBVIOUS
  <2> DEFINE i == j - d - 1
  <2>1. i \in 0 .. n - 1 /\ d + 1 + i = j /\ physical + i = physical + j - d - 1
    BY <1>2, <1>3, <1>5
  <2> HIDE DEF i
  <2> QED BY <1>2, <2>1
<1>12. \A i \in 1 .. d + n : i \in 1 .. d \/ i \in d + 1 .. d + n
  BY <1>3, <1>5
<1>13. \A i \in 1 .. Kernel!Done' : Kernel!Mapped(Kernel!Cell(i))'
  <2>1. \A i \in 1 .. d : Kernel!Mapped(Kernel!Cell(i))
    BY <1>1 DEF PrefixCopied, Kernel!PrefixCopied, d
  <2> QED BY <1>4, <1>8, <1>11, <1>12, <2>1, SamePlaces
<1>14. ASSUME writing PROVE PrefixCopied'
  <2>1. Kernel!CopiedIn(d)  BY <1>1, <1>14 DEF PrefixCopied, Kernel!PrefixCopied, d
  <2>2. ASSUME NEW x \in 0 .. PhysMax
        PROVE  IF Kernel!From(d + n, x) = {} THEN phys'[x] = before[x]
               ELSE \E i \in Kernel!From(d + n, x) : phys'[x] = buffer[i]
    <3>1. CASE x \in physical .. physical + n - 1
      <4> DEFINE i == d + 1 + x - physical
      <4>1. i \in d + 1 .. d + n /\ i \in 1 .. d + n /\ physical + i - d - 1 = x
        BY <1>2, <1>3, <1>5, <3>1
      <4>2. phys'[x] = buffer[i]  BY <1>4, <1>5, <1>14, <3>1
      <4> HIDE DEF i
      <4>3. i \in Kernel!From(d + n, x)  BY <1>11, <4>1 DEF Kernel!From
      <4> QED BY <4>2, <4>3
    <3>2. CASE x \notin physical .. physical + n - 1
      <4>1. phys'[x] = phys[x]  BY <1>4, <1>5, <1>14, <3>2
      <4>2. \A i \in d + 1 .. d + n : Kernel!Physical(Kernel!Cell(i)) # x
        <5>1. \A i \in d + 1 .. d + n : physical + i - d - 1 # x  BY <1>2, <1>3, <1>5, <3>2
        <5> QED BY <1>11, <5>1
      <4>3. \A i : i \in 1 .. d => i \in 1 .. d + n  BY <1>3, <1>5
      <4>4. Kernel!From(d + n, x) = Kernel!From(d, x)
        BY <1>12, <4>2, <4>3 DEF Kernel!From
      <4> QED BY <1>5, <2>1, <4>1, <4>4 DEF Kernel!CopiedIn
    <3> QED BY <3>1, <3>2
  <2>3. Kernel!CopiedIn(Kernel!Done)'
    BY <1>4, <1>6, <1>8, <1>14, <2>2, SamePlaces DEF Kernel!CopiedIn
  <2> QED BY <1>4, <1>13, <1>14, <2>3 DEF PrefixCopied, Kernel!PrefixCopied
<1>15. ASSUME ~writing PROVE PrefixCopied'
  <2>1. Kernel!CopiedOut(d)  BY <1>1, <1>15 DEF PrefixCopied, Kernel!PrefixCopied, d
  <2>2. ASSUME NEW i \in 1 .. d + n
        PROVE  buffer'[i] = before[Kernel!Physical(Kernel!Cell(i))]
    <3>0. i \in 1 .. Size /\ d + n <= Size  BY <1>2, <1>3, <1>5
    <3>1. CASE i \in d + 1 .. d + n
      <4>1. buffer'[i] = phys[physical + i - d - 1]  BY <1>4, <1>5, <1>15, <3>0, <3>1
      <4> QED BY <1>11, <2>1, <3>1, <4>1 DEF Kernel!CopiedOut
    <3>2. CASE i \notin d + 1 .. d + n
      <4>1. buffer'[i] = buffer[i]  BY <1>4, <1>5, <1>15, <3>0, <3>2
      <4> QED BY <1>12, <2>1, <3>2, <4>1 DEF Kernel!CopiedOut
    <3> QED BY <3>1, <3>2
  <2>3. Kernel!CopiedOut(Kernel!Done)'
    BY <1>4, <1>8, <1>15, <2>1, <2>2, SamePlaces DEF Kernel!CopiedOut
  <2> QED BY <1>4, <1>13, <1>15, <2>3 DEF PrefixCopied, Kernel!PrefixCopied
<1>16. SucceedsWhenMapped'
  BY <1>4 DEF SucceedsWhenMapped, Kernel!SucceedsWhenMapped
<1>17. Kernel!WellFormed(layout)'
  BY <1>1, <1>4, SamePlaces
<1> QED BY <1>9, <1>10, <1>14, <1>15, <1>16, <1>17 DEF CopyInv

\* The steps that copy nothing move only through the code and the tables.
LEMMA QuietStep ==
  ASSUME CopyInv, UNCHANGED <<layout, first, writing, phys, before, buffer, address, remaining>>,
         copied' \in BOOLEAN, failed' \in BOOLEAN, at' \in {"start", "next", "walk", "copy", "done"},
         Copying', SucceedsWhenMapped'
  PROVE  CopyInv'
<1>1. Kernel!WellFormed(layout)'  BY SamePlaces DEF CopyInv
<1>2. PrefixCopied'  BY PrefixStays DEF CopyInv
<1>3. CopyTyped'  BY DEF CopyInv, CopyTyped, Size, Kernel!Size
<1> QED BY <1>1, <1>2, <1>3 DEF CopyInv

LEMMA StutterCopy ==
  ASSUME CopyInv, UNCHANGED <<walk, memory>>
  PROVE  CopyInv'
<1>1. UNCHANGED <<layout, phys, before, buffer, writing, first, address, remaining, level, table,
                  physical, physicalEnd, at, copied, failed>>
  BY DEF walk, memory
<1>2. Low' = Low /\ Size' = Size /\ (Walking => Walking')
  BY <1>1, SamePlaces DEF Walking, Low, Size, Kernel!Size, Kernel!Span, Kernel!Holds
<1>3. Copying'
  BY <1>1, <1>2 DEF CopyInv, Copying, Asking, Kernel!Holds, Kernel!Span
<1>4. SucceedsWhenMapped'
  BY <1>1, <1>2, SamePlaces DEF CopyInv, SucceedsWhenMapped, Kernel!SucceedsWhenMapped, Size
<1> QED BY <1>1, <1>3, <1>4, QuietStep DEF CopyInv, CopyTyped

\* Every step of the copy keeps what is known of it.
LEMMA CopyStep ==
  ASSUME CopyInv, Kernel!Next
  PROVE  CopyInv'
<1>1. Kernel!WellFormed(layout) /\ CopyTyped /\ Copying /\ PrefixCopied /\ SucceedsWhenMapped
  BY DEF CopyInv
<1>2. /\ Size \in Nat /\ Kernel!Done \in 0 .. Size /\ remaining = Size - Kernel!Done
      /\ Kernel!Cell(Kernel!Done + 1) = Low /\ address \in Nat /\ Size = Kernel!Size
      /\ Levels \in Nat \ {0} /\ first \in Nat /\ AddrMax \in Nat
      /\ \A i \in 1 .. Kernel!Done : Kernel!Mapped(Kernel!Cell(i))
  BY <1>1, NextCell, SizeAssumption
     DEF CopyTyped, PrefixCopied, Kernel!PrefixCopied, Size, Kernel!Size
<1> DEFINE Same == UNCHANGED <<layout, first, writing, phys, before, buffer, address, remaining>>
<1>3. ASSUME Same PROVE Size' = Size /\ Low' = Low /\ (Asking => Asking')
                        /\ (Kernel!WellFormed(layout)' <=> Kernel!WellFormed(layout))
  BY <1>3, SamePlaces DEF Size, Kernel!Size, Low, Kernel!Span, Asking
<1>4. CASE Kernel!Refuse
  <2>1. Same /\ at = "start" /\ at' = "done" /\ copied' = copied /\ failed' = failed
    BY <1>4 DEF Kernel!Refuse, Kernel!inputs, Kernel!data, Kernel!loop
  <2>2. ~copied /\ ~failed  BY <1>1, <2>1 DEF Copying
  <2>3. ~(first # 0 /\ Size \in 1 .. AddrMax - first)
    BY <1>2, <1>4 DEF Kernel!Refuse
  <2>4. SucceedsWhenMapped'
    BY <1>2, <1>3, <2>1, <2>2, <2>3 DEF SucceedsWhenMapped, Kernel!SucceedsWhenMapped, Size
  <2>5. Copying'  BY <2>1 DEF Copying
  <2> QED BY <1>1, <2>1, <2>4, <2>5, QuietStep DEF CopyTyped
<1>5. CASE Kernel!Begin
  <2>1. Same /\ at = "start" /\ at' = "next" /\ copied' = copied /\ failed' = failed
    BY <1>5 DEF Kernel!Begin, Kernel!inputs, Kernel!data, Kernel!loop
  <2>2. ~copied /\ ~failed  BY <1>1, <2>1 DEF Copying
  <2>3. Asking  BY <1>2, <1>5 DEF Kernel!Begin, Asking
  <2>4. Copying'  BY <1>3, <2>1, <2>2, <2>3 DEF Copying
  <2>5. SucceedsWhenMapped'  BY <2>1 DEF SucceedsWhenMapped, Kernel!SucceedsWhenMapped
  <2> QED BY <1>1, <2>1, <2>4, <2>5, QuietStep DEF CopyTyped
<1>6. CASE Kernel!NextChunk
  <2>1. /\ Same /\ at = "next" /\ at' = "walk" /\ copied' = copied /\ failed' = failed
        /\ remaining > 0 /\ level' = Levels - 1 /\ table' = 0
    BY <1>6 DEF Kernel!NextChunk, Kernel!inputs, Kernel!data, Kernel!loop
  <2>2. Walking'
    <3>1. Levels \in 0 .. Levels /\ (Levels - 1) + 1 = Levels /\ Levels - 1 \in 0 .. Levels - 1
      BY <1>2
    <3>2. Kernel!Span(Levels) \in Nat \ {0}  BY <3>1, SpanIs
    <3>3. Low \in Nat /\ Low < Kernel!Span(Levels)  BY <1>2, <3>2, DivMod DEF Low
    <3>4. Low \div Kernel!Span(Levels) = 0  BY <3>2, <3>3
    <3>5. Kernel!Span(level + 1)' = Kernel!Span(Levels)  BY <2>1, <3>1 DEF Kernel!Span
    <3>6. \A g \in layout : g.level <= Levels - 1
      <4>1. \A g \in layout : Kernel!Page(g)  BY <1>1 DEF Kernel!WellFormed
      <4> QED BY <1>2, <4>1, PageIs
    <3>7. (\A g \in layout : Kernel!Holds(g, Low) => g.level <= level)'
      BY <2>1, <3>6
    <3> QED BY <1>1, <1>2, <1>3, <2>1, <3>1, <3>4, <3>5, <3>7 DEF Walking
  <2>3. Copying'
    <3>1. Asking /\ ~copied /\ ~failed  BY <1>1, <2>1 DEF Copying
    <3> QED BY <1>2, <1>3, <2>1, <2>2, <3>1 DEF Copying
  <2>4. SucceedsWhenMapped'  BY <2>1 DEF SucceedsWhenMapped, Kernel!SucceedsWhenMapped
  <2> QED BY <1>1, <2>1, <2>3, <2>4, QuietStep DEF CopyTyped
<1>7. CASE Kernel!AllCopied
  <2>1. /\ Same /\ at = "next" /\ at' = "done" /\ copied' = TRUE /\ failed' = failed
        /\ remaining = 0
    BY <1>7 DEF Kernel!AllCopied, Kernel!inputs, Kernel!data, Kernel!loop
  <2>2. Asking  BY <1>1, <2>1 DEF Copying
  <2>3. Kernel!Done = Size  BY <1>2, <2>1
  <2>4. \A i \in 1 .. Size : Kernel!Mapped(Kernel!Cell(i))  BY <1>2, <2>3
  <2>5. SucceedsWhenMapped'
    BY <1>2, <1>3, <2>1, <2>2, <2>4, SamePlaces
       DEF SucceedsWhenMapped, Kernel!SucceedsWhenMapped, Asking, Size
  <2>6. Copying'  BY <2>1 DEF Copying
  <2> QED BY <1>1, <2>1, <2>5, <2>6, QuietStep DEF CopyTyped
<1>8. CASE Kernel!KernelError
  <2>1. Same /\ at' = "done" /\ copied' = copied /\ failed' = TRUE
    BY <1>8 DEF Kernel!KernelError, Kernel!inputs, Kernel!data, Kernel!loop
  <2>2. SucceedsWhenMapped'  BY <2>1 DEF SucceedsWhenMapped, Kernel!SucceedsWhenMapped
  <2>3. Copying'  BY <2>1 DEF Copying
  <2> QED BY <1>1, <2>1, <2>2, <2>3, QuietStep DEF CopyTyped
<1>9. CASE Kernel!NotMapped
  <2>1. /\ Same /\ at = "walk" /\ at' = "done" /\ copied' = copied /\ failed' = failed
        /\ ~Kernel!Read(level).present
    BY <1>9 DEF Kernel!NotMapped, Kernel!inputs, Kernel!data, Kernel!loop
  <2>2. Walking /\ ~copied /\ remaining # 0  BY <1>1, <2>1 DEF Copying
  <2>3. ~Kernel!Mapped(Low)  BY <2>1, <2>2, WalkFinds
  <2>4. ~ \A i \in 1 .. Size : Kernel!Mapped(Kernel!Cell(i))
    <3>1. Kernel!Done + 1 \in 1 .. Size  BY <1>2, <2>2
    <3> QED BY <1>2, <2>3, <3>1
  <2>5. SucceedsWhenMapped'
    BY <1>2, <1>3, <2>1, <2>2, <2>4, SamePlaces
       DEF SucceedsWhenMapped, Kernel!SucceedsWhenMapped, Size
  <2>6. Copying'  BY <2>1 DEF Copying
  <2> QED BY <1>1, <2>1, <2>5, <2>6, QuietStep DEF CopyTyped
<1>10. CASE Kernel!Descend
  <2>1. /\ Same /\ at = "walk" /\ at' = "walk" /\ copied' = copied /\ failed' = failed
        /\ Kernel!Read(level).present /\ ~Kernel!Read(level).page
        /\ level' = level - 1 /\ table' = Kernel!Read(level).to
    BY <1>10 DEF Kernel!Descend, Kernel!inputs, Kernel!data, Kernel!loop
  <2>2. Walking /\ ~copied /\ ~failed /\ remaining # 0 /\ Asking
    BY <1>1, <2>1 DEF Copying
  <2>3. /\ level # 0 /\ table' = Low \div Kernel!Span(level)
        /\ \A g \in layout : Kernel!Holds(g, Low) => g.level < level
    BY <2>1, <2>2, WalkFinds
  <2>4. level \in 0 .. Levels - 1 /\ level' \in 0 .. Levels - 1 /\ level' + 1 = level
    BY <1>2, <2>1, <2>2, <2>3 DEF Walking
  <2>5. Walking'
    <3>1. Kernel!Span(level + 1)' = Kernel!Span(level)  BY <2>4 DEF Kernel!Span
    <3>2. \A g \in layout : Kernel!Holds(g, Low) => g.level <= level - 1
      <4>1. \A g \in layout : Kernel!Page(g)  BY <1>1 DEF Kernel!WellFormed
      <4>2. \A g \in layout : g.level \in 0 .. Levels - 1  BY <4>1, PageIs
      <4> QED BY <1>2, <2>3, <2>4, <4>2
    <3>3. (\A g \in layout : Kernel!Holds(g, Low) => g.level <= level)'
      BY <1>3, <2>1, <3>2 DEF Kernel!Holds, Kernel!Span
    <3> QED BY <1>1, <1>2, <1>3, <2>1, <2>3, <2>4, <3>1, <3>3 DEF Walking
  <2>6. Copying'  BY <1>3, <2>1, <2>2, <2>5 DEF Copying
  <2>7. SucceedsWhenMapped'  BY <2>1 DEF SucceedsWhenMapped, Kernel!SucceedsWhenMapped
  <2> QED BY <1>1, <2>1, <2>6, <2>7, QuietStep DEF CopyTyped
<1>11. CASE Kernel!PageFound
  <2>1. /\ Same /\ at = "walk" /\ at' = "copy" /\ copied' = copied /\ failed' = failed
        /\ Kernel!Read(level).present /\ Kernel!Read(level).page
        /\ physical' = Kernel!Read(level).to + Kernel!Offset(level)
        /\ physicalEnd' = Kernel!Read(level).to + Kernel!Span(level)
    BY <1>11 DEF Kernel!PageFound, Kernel!inputs, Kernel!data, Kernel!loop
  <2>2. Walking /\ ~copied /\ ~failed /\ remaining # 0 /\ Asking
    BY <1>1, <2>1 DEF Copying
  <2>3. PICK g \in layout : /\ Kernel!Holds(g, Low) /\ g.level = level
                            /\ Kernel!Read(level).to = g.p /\ Kernel!Offset(level) = Low - g.v
    BY <2>1, <2>2, WalkFinds
  <2>4. physical' = g.p + Low - g.v /\ physicalEnd' = g.p + Kernel!Span(g.level)
    <3>1. Kernel!Page(g)  BY <1>1 DEF Kernel!WellFormed
    <3>2. g.p \in Nat /\ g.v \in Nat /\ Low \in Nat  BY <2>3, <3>1, PageIs
    <3>3. physical' = g.p + (Low - g.v)  BY <2>1, <2>3
    <3> QED BY <2>1, <2>3, <3>2, <3>3
  <2>5. (\E h \in layout : /\ Kernel!Holds(h, Low) /\ physical = h.p + Low - h.v
                           /\ physicalEnd = h.p + Kernel!Span(h.level))'
    <3> SUFFICES \E h \in layout : /\ Kernel!Holds(h, Low) /\ physical' = h.p + Low - h.v
                                   /\ physicalEnd' = h.p + Kernel!Span(h.level)
      BY <1>3, <2>1 DEF Kernel!Holds, Kernel!Span
    <3> QED BY <2>3, <2>4
  <2>6. Copying'  BY <1>3, <2>1, <2>2, <2>5 DEF Copying
  <2>7. SucceedsWhenMapped'  BY <2>1 DEF SucceedsWhenMapped, Kernel!SucceedsWhenMapped
  <2> QED BY <1>1, <2>1, <2>6, <2>7, QuietStep DEF CopyTyped
<1>12. CASE Kernel!CopyChunk
  BY <1>12, ChunkInv
<1>13. CASE Kernel!Finished
  BY <1>13, StutterCopy DEF Kernel!Finished, Kernel!vars, walk, memory
<1> QED BY <1>4, <1>5, <1>6, <1>7, <1>8, <1>9, <1>10, <1>11, <1>12, <1>13
        DEF Kernel!Next, Kernel!Walk

-----------------------------------------------------------------------------
(* The cave.                                                                       *)

\* Multiples of b and the one at or below a number.
LEMMA Floor ==
  ASSUME NEW x \in Nat, NEW b \in Nat \ {0}
  PROVE  x - (x % b) \in Nat /\ (x - (x % b)) % b = 0 /\ x - (x % b) <= x /\ x < x - (x % b) + b
<1> DEFINE q == x \div b
           r == x % b
           v == x - r
<1>1. q \in Nat /\ r \in Nat /\ r < b /\ x = b * q + r  BY DivMod
<1> HIDE DEF q, r
<1>3. v \in Nat /\ v = b * q /\ v <= x /\ x < v + b  BY <1>1
<1>4. v = b * q + 0 /\ 0 \in 0 .. b - 1  BY <1>1, <1>3
<1> HIDE DEF v
<1>5. v % b = 0  BY <1>1, <1>3, <1>4, DivIs
<1> QED BY <1>3, <1>5 DEF v, r

LEMMA PageCellsIs == PageCells \in Nat \ {0} /\ (PhysMax + 1) % PageCells = 0 /\ PhysMax \in Nat
                     /\ PageCells = Spans[0] /\ Kernel!Span(0) = PageCells
<1>1. 0 \in 0 .. Levels  BY SizeAssumption
<1> QED BY <1>1, SpanIs, SizeAssumption DEF PageCells

\* The range of whole pages, and that its cells are those in a page with a cell asked for.
LEMMA RangeIs ==
  ASSUME first \in Nat, Size \in Nat, PageRangeFits
  PROVE  /\ PageStart \in Nat /\ PageStart % PageCells = 0
         /\ PageEnd \in Nat /\ PageEnd % PageCells = 0
         /\ \A x \in Nat : Touched(x) <=> PageStart <= x /\ x < PageEnd
<1> DEFINE c == PageCells
           last == first + Size - 1
           a == first \div c
           z == last \div c
<1>1. c \in Nat \ {0} /\ first \in Nat /\ Size \in Nat \ {0} /\ last \in Nat /\ first <= last
      /\ first + Size = last + 1
  BY PageCellsIs DEF PageRangeFits
<1>2. a \in Nat /\ first % c \in Nat /\ first % c < c /\ first = c * a + (first % c)
  BY <1>1, DivMod
<1>3. z \in Nat /\ last % c \in Nat /\ last % c < c /\ last = c * z + (last % c)
  BY <1>1, DivMod
<1>4. PageStart = c * a /\ PageStart \in Nat  BY <1>1, <1>2 DEF PageStart
<1>5. PageEnd = c * (z + 1) /\ PageEnd \in Nat
  <2> DEFINE e == first + Size + c - 1
             r == last % c
  <2>1. e = c * (z + 1) + r /\ e \in Nat /\ z + 1 \in Nat /\ r \in 0 .. c - 1
    BY <1>1, <1>3
  <2> HIDE DEF e, r, z, c
  <2>2. e \div c = z + 1  BY <1>1, <2>1, DivIs
  <2>3. PageEnd = (e \div c) * c  BY DEF PageEnd, e, c
  <2> QED BY <1>1, <2>1, <2>2, <2>3
<1>6. PageStart % c = 0 /\ PageEnd % c = 0
  <2> HIDE DEF a, z, c
  <2>1. ASSUME NEW k \in Nat, NEW p \in Nat, p = c * k PROVE p % c = 0
    <3>1. p = c * k + 0 /\ 0 \in 0 .. c - 1  BY <1>1, <2>1
    <3> QED BY <1>1, <2>1, <3>1, DivIs
  <2> QED BY <1>2, <1>3, <1>4, <1>5, <2>1
<1>7. ASSUME NEW x \in Nat PROVE Touched(x) <=> PageStart <= x /\ x < PageEnd
  <2> DEFINE q == x \div c
  <2>1. q \in Nat /\ x % c \in Nat /\ x % c < c /\ x = c * q + (x % c)  BY <1>1, DivMod
  <2>2. ASSUME NEW i \in 1 .. Size, (first + i - 1) \div c = q
        PROVE  PageStart <= x /\ x < PageEnd
    <3> DEFINE y == first + i - 1
    <3>1. y \in Nat /\ first <= y /\ y <= last  BY <1>1
    <3>2. y % c \in Nat /\ y % c < c /\ y = c * q + (y % c)  BY <1>1, <2>2, <3>1, DivMod
    <3> HIDE DEF y, c, a, z, q, last
    <3>3. a <= q
      <4>1. CASE q < a
        <5>1. c * (q + 1) <= c * a  BY <1>1, <1>2, <2>1, <4>1
        <5> QED BY <1>1, <1>2, <2>1, <3>1, <3>2, <5>1
      <4> QED BY <1>2, <2>1, <4>1
    <3>4. q <= z
      <4>1. CASE z < q
        <5>1. c * (z + 1) <= c * q  BY <1>1, <1>3, <2>1, <4>1
        <5> QED BY <1>1, <1>3, <2>1, <3>1, <3>2, <5>1
      <4> QED BY <1>3, <2>1, <4>1
    <3>5. c * a <= c * q /\ c * (q + 1) <= c * (z + 1)  BY <1>1, <1>2, <1>3, <2>1, <3>3, <3>4
    <3> QED BY <1>1, <1>2, <1>3, <1>4, <1>5, <2>1, <3>5
  <2>3. ASSUME PageStart <= x, x < PageEnd
        PROVE  \E i \in 1 .. Size : (first + i - 1) \div c = q
    <3> HIDE DEF c, a, z, q, last
    <3>1. a <= q
      <4>1. CASE q < a
        <5>1. c * (q + 1) <= c * a  BY <1>1, <1>2, <2>1, <4>1
        <5> QED BY <1>1, <1>2, <1>4, <2>1, <2>3, <5>1
      <4> QED BY <1>2, <2>1, <4>1
    <3>2. q <= z
      <4>1. CASE z < q
        <5>1. c * (z + 1) <= c * q  BY <1>1, <1>3, <2>1, <4>1
        <5> QED BY <1>1, <1>3, <1>5, <2>1, <2>3, <5>1
      <4> QED BY <1>3, <2>1, <4>1
    <3>3. CASE q = a
      <4>1. first + 1 - 1 = first /\ 1 \in 1 .. Size  BY <1>1
      <4> QED BY <3>3, <4>1 DEF a
    <3>4. CASE a < q
      <4> DEFINE y == c * q
      <4>1. y \in Nat /\ c * (a + 1) <= y /\ y <= c * z  BY <1>1, <1>2, <1>3, <2>1, <3>2, <3>4
      <4>2. first <= y /\ y <= last  BY <1>1, <1>2, <1>3, <4>1
      <4>3. y = c * q + 0 /\ 0 \in 0 .. c - 1  BY <1>1, <2>1
      <4> HIDE DEF y
      <4>4. y \div c = q  BY <1>1, <2>1, <4>1, <4>3, DivIs
      <4>5. y - first + 1 \in 1 .. Size /\ first + (y - first + 1) - 1 = y  BY <1>1, <4>1, <4>2
      <4> QED BY <4>4, <4>5
    <3> QED BY <1>2, <2>1, <3>1, <3>3, <3>4
  <2> QED BY <2>2, <2>3 DEF Touched
<1> QED BY <1>4, <1>5, <1>6, <1>7

\* Pages that hold no cell together are apart.
LEMMA ApartIs ==
  ASSUME NEW g, NEW h, Kernel!Page(g), Kernel!Page(h), ~Kernel!Apart(g, h)
  PROVE  \E x \in Nat : Kernel!Holds(g, x) /\ Kernel!Holds(h, x)
<1> DEFINE s == Spans[g.level]
           t == Spans[h.level]
<1>1. /\ g.v \in Nat /\ s \in Nat \ {0} /\ Kernel!Span(g.level) = s
      /\ \A x : Kernel!Holds(g, x) <=> x \in Nat /\ g.v <= x /\ x < g.v + s
  BY PageIs
<1>2. /\ h.v \in Nat /\ t \in Nat \ {0} /\ Kernel!Span(h.level) = t
      /\ \A x : Kernel!Holds(h, x) <=> x \in Nat /\ h.v <= x /\ x < h.v + t
  BY PageIs
<1>3. h.v < g.v + s /\ g.v < h.v + t  BY <1>1, <1>2 DEF Kernel!Apart
<1> HIDE DEF s, t
<1>4. CASE g.v <= h.v  BY <1>1, <1>2, <1>3, <1>4
<1>5. CASE h.v <= g.v  BY <1>1, <1>2, <1>3, <1>5
<1> QED BY <1>1, <1>2, <1>4, <1>5

\* A multiple of what an entry of any table stands for is a multiple of a small page.
LEMMA MultipleOfSmall ==
  ASSUME NEW k \in 0 .. Levels, NEW a \in Nat, a % Spans[k] = 0
  PROVE  a % PageCells = 0 /\ \E i \in Nat : a = PageCells * i
<1> DEFINE S == Spans[k]
           c == PageCells
           q == a \div S
           r == a % S
<1>1. S \in Nat \ {0} /\ c \in Nat \ {0}  BY SpanIs, PageCellsIs
<1>2. PICK m \in Nat \ {0} : S = c * m
  <2>1. 0 \in 0 .. Levels /\ k \in 0 .. Levels  BY SizeAssumption
  <2> QED BY <2>1, Multiples, PageCellsIs
<1>3. q \in Nat /\ r = 0 /\ a = S * q + r  BY <1>1, DivMod
<1> HIDE DEF S, c, q, r
<1>4. a = c * (m * q) + 0 /\ m * q \in Nat /\ 0 \in 0 .. c - 1 /\ a = c * (m * q)
  BY <1>1, <1>2, <1>3
<1>5. a % c = 0  BY <1>1, <1>4, DivIs
<1> QED BY <1>4, <1>5 DEF c

\* A page of the smallest size.
LEMMA SmallIs ==
  ASSUME NEW v \in Nat, NEW p \in Nat, v % PageCells = 0, p % PageCells = 0,
         v < Kernel!Span(Levels), p < PhysMax + 1
  PROVE  /\ Kernel!Page(Small(v, p)) /\ Small(v, p).v = v /\ Small(v, p).p = p
         /\ v + PageCells <= Kernel!Span(Levels) /\ p + PageCells <= PhysMax + 1
         /\ \A x : Kernel!Holds(Small(v, p), x) <=> x \in Nat /\ v <= x /\ x < v + PageCells
<1> DEFINE g == Small(v, p)
           M == Kernel!Span(Levels)
<1>1. g = [v |-> v, p |-> p, level |-> 0]  BY DEF Small
<1>2. g.v = v /\ g.p = p /\ g.level = 0 /\ 0 \in 0 .. Levels - 1  BY <1>1, SizeAssumption
<1>3. 0 \in 0 .. Levels /\ Levels \in 0 .. Levels  BY SizeAssumption
<1>4. PICK m \in Nat \ {0} : Spans[Levels] = Spans[0] * m  BY <1>3, Multiples
<1>5. M \in Nat \ {0} /\ M = PageCells * m  BY <1>3, <1>4, SpanIs, PageCellsIs
<1>6. M % PageCells = 0
  <2>1. M = PageCells * m + 0 /\ 0 \in 0 .. PageCells - 1  BY <1>5, PageCellsIs
  <2> HIDE DEF M
  <2> QED BY <1>5, <2>1, PageCellsIs, DivIs
<1> HIDE DEF M
<1>7. v + PageCells <= M  BY <1>5, <1>6, PageCellsIs, MultipleBelow DEF M
<1>8. p + PageCells <= PhysMax + 1
  <2>1. PhysMax + 1 \in Nat  BY PageCellsIs
  <2> QED BY <2>1, PageCellsIs, MultipleBelow
<1>9. g \in [v : Nat, p : Nat, level : 0 .. Levels - 1]  BY <1>1, <1>2
<1> HIDE DEF g
<1>10. Kernel!Page(g)  BY <1>2, <1>7, <1>8, <1>9, PageCellsIs DEF Kernel!Page, M
<1>11. \A x : Kernel!Holds(g, x) <=> x \in Nat /\ v <= x /\ x < v + PageCells
  BY <1>2, <1>10, PageIs, PageCellsIs
<1> QED BY <1>2, <1>7, <1>8, <1>10, <1>11 DEF g, M

\* What is left of a page in small ones lies where the page did.
LEMMA SplitIs ==
  ASSUME NEW g, Kernel!Page(g), NEW w, w \in Pages(g.v, g.v + Kernel!Span(g.level))
  PROVE  /\ w \in Nat /\ w % PageCells = 0 /\ g.p + w - g.v \in Nat
         /\ (g.p + w - g.v) % PageCells = 0 /\ g.p + w - g.v < PhysMax + 1
         /\ w < Kernel!Span(Levels) /\ g.v <= w /\ w + PageCells <= g.v + Spans[g.level]
         /\ g.p \in Nat /\ g.v \in Nat /\ Kernel!Span(g.level) = Spans[g.level]
<1> DEFINE c == PageCells
           S == Spans[g.level]
<1>1. /\ g.v \in Nat /\ g.p \in Nat /\ g.level \in 0 .. Levels /\ S \in Nat \ {0}
      /\ Kernel!Span(g.level) = S /\ g.v % S = 0 /\ g.p % S = 0
      /\ g.v + S <= Spans[Levels] /\ g.p + S <= PhysMax + 1
  BY PageIs
<1>2. c \in Nat \ {0} /\ PhysMax \in Nat /\ c = Spans[0]  BY PageCellsIs
<1>3. w \in Nat /\ g.v <= w /\ w < g.v + S /\ w % c = 0  BY <1>1 DEF Pages
<1>4. Levels \in 0 .. Levels /\ 0 \in 0 .. Levels /\ g.level \in 0 .. Levels
  BY <1>1, SizeAssumption
<1>5. Kernel!Span(Levels) = Spans[Levels] /\ Spans[Levels] \in Nat  BY <1>4, SpanIs
<1>6. PICK m \in Nat \ {0} : S = c * m  BY <1>2, <1>4, Multiples
<1> HIDE DEF S, c
<1>8. PICK i \in Nat : g.v = c * i  BY <1>1, MultipleOfSmall DEF S, c
<1>9. PICK j \in Nat : g.p = c * j  BY <1>1, MultipleOfSmall DEF S, c
<1>10. PICK k \in Nat : w = c * k
  <2> DEFINE q == w \div c
             r == w % c
  <2>1. q \in Nat /\ r = 0 /\ w = c * q + r  BY <1>2, <1>3, DivMod
  <2> HIDE DEF q, r
  <2> QED BY <1>2, <2>1
<1>11. w + c <= g.v + S
  <2>1. g.v + S = c * (i + m) /\ i + m \in Nat  BY <1>2, <1>6, <1>8
  <2>2. c * k < c * (i + m)  BY <1>3, <1>10, <2>1
  <2> QED BY <1>2, <1>10, <2>1, <2>2, TimesOrder
<1>12. g.p + w - g.v \in Nat /\ g.p + w - g.v < PhysMax + 1
  BY <1>1, <1>2, <1>3
<1>13. (g.p + w - g.v) % c = 0
  <2> DEFINE n == j + k - i
             b == g.p + w - g.v
  <2>1. i <= k
    <3>1. CASE k < i
      <4>1. c * k + c <= c * i
        <5>1. k + 1 <= i  BY <3>1
        <5>2. c * (k + 1) <= c * i  BY <1>2, <5>1
        <5> QED BY <1>2, <5>2
      <4> QED BY <1>2, <1>3, <1>8, <1>10, <4>1
    <3> QED BY <3>1
  <2>2. n \in Nat /\ b = c * n + 0 /\ 0 \in 0 .. c - 1
    BY <1>2, <1>8, <1>9, <1>10, <2>1
  <2>3. b \in Nat  BY <1>12
  <2> HIDE DEF n, b
  <2>4. b % c = 0  BY <1>2, <2>2, <2>3, DivIs
  <2> QED BY <2>4 DEF b
<1> QED BY <1>1, <1>2, <1>3, <1>5, <1>11, <1>12, <1>13 DEF c, S

\* what holds a cell of a page when mmap is done: a small page, if the page was split
Left(g, x) ==
  LET v == x - (x % PageCells) IN IF Hit(g) THEN Small(v, g.p + v - g.v) ELSE g

\* what holds a cell in the layout that mmap leaves, the range being mapped to frames f
Laid(l, f) ==
  /\ \A s \in l : Kernel!Page(s)
  /\ \A x \in Nat : PageStart <= x /\ x < PageEnd =>
       LET v == x - (x % PageCells)
       IN /\ v \in DOMAIN f /\ Small(v, f[v]) \in l /\ Kernel!Holds(Small(v, f[v]), x)
          /\ f[v] \in Nat /\ f[v] % PageCells = 0 /\ f[v] + PageCells <= PhysMax + 1
          /\ \A s \in l : Kernel!Holds(s, x) => s = Small(v, f[v])
  /\ \A x \in Nat, s \in l : ~(PageStart <= x /\ x < PageEnd) /\ Kernel!Holds(s, x) =>
       \E g \in layout : Kernel!Holds(g, x) /\ s = Left(g, x)
  /\ \A x \in Nat, g \in layout :
       ~(PageStart <= x /\ x < PageEnd) /\ Kernel!Holds(g, x) =>
         \E s \in l : Kernel!Holds(s, x) /\ s = Left(g, x)

LEMMA MapFixedIs ==
  ASSUME Kernel!WellFormed(layout), first \in Nat, Size \in Nat, PageRangeFits,
         PageEnd <= Kernel!Span(Levels),
         NEW f \in [Pages(PageStart, PageEnd) -> Free],
         NEW l, l = Kept \cup {Small(v, f[v]) : v \in DOMAIN f}
  PROVE  Laid(l, f)
<1> DEFINE c == PageCells
           P == Pages(PageStart, PageEnd)
           M == Kernel!Span(Levels)
<1>1. c \in Nat \ {0} /\ PhysMax \in Nat  BY PageCellsIs
<1>2. PageStart \in Nat /\ PageStart % c = 0 /\ PageEnd \in Nat /\ PageEnd % c = 0
  BY RangeIs
<1>3. M \in Nat
  <2>1. Levels \in 0 .. Levels  BY SizeAssumption
  <2> QED BY <2>1, SpanIs
<1>4. \A w : w \in P <=> w \in Nat /\ PageStart <= w /\ w < PageEnd /\ w % c = 0
  BY <1>2 DEF Pages
<1>5. \A w \in P : f[w] \in Nat /\ f[w] % c = 0 /\ f[w] < PhysMax + 1
  <2>1. \A p \in Free : p \in Nat /\ p % c = 0 /\ p < PhysMax + 1
    BY <1>1 DEF Free, Pages
  <2> QED BY <2>1
<1>6. \A g \in layout : Kernel!Page(g)  BY DEF Kernel!WellFormed
\* the three kinds of pages
<1>7. \A s : s \in l <=> \/ s \in layout /\ ~Hit(s)
                         \/ \E g \in layout : Hit(g) /\ s \in Split(g) /\ s.v \notin P
                         \/ \E w \in P : s = Small(w, f[w])
  BY DEF Kept
<1> HIDE DEF c, P, M
<1>8. \A w \in P : /\ Kernel!Page(Small(w, f[w])) /\ f[w] + c <= PhysMax + 1
                   /\ \A x : Kernel!Holds(Small(w, f[w]), x) <=> x \in Nat /\ w <= x /\ x < w + c
  <2> SUFFICES ASSUME NEW w \in P
               PROVE /\ Kernel!Page(Small(w, f[w])) /\ f[w] + c <= PhysMax + 1
                     /\ \A x : Kernel!Holds(Small(w, f[w]), x) <=> x \in Nat /\ w <= x /\ x < w + c
    OBVIOUS
  <2> DEFINE p == f[w]
  <2>1. p \in Nat /\ p % c = 0 /\ p < PhysMax + 1  BY <1>5
  <2>2. w \in Nat /\ w % c = 0 /\ w < Kernel!Span(Levels)  BY <1>2, <1>3, <1>4 DEF M
  <2> HIDE DEF p
  <2>3. /\ Kernel!Page(Small(w, p)) /\ p + PageCells <= PhysMax + 1
        /\ \A x : Kernel!Holds(Small(w, p), x) <=> x \in Nat /\ w <= x /\ x < w + PageCells
    BY <2>1, <2>2, SmallIs DEF c
  <2> QED BY <2>3 DEF p, c
<1>9. ASSUME NEW g \in layout, NEW s \in Split(g)
      PROVE  /\ Kernel!Page(s) /\ s.v \in Nat /\ s.v % c = 0 /\ s = Small(s.v, g.p + s.v - g.v)
             /\ g.v <= s.v /\ s.v + c <= g.v + Spans[g.level]
             /\ \A x : Kernel!Holds(s, x) <=> x \in Nat /\ s.v <= x /\ x < s.v + c
  <2>1. PICK w \in Pages(g.v, g.v + Kernel!Span(g.level)) : s = Small(w, g.p + w - g.v)
    BY DEF Split
  <2> DEFINE p == g.p + w - g.v
  <2>2. /\ w \in Nat /\ w % PageCells = 0 /\ p \in Nat /\ p % PageCells = 0 /\ p < PhysMax + 1
        /\ w < Kernel!Span(Levels) /\ g.v <= w /\ w + PageCells <= g.v + Spans[g.level]
    BY <1>6, SplitIs
  <2>3. s = Small(w, p)  BY <2>1
  <2> HIDE DEF p
  <2>4. /\ Kernel!Page(Small(w, p)) /\ Small(w, p).v = w
        /\ \A x : Kernel!Holds(Small(w, p), x) <=> x \in Nat /\ w <= x /\ x < w + PageCells
    BY <2>2, SmallIs
  <2>5. s.v = w  BY <2>3, <2>4
  <2>6. s = Small(s.v, g.p + s.v - g.v)  BY <2>1, <2>5
  <2> QED BY <2>2, <2>3, <2>4, <2>5, <2>6 DEF c
<1>10. \A s \in l : Kernel!Page(s)
  BY <1>6, <1>7, <1>8, <1>9
<1>11. ASSUME NEW x \in Nat, NEW v, v = x - (x % c)
       PROVE  /\ v \in Nat /\ v % c = 0 /\ v <= x /\ x < v + c
              /\ \A w \in Nat : w % c = 0 => (w <= x <=> w <= v) /\ (x < w <=> v + c <= w)
              /\ v \in P <=> PageStart <= x /\ x < PageEnd
  <2>1. /\ v \in Nat /\ v % c = 0 /\ v <= x /\ x < v + c
        /\ \A w \in Nat : w % c = 0 => (w <= x <=> w <= v) /\ (x < w <=> v + c <= w)
    <3>1. v \in Nat /\ v % c = 0 /\ v <= x /\ x < v + c  BY <1>1, <1>11, Floor
    <3>2. ASSUME NEW w \in Nat, w % c = 0 PROVE (w <= x <=> w <= v) /\ (x < w <=> v + c <= w)
      <4>1. v < w => v + c <= w  BY <1>1, <3>1, <3>2, MultipleBelow
      <4> QED BY <1>1, <3>1, <4>1
    <3> QED BY <3>1, <3>2
  <2>2. v < PageEnd <=> x < PageEnd
    <3>1. v < PageEnd => v + c <= PageEnd  BY <1>1, <1>2, <2>1, MultipleBelow
    <3> QED BY <1>1, <1>2, <2>1, <3>1
  <2> QED BY <1>2, <1>4, <2>1, <2>2
<1>12. ASSUME NEW x \in Nat, NEW v, v = x - (x % c), NEW s \in l, Kernel!Holds(s, x)
       PROVE  IF v \in P THEN s = Small(v, f[v])
              ELSE \E g \in layout : Kernel!Holds(g, x) /\ s = Left(g, x)
  <2>1. CASE s \in layout /\ ~Hit(s)
    <3>1. v \notin P
      <4> SUFFICES ASSUME v \in P PROVE FALSE  OBVIOUS
      <4>1. /\ s.v \in Nat /\ Spans[s.level] \in Nat \ {0} /\ s.v % Spans[s.level] = 0
            /\ s.level \in 0 .. Levels
            /\ \A y : Kernel!Holds(s, y) <=> y \in Nat /\ s.v <= y /\ y < s.v + Spans[s.level]
        BY <1>6, <2>1, PageIs
      <4>2. s.v % c = 0  BY <1>1, <4>1, MultipleOfSmall DEF c
      <4>3. Kernel!Holds(s, v)  BY <1>11, <1>12, <4>1, <4>2
      <4> QED BY <2>1, <4>3 DEF Hit, P
    <3> QED BY <1>12, <2>1, <3>1 DEF Left
  <2>2. ASSUME NEW g \in layout, Hit(g), s \in Split(g), s.v \notin P
        PROVE  v \notin P /\ Kernel!Holds(g, x) /\ s = Left(g, x)
    <3>1. /\ s.v \in Nat /\ s.v % c = 0 /\ s = Small(s.v, g.p + s.v - g.v)
          /\ g.v <= s.v /\ s.v + c <= g.v + Spans[g.level] /\ s.v <= x /\ x < s.v + c
      BY <1>9, <1>12, <2>2
    <3>2. s.v = v  BY <1>1, <1>11, <1>12, <3>1
    <3>3. /\ g.v \in Nat /\ Spans[g.level] \in Nat
          /\ \A y : Kernel!Holds(g, y) <=> y \in Nat /\ g.v <= y /\ y < g.v + Spans[g.level]
      BY <1>6, PageIs
    <3>4. Kernel!Holds(g, x)  BY <1>1, <3>1, <3>3
    <3> QED BY <1>12, <2>2, <3>1, <3>2, <3>4 DEF Left, c
  <2>3. ASSUME NEW w \in P, s = Small(w, f[w])
        PROVE  v \in P /\ s = Small(v, f[v])
    <3>1. w <= x /\ x < w + c /\ w \in Nat /\ w % c = 0  BY <1>4, <1>8, <1>12, <2>3
    <3>2. v \in Nat /\ v % c = 0 /\ w <= v /\ v <= x  BY <1>11, <1>12, <3>1
    <3>4. w < v => w + c <= v  BY <1>1, <3>1, <3>2, MultipleBelow
    <3>3. w = v  BY <1>1, <1>12, <3>1, <3>2, <3>4
    <3> QED BY <1>4, <2>3, <3>3
  <2> QED BY <1>7, <1>12, <2>1, <2>2, <2>3
<1>13. ASSUME NEW x \in Nat, NEW v, v = x - (x % c), v \in P
       PROVE  Small(v, f[v]) \in l /\ Kernel!Holds(Small(v, f[v]), x)
  BY <1>7, <1>8, <1>11, <1>13
<1>14. ASSUME NEW x \in Nat, NEW v, v = x - (x % c), v \notin P,
              NEW g \in layout, Kernel!Holds(g, x)
       PROVE  \E s \in l : Kernel!Holds(s, x) /\ s = Left(g, x)
  <2>1. CASE ~Hit(g)
    BY <1>7, <1>14, <2>1 DEF Left
  <2>2. CASE Hit(g)
    <3>1. /\ g.v \in Nat /\ Spans[g.level] \in Nat \ {0} /\ g.v % Spans[g.level] = 0
          /\ g.level \in 0 .. Levels /\ Kernel!Span(g.level) = Spans[g.level]
          /\ g.v <= x /\ x < g.v + Spans[g.level]
      BY <1>6, <1>14, PageIs
    <3>2. g.v % c = 0  BY <1>1, <3>1, MultipleOfSmall DEF c
    <3>3. v \in Nat /\ v % c = 0 /\ g.v <= v /\ v < g.v + Spans[g.level] /\ v <= x /\ x < v + c
      <4>1. v \in Nat /\ v % c = 0 /\ g.v <= v /\ v <= x /\ x < v + c
        BY <1>11, <1>14, <3>1, <3>2
      <4> QED BY <1>1, <1>14, <3>1, <4>1
    <3>4. v \in Pages(g.v, g.v + Kernel!Span(g.level))  BY <3>1, <3>3 DEF Pages, c
    <3>5. Left(g, x) = Small(v, g.p + v - g.v)  BY <1>14, <2>2 DEF Left, c
    <3>6. Left(g, x) \in Split(g)  BY <3>4, <3>5 DEF Split
    <3>7. Left(g, x).v = v  BY <3>5 DEF Small
    <3>8. Left(g, x) \in l  BY <1>7, <1>14, <2>2, <3>6, <3>7
    <3>9. Kernel!Holds(Left(g, x), x)  BY <1>9, <3>3, <3>6, <3>7
    <3> QED BY <3>8, <3>9
  <2> QED BY <2>1, <2>2
<1>15. \A x \in Nat : x - (x % c) \in P <=> PageStart <= x /\ x < PageEnd
  BY <1>11
<1>16. ASSUME NEW x \in Nat, PageStart <= x, x < PageEnd, NEW v, v = x - (x % c)
       PROVE  /\ v \in P /\ Small(v, f[v]) \in l /\ Kernel!Holds(Small(v, f[v]), x)
              /\ f[v] \in Nat /\ f[v] % c = 0 /\ f[v] + c <= PhysMax + 1
              /\ \A s \in l : Kernel!Holds(s, x) => s = Small(v, f[v])
  <2>1. v \in P  BY <1>15, <1>16
  <2>2. f[v] \in Nat /\ f[v] % c = 0 /\ f[v] + c <= PhysMax + 1  BY <1>5, <1>8, <2>1
  <2>3. Small(v, f[v]) \in l /\ Kernel!Holds(Small(v, f[v]), x)  BY <1>13, <1>16, <2>1
  <2>4. \A s \in l : Kernel!Holds(s, x) => s = Small(v, f[v])  BY <1>12, <1>16, <2>1
  <2> QED BY <2>1, <2>2, <2>3, <2>4
<1>17. \A x \in Nat, s \in l : ~(PageStart <= x /\ x < PageEnd) /\ Kernel!Holds(s, x) =>
         \E g \in layout : Kernel!Holds(g, x) /\ s = Left(g, x)
  BY <1>12, <1>15
<1>18. \A x \in Nat, g \in layout :
         ~(PageStart <= x /\ x < PageEnd) /\ Kernel!Holds(g, x) =>
           \E s \in l : Kernel!Holds(s, x) /\ s = Left(g, x)
  BY <1>14, <1>15
<1> QED BY <1>10, <1>16, <1>17, <1>18 DEF c, P, Laid

\* mmap leaves pages that the kernel may have, zeros in the range, and every other cell
\* where it was.
LEMMA CaveMapped ==
  ASSUME Kernel!WellFormed(layout), first \in Nat, Size \in Nat, PageRangeFits,
         phys \in [0 .. PhysMax -> Nat], PageEnd <= Kernel!Span(Levels),
         MapFixed, UNCHANGED <<first, buffer>>
  PROVE  /\ Kernel!WellFormed(layout)' /\ phys' \in [0 .. PhysMax -> Nat] /\ before' = phys'
         /\ \A x \in Nat : IF Touched(x) THEN Kernel!Mapped(x)' /\ phys'[Kernel!Physical(x)'] = 0
                           ELSE Where(layout', x) = Where(layout, x)
<1>1. PICK f \in Frames :
        /\ layout' = Kept \cup {Small(v, f[v]) : v \in DOMAIN f}
        /\ phys' = [y \in DOMAIN phys |->
                      IF \E v \in DOMAIN f : y - (y % PageCells) = f[v] THEN 0 ELSE phys[y]]
        /\ before' = phys'
  BY DEF MapFixed
<1> DEFINE c == PageCells
           l == layout'
           In(x) == PageStart <= x /\ x < PageEnd
           V(x) == x - (x % c)
<1>2. f \in [Pages(PageStart, PageEnd) -> Free] /\ c \in Nat \ {0} /\ PhysMax \in Nat
  BY PageCellsIs DEF Frames
<1>0. Laid(l, f)
  BY <1>1, <1>2, MapFixedIs
<1>3. \A s \in l : Kernel!Page(s)
  BY <1>0 DEF Laid
<1>4. \A x \in Nat : In(x) =>
        /\ V(x) \in DOMAIN f /\ Small(V(x), f[V(x)]) \in l /\ Kernel!Holds(Small(V(x), f[V(x)]), x)
        /\ f[V(x)] \in Nat /\ f[V(x)] % c = 0 /\ f[V(x)] + c <= PhysMax + 1
        /\ \A s \in l : Kernel!Holds(s, x) => s = Small(V(x), f[V(x)])
  BY <1>0 DEF Laid
<1>5. /\ \A x \in Nat, s \in l : ~In(x) /\ Kernel!Holds(s, x) =>
           \E g \in layout : Kernel!Holds(g, x) /\ s = Left(g, x)
      /\ \A x \in Nat, g \in layout : ~In(x) /\ Kernel!Holds(g, x) =>
           \E s \in l : Kernel!Holds(s, x) /\ s = Left(g, x)
  BY <1>0 DEF Laid
<1>6. \A x \in Nat : Touched(x) <=> In(x)  BY RangeIs
<1>7. \A x \in Nat : x % c \in Nat /\ V(x) \in Nat /\ x - V(x) = x % c /\ x % c < c
  BY <1>2, Floor
<1> HIDE DEF c, l, In, V
\* a part of a page has its cells where the page had them
<1>8. ASSUME NEW x \in Nat, NEW g \in layout, Kernel!Holds(g, x), NEW s, s = Left(g, x)
      PROVE  s.p + x - s.v = g.p + x - g.v
  <2>1. g.p \in Nat /\ g.v \in Nat
    <3>1. Kernel!Page(g)  BY DEF Kernel!WellFormed
    <3> QED BY <3>1, PageIs
  <2>2. CASE Hit(g)
    <3>1. s.v = V(x) /\ s.p = g.p + V(x) - g.v  BY <1>8, <2>2 DEF Left, Small, V, c
    <3>2. V(x) \in Nat  BY <1>7
    <3>3. ASSUME NEW v \in Nat, s.v = v, s.p = g.p + v - g.v PROVE s.p + x - s.v = g.p + x - g.v
      BY <2>1, <3>3
    <3> QED BY <3>1, <3>2, <3>3
  <2>3. CASE ~Hit(g)
    BY <1>8, <2>3 DEF Left
  <2> QED BY <2>2, <2>3
<1>9. ASSUME NEW x \in Nat, ~In(x) PROVE Where(l, x) = Where(layout, x)
  <2>1. ASSUME NEW y, y \in Where(l, x) PROVE y \in Where(layout, x)
    <3>1. PICK s \in l : Kernel!Holds(s, x) /\ y = s.p + x - s.v  BY <2>1 DEF Where
    <3>2. PICK g \in layout : Kernel!Holds(g, x) /\ s = Left(g, x)  BY <1>5, <1>9, <3>1
    <3>3. y = g.p + x - g.v  BY <1>8, <3>1, <3>2
    <3> QED BY <3>2, <3>3 DEF Where
  <2>2. ASSUME NEW y, y \in Where(layout, x) PROVE y \in Where(l, x)
    <3>1. PICK g \in layout : Kernel!Holds(g, x) /\ y = g.p + x - g.v  BY <2>2 DEF Where
    <3>2. PICK s \in l : Kernel!Holds(s, x) /\ s = Left(g, x)  BY <1>5, <1>9, <3>1
    <3>3. y = s.p + x - s.v  BY <1>8, <3>1, <3>2
    <3> QED BY <3>2, <3>3 DEF Where
  <2> QED BY <2>1, <2>2
<1>10. ASSUME NEW x \in Nat, In(x) PROVE Kernel!Mapped(x)' /\ phys'[Kernel!Physical(x)'] = 0
  <2> DEFINE s == Small(V(x), f[V(x)])
             y == f[V(x)] + (x % c)
  <2>1. s \in l /\ Kernel!Holds(s, x) /\ \A t \in l : Kernel!Holds(t, x) => t = s
    BY <1>4, <1>10
  <2>2. (CHOOSE t \in l : Kernel!Holds(t, x)) = s  BY <2>1
  <2>3. /\ f[V(x)] \in Nat /\ f[V(x)] % c = 0 /\ f[V(x)] + c <= PhysMax + 1 /\ V(x) \in DOMAIN f
    BY <1>4, <1>10
  <2>4. Kernel!Physical(x)' = y
    <3>1. s.p = f[V(x)] /\ s.v = V(x)  BY DEF Small
    <3>2. Kernel!Physical(x)' = s.p + x - s.v
      BY <2>2 DEF Kernel!Physical, Kernel!Holds, Kernel!Span, l
    <3> QED BY <1>7, <2>3, <3>1, <3>2
  <2>5. y \in 0 .. PhysMax /\ f[V(x)] <= y /\ y < f[V(x)] + c
    <3>1. x % c \in Nat /\ x % c < c  BY <1>7
    <3>2. ASSUME NEW p \in Nat, NEW r \in Nat, r < c, p + c <= PhysMax + 1
          PROVE  p + r \in 0 .. PhysMax /\ p <= p + r /\ p + r < p + c
      BY <1>2, <3>2
    <3> QED BY <2>3, <3>1, <3>2
  <2>6. y - (y % c) = f[V(x)]
    <3>1. y \in Nat  BY <2>5
    <3> HIDE DEF y
    <3>2. y % c = y - f[V(x)]  BY <1>2, <2>3, <2>5, <3>1, InBlock
    <3> QED BY <2>3, <3>1, <3>2
  <2> HIDE DEF y, s
  <2>7. phys'[y] = 0  BY <1>1, <2>3, <2>5, <2>6 DEF c
  <2>8. Kernel!Mapped(x)'  BY <2>1 DEF Kernel!Mapped, Kernel!Holds, Kernel!Span, l
  <2> QED BY <2>4, <2>7, <2>8
<1>11. phys' \in [0 .. PhysMax -> Nat]  BY <1>1
<1>12. Kernel!WellFormed(l)
  <2> SUFFICES ASSUME NEW s \in l, NEW t \in l, s # t PROVE Kernel!Apart(s, t)
    BY <1>3 DEF Kernel!WellFormed
  <2> SUFFICES ASSUME ~Kernel!Apart(s, t) PROVE FALSE  OBVIOUS
  <2>1. PICK x \in Nat : Kernel!Holds(s, x) /\ Kernel!Holds(t, x)  BY <1>3, ApartIs
  <2>2. CASE In(x)  BY <1>4, <2>1, <2>2
  <2>3. CASE ~In(x)
    <3>1. PICK g \in layout : Kernel!Holds(g, x) /\ s = Left(g, x)  BY <1>5, <2>1, <2>3
    <3>2. PICK h \in layout : Kernel!Holds(h, x) /\ t = Left(h, x)  BY <1>5, <2>1, <2>3
    <3>3. h = g  BY <3>1, <3>2, OnePage
    <3> QED BY <3>1, <3>2, <3>3
  <2> QED BY <2>2, <2>3
<1>13. Kernel!WellFormed(layout)'
  BY <1>12 DEF l, Kernel!WellFormed, Kernel!Page, Kernel!Apart, Kernel!Span
<1> QED BY <1>1, <1>6, <1>9, <1>10, <1>11, <1>13 DEF l

-----------------------------------------------------------------------------
(* The backends on the game. Until the copy begins its memory is as the game made   *)
(* it, or a cave was mapped and it is that but for the cave.                        *)

CaveIn ==
  /\ PageRangeFits
  /\ \A x \in 0 .. Kernel!Span(Levels) - 1 :
       IF Touched(x) THEN Kernel!Mapped(x) /\ phys[Kernel!Physical(x)] = 0
       ELSE Where(layout, x) = Where(given, x)
MemoryInv ==
  /\ IInv /\ CopyInv /\ Kernel!WellFormed(given)
  /\ pc # "idle" => at = "start"
  /\ pc \notin {"idle", "done"} => PageRangeFits
  /\ at = "start" => IF pages = "before" THEN layout = given ELSE CaveIn

\* Before it begins, a copy has kept its promises.
LEMMA AtStart == Kernel!WellFormed(layout) /\ CopyTyped /\ at = "start" /\ Copying => CopyInv
<1> SUFFICES ASSUME Kernel!WellFormed(layout), CopyTyped, at = "start", Copying PROVE CopyInv
  OBVIOUS
<1>1. remaining = Size /\ phys = before /\ Kernel!Done = 0 /\ Size \in Nat
  BY DEF Copying, CopyTyped, Kernel!Done, Size, Kernel!Size
<1>2. \A i : i \notin 1 .. 0  OBVIOUS
<1>3. \A x : Kernel!From(0, x) = {}  BY <1>2 DEF Kernel!From
<1>4. PrefixCopied
  BY <1>1, <1>2, <1>3 DEF PrefixCopied, Kernel!PrefixCopied, Kernel!CopiedIn, Kernel!CopiedOut
<1> QED BY <1>4 DEF CopyInv, SucceedsWhenMapped, Kernel!SucceedsWhenMapped

LEMMA AtStartNext ==
  (Kernel!WellFormed(layout) /\ CopyTyped /\ at = "start" /\ Copying => CopyInv)'
BY AtStart, PTL

LEMMA MemoryInitInv == MemoryInit => MemoryInv
<1> SUFFICES ASSUME MemoryInit PROVE MemoryInv  OBVIOUS
<1>1. IInv  BY InitInv DEF MemoryInit
<1>2. Kernel!WellFormed(layout) /\ given = layout /\ at = "start"
  BY LayoutAssumption DEF MemoryInit, Kernel!Init
<1>3. CopyTyped /\ Copying
  <2>1. PICK n \in 0 .. MaxSize :
          remaining = n /\ buffer = [i \in 1 .. n |-> IF writing THEN 3 + i ELSE 0]
    BY DEF MemoryInit, Kernel!Init
  <2>2. n \in Nat /\ PhysMax \in Nat /\ AddrMax \in Nat /\ first \in Nat
    BY SizeAssumption DEF MemoryInit, Kernel!Init
  <2>3. buffer \in [1 .. n -> Nat]  BY <2>1, <2>2
  <2>4. buffer \in Seq(Nat) /\ Len(buffer) = n  BY <2>2, <2>3
  <2>5. Size = n  BY <2>4 DEF Size, Kernel!Size
  <2>6. phys \in [0 .. PhysMax -> Nat] /\ before = phys
    <3>1. \A x \in 0 .. PhysMax : x % 3 \in Nat  BY <2>2
    <3> QED BY <3>1 DEF MemoryInit, Kernel!Init
  <2>7. /\ writing \in BOOLEAN /\ address = first /\ at = "start" /\ copied = FALSE
        /\ failed = FALSE
    BY DEF MemoryInit, Kernel!Init
  <2>8. remaining \in 0 .. Size /\ address = first + (Size - remaining)
    BY <2>1, <2>2, <2>5, <2>7
  <2> QED BY <2>1, <2>2, <2>4, <2>5, <2>6, <2>7, <2>8 DEF CopyTyped, Copying
<1>4. CopyInv  BY <1>2, <1>3, AtStart
<1> QED BY <1>1, <1>2, <1>4 DEF MemoryInit, MemoryInv, Init

\* A cave, the death of the game and its restart leave the copy where it was: not begun.
LEMMA StartStays ==
  ASSUME CopyInv, at = "start", UNCHANGED walk, Kernel!WellFormed(layout)',
         phys' \in [0 .. PhysMax -> Nat], before' = phys'
  PROVE  CopyInv'
<1>1. CopyTyped'  BY DEF CopyInv, CopyTyped, walk, Size, Kernel!Size
<1>2. (at = "start" /\ Copying)'  BY DEF CopyInv, Copying, walk, Size, Kernel!Size
<1> QED BY <1>1, <1>2, AtStartNext

\* The steps of a call.
LEMMA CallMoves ==
  ASSUME Works
  PROVE  /\ pc # "idle" /\ (pc' \notin {"idle", "done"} => pc \notin {"idle", "done"})
         /\ pages' # pages => \/ pages' = "fresh" /\ pc = "step"
                              \/ pages = "fresh" /\ pages' = "executable"
BY DEF Works, Invoke, Attach, AttachError, WaitStopped, WaitDead, GetRegs, GetRegsError,
       Resolve, ResolveError, SetRegs, SetRegsError, Step, StepError, GaveUp, Returned, Progress,
       Restore, RestoreError, Protect, ProtectError, ReleaseClean, ReleaseDirty, ReleaseError,
       Detach, Return, PutBack, target

LEMMA CaveStays ==
  ASSUME UNCHANGED <<layout, phys, first, buffer, given>>
  PROVE  (PageRangeFits' <=> PageRangeFits) /\ (CaveIn' <=> CaveIn)
<1>1. /\ PageRangeFits' <=> PageRangeFits
      /\ \A x : Touched(x)' <=> Touched(x)
      /\ \A x : Where(layout, x)' = Where(layout, x) /\ Where(given, x)' = Where(given, x)
  BY DEF PageRangeFits, PageCells, Size, Kernel!Size, Touched, Where, Kernel!Holds, Kernel!Span
<1>2. \A x : (Kernel!Mapped(x)' <=> Kernel!Mapped(x)) /\ Kernel!Physical(x)' = Kernel!Physical(x)
  BY SamePlaces
<1>3. Kernel!Span(Levels)' = Kernel!Span(Levels)  BY DEF Kernel!Span
<1> QED BY <1>1, <1>2, <1>3 DEF CaveIn

LEMMA CopyBegins == Kernel!Next => at' # "start"
BY DEF Kernel!Next, Kernel!Walk, Kernel!Refuse, Kernel!Begin, Kernel!NextChunk,
       Kernel!AllCopied, Kernel!KernelError, Kernel!NotMapped, Kernel!Descend,
       Kernel!PageFound, Kernel!CopyChunk, Kernel!Finished, Kernel!vars

LEMMA MemoryNextInv ==
  ASSUME MemoryInv, [MemoryNext]_all
  PROVE  MemoryInv'
<1>1. IInv /\ CopyInv /\ Kernel!WellFormed(given) /\ Kernel!WellFormed(layout) /\ first \in Nat
      /\ Size \in Nat /\ phys \in [0 .. PhysMax -> Nat] /\ (at = "start" => before = phys)
  <2>1. CopyTyped  BY DEF MemoryInv, CopyInv
  <2>2. Size \in Nat  BY <2>1, NextCell
  <2> QED BY <2>1, <2>2 DEF MemoryInv, CopyInv, CopyTyped, Copying
<1>2. CASE CallCave
  <2>1. at = "start" /\ Call /\ (pc' = "attach" => PageRangeFits) /\ pages' = pages
        /\ pc' \in {"attach", "done"} /\ UNCHANGED <<walk, memory, given>>
    BY <1>2 DEF CallCave, Call, target
  <2>2. IInv'  BY <1>1, <2>1, NextInv DEF Next
  <2>3. Kernel!WellFormed(layout)' /\ Kernel!WellFormed(given)'
    BY <1>1, <2>1, SamePlaces DEF walk, memory, Kernel!WellFormed, Kernel!Page, Kernel!Apart,
                                  Kernel!Span
  <2>4. CopyInv'  BY <1>1, <2>1, <2>3, StartStays DEF memory
  <2>5. (PageRangeFits' <=> PageRangeFits) /\ (CaveIn' <=> CaveIn)
    BY <2>1, CaveStays DEF walk, memory
  <2> QED BY <2>1, <2>2, <2>3, <2>4, <2>5 DEF MemoryInv, walk, memory
<1>3. CASE CaveWorks
  <2>1. Works /\ UNCHANGED <<walk, given>>  BY <1>3 DEF CaveWorks
  <2>2. IInv'  BY <1>1, <2>1, NextInv DEF Next
  <2>3. pc # "idle" /\ at = "start" /\ (pc' \notin {"idle", "done"} => PageRangeFits)
    BY <2>1, CallMoves DEF MemoryInv
  <2>4. CASE Maps
    <3>1. pc = "step" /\ PageRangeFits /\ pages' = "fresh" /\ PageEnd <= Kernel!Span(Levels)
          /\ MapFixed /\ UNCHANGED <<first, buffer>>
      BY <1>3, <2>1, <2>4, CallMoves DEF MemoryInv, Maps, CaveWorks, walk
    <3>2. /\ Kernel!WellFormed(layout)' /\ phys' \in [0 .. PhysMax -> Nat] /\ before' = phys'
          /\ \A x \in Nat : IF Touched(x) THEN Kernel!Mapped(x)' /\ phys'[Kernel!Physical(x)'] = 0
                            ELSE Where(layout', x) = Where(layout, x)
      BY <1>1, <3>1, CaveMapped
    <3>3. CopyInv'  BY <1>1, <2>1, <2>3, <3>2, StartStays
    <3>4. PageRangeFits' /\ \A x : Touched(x)' <=> Touched(x)
      BY <3>1 DEF PageRangeFits, PageCells, Size, Kernel!Size, Touched
    <3>5. Kernel!Span(Levels) \in Nat
      <4>1. Levels \in 0 .. Levels  BY SizeAssumption
      <4> QED BY <4>1, SpanIs
    <3>6. \A x \in 0 .. Kernel!Span(Levels) - 1 : x \in Nat /\
            (~Touched(x) => Where(layout, x) = Where(given, x))
      BY <2>3, <3>5 DEF MemoryInv, CaveIn
    <3>7. \A x : Where(layout, x)' = Where(layout', x) /\ Where(given, x)' = Where(given, x)
      BY <2>1 DEF Where, Kernel!Holds, Kernel!Span
    <3>8. Kernel!Span(Levels)' = Kernel!Span(Levels)  BY DEF Kernel!Span
    <3>9. CaveIn'  BY <3>2, <3>4, <3>6, <3>7, <3>8 DEF CaveIn
    <3>10. Kernel!WellFormed(given)'
      BY <1>1, <2>1 DEF Kernel!WellFormed, Kernel!Page, Kernel!Apart, Kernel!Span
    <3> QED BY <2>1, <2>2, <2>3, <3>1, <3>3, <3>4, <3>9, <3>10 DEF MemoryInv, walk
  <2>5. CASE ~Maps
    <3>1. UNCHANGED <<walk, memory, given>>  BY <1>3, <2>1, <2>5 DEF CaveWorks
    <3>2. pages' = "before" <=> pages = "before"
      BY <2>1, <2>5, CallMoves DEF Maps
    <3>3. Kernel!WellFormed(layout)' /\ Kernel!WellFormed(given)'
      BY <1>1, <3>1, SamePlaces DEF walk, memory, Kernel!WellFormed, Kernel!Page, Kernel!Apart,
                                    Kernel!Span
    <3>4. CopyInv'  BY <1>1, <2>1, <2>3, <3>1, <3>3, StartStays DEF memory
    <3>5. (PageRangeFits' <=> PageRangeFits) /\ (CaveIn' <=> CaveIn)
      BY <3>1, CaveStays DEF walk, memory
    <3> QED BY <2>2, <2>3, <3>1, <3>2, <3>3, <3>4, <3>5 DEF MemoryInv, walk, memory
  <2> QED BY <2>4, <2>5
<1>4. CASE GameDies
  <2>1. at = "start" /\ Die /\ pages' = pages /\ pc' = pc /\ UNCHANGED <<walk, memory, given>>
    BY <1>4 DEF GameDies, Die
  <2>2. IInv'  BY <1>1, <2>1, NextInv DEF Next
  <2>3. Kernel!WellFormed(layout)' /\ Kernel!WellFormed(given)'
    BY <1>1, <2>1, SamePlaces DEF walk, memory, Kernel!WellFormed, Kernel!Page, Kernel!Apart,
                                  Kernel!Span
  <2>4. CopyInv'  BY <1>1, <2>1, <2>3, StartStays DEF memory
  <2>5. (PageRangeFits' <=> PageRangeFits) /\ (CaveIn' <=> CaveIn)
    BY <2>1, CaveStays DEF walk, memory
  <2> QED BY <2>1, <2>2, <2>3, <2>4, <2>5 DEF MemoryInv, walk, memory
<1>5. CASE GameRestarts
  <2>1. /\ at = "start" /\ Restart /\ pages' = "before" /\ pc' = pc /\ pc = "idle"
        /\ layout' = given /\ UNCHANGED <<walk, phys, before, given>>
    BY <1>5 DEF GameRestarts, Restart
  <2>2. IInv'  BY <1>1, <2>1, NextInv DEF Next
  <2>3. Kernel!WellFormed(layout)' /\ Kernel!WellFormed(given)'
    BY <1>1, <2>1 DEF Kernel!WellFormed, Kernel!Page, Kernel!Apart, Kernel!Span
  <2>4. CopyInv'  BY <1>1, <2>1, <2>3, StartStays
  <2> QED BY <2>1, <2>2, <2>3, <2>4 DEF MemoryInv, walk
<1>6. CASE Copy
  <2>1. pc = "idle" /\ Kernel!Next /\ UNCHANGED <<vars, given>>  BY <1>6 DEF Copy
  <2>2. IInv'  BY <1>1, <2>1, NextInv
  <2>3. CopyInv' /\ at' # "start"  BY <1>1, <2>1, CopyStep, CopyBegins
  <2>4. Kernel!WellFormed(given)'
    BY <1>1, <2>1 DEF Kernel!WellFormed, Kernel!Page, Kernel!Apart, Kernel!Span
  <2> QED BY <2>1, <2>2, <2>3, <2>4 DEF MemoryInv, vars
<1>7. CASE UNCHANGED all
  <2>1. UNCHANGED <<vars, walk, memory, given>>  BY <1>7 DEF all
  <2>2. IInv'  BY <1>1, <2>1, NextInv
  <2>3. Kernel!WellFormed(given)'
    BY <1>1, <2>1 DEF Kernel!WellFormed, Kernel!Page, Kernel!Apart, Kernel!Span
  <2>4. (PageRangeFits' <=> PageRangeFits) /\ (CaveIn' <=> CaveIn)
    BY <2>1, CaveStays DEF walk, memory
  <2>5. CopyInv'  BY <1>1, <2>1, StutterCopy
  <2> QED BY <2>1, <2>2, <2>3, <2>4, <2>5 DEF MemoryInv, vars, walk, memory
<1> QED BY <1>2, <1>3, <1>4, <1>5, <1>6, <1>7 DEF MemoryNext

LEMMA MemoryInvariance == MemorySpec => []MemoryInv
BY MemoryInitInv, MemoryNextInv, PTL DEF MemorySpec

\* What was proved of a call holds of the calls that are made on this memory.
LEMMA MemoryIsSpec == MemorySpec => Spec
<1>1. MemoryInit => Init  BY DEF MemoryInit
<1>2. [MemoryNext]_all => [Next]_vars
  BY DEF MemoryNext, all, CallCave, CaveWorks, GameDies, GameRestarts, Copy, Next
<1> QED BY <1>1, <1>2, PTL DEF MemorySpec, Spec

THEOREM CallsAreSafe == MemorySpec => [](TypeOK /\ RegistersRestored /\ LetGo /\ TrueMeansCave)
BY MemoryIsSpec, TypeCorrect, RegistersAreRestored, GameIsLetGo, TrueMeansMapped, PTL

\* Whatever pages of whatever size the cells lie in, a copy that has got so far has copied
\* that many cells one by one and nothing else (ps5_memory_backends.cpp:261-281).
THEOREM CopyIsPrefix == MemorySpec => []PrefixCopied
<1>1. MemoryInv => PrefixCopied  BY DEF MemoryInv, CopyInv
<1> QED BY <1>1, MemoryInvariance, PTL

\* A copy succeeds if and only if every cell is mapped (lines 229-281).
THEOREM CopySucceeds == MemorySpec => []SucceedsWhenMapped
<1>1. MemoryInv => SucceedsWhenMapped  BY DEF MemoryInv, CopyInv
<1> QED BY <1>1, MemoryInvariance, PTL

\* A cave that was made is zeros in exactly the pages that its range touches, and has
\* moved no other cell (lines 125-134 and 147-161).
THEOREM CaveIsRange == MemorySpec => []CaveIsTheRange
<1>1. MemoryInv => CaveIsTheRange
  BY DEF MemoryInv, IInv, CaveMade, CaveIn, CaveIsTheRange
<1> QED BY <1>1, MemoryInvariance, PTL
=============================================================================
