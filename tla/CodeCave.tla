------------------------------- MODULE CodeCave -------------------------------
(* map_code_cave_common (src/memory/ps5_memory_backends.cpp): the game is stopped *)
(* with ptrace, made to execute mmap by changing its registers and stepping it,    *)
(* and let go. The calls to the kernel fail one by one, the game may die at any    *)
(* time, and the two destructors run on every way out.                             *)
EXTENDS Naturals

CONSTANTS
  StepLimit,  \* 100000: turns of the stepping loop
  MaxCalls,   \* bound on calls
  Faults      \* kernel calls that may fail

ASSUME LimitAssumption == StepLimit \in Nat \ {0} /\ MaxCalls \in Nat

VARIABLES
  game,      \* "runs", "stopped" or "dead"
  regs,      \* its registers: its own, or where the remote call has got to
  pages,     \* the range: as "before", "fresh" after mmap, or "executable"
  attached,  \* attached_
  backup,    \* backup_: the registers as this call found them
  dirty,     \* dirty_: the registers may not be the game's own
  mapped,    \* what mmap returned: the start of the range, or something else
  steps,     \* step
  pc,        \* where the call is
  result,    \* what it returned
  stuck,     \* history: PT_SETREGS failed in the destructor, its last chance
  calls      \* calls so far

vars == <<game, regs, pages, backup, attached, dirty, mapped, steps, pc, result, stuck, calls>>
target == <<game, regs, pages>>

\* the values of regs: own; at the syscall instruction; past it; returned, with the
\* stack pointer above entry_stack
Remote == {"call", "after", "returned"}
Alive == game # "dead"
Fails(f) == ~Alive \/ f \in Faults

-----------------------------------------------------------------------------
Init ==
  /\ game = "runs" /\ regs = "own" /\ pages = "before" /\ backup = "own"
  /\ attached = FALSE /\ dirty = FALSE /\ mapped = FALSE /\ result = FALSE
  /\ steps = 0 /\ pc = "idle" /\ stuck = FALSE /\ calls = 0

\* the process id and the range are checked first
Call ==
  /\ pc = "idle" /\ calls < MaxCalls /\ calls' = calls + 1
  /\ pc' \in {"attach", "done"} /\ result' = FALSE /\ mapped' = FALSE
  /\ UNCHANGED <<target, backup, attached, dirty, steps, stuck>>

\* PtraceAttachment
Attach ==
  /\ pc = "attach" /\ Alive /\ attached' = TRUE /\ pc' = "wait"
  /\ UNCHANGED <<target, backup, dirty, mapped, steps, result, stuck, calls>>
AttachError ==
  /\ pc = "attach" /\ Fails("attach") /\ pc' = "done"
  /\ UNCHANGED <<target, backup, attached, dirty, mapped, steps, result, stuck, calls>>
WaitStopped ==
  /\ pc = "wait" /\ Alive /\ game' = "stopped" /\ pc' = "getregs"
  /\ UNCHANGED <<regs, pages, backup, attached, dirty, mapped, steps, result, stuck, calls>>
WaitDead ==
  /\ pc = "wait" /\ ~Alive /\ pc' = "detach"
  /\ UNCHANGED <<target, backup, attached, dirty, mapped, steps, result, stuck, calls>>

\* RemoteRegisters and invoke_syscall
GetRegs ==
  /\ pc = "getregs" /\ Alive /\ pc' = "resolve" /\ backup' = regs
  /\ UNCHANGED <<target, attached, dirty, mapped, steps, result, stuck, calls>>
GetRegsError ==
  /\ pc = "getregs" /\ Fails("getregs") /\ pc' = "detach"
  /\ UNCHANGED <<target, backup, attached, dirty, mapped, steps, result, stuck, calls>>
Resolve ==
  /\ pc = "resolve" /\ Alive /\ pc' = "setregs"
  /\ UNCHANGED <<target, backup, attached, dirty, mapped, steps, result, stuck, calls>>
ResolveError ==
  /\ pc = "resolve" /\ Fails("resolve") /\ pc' = "release"
  /\ UNCHANGED <<target, backup, attached, dirty, mapped, steps, result, stuck, calls>>
SetRegs ==
  /\ pc = "setregs" /\ Alive
  /\ regs' = "call" /\ dirty' = TRUE /\ steps' = 0 /\ pc' = "step"
  /\ UNCHANGED <<game, pages, backup, attached, mapped, result, stuck, calls>>
SetRegsError ==
  /\ pc = "setregs" /\ Fails("setregs") /\ pc' = "release"
  /\ UNCHANGED <<target, backup, attached, dirty, mapped, steps, result, stuck, calls>>

\* what one step does to the game: it may stop for another reason and get nowhere
Progress ==
  \/ UNCHANGED <<regs, pages, mapped>>
  \/ /\ regs = "call" /\ regs' = "after"
     /\ \/ pages' = "fresh" /\ mapped' = TRUE
        \/ "mmap" \in Faults /\ UNCHANGED <<pages, mapped>>
  \/ regs = "after" /\ regs' = "returned" /\ UNCHANGED <<pages, mapped>>
\* mutant: one turn too many
OneTooMany == steps <= StepLimit /\ regs # "returned"
MayStep == steps < StepLimit /\ regs # "returned"
Step ==
  /\ pc = "step" /\ Alive /\ MayStep /\ Progress /\ steps' = steps + 1
  /\ UNCHANGED <<game, backup, attached, dirty, pc, result, stuck, calls>>
\* PT_STEP fails, or waitpid or PT_GETREGS after it
StepError ==
  /\ pc = "step" /\ MayStep /\ Fails("step") /\ pc' = "release"
  /\ IF Alive THEN Progress ELSE UNCHANGED <<regs, pages, mapped>>
  /\ UNCHANGED <<game, backup, attached, dirty, steps, result, stuck, calls>>
\* mutant: the limit does not end the loop
StartsOver ==
  /\ pc = "step" /\ ~MayStep /\ regs # "returned" /\ steps' = 0
  /\ UNCHANGED <<target, backup, attached, dirty, mapped, pc, result, stuck, calls>>
GaveUp ==
  /\ pc = "step" /\ ~MayStep /\ regs # "returned" /\ pc' = "release"
  /\ UNCHANGED <<target, backup, attached, dirty, mapped, steps, result, stuck, calls>>
Returned ==
  /\ pc = "step" /\ regs = "returned" /\ pc' = "restore"
  /\ UNCHANGED <<target, backup, attached, dirty, mapped, steps, result, stuck, calls>>

\* restore(), at the end of invoke_syscall and again in the destructor if still dirty
PutBack == Alive /\ regs' = backup /\ dirty' = FALSE /\ UNCHANGED stuck
\* mutant: what mmap returned is not looked at
RestoreUnchecked ==
  /\ pc = "restore" /\ PutBack /\ pc' = "protect"
  /\ UNCHANGED <<game, pages, backup, attached, mapped, steps, result, calls>>
Restore ==
  /\ pc = "restore" /\ PutBack /\ pc' = IF mapped THEN "protect" ELSE "release"
  /\ UNCHANGED <<game, pages, backup, attached, mapped, steps, result, calls>>
RestoreError ==
  /\ pc = "restore" /\ Fails("setregs") /\ pc' = "release"
  /\ UNCHANGED <<target, backup, attached, dirty, mapped, steps, result, stuck, calls>>

\* kernel_mprotect, the last word of map_code_cave_common
Protect ==
  /\ pc = "protect" /\ Alive
  /\ pages' = IF pages = "fresh" THEN "executable" ELSE pages
  /\ result' = TRUE /\ pc' = "release"
  /\ UNCHANGED <<game, regs, backup, attached, dirty, mapped, steps, stuck, calls>>
ProtectError ==
  /\ pc = "protect" /\ Fails("protect") /\ pc' = "release"
  /\ UNCHANGED <<target, backup, attached, dirty, mapped, steps, result, stuck, calls>>

\* ~RemoteRegisters, then ~PtraceAttachment
ReleaseClean ==
  /\ pc = "release" /\ ~dirty /\ pc' = "detach"
  /\ UNCHANGED <<target, backup, attached, dirty, mapped, steps, result, stuck, calls>>
\* mutant: the destructor forgets
ReleaseForgets ==
  /\ pc = "release" /\ dirty /\ Alive /\ pc' = "detach" /\ dirty' = FALSE
  /\ UNCHANGED <<target, backup, attached, mapped, steps, result, stuck, calls>>
ReleaseDirty ==
  /\ pc = "release" /\ dirty /\ PutBack /\ pc' = "detach"
  /\ UNCHANGED <<game, pages, backup, attached, mapped, steps, result, calls>>
ReleaseError ==
  /\ pc = "release" /\ dirty /\ Fails("setregs") /\ pc' = "detach"
  /\ dirty' = FALSE /\ stuck' = TRUE
  /\ UNCHANGED <<target, backup, attached, mapped, steps, result, calls>>
\* mutant: a call that failed does not detach
DetachIfMapped ==
  /\ pc = "detach" /\ pc' = "done"
  /\ IF mapped THEN attached' = FALSE /\ game' = IF Alive THEN "runs" ELSE game
     ELSE UNCHANGED <<backup, attached, game>>
  /\ UNCHANGED <<regs, pages, backup, dirty, mapped, steps, result, stuck, calls>>
Detach ==
  /\ pc = "detach" /\ pc' = "done" /\ attached' = FALSE
  /\ game' = IF Alive THEN "runs" ELSE game
  /\ UNCHANGED <<regs, pages, backup, dirty, mapped, steps, result, stuck, calls>>
Return ==
  /\ pc = "done" /\ pc' = "idle"
  /\ UNCHANGED <<target, backup, attached, dirty, mapped, steps, result, stuck, calls>>

\* the game is closed or crashes; another one is started under the same process id
\* only when no call is under way
Die ==
  /\ Alive /\ game' = "dead"
  /\ UNCHANGED <<regs, pages, backup, attached, dirty, mapped, steps, pc, result, stuck, calls>>
Restart ==
  /\ ~Alive /\ pc = "idle" /\ game' = "runs" /\ regs' = "own" /\ pages' = "before"
  /\ result' = FALSE /\ stuck' = FALSE
  /\ UNCHANGED <<backup, attached, dirty, mapped, steps, pc, calls>>

Invoke == SetRegs \/ SetRegsError \/ Step \/ StepError \/ GaveUp \/ Returned
          \/ Restore \/ RestoreError
Works ==
  \/ Attach \/ AttachError \/ WaitStopped \/ WaitDead
  \/ GetRegs \/ GetRegsError \/ Resolve \/ ResolveError \/ Invoke
  \/ Protect \/ ProtectError \/ ReleaseClean \/ ReleaseDirty \/ ReleaseError
  \/ Detach \/ Return
Next == Call \/ Works \/ Die \/ Restart
Spec == Init /\ [][Next]_vars
FairSpec == Spec /\ WF_vars(Works)

-----------------------------------------------------------------------------
(* Properties. *)

TypeOK ==
  /\ game \in {"runs", "stopped", "dead"}
  /\ regs \in Remote \cup {"own"} /\ backup \in Remote \cup {"own"}
  /\ pages \in {"before", "fresh", "executable"}
  /\ attached \in BOOLEAN /\ dirty \in BOOLEAN /\ mapped \in BOOLEAN
  /\ result \in BOOLEAN /\ stuck \in BOOLEAN
  /\ steps \in 0..StepLimit /\ calls \in 0..MaxCalls
  /\ pc \in {"idle", "attach", "wait", "getregs", "resolve", "setregs", "step", "restore",
             "protect", "release", "detach", "done"}

\* A game that runs has its own registers, whatever failed and wherever the call was
\* given up, unless PT_SETREGS failed in the destructor itself, after which nothing tries
\* again (ps5_memory_backends.cpp:64, 99-104 and 110-117).
RegistersRestored == game = "runs" => regs = "own" \/ stuck

\* Between two calls nobody is attached to the game, and it runs (lines 43-45).
LetGo == pc = "idle" => ~attached /\ game # "stopped"

\* A call returns true only if the whole of it was done: the range is fresh and
\* executable and the game goes on with its own registers (lines 156-161).
TrueMeansCave ==
  result /\ pc \in {"done", "idle"} /\ Alive =>
    pages = "executable" /\ regs = backup /\ game = "runs"

\* A call ends, even if the game never gets out of the remote call (lines 95-97).
CallEnds == pc # "idle" ~> pc = "idle"
=============================================================================
