---------------------------- MODULE CheatApplier ----------------------------
(* CheatApplier::set_enabled (src/application/cheat_applier.cpp): switching one  *)
(* cheat of a parsed file on or off in the memory of a running game.             *)
(* Every read and every verified write of the target process is a step of its    *)
(* own, so processes may exit and the backend may fail between any two of them.  *)
EXTENDS Integers, Sequences, FiniteSets

CONSTANTS
  Pids,      \* process ids that can exist
  Apps,      \* application ids
  NoApp,     \* the application of a pid nobody uses
  AddrMax,   \* the highest address (UINT64_MAX)
  Byte,      \* byte values
  Unmapped,  \* content of a cell no page backs
  PageSize,  \* cells per page (kPageSize)
  LowSpan,   \* cells covered by the low byte of an offset (256 in the code)
  Files,     \* parsed files: sequences of cheats
  Base,      \* Base[p]: first section of the module that the cheats name, in p
  Ps2,       \* processes with the PS2 emulator module
  Image,     \* Image[p]: memory of a freshly started process
  Faults     \* failures the backend may show: "read", "write", "map", "alloc"

Cells == 0..AddrMax
NoPid == 0          \* last_applied_pid of a file never applied
NoMaster == 0       \* master_code_id of a file without master code (-1)
Outcomes == {"none", "enabled", "disabled", "already", "invalid_cheat",
             "invalid_patch", "module_not_found", "memory_error", "rollback_error"}

PatchType == [offset : Cells, absolute : BOOLEAN, assembly : BOOLEAN,
              section : BOOLEAN, on : Seq(Byte), off : Seq(Byte)]
CheatType == [master : BOOLEAN, mc : BOOLEAN, patches : Seq(PatchType)]
SnapType  == [address : Cells, bytes : Seq(Byte)]
MemType   == [Cells -> Byte \cup {Unmapped}]

ASSUME AddrAssumption == AddrMax \in Nat \ {0}
ASSUME PageAssumption == PageSize \in Nat \ {0} /\ LowSpan \in Nat \ {0}
ASSUME PidAssumption  == Pids \subseteq Nat \ {0} /\ NoApp \notin Apps
ASSUME ByteAssumption == 0 \in Byte /\ Unmapped \notin Byte
ASSUME FileAssumption == Files \subseteq Seq(CheatType)
ASSUME ProcAssumption == Base \in [Pids -> Cells] /\ Image \in [Pids -> MemType]

VARIABLES
  app,       \* app[p]: the application process p runs, NoApp when p is free
  hosts,     \* processes that have the module of the cheats loaded
  mem,       \* mem[p]: memory of process p
  game,      \* GameContext passed to the applier: [pid, app]
  file,      \* the parsed cheats (CheatFile::cheats, what never changes in them)
  enabled,   \* CheatEntry::enabled
  offset,    \* offset[c]: patches[0].offset of cheat c, which fix_master_code moves
  masterId,  \* CheatFile::master_code_id
  lastPid,   \* CheatFile::last_applied_pid
  pc,        \* where set_enabled is
  call,      \* its arguments and target: [id, on, pid]
  next,      \* index of the patch it works on
  snaps,     \* PatchSnapshot array, the first `applied` entries
  restored,  \* no write of the rollback has failed
  outcome,   \* the status set_enabled reports
  start,     \* history: memory of the target when the call began
  caved,     \* history: cells of the pages this call had mapped
  stray,     \* history: <<pid, cell>> left unknown by a rollback write that failed
  wiped,     \* history: <<pid, cell>> of mapped cells that a code cave replaced
  site       \* history: site[c], the addresses the last enabling of c wrote

world   == <<app, hosts>>
cheats  == <<game, file>>
flags   == <<enabled, offset, masterId, lastPid>>
frame   == <<call, next, snaps, restored>>
history == <<start, caved, stray, wiped, site>>
vars == <<world, mem, cheats, flags, pc, frame, outcome, history>>

-----------------------------------------------------------------------------
(* Memory of one process, and the pages of a range. *)

Span(a, n) == {x \in Cells : a <= x /\ x < a + n}
Overlay(m, a, s, k) ==
  [x \in Cells |-> IF x \in Span(a, k) THEN s[x - a + 1] ELSE m[x]]
BytesAt(m, a, n) == [k \in 1..n |-> m[a + k - 1]]
Mapped(m, a, n) == a + n - 1 <= AddrMax /\ \A x \in Span(a, n) : m[x] # Unmapped
Readable(p, a, n) == app[p] # NoApp /\ Mapped(mem[p], a, n)

\* page_range and its overflow guard: the cells of every page the range touches
PageRangeFits(a, n) == a + n + PageSize - 1 <= AddrMax
PageRange(a, n) ==
  {x \in Cells : (a \div PageSize) * PageSize <= x
                 /\ x < ((a + n + PageSize - 1) \div PageSize) * PageSize}
MapPages(m, a, n) == [x \in Cells |-> IF x \in PageRange(a, n) THEN 0 ELSE m[x]]

-----------------------------------------------------------------------------
(* Resolving what a call works on. *)

Ids == DOMAIN file
OffsetOf(c, i) == IF i = 1 THEN offset[c] ELSE file[c].patches[i].offset

\* patch_address; 0 stands for its false
PatchAddress(patch, off, direct, base) ==
  IF patch.absolute \/ direct THEN off
  ELSE IF off > AddrMax - base THEN 0 ELSE base + off
AddressOf(p, c, i) ==
  PatchAddress(file[c].patches[i], OffsetOf(c, i), p \in Ps2, Base[p])

\* find_module in the game's process, else in any process of its application
Hosting(p) == app[p] # NoApp /\ p \in hosts /\ Base[p] # 0
Targets ==
  IF Hosting(game.pid) THEN {game.pid}
  ELSE {p \in Pids : Hosting(p) /\ app[p] = game.app}

\* reset_states_for_pid
Stale(p) == lastPid # NoPid /\ lastPid # p
EnabledFor(p) == IF Stale(p) THEN [c \in Ids |-> FALSE] ELSE enabled
MasterFor(p) == IF Stale(p) THEN NoMaster ELSE masterId
KeepLast(p) == lastPid      \* mutant: the other process is not forgotten
LastFor(p) == IF Stale(p) THEN NoPid ELSE lastPid

\* fix_master_code: does cheat c follow master code m, and where its bytes are
Dependent(c, m) ==
  /\ m # NoMaster
  /\ file[c].mc /\ Len(file[c].patches) = 1 /\ file[c].patches[1].section
  /\ Len(file[m].patches) > 0 /\ Len(file[m].patches[1].on) > 0
  /\ Len(file[c].patches[1].off) \in 1..Len(file[m].patches[1].on)
MasterAddress(p, m) ==
  PatchAddress(file[m].patches[1], offset[m], FALSE, Base[p])
Found(p, c, m) ==
  LET size == Len(file[c].patches[1].off)
  IN {i \in 0..(Len(file[m].patches[1].on) - size) :
        BytesAt(mem[p], MasterAddress(p, m) + i, size) = file[c].patches[1].off}
FixedOffsets(p, c, m) ==
  LET found == Found(p, c, m)
      first == {i \in found : \A j \in found : i <= j}
      near  == (offset[m] \div LowSpan) * LowSpan + (offset[c] % LowSpan)
  IN {o % (AddrMax + 1) : o \in IF found # {} THEN {offset[m] + i : i \in first} ELSE {near}}
MasterReadable(p, m) ==
  MasterAddress(p, m) # 0
  /\ Readable(p, MasterAddress(p, m), Len(file[m].patches[1].on))
OffsetsAfterFix(p, c, m) ==
  IF Dependent(c, m) /\ MasterReadable(p, m)
  THEN FixedOffsets(p, c, m) \cup (IF "read" \in Faults THEN {offset[c]} ELSE {})
  ELSE {offset[c]}

-----------------------------------------------------------------------------
(* Entering set_enabled: lines 125 to 183. *)

Reply(status) == pc' = "done" /\ outcome' = status

\* the early returns before anything is changed
Refuse(id, on, status) ==
  /\ pc = "idle" /\ Reply(status)
  /\ call' = [id |-> id, on |-> on, pid |-> NoPid]
  /\ UNCHANGED <<world, mem, cheats, flags, next, snaps, restored, history>>
UnknownCheat(id, on) == id \notin Ids /\ Refuse(id, on, "invalid_cheat")
EmptyCheat(id, on) ==
  /\ id \in Ids /\ Len(file[id].patches) = 0
  /\ Refuse(id, on, "invalid_patch")
NoModule(id, on) ==
  /\ id \in Ids /\ Len(file[id].patches) > 0 /\ Targets = {}
  /\ Refuse(id, on, "module_not_found")

Accepts(id, on, p) ==
  /\ pc = "idle"
  /\ id \in Ids /\ Len(file[id].patches) > 0 /\ p \in Targets
  /\ call' = [id |-> id, on |-> on, pid |-> p]
  /\ enabled' = EnabledFor(p) /\ lastPid' = LastFor(p)

\* lines 161 to 166: the cheat is already in the requested state
AlreadySet(id, on, p) ==
  /\ Accepts(id, on, p) /\ EnabledFor(p)[id] = on
  /\ masterId' = MasterFor(p) /\ Reply("already")
  /\ UNCHANGED <<world, mem, cheats, offset, next, snaps, restored, history>>

\* lines 167 to 173: this cheat becomes the master code, or follows it
PickMaster(id, p) ==
  IF MasterFor(p) = NoMaster /\ file[id].master
  THEN masterId' = id /\ UNCHANGED offset
  ELSE /\ masterId' = MasterFor(p)
       /\ \E o \in OffsetsAfterFix(p, id, MasterFor(p)) :
            offset' = [offset EXCEPT ![id] = o]

Changes(id, on, p) ==
  /\ Accepts(id, on, p) /\ EnabledFor(p)[id] # on /\ PickMaster(id, p)
  /\ start' = mem[p] /\ caved' = {}
  /\ UNCHANGED <<world, mem, cheats, stray, wiped, site>>
Begin(id, on, p) ==
  /\ Changes(id, on, p)
  /\ pc' = "read" /\ next' = 1 /\ snaps' = <<>> /\ restored' = TRUE
  /\ UNCHANGED outcome
NoBuffer(id, on, p) ==
  /\ "alloc" \in Faults /\ Changes(id, on, p) /\ Reply("memory_error")
  /\ UNCHANGED <<next, snaps, restored>>

-----------------------------------------------------------------------------
(* The patch loop: lines 185 to 212. *)

Target == call.pid
Patch == file[call.id].patches[next]
SwappedBytes == IF call.on THEN Patch.off ELSE Patch.on   \* mutant: the wrong bytes
OnBytes == Patch.on                                       \* mutant: `on` is ignored
Wanted == IF call.on THEN Patch.on ELSE Patch.off
Size == Len(Wanted)
Address == AddressOf(Target, call.id, next)
BadPatch == Patch.assembly \/ Size = 0 \/ Address = 0
Last == Len(snaps)
Busy == pc \in {"read", "write", "rollback"}

Fail(status) == pc' = "rollback" /\ outcome' = status

InvalidPatch ==
  /\ pc = "read" /\ BadPatch /\ Fail("invalid_patch")
  /\ UNCHANGED <<world, mem, cheats, flags, frame, history>>

Save(bytes) ==
  /\ snaps' = Append(snaps, [address |-> Address, bytes |-> bytes])
  /\ pc' = "write"
  /\ UNCHANGED <<world, cheats, flags, call, next, restored, outcome, start, stray, site>>
SaveBytes ==
  /\ pc = "read" /\ ~BadPatch /\ Readable(Target, Address, Size)
  /\ Save(BytesAt(mem[Target], Address, Size))
  /\ UNCHANGED <<mem, caved, wiped>>

ReadFails == ~Readable(Target, Address, Size) \/ "read" \in Faults
MayMap == call.on /\ Len(Patch.off) = Size
CanMap == app[Target] # NoApp /\ PageRangeFits(Address, Size)
MapsPages ==
  /\ mem' = [mem EXCEPT ![Target] = MapPages(@, Address, Size)]
  /\ caved' = caved \cup PageRange(Address, Size)
  /\ wiped' = wiped \cup {<<Target, x>> : x \in {y \in PageRange(Address, Size) :
                                                     mem[Target][y] # Unmapped}}
\* the read failed, the pages were mapped and the disable bytes stand for theirs
MapCodeCave ==
  /\ pc = "read" /\ ~BadPatch /\ ReadFails /\ MayMap /\ CanMap
  /\ MapsPages /\ Save(Patch.off)

\* the read failed and no cave came out of it: none allowed, mmap or mprotect failed
ReadError ==
  /\ pc = "read" /\ ~BadPatch /\ ReadFails
  /\ ~MayMap \/ ~CanMap \/ "map" \in Faults
  /\ Fail("memory_error")
  /\ UNCHANGED <<world, mem, cheats, flags, frame, history>>
ProtectError ==
  /\ pc = "read" /\ ~BadPatch /\ ReadFails /\ MayMap /\ CanMap /\ "map" \in Faults
  /\ MapsPages /\ Fail("memory_error")
  /\ UNCHANGED <<world, cheats, flags, frame, start, stray, site>>

\* write_verified of the patch; after the last one the call has succeeded
Written(p) == {<<p, x>> : x \in UNION {Span(snaps[k].address, Len(snaps[k].bytes)) :
                                         k \in 1..Last}}
PastLastPatch == next > Len(file[call.id].patches)   \* mutant: `<=` in the loop
LastPatch == next = Len(file[call.id].patches)
Finish ==
  /\ Reply(IF call.on THEN "enabled" ELSE "disabled")
  /\ enabled' = [enabled EXCEPT ![call.id] = call.on]
  /\ lastPid' = Target
  /\ stray' = stray \ Written(Target)
  /\ wiped' = wiped \ {s \in Written(Target) : s[2] \notin caved}
  /\ site' = IF call.on
             THEN [site EXCEPT ![call.id] = [k \in 1..Last |-> snaps[k].address]]
             ELSE site
  /\ UNCHANGED next
Advance ==
  /\ pc' = "read" /\ next' = next + 1
  /\ UNCHANGED <<enabled, lastPid, outcome, stray, wiped, site>>
WritePatch ==
  /\ pc = "write" /\ app[Target] # NoApp
  /\ mem' = [mem EXCEPT ![Target] = Overlay(@, Address, Wanted, Size)]
  /\ IF LastPatch THEN Finish ELSE Advance
  /\ UNCHANGED <<world, cheats, offset, masterId, call, snaps, restored, start, caved>>

\* how far a write that is not confirmed may have got
Partial(n) == IF app[Target] = NoApp THEN {0} ELSE IF "write" \in Faults THEN 0..n ELSE {}
WriteError ==
  /\ pc = "write" /\ Fail("memory_error")
  /\ \E k \in Partial(Size) :
       mem' = [mem EXCEPT ![Target] = Overlay(@, Address, Wanted, k)]
  /\ UNCHANGED <<world, cheats, flags, frame, history>>

-----------------------------------------------------------------------------
(* rollback, and the return of a call that failed: lines 214 to 227. *)

FirstSnapshot == snaps[1]   \* mutant: a rollback that does not move its index
Undo == snaps[Last]
DropLast == snaps' = SubSeq(snaps, 1, Last - 1)
Restore ==
  /\ pc = "rollback" /\ Last > 0 /\ app[Target] # NoApp
  /\ mem' = [mem EXCEPT ![Target] =
               Overlay(@, Undo.address, Undo.bytes, Len(Undo.bytes))]
  /\ DropLast
  /\ UNCHANGED <<world, cheats, flags, pc, call, next, restored, outcome, history>>
RestoreError ==
  /\ pc = "rollback" /\ Last > 0
  /\ \E k \in Partial(Len(Undo.bytes)) :
       mem' = [mem EXCEPT ![Target] = Overlay(@, Undo.address, Undo.bytes, k)]
  /\ DropLast /\ restored' = FALSE
  /\ stray' = stray \cup {<<Target, x>> : x \in Span(Undo.address, Len(Undo.bytes))}
  /\ UNCHANGED <<world, cheats, flags, pc, call, next, outcome, start, caved, wiped, site>>
RolledBack ==
  /\ pc = "rollback" /\ Last = 0
  /\ Reply(IF restored THEN outcome ELSE "rollback_error")
  /\ UNCHANGED <<world, mem, cheats, flags, frame, history>>

Idle == [id |-> 0, on |-> FALSE, pid |-> NoPid]
Return ==
  /\ pc = "done" /\ pc' = "idle"
  /\ call' = Idle /\ next' = 0 /\ snaps' = <<>> /\ restored' = TRUE /\ outcome' = "none"
  /\ start' = Image[game.pid] /\ caved' = {}
  /\ UNCHANGED <<world, mem, cheats, flags, stray, wiped, site>>

-----------------------------------------------------------------------------
(* The processes of the console. *)

Exit(p) ==
  /\ app[p] # NoApp
  /\ app' = [app EXCEPT ![p] = NoApp] /\ hosts' = hosts \ {p}
  /\ UNCHANGED <<mem, cheats, flags, pc, frame, outcome, history>>
LoadModule(p) ==
  /\ app[p] # NoApp /\ p \notin hosts
  /\ hosts' = hosts \cup {p}
  /\ UNCHANGED <<app, mem, cheats, flags, pc, frame, outcome, history>>

-----------------------------------------------------------------------------
SetEnabled(id, on) ==
  \/ UnknownCheat(id, on)
  \/ EmptyCheat(id, on)
  \/ NoModule(id, on)
  \/ \E p \in Pids : AlreadySet(id, on, p) \/ Begin(id, on, p) \/ NoBuffer(id, on, p)
Step ==
  \/ InvalidPatch \/ SaveBytes \/ MapCodeCave \/ ReadError \/ ProtectError
  \/ WritePatch \/ WriteError
  \/ Restore \/ RestoreError \/ RolledBack

NoFlags(f) == [c \in DOMAIN f |-> FALSE]
FirstOffsets(f) ==
  [c \in DOMAIN f |-> IF Len(f[c].patches) > 0 THEN f[c].patches[1].offset ELSE 0]
NoSites(f) == [c \in DOMAIN f |-> <<>>]

\* a parsed file and a game whose processes have just been started
Init ==
  /\ app \in [Pids -> Apps \cup {NoApp}]
  /\ hosts \in SUBSET {p \in Pids : app[p] # NoApp}
  /\ mem = Image
  /\ game \in {[pid |-> p, app |-> app[p]] : p \in {q \in Pids : app[q] # NoApp}}
  /\ file \in Files
  /\ enabled = NoFlags(file) /\ offset = FirstOffsets(file)
  /\ masterId = NoMaster /\ lastPid = NoPid
  /\ pc = "idle" /\ call = Idle
  /\ next = 0 /\ snaps = <<>> /\ restored = TRUE /\ outcome = "none"
  /\ start = Image[game.pid] /\ caved = {}
  /\ stray = {} /\ wiped = {} /\ site = NoSites(file)

\* ids a client may ask for: those of the file and one it does not have
Asked == Ids \cup {0}
Next ==
  \/ \E id \in Asked, on \in BOOLEAN : SetEnabled(id, on)
  \/ Step
  \/ Return
  \/ \E p \in Pids : Exit(p) \/ LoadModule(p)

Spec == Init /\ [][Next]_vars
-----------------------------------------------------------------------------
(* Properties. *)

\* A caller may have no game, and a file that has been cleared.
TypeOK ==
  /\ app \in [Pids -> Apps \cup {NoApp}] /\ hosts \subseteq Pids
  /\ mem \in [Pids -> MemType]
  /\ game \in [pid : Pids \cup {NoPid}, app : Apps \cup {NoApp}] /\ file \in Files \cup {<<>>}
  /\ enabled \in [Ids -> BOOLEAN] /\ offset \in [Ids -> Cells]
  /\ masterId \in Ids \cup {NoMaster} /\ lastPid \in Pids \cup {NoPid}
  /\ pc \in {"idle", "read", "write", "rollback", "done"}
  /\ call.on \in BOOLEAN /\ call.pid \in Pids \cup {NoPid}
  /\ pc \in {"read", "write", "rollback"} =>
       /\ call.id \in Ids /\ call.pid \in Pids
       /\ next \in 1..Len(file[call.id].patches) /\ start \in MemType
  /\ snaps \in Seq(SnapType) /\ restored \in BOOLEAN /\ outcome \in Outcomes
  /\ caved \subseteq Cells /\ stray \subseteq Pids \X Cells
  /\ wiped \subseteq Pids \X Cells

\* A call that fails leaves the target as it found it (cheat_applier.cpp:214-227):
\* outside the pages a code cave took and the cells whose restoring write failed
\* too, every cell has the content it had when the call began, however many
\* patches were written, however they overlap and wherever the failing write stopped.
FailedCallRestores ==
  pc = "done" /\ call.pid # NoPid /\ outcome \notin {"enabled", "disabled", "already"} =>
    \A x \in Cells \ caved :
      \/ mem[call.pid][x] = start[x]
      \/ outcome = "rollback_error" /\ <<call.pid, x>> \in stray

\* Why it does, as an inductive invariant. While a call runs, a cell that no snapshot
\* covers is as the call found it, and the oldest snapshot that covers a cell holds
\* what the call found there, so that undoing from the newest to the oldest ends there.
Covered(k, x) == x \in Span(snaps[k].address, Len(snaps[k].bytes))
Saved(k, x) == snaps[k].bytes[x - snaps[k].address + 1]
Untouched(x) == mem[Target][x] = start[x] \/ (~restored /\ <<Target, x>> \in stray)
UncoveredIsUntouched ==
  \A x \in Cells \ caved : (\A k \in 1..Last : ~Covered(k, x)) => Untouched(x)
OldestHoldsStart ==
  \A k \in 1..Last, x \in Cells \ caved :
    Covered(k, x) /\ (\A j \in 1..(k - 1) : ~Covered(j, x)) => Saved(k, x) = start[x]
WritesWhatItSaved ==
  pc = "write" => Last > 0 /\ Undo.address = Address /\ Len(Undo.bytes) = Size
RollbackInv ==
  /\ Busy => UncoveredIsUntouched /\ OldestHoldsStart
  /\ WritesWhatItSaved
  /\ pc \in {"read", "write"} => restored
  /\ FailedCallRestores

\* The cells that the last enabling of cheat c wrote, with the patch that wrote each, those
\* of them that no later patch wrote, and those that no other cheat reaches either.
Reach(c) == {x \in Cells : \E k \in DOMAIN site[c] :
               \/ x \in Span(site[c][k], Len(file[c].patches[k].on))
               \/ x \in Span(site[c][k], Len(file[c].patches[k].off))}
Sites(c) == {s \in (DOMAIN site[c]) \X Cells :
               s[2] \in Span(site[c][s[1]], Len(file[c].patches[s[1]].on))}
Newest(c) == {s \in Sites(c) : \A i \in DOMAIN site[c] : i > s[1] => <<i, s[2]>> \notin Sites(c)}
Own(c) == {s \in Newest(c) : \A d \in Ids \ {c} : s[2] \notin Reach(d)}
Shows(p, c, s, bytes) ==
  \/ <<p, s[2]>> \in stray \cup wiped
  \/ s[2] - site[c][s[1]] + 1 \in DOMAIN bytes
     /\ mem[p][s[2]] = bytes[s[2] - site[c][s[1]] + 1]

\* A cheat reported enabled is in the memory of the process it was applied to, except where
\* another cheat or a code cave took its cells: the flag and the bytes agree after any history
\* of calls that failed, were rolled back, were repeated or moved to another process
\* (cheat_applier.cpp:231).
EnabledIsPatched ==
  pc = "idle" => \A c \in Ids : enabled[c] =>
    /\ lastPid # NoPid /\ site[c] # <<>>
    /\ \A s \in Own(c) : Shows(lastPid, c, s, file[c].patches[s[1]].on)

\* The call that has just switched a cheat off left its `off` bytes where its last
\* enabling wrote the `on` bytes, not somewhere else
\* (docs/PS5_TEST_CHECKLIST.md:38, cheat_applier.cpp:172 and 189).
DisableRestoresOff ==
  pc = "done" /\ outcome = "disabled" =>
    \A s \in Newest(call.id) :
      Shows(call.pid, call.id, s, file[call.id].patches[s[1]].off)
\* Which holds of every file in which no cheat follows a master code, of the cheats whose
\* patches put back as many bytes as they take.
Free == \A c \in Ids : ~file[c].mc
SameSizes(c) ==
  \A k \in DOMAIN file[c].patches :
    Len(file[c].patches[k].on) = Len(file[c].patches[k].off)
FreeDisableRestoresOff ==
  Free /\ (call.id \in Ids => SameSizes(call.id)) => DisableRestoresOff

\* Seen between calls, set_enabled is one step: the refinement of CheatToggle, in which
\* the memory of a target stays as the call found it until the call is over.
SeenMemory == [p \in Pids |-> IF Busy /\ p = call.pid THEN start ELSE mem[p]]
Lost == stray \cup {<<call.pid, x>> : x \in caved}
Abstract == INSTANCE CheatToggle
              WITH memory <- SeenMemory, flags <- enabled, pid <- lastPid, lost <- Lost
TogglesAtomically == Abstract!Spec
=============================================================================
