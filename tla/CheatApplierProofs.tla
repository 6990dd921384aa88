------------------------- MODULE CheatApplierProofs -------------------------
(* Proofs about CheatApplier for every number of processes, every file, every       *)
(* memory and every failure of the backend: type correctness, that a call that fails *)
(* restores what it found, that a call is seen as one step, and that flags and bytes *)
(* agree where no cheat follows a master code.                                       *)
EXTENDS CheatApplier, TLAPS

-----------------------------------------------------------------------------
(* Memory of one process. *)

\* A sequence has a length, and is defined up to it.
LEMMA LenType ==
  ASSUME NEW S, NEW q \in Seq(S)
  PROVE  Len(q) \in Nat /\ DOMAIN q = 1..Len(q)
OBVIOUS

\* Writing the first k bytes of a sequence gives a memory.
LEMMA OverlayType ==
  ASSUME NEW m \in MemType, NEW a \in Int, NEW s \in Seq(Byte), NEW k \in 0..Len(s)
  PROVE  Overlay(m, a, s, k) \in MemType
<1> SUFFICES ASSUME NEW x \in Cells, x \in Span(a, k) PROVE s[x - a + 1] \in Byte
  BY DEF Overlay, MemType
<1>1. x - a + 1 \in 1..Len(s)
  BY AddrAssumption DEF Span, Cells
<1> QED BY <1>1

\* Writing k bytes at a leaves the cells outside the range alone.
LEMMA OverlayOutside ==
  ASSUME NEW m, NEW a, NEW s, NEW k, NEW x \in Cells, x \notin Span(a, k)
  PROVE  Overlay(m, a, s, k)[x] = m[x]
BY DEF Overlay

LEMMA OverlayInside ==
  ASSUME NEW m, NEW a, NEW s, NEW k, NEW x \in Cells, x \in Span(a, k)
  PROVE  Overlay(m, a, s, k)[x] = s[x - a + 1]
BY DEF Overlay

\* A shorter write touches fewer cells.
LEMMA SpanMonotone ==
  ASSUME NEW a \in Int, NEW n \in Int, NEW k \in Int, k <= n
  PROVE  Span(a, k) \subseteq Span(a, n)
BY AddrAssumption DEF Span, Cells

\* What is read from mapped cells is bytes.
LEMMA BytesType ==
  ASSUME NEW m \in MemType, NEW a \in Cells, NEW n \in Nat, Mapped(m, a, n)
  PROVE  BytesAt(m, a, n) \in Seq(Byte) /\ Len(BytesAt(m, a, n)) = n
<1>1. \A k \in 1..n : a + k - 1 \in Span(a, n)
  BY AddrAssumption DEF Mapped, Span, Cells
<1>2. \A k \in 1..n : m[a + k - 1] \in Byte
  BY <1>1 DEF Mapped, MemType, Span
<1>3. BytesAt(m, a, n) \in [1..n -> Byte]
  BY <1>2 DEF BytesAt
<1> QED BY <1>3

LEMMA MapPagesType ==
  ASSUME NEW m \in MemType, NEW a, NEW n
  PROVE  MapPages(m, a, n) \in MemType
BY ByteAssumption DEF MapPages, MemType

\* The pages of a range contain it.
LEMMA PagesContainSpan ==
  ASSUME NEW a \in Cells, NEW n \in Nat
  PROVE  Span(a, n) \subseteq PageRange(a, n)
<1> DEFINE z == a + n + PageSize - 1
<1>1. a \in Int /\ z \in Int /\ PageSize \in Int /\ PageSize > 0 /\ \A x \in Cells : x \in Int
  BY AddrAssumption, PageAssumption DEF Cells
<1>2. (a \div PageSize) * PageSize <= a
  BY <1>1
<1>3. z < (z \div PageSize) * PageSize + PageSize
  BY <1>1
<1>4. (a \div PageSize) * PageSize \in Int /\ (z \div PageSize) * PageSize \in Int
  BY <1>1
<1>5. ASSUME NEW x \in Span(a, n) PROVE x \in PageRange(a, n)
  <2>1. x \in Cells /\ x \in Int /\ a <= x /\ x < a + n
    BY <1>1 DEF Span
  <2>2. (a \div PageSize) * PageSize <= x
    BY <1>1, <1>2, <1>4, <2>1
  <2>3. z >= x + PageSize
    BY <1>1, <2>1
  <2>4. x < (z \div PageSize) * PageSize
    BY <1>1, <1>3, <1>4, <2>1, <2>3
  <2> QED BY <2>1, <2>2, <2>4 DEF PageRange
<1> QED BY <1>5

-----------------------------------------------------------------------------
(* What a call works on. *)

\* A parsed file is a sequence of cheats, each with a sequence of patches.
LEMMA FileTypes ==
  ASSUME file \in Files \cup {<<>>}
  PROVE  /\ file \in Seq(CheatType) /\ Ids = 1..Len(file)
         /\ \A c \in Ids :
              /\ file[c].master \in BOOLEAN /\ file[c].mc \in BOOLEAN
              /\ file[c].patches \in Seq(PatchType)
              /\ \A i \in 1..Len(file[c].patches) :
                   /\ file[c].patches[i] \in PatchType
                   /\ file[c].patches[i].offset \in Cells
                   /\ file[c].patches[i].on \in Seq(Byte)
                   /\ file[c].patches[i].off \in Seq(Byte)
<1>1. file \in Seq(CheatType) /\ Ids = 1..Len(file)
  <2>1. <<>> \in Seq(CheatType)
    OBVIOUS
  <2>2. file \in Seq(CheatType)
    BY <2>1, FileAssumption
  <2> QED BY <2>2 DEF Ids
<1>2. ASSUME NEW c \in Ids PROVE file[c] \in CheatType
  BY <1>1
<1>3. ASSUME NEW c \in Ids, NEW i \in 1..Len(file[c].patches)
      PROVE  file[c].patches[i] \in PatchType
  BY <1>2 DEF CheatType
<1> QED BY <1>1, <1>2, <1>3 DEF CheatType, PatchType

\* patch_address stays in the address space (cheat_applier.cpp:45-54).
LEMMA PatchAddressType ==
  ASSUME NEW patch, NEW off \in Cells, NEW direct, NEW base \in Cells
  PROVE  PatchAddress(patch, off, direct, base) \in Cells
BY AddrAssumption DEF PatchAddress, Cells

LEMMA AddressType ==
  ASSUME TypeOK, NEW p \in Pids, NEW c \in Ids, NEW i \in 1..Len(file[c].patches)
  PROVE  AddressOf(p, c, i) \in Cells
<1>1. OffsetOf(c, i) \in Cells
  BY FileTypes DEF TypeOK, OffsetOf
<1>2. Base[p] \in Cells
  BY ProcAssumption
<1> QED BY <1>1, <1>2, PatchAddressType DEF AddressOf

\* fix_master_code keeps an offset in the address space (cheat_applier.cpp:105-114).
LEMMA OffsetsType ==
  ASSUME TypeOK, NEW p \in Pids, NEW c \in Ids, NEW m \in Ids \cup {NoMaster},
         NEW o \in OffsetsAfterFix(p, c, m)
  PROVE  o \in Cells
<1>1. offset[c] \in Cells /\ offset[c] \in Int
  BY AddrAssumption DEF TypeOK, Cells
<1>2. ASSUME Dependent(c, m), o \in FixedOffsets(p, c, m) PROVE o \in Cells
  <2>1. m \in Ids
    BY <1>2 DEF Dependent
  <2>2. offset[m] \in Nat
    BY <2>1, AddrAssumption DEF TypeOK, Cells
  <2>3. \A i \in Found(p, c, m) : i \in Int
    BY FileTypes, <2>1 DEF TypeOK, Found
  <2>4. (offset[m] \div LowSpan) * LowSpan + (offset[c] % LowSpan) \in Int
    BY <1>1, <2>2, PageAssumption
  <2>5. \A i \in Found(p, c, m) : offset[m] + i \in Int
    BY <2>2, <2>3
  <2>6. PICK x \in Int : o = x % (AddrMax + 1)
    BY <1>2, <2>4, <2>5 DEF FixedOffsets
  <2> QED BY <2>6, AddrAssumption DEF Cells
<1> QED BY <1>1, <1>2 DEF OffsetsAfterFix

\* The patch a busy call is at, and what it writes there.
LEMMA BusyTypes ==
  ASSUME TypeOK, Busy
  PROVE  /\ call.id \in Ids /\ Target \in Pids /\ next \in 1..Len(file[call.id].patches)
         /\ Patch.on \in Seq(Byte) /\ Patch.off \in Seq(Byte)
         /\ Wanted \in Seq(Byte) /\ Size \in Nat /\ Size = Len(Wanted)
         /\ Address \in Cells /\ mem[Target] \in MemType /\ Last \in Nat
<1>1. /\ call.id \in Ids /\ Target \in Pids /\ next \in 1..Len(file[call.id].patches)
      /\ mem[Target] \in MemType
  BY DEF TypeOK, Busy, Target
<1>2. Patch.on \in Seq(Byte) /\ Patch.off \in Seq(Byte)
  BY <1>1, FileTypes DEF TypeOK, Patch
<1>3. Wanted \in Seq(Byte) /\ Size \in Nat /\ Size = Len(Wanted)
  BY <1>2 DEF Wanted, Size
<1>4. Address \in Cells
  BY <1>1, AddressType DEF Address
<1>5. Last \in Nat
  BY DEF TypeOK, Last
<1> QED BY <1>1, <1>2, <1>3, <1>4, <1>5

\* The snapshot a rollback is about to write.
LEMMA UndoType ==
  ASSUME TypeOK, Last > 0
  PROVE  /\ Undo \in SnapType /\ Undo.address \in Cells /\ Undo.address \in Int
         /\ Undo.bytes \in Seq(Byte) /\ Len(Undo.bytes) \in Nat
<1>1. Undo \in SnapType
  BY DEF TypeOK, Undo, Last
<1> QED BY <1>1, AddrAssumption DEF SnapType, Cells

\* A write that is not confirmed got no further than it was asked to.
LEMMA PartialType ==
  ASSUME NEW n \in Nat, NEW k \in Partial(n) PROVE k \in 0..n
BY DEF Partial

-----------------------------------------------------------------------------
(* Type correctness. *)

LEMMA InitType == Init => TypeOK
<1> SUFFICES ASSUME Init PROVE TypeOK
  OBVIOUS
<1>1. file \in Files /\ game \in [pid : Pids, app : Apps] /\ game.pid \in Pids
  BY DEF Init
<1>2. offset \in [Ids -> Cells]
  BY <1>1, FileTypes, AddrAssumption DEF Init, FirstOffsets, Ids, Cells
<1>3. enabled \in [Ids -> BOOLEAN] /\ masterId \in Ids \cup {NoMaster}
  BY DEF Init, NoFlags, Ids
<1>4. call = Idle /\ call.on \in BOOLEAN /\ call.pid \in Pids \cup {NoPid}
  BY DEF Init, Idle
<1>5. mem \in [Pids -> MemType] /\ start \in MemType
  BY <1>1, ProcAssumption DEF Init
<1>6. snaps \in Seq(SnapType)
  BY DEF Init
<1> QED BY <1>1, <1>2, <1>3, <1>4, <1>5, <1>6 DEF Init, TypeOK, Outcomes

\* Entering set_enabled, whichever way it goes.
LEMMA EnterType ==
  ASSUME TypeOK, NEW id, NEW on \in BOOLEAN, SetEnabled(id, on)
  PROVE  TypeOK'
<1>1. ASSUME NEW status \in Outcomes, Refuse(id, on, status) PROVE TypeOK'
  BY <1>1 DEF TypeOK, Refuse, Reply, world, cheats, flags, history, Ids
<1>2. ASSUME NEW p \in Pids, Accepts(id, on, p)
      PROVE  /\ id \in Ids /\ call' = [id |-> id, on |-> on, pid |-> p]
             /\ Len(file[id].patches) > 0
             /\ enabled' \in [Ids -> BOOLEAN] /\ lastPid' \in Pids \cup {NoPid}
             /\ MasterFor(p) \in Ids \cup {NoMaster}
  BY <1>2 DEF TypeOK, Accepts, EnabledFor, LastFor, MasterFor
<1>3. ASSUME NEW p \in Pids, AlreadySet(id, on, p) PROVE TypeOK'
  BY <1>2, <1>3 DEF TypeOK, AlreadySet, Reply, world, cheats, history, Outcomes, Ids
<1>4. ASSUME NEW p \in Pids, Changes(id, on, p)
      PROVE  /\ Accepts(id, on, p)
             /\ masterId' \in Ids \cup {NoMaster} /\ offset' \in [Ids -> Cells]
             /\ start' \in MemType /\ caved' \subseteq Cells
  <2>1. Accepts(id, on, p) /\ PickMaster(id, p)
    BY <1>4 DEF Changes
  <2>2. CASE MasterFor(p) = NoMaster /\ file[id].master
    BY <2>1, <2>2, <1>2, <1>4 DEF TypeOK, Changes, PickMaster
  <2>3. CASE ~(MasterFor(p) = NoMaster /\ file[id].master)
    <3>1. PICK o \in OffsetsAfterFix(p, id, MasterFor(p)) : offset' = [offset EXCEPT ![id] = o]
      BY <2>1, <2>3 DEF PickMaster
    <3>2. o \in Cells
      BY <2>1, <1>2, OffsetsType
    <3> QED BY <2>1, <2>3, <3>1, <3>2, <1>2, <1>4 DEF TypeOK, Changes, PickMaster
  <2> QED BY <2>2, <2>3
<1>5. ASSUME NEW p \in Pids, Changes(id, on, p)
      PROVE  /\ UNCHANGED <<app, hosts, mem, game, file, stray, wiped>>
             /\ Ids' = Ids
  BY <1>5 DEF Changes, world, cheats, Ids
<1>6. ASSUME NEW p \in Pids, Begin(id, on, p) PROVE TypeOK'
  <2>1. Changes(id, on, p)
    BY <1>6 DEF Begin
  <2>2. Len(file[id].patches) \in Nat
    BY <2>1, <1>2, <1>4, FileTypes DEF TypeOK
  <2>3. 1 \in 1..Len(file[id].patches)
    BY <2>1, <2>2, <1>2, <1>4
  <2> QED BY <2>1, <2>3, <1>2, <1>4, <1>5, <1>6 DEF TypeOK, Begin
<1>7. ASSUME NEW p \in Pids, NoBuffer(id, on, p) PROVE TypeOK'
  <2>1. Changes(id, on, p)
    BY <1>7 DEF NoBuffer
  <2> QED BY <2>1, <1>2, <1>4, <1>5, <1>7 DEF TypeOK, NoBuffer, Reply, Outcomes
<1> QED
  BY <1>1, <1>3, <1>6, <1>7
  DEF SetEnabled, UnknownCheat, EmptyCheat, NoModule, Outcomes

\* Every step of a call that is under way.
LEMMA StepType ==
  ASSUME TypeOK, Step
  PROVE  TypeOK'
<1>1. CASE InvalidPatch
  BY <1>1 DEF TypeOK, InvalidPatch, Fail, Outcomes, world, cheats, flags, frame, history, Ids
<1>2. CASE SaveBytes
  <2>1. Busy /\ pc = "read"
    BY <1>2 DEF SaveBytes, Busy
  <2>2. BytesAt(mem[Target], Address, Size) \in Seq(Byte)
    BY <1>2, <2>1, BusyTypes, BytesType DEF SaveBytes, Readable
  <2>3. snaps' \in Seq(SnapType)
    BY <1>2, <2>1, <2>2, BusyTypes DEF TypeOK, SaveBytes, Save, SnapType
  <2> QED BY <1>2, <2>1, <2>3 DEF TypeOK, SaveBytes, Save, world, cheats, flags, Ids
<1>3. CASE MapCodeCave
  <2>1. Busy /\ pc = "read"
    BY <1>3 DEF MapCodeCave, Busy
  <2>2. snaps' \in Seq(SnapType)
    BY <1>3, <2>1, BusyTypes DEF TypeOK, MapCodeCave, Save, SnapType
  <2>3. mem' \in [Pids -> MemType] /\ caved' \subseteq Cells /\ wiped' \subseteq Pids \X Cells
    BY <1>3, <2>1, BusyTypes, MapPagesType DEF TypeOK, MapCodeCave, MapsPages, PageRange
  <2> QED BY <1>3, <2>1, <2>2, <2>3 DEF TypeOK, MapCodeCave, Save, world, cheats, flags, Ids
<1>4. CASE ReadError
  BY <1>4 DEF TypeOK, ReadError, Fail, Outcomes, world, cheats, flags, frame, history, Ids
<1>5. CASE ProtectError
  <2>1. Busy /\ pc = "read"
    BY <1>5 DEF ProtectError, Busy
  <2>2. mem' \in [Pids -> MemType] /\ caved' \subseteq Cells /\ wiped' \subseteq Pids \X Cells
    BY <1>5, <2>1, BusyTypes, MapPagesType DEF TypeOK, ProtectError, MapsPages, PageRange
  <2> QED
    BY <1>5, <2>1, <2>2
    DEF TypeOK, ProtectError, Fail, Outcomes, world, cheats, flags, frame, Ids
<1>6. CASE WritePatch
  <2>1. Busy /\ pc = "write"
    BY <1>6 DEF WritePatch, Busy
  <2>2. Overlay(mem[Target], Address, Wanted, Size) \in MemType
    BY <2>1, BusyTypes, OverlayType, AddrAssumption DEF Cells
  <2>3. mem' \in [Pids -> MemType]
    BY <1>6, <2>1, <2>2, BusyTypes DEF TypeOK, WritePatch
  <2>4. CASE LastPatch
    <3>1. Finish
      BY <1>6, <2>4 DEF WritePatch
    <3>2. enabled' \in [Ids -> BOOLEAN] /\ lastPid' \in Pids /\ stray' \subseteq Pids \X Cells
      BY <3>1, <2>1, BusyTypes DEF TypeOK, Finish
    <3> QED
      BY <1>6, <2>3, <3>1, <3>2
      DEF TypeOK, WritePatch, Finish, Reply, Outcomes, world, cheats, Ids
  <2>5. CASE ~LastPatch
    <3>1. next + 1 \in 1..Len(file[call.id].patches)
      <4>1. next \in 1..Len(file[call.id].patches) /\ next # Len(file[call.id].patches)
        BY <2>1, <2>5, BusyTypes DEF LastPatch
      <4>2. Len(file[call.id].patches) \in Nat
        BY <2>1, BusyTypes, FileTypes DEF TypeOK
      <4> QED BY <4>1, <4>2
    <3> QED
      BY <1>6, <2>1, <2>3, <2>5, <3>1 DEF TypeOK, WritePatch, Advance, world, cheats, Ids
  <2> QED BY <2>4, <2>5
<1>7. CASE WriteError
  <2>1. Busy /\ pc = "write"
    BY <1>7 DEF WriteError, Busy
  <2>2. ASSUME NEW k \in Partial(Size)
        PROVE  Overlay(mem[Target], Address, Wanted, k) \in MemType
    BY <2>1, BusyTypes, PartialType, OverlayType, AddrAssumption DEF Cells
  <2>3. mem' \in [Pids -> MemType]
    BY <1>7, <2>1, <2>2, BusyTypes DEF TypeOK, WriteError
  <2> QED
    BY <1>7, <2>1, <2>3
    DEF TypeOK, WriteError, Fail, Outcomes, world, cheats, flags, frame, history, Ids
<1>8. CASE Restore
  <2>1. Busy /\ Last > 0 /\ Last \in Nat
    BY <1>8 DEF Restore, Busy, Last, TypeOK
  <2>2. Overlay(mem[Target], Undo.address, Undo.bytes, Len(Undo.bytes)) \in MemType
    <3>1. Len(Undo.bytes) \in 0..Len(Undo.bytes)
      BY <2>1, UndoType
    <3> QED BY <2>1, <3>1, BusyTypes, UndoType, OverlayType
  <2>3. mem' \in [Pids -> MemType]
    BY <1>8, <2>1, <2>2, BusyTypes DEF TypeOK, Restore
  <2>4. snaps' \in Seq(SnapType)
    BY <1>8, <2>1 DEF TypeOK, Restore, DropLast, Last
  <2> QED
    BY <1>8, <2>3, <2>4 DEF TypeOK, Restore, world, cheats, flags, history, Ids
<1>9. CASE RestoreError
  <2>1. Busy /\ Last > 0 /\ Last \in Nat
    BY <1>9 DEF RestoreError, Busy, Last, TypeOK
  <2>2. ASSUME NEW k \in Partial(Len(Undo.bytes))
        PROVE  Overlay(mem[Target], Undo.address, Undo.bytes, k) \in MemType
    <3>1. k \in 0..Len(Undo.bytes)
      BY <2>1, UndoType, PartialType
    <3> QED BY <2>1, <3>1, BusyTypes, UndoType, OverlayType
  <2>3. mem' \in [Pids -> MemType]
    BY <1>9, <2>1, <2>2, BusyTypes DEF TypeOK, RestoreError
  <2>4. snaps' \in Seq(SnapType)
    BY <1>9, <2>1 DEF TypeOK, RestoreError, DropLast, Last
  <2>5. stray' \subseteq Pids \X Cells
    BY <1>9, <2>1, BusyTypes DEF TypeOK, RestoreError, Span
  <2> QED
    BY <1>9, <2>3, <2>4, <2>5 DEF TypeOK, RestoreError, world, cheats, flags, Ids
<1>10. CASE RolledBack
  BY <1>10 DEF TypeOK, RolledBack, Reply, Outcomes, world, cheats, flags, frame, history, Ids
<1> QED
  BY <1>1, <1>2, <1>3, <1>4, <1>5, <1>6, <1>7, <1>8, <1>9, <1>10 DEF Step

\* The return of a call, and what happens to processes.
LEMMA OtherType ==
  ASSUME TypeOK, Return \/ (\E p \in Pids : Exit(p) \/ LoadModule(p)) \/ UNCHANGED vars
  PROVE  TypeOK'
<1>1. CASE Return
  <2>1. call' = Idle /\ call'.on \in BOOLEAN /\ call'.pid \in Pids \cup {NoPid}
    BY <1>1 DEF Return, Idle
  <2>2. snaps' \in Seq(SnapType)
    BY <1>1 DEF Return
  <2> QED BY <1>1, <2>1, <2>2 DEF TypeOK, Return, Outcomes, world, cheats, flags, Ids
<1>2. ASSUME NEW p \in Pids, Exit(p) PROVE TypeOK'
  <2>1. app' \in [Pids -> Apps \cup {NoApp}] /\ hosts' \subseteq Pids
    BY <1>2 DEF TypeOK, Exit
  <2> QED BY <1>2, <2>1 DEF TypeOK, Exit, cheats, flags, frame, history, Ids
<1>3. ASSUME NEW p \in Pids, LoadModule(p) PROVE TypeOK'
  BY <1>3 DEF TypeOK, LoadModule, cheats, flags, frame, history, Ids
<1>4. CASE UNCHANGED vars
  BY <1>4 DEF TypeOK, vars, world, cheats, flags, frame, history, Ids
<1> QED BY <1>1, <1>2, <1>3, <1>4

LEMMA NextType == TypeOK /\ [Next]_vars => TypeOK'
BY EnterType, StepType, OtherType DEF Next

\* The applier's state keeps its types, whatever the files, the processes and the
\* failures: among others a call that is under way always has a patch to work on.
THEOREM TypeCorrect == Spec => []TypeOK
BY InitType, NextType, PTL DEF Spec

-----------------------------------------------------------------------------
(* A call that fails restores what it found. *)

\* While a call is under way its target and the patch it is at stay what they are.
LEMMA BusyStable ==
  ASSUME TypeOK, Busy, Step
  PROVE  call' = call /\ Target' = Target /\ file' = file
<1>1. call' = call /\ file' = file
  BY DEF Step, InvalidPatch, SaveBytes, MapCodeCave, Save, ReadError, ProtectError, WritePatch,
         WriteError, Restore, RestoreError, RolledBack, frame, cheats
<1> QED BY <1>1 DEF Target

LEMMA InitRollback == Init => RollbackInv
BY DEF Init, RollbackInv, Busy, WritesWhatItSaved, FailedCallRestores

\* Entering set_enabled: nothing has been written yet (cheat_applier.cpp:125-183).
LEMMA EnterRollback ==
  ASSUME TypeOK, RollbackInv, NEW id, NEW on \in BOOLEAN, SetEnabled(id, on)
  PROVE  RollbackInv'
<1>1. ASSUME NEW status, Refuse(id, on, status) PROVE RollbackInv'
  BY <1>1 DEF RollbackInv, Refuse, Reply, Busy, WritesWhatItSaved, FailedCallRestores
<1>2. ASSUME NEW p \in Pids, AlreadySet(id, on, p) PROVE RollbackInv'
  BY <1>2
  DEF RollbackInv, AlreadySet, Reply, Busy, WritesWhatItSaved, FailedCallRestores
<1>3. ASSUME NEW p \in Pids, Changes(id, on, p)
      PROVE  call'.pid = p /\ mem' = mem /\ start' = mem[p]
  BY <1>3 DEF Changes, Accepts
<1>4. ASSUME NEW p \in Pids, Begin(id, on, p) PROVE RollbackInv'
  <2>1. Target' = p /\ mem' = mem /\ start' = mem[p] /\ pc' = "read" /\ restored' = TRUE
    BY <1>3, <1>4 DEF Begin, Target
  <2>2. Last' = 0
    BY <1>4 DEF Begin, Last
  <2>3. UncoveredIsUntouched'
    BY <2>1 DEF UncoveredIsUntouched, Untouched
  <2>4. OldestHoldsStart'
    BY <2>2 DEF OldestHoldsStart
  <2> QED
    BY <2>1, <2>3, <2>4 DEF RollbackInv, Busy, WritesWhatItSaved, FailedCallRestores
<1>5. ASSUME NEW p \in Pids, NoBuffer(id, on, p) PROVE RollbackInv'
  <2>1. call'.pid = p /\ mem' = mem /\ start' = mem[p] /\ pc' = "done"
    BY <1>3, <1>5 DEF NoBuffer, Reply
  <2> QED BY <2>1 DEF RollbackInv, Busy, WritesWhatItSaved, FailedCallRestores
<1> QED
  BY <1>1, <1>2, <1>4, <1>5 DEF SetEnabled, UnknownCheat, EmptyCheat, NoModule

\* Saving the bytes of a patch whose cells, as far as no snapshot covers them and no
\* code cave took them, are untouched (cheat_applier.cpp:194-207).
LEMMA SaveRollback ==
  ASSUME TypeOK, RollbackInv, pc = "read", NEW bytes \in Seq(Byte), Len(bytes) = Size,
         Save(bytes), caved \subseteq caved',
         \A x \in Cells \ caved' :
           /\ mem'[Target][x] = mem[Target][x]
           /\ x \in Span(Address, Size) => bytes[x - Address + 1] = mem[Target][x]
  PROVE  RollbackInv'
<1>1. Busy /\ restored /\ UncoveredIsUntouched /\ OldestHoldsStart /\ Last \in Nat
  BY BusyTypes DEF RollbackInv, Busy
<1>2. /\ snaps \in Seq(SnapType) /\ Address \in Cells
      /\ [address |-> Address, bytes |-> bytes] \in SnapType
  BY <1>1, BusyTypes DEF TypeOK, SnapType
<1>3. /\ snaps' = Append(snaps, [address |-> Address, bytes |-> bytes])
      /\ pc' = "write" /\ restored' = restored /\ start' = start /\ stray' = stray
      /\ call' = call /\ file' = file /\ offset' = offset /\ next' = next
  BY DEF Save, cheats, flags
<1>4. /\ Last' = Last + 1 /\ snaps'[Last + 1] = [address |-> Address, bytes |-> bytes]
      /\ \A k \in 1..Last : snaps'[k] = snaps[k]
  BY <1>2, <1>3 DEF Last
<1>5. Address' = Address /\ Size' = Size /\ Target' = Target
  BY <1>3 DEF Address, Size, Target, AddressOf, OffsetOf, Wanted, Patch
<1>6. /\ \A k \in 1..Last, x \in Cells :
           (Covered(k, x)' <=> Covered(k, x)) /\ Saved(k, x)' = Saved(k, x)
      /\ \A k, x : k = Last + 1 => /\ Covered(k, x)' <=> x \in Span(Address, Size)
                                   /\ Saved(k, x)' = bytes[x - Address + 1]
  <2>1. ASSUME NEW k \in 1..Last, NEW x \in Cells
        PROVE  (Covered(k, x)' <=> Covered(k, x)) /\ Saved(k, x)' = Saved(k, x)
    BY <1>4 DEF Covered, Saved
  <2>2. ASSUME NEW k, NEW x, k = Last + 1
        PROVE  (Covered(k, x)' <=> x \in Span(Address, Size))
               /\ Saved(k, x)' = bytes[x - Address + 1]
    BY <1>4, <2>2 DEF Covered, Saved
  <2> QED BY <2>1, <2>2
<1>7. UncoveredIsUntouched'
  <2> SUFFICES ASSUME NEW x \in Cells \ caved', \A k \in 1..(Last + 1) : ~Covered(k, x)'
               PROVE  mem'[Target][x] = start[x]
    BY <1>3, <1>4, <1>5 DEF UncoveredIsUntouched, Untouched
  <2>1. \A k \in 1..Last : ~Covered(k, x)
    BY <1>1, <1>6
  <2> QED BY <2>1, <1>1 DEF UncoveredIsUntouched, Untouched
<1>8. OldestHoldsStart'
  <2> SUFFICES ASSUME NEW k \in 1..(Last + 1), NEW x \in Cells \ caved',
                      Covered(k, x)', \A j \in 1..(k - 1) : ~Covered(j, x)'
               PROVE  Saved(k, x)' = start[x]
    BY <1>1, <1>3, <1>4 DEF OldestHoldsStart
  <2>1. CASE k \in 1..Last
    <3>1. \A j \in 1..(k - 1) : ~Covered(j, x)
      BY <1>1, <1>6, <2>1
    <3> QED BY <3>1, <2>1, <1>1, <1>6 DEF OldestHoldsStart
  <2>2. CASE k = Last + 1
    <3>1. \A j \in 1..Last : ~Covered(j, x)
      BY <1>1, <1>6, <2>2
    <3>2. mem[Target][x] = start[x]
      BY <3>1, <1>1 DEF UncoveredIsUntouched, Untouched
    <3> QED BY <3>2, <2>2, <1>6
  <2> QED BY <2>1, <2>2, <1>1
<1>9. WritesWhatItSaved'
  <2>1. Undo' = [address |-> Address, bytes |-> bytes]
    BY <1>4 DEF Undo
  <2> QED BY <2>1, <1>1, <1>4, <1>5 DEF WritesWhatItSaved
<1> QED
  BY <1>1, <1>3, <1>7, <1>8, <1>9 DEF RollbackInv, FailedCallRestores

\* A step that changes neither a snapshot nor what the call found keeps what is known
\* of them, if the target's memory changes only where a snapshot or a cave covers it.
LEMMA KeepRollback ==
  ASSUME TypeOK, UncoveredIsUntouched, OldestHoldsStart,
         UNCHANGED <<call, snaps, restored, start>>,
         caved \subseteq caved',
         \A s \in stray : restored \/ s \in stray',
         \A x \in Cells \ caved' :
           (\A k \in 1..Last : ~Covered(k, x)) => mem'[Target][x] = mem[Target][x]
  PROVE  UncoveredIsUntouched' /\ OldestHoldsStart'
<1>1. Last' = Last /\ Target' = Target /\ start' = start /\ restored' = restored
  BY DEF Last, Target
<1>2. \A k, x : (Covered(k, x)' <=> Covered(k, x)) /\ Saved(k, x)' = Saved(k, x)
  BY DEF Covered, Saved
<1>3. UncoveredIsUntouched'
  <2> SUFFICES ASSUME NEW x \in Cells \ caved', \A k \in 1..Last : ~Covered(k, x)
               PROVE  Untouched(x)'
    BY <1>1, <1>2 DEF UncoveredIsUntouched
  <2>1. Untouched(x) /\ mem'[Target][x] = mem[Target][x]
    BY DEF UncoveredIsUntouched
  <2> QED BY <2>1, <1>1 DEF Untouched
<1>4. OldestHoldsStart'
  BY <1>1, <1>2 DEF OldestHoldsStart
<1> QED BY <1>3, <1>4

\* One step of the rollback: what the newest snapshot covers and no older one does is
\* what the call found, if that snapshot could be written, and declared lost if not.
LEMMA UndoRollback ==
  ASSUME TypeOK, UncoveredIsUntouched, OldestHoldsStart, pc = "rollback", Last > 0, DropLast,
         UNCHANGED <<call, start, caved>>,
         \A x \in Cells : x \notin Span(Undo.address, Len(Undo.bytes)) =>
           mem'[Target][x] = mem[Target][x] /\ (Untouched(x) => Untouched(x)'),
         \A x \in Span(Undo.address, Len(Undo.bytes)) :
           Saved(Last, x) = start[x] => Untouched(x)'
  PROVE  UncoveredIsUntouched' /\ OldestHoldsStart'
<1>1. /\ Last \in Nat /\ Last' = Last - 1 /\ \A k \in 1..(Last - 1) : snaps'[k] = snaps[k]
      /\ Target' = Target /\ start' = start /\ caved' = caved
  <2>1. Last \in Nat /\ Last = Len(snaps) /\ snaps \in Seq(SnapType)
    BY DEF TypeOK, Last
  <2>2. snaps' = SubSeq(snaps, 1, Last - 1)
    BY DEF DropLast
  <2>3. Len(snaps') = Last - 1 /\ \A k \in 1..(Last - 1) : snaps'[k] = snaps[k]
    BY <2>1, <2>2
  <2>4. Last' = Len(snaps')
    BY DEF Last
  <2> QED BY <2>1, <2>3, <2>4 DEF Target
<1>2. \A k \in 1..(Last - 1), x \in Cells :
        (Covered(k, x)' <=> Covered(k, x)) /\ Saved(k, x)' = Saved(k, x)
  BY <1>1 DEF Covered, Saved
<1>3. UncoveredIsUntouched'
  <2> SUFFICES ASSUME NEW x \in Cells \ caved, \A k \in 1..(Last - 1) : ~Covered(k, x)
               PROVE  Untouched(x)'
    BY <1>1, <1>2 DEF UncoveredIsUntouched
  <2>1. CASE Covered(Last, x)
    <3>1. Saved(Last, x) = start[x]
      BY <2>1, <1>1 DEF OldestHoldsStart
    <3> QED BY <3>1, <2>1 DEF Covered, Undo
  <2>2. CASE ~Covered(Last, x)
    <3>1. \A k \in 1..Last : ~Covered(k, x)
      BY <2>2, <1>1
    <3>2. Untouched(x)
      BY <3>1 DEF UncoveredIsUntouched
    <3> QED BY <3>2, <2>2 DEF Covered, Undo
  <2> QED BY <2>1, <2>2
<1>4. OldestHoldsStart'
  <2> SUFFICES ASSUME NEW k \in 1..(Last - 1), NEW x \in Cells \ caved,
                      Covered(k, x), \A j \in 1..(k - 1) : ~Covered(j, x)
               PROVE  Saved(k, x) = start[x]
    <3>1. \A k \in 1..(Last - 1) : \A j \in 1..(k - 1) : j \in 1..(Last - 1)
      BY <1>1
    <3> QED BY <1>1, <1>2, <3>1 DEF OldestHoldsStart
  <2> QED BY <1>1 DEF OldestHoldsStart
<1> QED BY <1>3, <1>4

LEMMA StepRollback ==
  ASSUME TypeOK, RollbackInv, Step
  PROVE  RollbackInv'
<1>1. /\ call' = call /\ Target' = Target /\ file' = file
      /\ Busy /\ UncoveredIsUntouched /\ OldestHoldsStart
  <2>1. Busy
    BY DEF Step, Busy, InvalidPatch, SaveBytes, MapCodeCave, ReadError, ProtectError, WritePatch,
           WriteError, Restore, RestoreError, RolledBack
  <2> QED BY <2>1, BusyStable DEF RollbackInv
<1>2. /\ Target \in Pids /\ Address \in Cells /\ Size \in Nat /\ Wanted \in Seq(Byte)
      /\ Last \in Nat /\ mem \in [Pids -> MemType]
  BY <1>1, BusyTypes DEF TypeOK
<1>3. CASE InvalidPatch
  <2>1. UncoveredIsUntouched' /\ OldestHoldsStart'
    BY <1>1, <1>3, KeepRollback DEF InvalidPatch, frame, history
  <2> QED
    BY <1>3, <2>1
    DEF InvalidPatch, Fail, RollbackInv, WritesWhatItSaved, FailedCallRestores
<1>4. CASE SaveBytes
  <2>1. /\ BytesAt(mem[Target], Address, Size) \in Seq(Byte)
        /\ Len(BytesAt(mem[Target], Address, Size)) = Size
    BY <1>2, <1>4, BytesType DEF SaveBytes, Readable
  <2>2. ASSUME NEW x \in Span(Address, Size)
        PROVE  BytesAt(mem[Target], Address, Size)[x - Address + 1] = mem[Target][x]
    <3>1. x \in Int /\ Address \in Int /\ x - Address + 1 \in 1..Size
      BY <1>2, <2>2, AddrAssumption DEF Span, Cells
    <3>2. Address + (x - Address + 1) - 1 = x
      BY <3>1
    <3> QED BY <3>1, <3>2 DEF BytesAt
  <2> QED BY <1>4, <2>1, <2>2, SaveRollback DEF SaveBytes
<1>5. ASSUME MapsPages
      PROVE  /\ caved \subseteq caved'
             /\ \A x \in Cells \ caved' :
                  mem'[Target][x] = mem[Target][x] /\ x \notin Span(Address, Size)
  <2>1. Span(Address, Size) \subseteq PageRange(Address, Size)
    BY <1>2, PagesContainSpan
  <2> QED BY <1>2, <1>5, <2>1 DEF MapsPages, MapPages
<1>6. CASE MapCodeCave
  <2>1. Patch.off \in Seq(Byte) /\ Len(Patch.off) = Size
    BY <1>1, <1>6, BusyTypes DEF MapCodeCave, MayMap
  <2> QED BY <1>5, <1>6, <2>1, SaveRollback DEF MapCodeCave
<1>7. CASE ReadError
  <2>1. UncoveredIsUntouched' /\ OldestHoldsStart'
    BY <1>1, <1>7, KeepRollback DEF ReadError, frame, history
  <2> QED
    BY <1>7, <2>1 DEF ReadError, Fail, RollbackInv, WritesWhatItSaved, FailedCallRestores
<1>8. CASE ProtectError
  <2>1. UncoveredIsUntouched' /\ OldestHoldsStart'
    BY <1>1, <1>5, <1>8, KeepRollback DEF ProtectError, frame
  <2> QED
    BY <1>8, <2>1 DEF ProtectError, Fail, RollbackInv, WritesWhatItSaved, FailedCallRestores
<1>9. ASSUME pc = "write", NEW k \in 0..Size, UNCHANGED <<snaps, caved>>,
             mem' = [mem EXCEPT ![Target] = Overlay(@, Address, Wanted, k)],
             NEW x \in Cells, \A j \in 1..Last : ~Covered(j, x)
      PROVE  mem'[Target][x] = mem[Target][x]
  <2>1. Last > 0 /\ ~(x \in Span(Undo.address, Len(Undo.bytes)))
    BY <1>2, <1>9 DEF RollbackInv, WritesWhatItSaved, Covered, Undo
  <2>2. x \notin Span(Address, Size)
    BY <2>1, <1>9 DEF RollbackInv, WritesWhatItSaved
  <2>3. x \notin Span(Address, k)
    BY <2>2, <1>2, SpanMonotone, AddrAssumption DEF Cells
  <2> QED BY <1>2, <1>9, <2>3, OverlayOutside
<1>10. CASE WritePatch
  <2>1. CASE LastPatch
    BY <1>10, <2>1
    DEF WritePatch, Finish, Reply, RollbackInv, Busy, WritesWhatItSaved, FailedCallRestores
  <2>2. CASE ~LastPatch
    <3>1. Size \in 0..Size /\ restored
      BY <1>2, <1>10 DEF WritePatch, RollbackInv
    <3>2. pc' = "read" /\ stray' = stray /\ UNCHANGED <<call, snaps, restored, start, caved>>
      BY <1>10, <2>2 DEF WritePatch, Advance
    <3>3. UncoveredIsUntouched' /\ OldestHoldsStart'
      BY <1>1, <1>9, <1>10, <3>1, <3>2, KeepRollback DEF WritePatch
    <3> QED
      BY <3>1, <3>2, <3>3 DEF RollbackInv, WritesWhatItSaved, FailedCallRestores
  <2> QED BY <2>1, <2>2
<1>11. CASE WriteError
  <2>1. PICK k \in Partial(Size) :
          mem' = [mem EXCEPT ![Target] = Overlay(@, Address, Wanted, k)]
    BY <1>11 DEF WriteError
  <2>2. k \in 0..Size /\ pc = "write" /\ UNCHANGED <<call, snaps, restored, start, caved, stray>>
    BY <1>2, <1>11, PartialType DEF WriteError, frame, history
  <2>3. UncoveredIsUntouched' /\ OldestHoldsStart'
    BY <1>1, <1>9, <2>1, <2>2, KeepRollback
  <2> QED
    BY <1>11, <2>3 DEF WriteError, Fail, RollbackInv, WritesWhatItSaved, FailedCallRestores
<1>12. ASSUME Last > 0, NEW k \in 0..Len(Undo.bytes),
              mem' = [mem EXCEPT ![Target] = Overlay(@, Undo.address, Undo.bytes, k)]
       PROVE  /\ \A x \in Cells : x \notin Span(Undo.address, Len(Undo.bytes)) =>
                   mem'[Target][x] = mem[Target][x]
              /\ k = Len(Undo.bytes) => \A x \in Span(Undo.address, Len(Undo.bytes)) :
                   mem'[Target][x] = Saved(Last, x)
  <2>1. Span(Undo.address, k) \subseteq Span(Undo.address, Len(Undo.bytes))
    BY <1>12, UndoType, SpanMonotone
  <2> QED
    BY <1>2, <1>12, <2>1, OverlayOutside, OverlayInside DEF Saved, Undo, Span
<1>13. CASE Restore
  <2>1. /\ pc = "rollback" /\ Last > 0 /\ DropLast /\ Len(Undo.bytes) \in 0..Len(Undo.bytes)
        /\ UNCHANGED <<pc, call, restored, start, caved, stray>>
    BY <1>13, UndoType DEF Restore, history
  <2>2. /\ mem' = [mem EXCEPT ![Target] =
                     Overlay(@, Undo.address, Undo.bytes, Len(Undo.bytes))]
        /\ \A x \in Cells : x \notin Span(Undo.address, Len(Undo.bytes)) =>
             mem'[Target][x] = mem[Target][x]
        /\ \A x \in Span(Undo.address, Len(Undo.bytes)) :
             mem'[Target][x] = Saved(Last, x)
    BY <1>12, <1>13, <2>1 DEF Restore
  <2>3. ASSUME NEW x \in Cells, x \notin Span(Undo.address, Len(Undo.bytes)), Untouched(x)
        PROVE  Untouched(x)'
    BY <1>1, <2>1, <2>2, <2>3 DEF Untouched
  <2>4. ASSUME NEW x \in Span(Undo.address, Len(Undo.bytes)), Saved(Last, x) = start[x]
        PROVE  Untouched(x)'
    BY <1>1, <2>1, <2>2, <2>4 DEF Untouched
  <2>5. UncoveredIsUntouched' /\ OldestHoldsStart'
    BY <1>1, <2>1, <2>2, <2>3, <2>4, UndoRollback
  <2> QED BY <2>1, <2>5 DEF RollbackInv, WritesWhatItSaved, FailedCallRestores
<1>14. CASE RestoreError
  <2>1. PICK k \in Partial(Len(Undo.bytes)) :
          mem' = [mem EXCEPT ![Target] = Overlay(@, Undo.address, Undo.bytes, k)]
    BY <1>14 DEF RestoreError
  <2>2. /\ pc = "rollback" /\ Last > 0 /\ DropLast /\ k \in 0..Len(Undo.bytes)
        /\ UNCHANGED <<pc, call, start, caved>> /\ restored' = FALSE
        /\ stray' = stray \cup {<<Target, x>> : x \in Span(Undo.address, Len(Undo.bytes))}
    BY <1>14, UndoType, PartialType DEF RestoreError
  <2>3. ASSUME NEW x \in Cells, x \notin Span(Undo.address, Len(Undo.bytes)), Untouched(x)
        PROVE  Untouched(x)'
    BY <1>1, <1>12, <2>1, <2>2, <2>3 DEF Untouched
  <2>4. ASSUME NEW x \in Span(Undo.address, Len(Undo.bytes)) PROVE Untouched(x)'
    BY <1>1, <2>2 DEF Untouched
  <2>5. UncoveredIsUntouched' /\ OldestHoldsStart'
    BY <1>1, <1>12, <2>1, <2>2, <2>3, <2>4, UndoRollback
  <2> QED BY <2>2, <2>5 DEF RollbackInv, WritesWhatItSaved, FailedCallRestores
<1>15. CASE RolledBack
  <2>1. /\ Last = 0 /\ pc' = "done" /\ UNCHANGED <<mem, call, start, caved, stray>>
        /\ ~restored => outcome' = "rollback_error"
    BY <1>15 DEF RolledBack, Reply, frame, history
  <2>2. \A x \in Cells \ caved : Untouched(x)
    BY <1>1, <2>1 DEF UncoveredIsUntouched
  <2>3. FailedCallRestores'
    BY <2>1, <2>2 DEF FailedCallRestores, Untouched, Target
  <2> QED BY <2>1, <2>3 DEF RollbackInv, Busy, WritesWhatItSaved
<1> QED
  BY <1>3, <1>4, <1>6, <1>7, <1>8, <1>10, <1>11, <1>13, <1>14, <1>15 DEF Step

LEMMA OtherRollback ==
  ASSUME TypeOK, RollbackInv,
         Return \/ (\E p \in Pids : Exit(p) \/ LoadModule(p)) \/ UNCHANGED vars
  PROVE  RollbackInv'
<1>1. CASE Return
  BY <1>1 DEF Return, RollbackInv, Busy, WritesWhatItSaved, FailedCallRestores
<1>2. CASE (\E p \in Pids : Exit(p) \/ LoadModule(p)) \/ UNCHANGED vars
  <2>1. UNCHANGED <<mem, cheats, flags, pc, frame, outcome, history>>
    BY <1>2 DEF Exit, LoadModule, vars
  <2> QED
    BY <2>1
    DEF cheats, flags, frame, history, RollbackInv, Busy, WritesWhatItSaved, FailedCallRestores,
        UncoveredIsUntouched, OldestHoldsStart, Untouched, Covered, Saved, Undo, Last, Target,
        Address, Size, AddressOf, OffsetOf, Wanted, Patch
<1> QED BY <1>1, <1>2

LEMMA NextRollback == TypeOK /\ RollbackInv /\ [Next]_vars => RollbackInv'
BY EnterRollback, StepRollback, OtherRollback DEF Next

\* Whatever the patches, however they overlap, whichever reads, writes, mappings and
\* restoring writes fail and whenever the target exits, a call that fails leaves every
\* cell as it found it, outside the code caves it mapped and the cells whose restoring
\* write failed (cheat_applier.cpp:56-68, 185-227).
THEOREM FailureRestores == Spec => []FailedCallRestores
<1>1. Spec => [](TypeOK /\ RollbackInv)
  BY InitType, InitRollback, NextType, NextRollback, PTL DEF Spec
<1>2. RollbackInv => FailedCallRestores
  BY DEF RollbackInv
<1> QED BY <1>1, <1>2, PTL
-----------------------------------------------------------------------------
(* The refinement of CheatToggle: seen between calls, set_enabled is one step.     *)

\* A call that is under way switches a cheat that is not yet as asked, and what is known of
\* the flags is known of its target.
SwitchPending ==
  Busy => enabled[call.id] # call.on /\ lastPid \in {Target, NoPid}

LEMMA InitPending == Init => SwitchPending
BY DEF Init, SwitchPending, Busy

LEMMA NextPending == TypeOK /\ SwitchPending /\ [Next]_vars => SwitchPending'
<1> SUFFICES ASSUME TypeOK, SwitchPending, [Next]_vars PROVE SwitchPending'
  OBVIOUS
<1>1. ASSUME NEW id, NEW on \in BOOLEAN, SetEnabled(id, on) PROVE SwitchPending'
  <2>1. ASSUME NEW p \in Pids, Begin(id, on, p) PROVE SwitchPending'
    <3>1. /\ call' = [id |-> id, on |-> on, pid |-> p] /\ enabled' = EnabledFor(p)
          /\ lastPid' = LastFor(p) /\ EnabledFor(p)[id] # on
      BY <2>1 DEF Begin, Changes, Accepts
    <3>2. LastFor(p) \in {p, NoPid}
      BY DEF LastFor, Stale
    <3> QED BY <3>1, <3>2 DEF SwitchPending, Target
  <2>2. CASE pc' = "done"
    BY <2>2 DEF SwitchPending, Busy
  <2> QED
    BY <1>1, <2>1, <2>2
    DEF SetEnabled, UnknownCheat, EmptyCheat, NoModule, Refuse, Reply, AlreadySet, NoBuffer
<1>2. CASE Step
  <2>1. CASE pc' = "done"
    BY <2>1 DEF SwitchPending, Busy
  <2>2. CASE pc' # "done"
    <3>1. Busy /\ UNCHANGED <<call, enabled, lastPid>>
      BY <1>2, <2>2
      DEF Step, Busy, InvalidPatch, SaveBytes, MapCodeCave, Save, ReadError, ProtectError,
          WritePatch, Finish, Advance, Reply, Fail, WriteError, Restore, RestoreError, RolledBack,
          frame, flags
    <3> QED BY <3>1 DEF SwitchPending, Target
  <2> QED BY <2>1, <2>2
<1>3. CASE Return \/ (\E p \in Pids : Exit(p) \/ LoadModule(p)) \/ UNCHANGED vars
  BY <1>3
  DEF Return, Exit, LoadModule, vars, frame, flags, SwitchPending, Busy, Target
<1> QED BY <1>1, <1>2, <1>3 DEF Next

\* While a call runs, nothing is seen of what it does to its target.
LEMMA HiddenWhileBusy ==
  ASSUME TypeOK, Busy, Busy', call' = call, start' = start,
         \A p \in Pids \ {Target} : mem'[p] = mem[p]
  PROVE  SeenMemory' = SeenMemory
BY DEF SeenMemory, Target

LEMMA InitToggle == Init => Abstract!Init
BY DEF Init, NoFlags, Abstract!Init, Abstract!AllOff

\* A call that has just been entered has not been seen to do anything.
LEMMA SeenAtEntry ==
  ASSUME NEW id, NEW on \in BOOLEAN, SetEnabled(id, on)
  PROVE  SeenMemory = [p \in Pids |-> mem[p]] /\ SeenMemory' = [p \in Pids |-> mem[p]]
<1>1. pc = "idle" /\ mem' = mem
  BY DEF SetEnabled, UnknownCheat, EmptyCheat, NoModule, Refuse, AlreadySet, Begin, NoBuffer,
         Changes, Accepts
<1>2. SeenMemory = [p \in Pids |-> mem[p]]
  BY <1>1 DEF SeenMemory, Busy
<1>3. SeenMemory' = [p \in Pids |-> mem[p]]
  <2>1. CASE pc' = "done"
    BY <1>1, <2>1 DEF SeenMemory, Busy
  <2>2. ASSUME NEW p \in Pids, Begin(id, on, p) PROVE SeenMemory' = [q \in Pids |-> mem[q]]
    <3>1. call'.pid = p /\ start' = mem[p]
      BY <2>2 DEF Begin, Changes, Accepts
    <3> QED BY <1>1, <3>1 DEF SeenMemory
  <2> QED
    BY <2>1, <2>2
    DEF SetEnabled, UnknownCheat, EmptyCheat, NoModule, Refuse, Reply, AlreadySet, NoBuffer
<1> QED BY <1>2, <1>3

\* Entering set_enabled drops what was known of another process, or is not seen.
LEMMA EnterToggles ==
  ASSUME TypeOK, NEW id, NEW on \in BOOLEAN, SetEnabled(id, on)
  PROVE  [Abstract!Next]_(Abstract!vars)
<1>1. SeenMemory' = SeenMemory
  BY SeenAtEntry
<1>2. ASSUME NEW p \in Pids, Accepts(id, on, p) PROVE [Abstract!Next]_(Abstract!vars)
  <2>1. enabled' = EnabledFor(p) /\ lastPid' = LastFor(p)
    BY <1>2 DEF Accepts
  <2>2. CASE Stale(p)
    <3>1. lastPid # NoPid /\ lastPid' = NoPid /\ enabled' = [c \in Ids |-> FALSE]
      BY <2>1, <2>2 DEF EnabledFor, LastFor, Stale
    <3>2. DOMAIN enabled = Ids /\ DOMAIN enabled' = Ids
      BY <3>1 DEF TypeOK
    <3>3. Abstract!Drop
      BY <1>1, <3>1, <3>2 DEF Abstract!Drop, Abstract!AllOff
    <3> QED BY <3>3 DEF Abstract!Next
  <2>3. CASE ~Stale(p)
    BY <1>1, <2>1, <2>3 DEF EnabledFor, LastFor, Abstract!vars
  <2> QED BY <2>2, <2>3
<1>3. CASE UNCHANGED flags
  BY <1>1, <1>3 DEF flags, Abstract!vars
<1> QED
  BY <1>2, <1>3
  DEF SetEnabled, UnknownCheat, EmptyCheat, NoModule, Refuse, AlreadySet, Begin, NoBuffer, Changes

\* The write of the last patch is seen as the switch, the end of a rollback as a failure, and
\* nothing else that a call does is seen at all.
LEMMA StepToggles ==
  ASSUME TypeOK, RollbackInv, SwitchPending, Step
  PROVE  [Abstract!Next]_(Abstract!vars)
<1>1. Busy /\ Target \in Pids /\ call' = call /\ Last \in Nat /\ mem \in [Pids -> MemType]
      /\ call.id \in Ids
  <2>1. Busy
    BY DEF Step, Busy, InvalidPatch, SaveBytes, MapCodeCave, ReadError, ProtectError, WritePatch,
           WriteError, Restore, RestoreError, RolledBack
  <2> QED BY <2>1, BusyTypes, BusyStable DEF TypeOK
<1>2. \A p \in Pids \ {Target} : mem'[p] = mem[p]
  BY <1>1
  DEF Step, InvalidPatch, SaveBytes, MapCodeCave, MapsPages, ReadError, ProtectError, WritePatch,
      WriteError, Restore, RestoreError, RolledBack
<1>3. CASE Busy'
  <2>1. UNCHANGED <<start, enabled, lastPid>>
    BY <1>3
    DEF Step, Busy, InvalidPatch, SaveBytes, MapCodeCave, Save, ReadError, ProtectError,
        WritePatch, Finish, Advance, Reply, WriteError, Restore, RestoreError, RolledBack,
        flags, history
  <2> QED BY <1>1, <1>2, <1>3, <2>1, HiddenWhileBusy DEF Abstract!vars
<1>4. CASE ~Busy'
  <2>1. SeenMemory' = [p \in Pids |-> mem'[p]]
    BY <1>4 DEF SeenMemory
  <2>2. Abstract!OnlyIn(Target)
    BY <1>1, <1>2, <2>1 DEF Abstract!OnlyIn, SeenMemory, Target
  <2>3. CASE WritePatch
    <3>1. Finish
      BY <1>4, <2>3 DEF WritePatch, Advance, Busy
    <3>2. enabled' = [enabled EXCEPT ![call.id] = call.on] /\ lastPid' = Target
      BY <3>1 DEF Finish
    <3>3. enabled[call.id] \in BOOLEAN /\ call.on \in BOOLEAN /\ enabled[call.id] # call.on
          /\ DOMAIN enabled = Ids /\ lastPid \in {Target, NoPid}
      BY <1>1 DEF TypeOK, SwitchPending
    <3>4. enabled' = [enabled EXCEPT ![call.id] = ~@]
      BY <3>2, <3>3
    <3>5. Abstract!Switch(call.id, Target)
      BY <2>2, <3>2, <3>3, <3>4 DEF Abstract!Switch
    <3> QED BY <1>1, <3>3, <3>5 DEF Abstract!Next
  <2>4. CASE RolledBack
    <3>1. Last = 0 /\ UNCHANGED <<mem, enabled, lastPid>>
      BY <2>4 DEF RolledBack, flags
    <3>2. \A x \in Cells \ caved : Untouched(x)
      BY <1>1, <3>1 DEF RollbackInv, UncoveredIsUntouched
    <3>3. ASSUME NEW x \in Cells, SeenMemory'[Target][x] # SeenMemory[Target][x]
          PROVE  <<Target, x>> \in Lost
      <4>1. SeenMemory[Target] = start /\ SeenMemory'[Target] = mem[Target]
        BY <1>1, <2>1, <3>1 DEF SeenMemory, Target
      <4> QED BY <3>2, <3>3, <4>1 DEF Untouched, Lost, Target
    <3>4. Abstract!Fail(Target)
      BY <2>2, <3>1, <3>3 DEF Abstract!Fail
    <3> QED BY <1>1, <3>4 DEF Abstract!Next
  <2> QED
    BY <1>4, <2>3, <2>4
    DEF Step, Busy, InvalidPatch, SaveBytes, MapCodeCave, Save, ReadError, ProtectError, Fail,
        WriteError, Restore, RestoreError
<1> QED BY <1>3, <1>4

LEMMA OtherToggles ==
  ASSUME TypeOK, Return \/ (\E p \in Pids : Exit(p) \/ LoadModule(p)) \/ UNCHANGED vars
  PROVE  UNCHANGED Abstract!vars
<1>1. UNCHANGED <<mem, enabled, lastPid>> /\ Busy' = Busy
  BY DEF Return, Exit, LoadModule, vars, flags, Busy
<1>2. Busy => UNCHANGED <<call, start>>
  BY DEF Return, Exit, LoadModule, vars, frame, history, Busy
<1>3. SeenMemory' = SeenMemory
  BY <1>1, <1>2 DEF SeenMemory
<1> QED BY <1>1, <1>3 DEF Abstract!vars

\* To whoever looks between its calls, set_enabled switches one flag together with the memory of
\* one process or fails without a trace outside the cells declared lost, for any processes, files
\* and failures (cheat_applier.cpp:120-232, README.md:112-114).
THEOREM CallsAreToggles == Spec => TogglesAtomically
<1>1. TypeOK /\ RollbackInv /\ SwitchPending /\ [Next]_vars => [Abstract!Next]_(Abstract!vars)
  <2> SUFFICES ASSUME TypeOK, RollbackInv, SwitchPending, [Next]_vars
               PROVE  [Abstract!Next]_(Abstract!vars)
    OBVIOUS
  <2> QED BY EnterToggles, StepToggles, OtherToggles DEF Next
<1> QED
  BY InitType, InitRollback, InitPending, InitToggle, NextType, NextRollback, NextPending, <1>1,
     PTL DEF Spec, TogglesAtomically, Abstract!Spec
-----------------------------------------------------------------------------
(* The flags and the bytes agree, in files in which no cheat follows a master code.  *)

BytesOf(c, k, on) == IF on THEN file[c].patches[k].on ELSE file[c].patches[k].off
\* where the patches of cheat c are in process p
Places(p, c) == [k \in 1..Len(file[c].patches) |-> AddressOf(p, c, k)]
\* no other cheat that was last enabled in the same process as c reaches x
Alone(c, x) == \A d \in Ids \ {c} : site[d] = Places(lastPid, d) => x \notin Reach(d)
OnByte(c, s) == file[c].patches[s[1]].on[s[2] - site[c][s[1]] + 1]
Patching == pc \in {"read", "write"}

OffsetsFixed == offset = FirstOffsets(file) /\ DOMAIN site = Ids
\* an enabled cheat was enabled in the process the flags are about, where its patches are
Placed ==
  \A c \in Ids : enabled[c] =>
    lastPid # NoPid /\ Len(file[c].patches) > 0 /\ site[c] = Places(lastPid, c)
\* what it wrote there is there, as seen between calls
Agreed ==
  \A c \in Ids : enabled[c] => \A s \in Newest(c) : Alone(c, s[2]) =>
    <<lastPid, s[2]>> \in stray \cup wiped \/ SeenMemory[lastPid][s[2]] = OnByte(c, s)
\* the snapshots of a call are those of the patches up to the one it is at
Trail ==
  Patching =>
    /\ Last = IF pc = "read" THEN next - 1 ELSE next
    /\ \A k \in 1..Last : /\ snaps[k].address = AddressOf(Target, call.id, k)
                          /\ Len(snaps[k].bytes) = Len(BytesOf(call.id, k, call.on))
\* the newest patch over a cell has written it, unless a cave has replaced it since
LatestUpTo(n, m) ==
  \A k \in 1..n, x \in Cells :
    Covered(k, x) /\ (\A j \in (k + 1)..n : ~Covered(j, x)) =>
      \/ m[x] = BytesOf(call.id, k, call.on)[x - snaps[k].address + 1]
      \/ x \in caved /\ <<Target, x>> \in wiped
Latest == Patching => LatestUpTo(next - 1, mem[Target])
\* a cell that a cave took was not mapped, or is known to be wiped
CavesAreKnown ==
  Busy => \A x \in Cells :
    /\ x \in caved => start[x] = Unmapped \/ <<Target, x>> \in wiped
    /\ start[x] # Unmapped => mem[Target][x] # Unmapped
\* a call that rolls back does not report that it switched the cheat off
FailsOpenly == pc = "rollback" => outcome # "disabled"
AgreeInv ==
  /\ OffsetsFixed /\ Placed /\ Agreed /\ Trail /\ Latest /\ CavesAreKnown /\ FailsOpenly
  /\ (call.id \in Ids => SameSizes(call.id)) => DisableRestoresOff
\* What a write of a patch may count on.
LEMMA BytesOfType ==
  ASSUME TypeOK, NEW c \in Ids, NEW k \in 1..Len(file[c].patches), NEW on \in BOOLEAN
  PROVE  /\ BytesOf(c, k, on) \in Seq(Byte) /\ Len(BytesOf(c, k, on)) \in Nat
         /\ \A p \in Pids : AddressOf(p, c, k) \in Cells /\ AddressOf(p, c, k) \in Int
<1>1. file[c].patches[k].on \in Seq(Byte) /\ file[c].patches[k].off \in Seq(Byte)
  BY FileTypes DEF TypeOK
<1>2. \A p \in Pids : AddressOf(p, c, k) \in Cells
  BY AddressType
<1>3. BytesOf(c, k, on) \in Seq(Byte)
  BY <1>1 DEF BytesOf
<1>4. \A p \in Pids : AddressOf(p, c, k) \in Int
  BY <1>2, AddrAssumption DEF Cells
<1> QED BY <1>2, <1>3, <1>4

\* An index into the bytes of a range.
LEMMA SpanIndex ==
  ASSUME NEW a \in Cells, NEW n \in Nat, NEW x \in Span(a, n)
  PROVE  x \in Cells /\ x - a + 1 \in 1..n
BY AddrAssumption DEF Span, Cells

\* What a snapshot covers, while patches are being written, is what its patch covers.
LEMMA CoveredIsPatch ==
  ASSUME TypeOK, Patching, Trail, NEW k \in 1..Last, NEW x
  PROVE  /\ k \in 1..Len(file[call.id].patches) /\ call.id \in Ids /\ Target \in Pids
         /\ Covered(k, x) <=> x \in Span(AddressOf(Target, call.id, k),
                                         Len(BytesOf(call.id, k, call.on)))
<1>1. Busy /\ call.id \in Ids /\ Target \in Pids /\ next \in 1..Len(file[call.id].patches)
      /\ Last \in Nat
  BY BusyTypes DEF Patching, Busy
<1>2. Len(file[call.id].patches) \in Nat
  BY <1>1, FileTypes DEF TypeOK
<1>3. k \in 1..Len(file[call.id].patches)
  BY <1>1, <1>2 DEF Trail
<1> QED BY <1>1, <1>3 DEF Trail, Covered

\* It either keeps the flags or drops them all, and without followers it moves no offset.
LEMMA EnterKeeps ==
  ASSUME TypeOK, Free, NEW id, NEW on \in BOOLEAN, SetEnabled(id, on)
  PROVE  /\ UNCHANGED <<file, mem, stray, wiped, site, offset>>
         /\ \/ UNCHANGED <<enabled, lastPid>>
            \/ \A c \in Ids : ~enabled'[c]
         /\ \/ pc' = "done" /\ outcome' # "disabled"
            \/ \E p \in Pids : Begin(id, on, p)
<1>1. ASSUME NEW p \in Pids, Accepts(id, on, p)
      PROVE  \/ UNCHANGED <<enabled, lastPid>>
             \/ \A c \in Ids : ~enabled'[c]
  BY <1>1 DEF Accepts, EnabledFor, LastFor
<1>2. ASSUME NEW p \in Pids, Changes(id, on, p)
      PROVE  /\ UNCHANGED <<file, mem, stray, wiped, site, offset>>
             /\ Accepts(id, on, p)
  <2>1. id \in Ids /\ PickMaster(id, p) /\ ~Dependent(id, MasterFor(p))
    BY <1>2 DEF Changes, Accepts, Free, Dependent
  <2>2. offset' = offset
    BY <2>1 DEF PickMaster, OffsetsAfterFix, TypeOK
  <2> QED BY <1>2, <2>2 DEF Changes, cheats
<1>3. ASSUME NEW status \in Outcomes \ {"disabled"}, Refuse(id, on, status)
      PROVE  UNCHANGED <<file, mem, stray, wiped, site, offset, enabled, lastPid>>
             /\ pc' = "done" /\ outcome' # "disabled"
  BY <1>3 DEF Refuse, Reply, cheats, flags, history
<1>4. CASE UnknownCheat(id, on) \/ EmptyCheat(id, on) \/ NoModule(id, on)
  BY <1>3, <1>4 DEF UnknownCheat, EmptyCheat, NoModule, Outcomes
<1>5. ASSUME NEW p \in Pids, AlreadySet(id, on, p)
      PROVE  /\ UNCHANGED <<file, mem, stray, wiped, site, offset>>
             /\ Accepts(id, on, p) /\ pc' = "done" /\ outcome' # "disabled"
  BY <1>5 DEF AlreadySet, Reply, cheats, history
<1>6. ASSUME NEW p \in Pids, NoBuffer(id, on, p)
      PROVE  Changes(id, on, p) /\ pc' = "done" /\ outcome' # "disabled"
  BY <1>6 DEF NoBuffer, Reply
<1>7. ASSUME NEW p \in Pids, Begin(id, on, p) PROVE Changes(id, on, p)
  BY <1>7 DEF Begin
<1> QED BY <1>1, <1>2, <1>4, <1>5, <1>6, <1>7 DEF SetEnabled

\* A step that changes no flag, and what is seen in no cell that was not lost before, keeps
\* what is known of the enabled cheats.
LEMMA KeepAgreed ==
  ASSUME TypeOK, OffsetsFixed, Placed, Agreed,
         UNCHANGED <<file, offset, site, enabled, lastPid>>,
         stray \cup wiped \subseteq stray' \cup wiped',
         \A c \in Ids : \A s \in Newest(c) : enabled[c] /\ Alone(c, s[2])
           /\ SeenMemory[lastPid][s[2]] = OnByte(c, s) =>
              \/ <<lastPid, s[2]>> \in stray' \cup wiped'
              \/ SeenMemory'[lastPid][s[2]] = OnByte(c, s)
  PROVE  OffsetsFixed' /\ Placed' /\ Agreed'
<1>1. Ids' = Ids /\ OffsetsFixed'
  BY DEF Ids, OffsetsFixed, FirstOffsets
<1>2. \A p, c : Places(p, c)' = Places(p, c)
  BY DEF Places, AddressOf, OffsetOf
<1>3. Placed'
  BY <1>1, <1>2 DEF Placed
<1>4. \A c : Reach(c)' = Reach(c) /\ Sites(c)' = Sites(c) /\ Newest(c)' = Newest(c)
  BY DEF Reach, Sites, Newest
<1>5. \A c, x : Alone(c, x)' <=> Alone(c, x)
  BY <1>1, <1>2, <1>4 DEF Alone
<1>6. \A c, s : OnByte(c, s)' = OnByte(c, s)
  BY DEF OnByte
<1>7. Agreed'
  BY <1>1, <1>4, <1>5, <1>6 DEF Agreed
<1> QED BY <1>1, <1>3, <1>7

LEMMA InitAgree == Init => AgreeInv
<1> SUFFICES ASSUME Init PROVE AgreeInv
  OBVIOUS
<1>1. OffsetsFixed
  BY DEF Init, OffsetsFixed, NoSites, Ids
<1>2. \A c \in Ids : ~enabled[c]
  BY DEF Init, NoFlags, Ids
<1> QED
  BY <1>1, <1>2
  DEF Init, AgreeInv, Placed, Agreed, Trail, Latest, Patching, CavesAreKnown, FailsOpenly, Busy,
      DisableRestoresOff

LEMMA EnterAgree ==
  ASSUME TypeOK, Free, AgreeInv, NEW id, NEW on \in BOOLEAN, SetEnabled(id, on)
  PROVE  AgreeInv'
<1>1. /\ UNCHANGED <<file, mem, stray, wiped, site, offset>>
      /\ SeenMemory' = SeenMemory /\ Ids' = Ids
  BY EnterKeeps, SeenAtEntry DEF Ids
<1>2. OffsetsFixed' /\ Placed' /\ Agreed'
  <2>1. CASE UNCHANGED <<enabled, lastPid>>
    BY <1>1, <2>1, KeepAgreed DEF AgreeInv
  <2>2. CASE \A c \in Ids : ~enabled'[c]
    BY <1>1, <2>2 DEF AgreeInv, OffsetsFixed, FirstOffsets, Placed, Agreed
  <2> QED BY <2>1, <2>2, EnterKeeps
<1>3. CASE pc' = "done" /\ outcome' # "disabled"
  BY <1>2, <1>3
  DEF AgreeInv, Trail, Latest, Patching, CavesAreKnown, FailsOpenly, Busy, DisableRestoresOff
<1>4. ASSUME NEW p \in Pids, Begin(id, on, p) PROVE AgreeInv'
  <2>1. /\ pc' = "read" /\ next' = 1 /\ snaps' = <<>> /\ caved' = {}
        /\ start' = mem[p] /\ call'.pid = p
    BY <1>4 DEF Begin, Changes, Accepts
  <2>2. Last' = 0 /\ Target' = p
    BY <2>1 DEF Last, Target
  <2>3. Trail' /\ Latest'
    BY <2>1, <2>2 DEF Trail, Latest, LatestUpTo
  <2>4. CavesAreKnown'
    BY <1>1, <2>1, <2>2 DEF CavesAreKnown
  <2> QED BY <1>2, <2>1, <2>3, <2>4 DEF AgreeInv, FailsOpenly, DisableRestoresOff
<1> QED BY <1>3, <1>4, EnterKeeps

\* A step of a call leaves cells that were mapped mapped, and takes only cells for caves that
\* are known as such.
LEMMA StepCaves ==
  ASSUME TypeOK, Busy, CavesAreKnown, Step, Busy'
  PROVE  CavesAreKnown'
<1>1. /\ Target \in Pids /\ call' = call /\ Target' = Target /\ mem \in [Pids -> MemType]
      /\ wiped \subseteq wiped' /\ start' = start
  BY BusyTypes, BusyStable
  DEF TypeOK, Step, InvalidPatch, SaveBytes, MapCodeCave, MapsPages, Save, ReadError,
      ProtectError, WritePatch, Finish, Advance, Reply, Busy, WriteError, Restore, RestoreError,
      RolledBack, history
<1>2. ASSUME NEW a \in Int, NEW s \in Seq(Byte), NEW k \in 0..Len(s),
             mem' = [mem EXCEPT ![Target] = Overlay(@, a, s, k)], caved' = caved
      PROVE  CavesAreKnown'
  <2>1. ASSUME NEW x \in Cells, mem[Target][x] # Unmapped PROVE mem'[Target][x] # Unmapped
    <3>1. CASE x \in Span(a, k)
      <4>1. x - a + 1 \in 1..Len(s)
        BY <3>1, AddrAssumption DEF Span, Cells
      <4>2. s[x - a + 1] \in Byte
        BY <4>1
      <4> QED BY <1>1, <1>2, <3>1, <4>2, OverlayInside, ByteAssumption
    <3>2. CASE x \notin Span(a, k)
      BY <1>1, <1>2, <2>1, <3>2, OverlayOutside
    <3> QED BY <3>1, <3>2
  <2> QED BY <1>1, <1>2, <2>1 DEF CavesAreKnown
<1>3. CASE MapsPages
  <2>1. \A x \in Cells : mem'[Target][x] = IF x \in PageRange(Address, Size) THEN 0
                                           ELSE mem[Target][x]
    BY <1>1, <1>3 DEF MapsPages, MapPages
  <2>2. \A x \in Cells : mem[Target][x] # Unmapped => mem'[Target][x] # Unmapped
    BY <2>1, ByteAssumption
  <2>3. \A x \in PageRange(Address, Size) :
          mem[Target][x] # Unmapped => <<Target, x>> \in wiped'
    BY <1>3 DEF MapsPages
  <2> QED BY <1>1, <1>3, <2>2, <2>3 DEF CavesAreKnown, MapsPages
<1>4. CASE UNCHANGED <<mem, caved>>
  BY <1>1, <1>4 DEF CavesAreKnown
<1>5. CASE WritePatch \/ WriteError
  <2>1. PICK k \in 0..Size : mem' = [mem EXCEPT ![Target] = Overlay(@, Address, Wanted, k)]
    <3>1. Size \in 0..Size
      BY BusyTypes
    <3> QED BY <1>5, <3>1, BusyTypes, PartialType DEF WritePatch, WriteError
  <2>2. caved' = caved
    BY <1>5 DEF WritePatch, WriteError, history
  <2>3. Address \in Int /\ Wanted \in Seq(Byte) /\ Size = Len(Wanted)
    BY BusyTypes, AddrAssumption DEF Cells
  <2> QED BY <1>2, <2>1, <2>2, <2>3
<1>6. CASE Restore \/ RestoreError
  <2>1. Last > 0
    BY <1>6 DEF Restore, RestoreError
  <2>2. PICK k \in 0..Len(Undo.bytes) :
          mem' = [mem EXCEPT ![Target] = Overlay(@, Undo.address, Undo.bytes, k)]
    <3>1. Len(Undo.bytes) \in 0..Len(Undo.bytes)
      BY <2>1, UndoType
    <3> QED BY <1>6, <2>1, <3>1, UndoType, PartialType DEF Restore, RestoreError
  <2> QED BY <1>2, <1>6, <2>1, <2>2, UndoType DEF Restore, RestoreError, history
<1> QED
  BY <1>3, <1>4, <1>5, <1>6
  DEF Step, InvalidPatch, SaveBytes, MapCodeCave, ReadError, ProtectError, RolledBack, history

\* Saving what a patch covers.
LEMMA SaveAgree ==
  ASSUME TypeOK, pc = "read", Trail, Latest, NEW bytes \in Seq(Byte), Len(bytes) = Size,
         Save(bytes), caved \subseteq caved', wiped \subseteq wiped',
         \A x \in Cells : \/ mem'[Target][x] = mem[Target][x]
                          \/ x \in caved' /\ (mem[Target][x] # Unmapped => <<Target, x>> \in wiped')
  PROVE  Trail' /\ Latest'
<1>1. /\ Busy /\ Patching /\ next \in 1..Len(file[call.id].patches) /\ Last \in Nat /\ next \in Int
      /\ call.id \in Ids /\ Target \in Pids /\ snaps \in Seq(SnapType) /\ call.on \in BOOLEAN
      /\ Address \in Cells /\ Wanted = BytesOf(call.id, next, call.on)
      /\ Len(file[call.id].patches) \in Nat
  BY BusyTypes, FileTypes DEF Busy, Patching, TypeOK, Wanted, Patch, BytesOf
<1>2. Last = next - 1
  BY <1>1 DEF Trail
<1>3. /\ pc' = "write" /\ UNCHANGED <<call, file, offset, next>> /\ Target' = Target
      /\ snaps' = Append(snaps, [address |-> Address, bytes |-> bytes])
  BY DEF Save, cheats, flags, Target
<1>4. /\ Last' = Last + 1 /\ snaps'[Last + 1] = [address |-> Address, bytes |-> bytes]
      /\ \A k \in 1..Last : snaps'[k] = snaps[k]
  BY <1>1, <1>3, BusyTypes DEF Last, SnapType
<1>5. \A k : AddressOf(Target, call.id, k)' = AddressOf(Target, call.id, k)
             /\ BytesOf(call.id, k, call.on)' = BytesOf(call.id, k, call.on)
  BY <1>3 DEF AddressOf, OffsetOf, BytesOf
<1>6. Trail'
  <2>1. ASSUME NEW k \in 1..(Last + 1)
        PROVE  /\ snaps'[k].address = AddressOf(Target, call.id, k)
               /\ Len(snaps'[k].bytes) = Len(BytesOf(call.id, k, call.on))
    <3>1. CASE k \in 1..Last
      BY <1>1, <1>4, <3>1 DEF Trail
    <3>2. CASE k = Last + 1
      BY <1>1, <1>2, <1>4, <3>2 DEF Address, Size
    <3> QED BY <3>1, <3>2, <1>1
  <2>2. Last' = next' /\ pc' # "read"
    BY <1>1, <1>2, <1>3, <1>4
  <2> QED BY <1>4, <1>5, <2>1, <2>2 DEF Trail
<1>7. Latest'
  <2>1. \A k \in 1..Last, x \in Cells : Covered(k, x)' <=> Covered(k, x)
    BY <1>4 DEF Covered
  <2> SUFFICES ASSUME NEW k \in (1..(next - 1))', NEW x \in Cells, Covered(k, x)',
                      \A j \in (k + 1)..(next' - 1) : ~Covered(j, x)'
               PROVE  \/ mem'[Target'][x] =
                           BytesOf(call.id, k, call.on)'[x - snaps'[k].address + 1]
                      \/ x \in caved' /\ <<Target', x>> \in wiped'
    BY DEF Latest, LatestUpTo
  <2>4. k \in 1..Last /\ next' - 1 = Last /\ \A j \in (k + 1)..Last : j \in 1..Last
    BY <1>1, <1>2, <1>3
  <2>5. Covered(k, x) /\ \A j \in (k + 1)..Last : ~Covered(j, x)
    BY <2>1, <2>4
  <2>2. \/ mem[Target][x] = BytesOf(call.id, k, call.on)[x - snaps[k].address + 1]
        \/ x \in caved /\ <<Target, x>> \in wiped
    BY <1>1, <1>2, <2>4, <2>5 DEF Latest, LatestUpTo
  <2>3. BytesOf(call.id, k, call.on)[x - snaps[k].address + 1] \in Byte
    <3>1. k \in 1..Len(file[call.id].patches)
          /\ x \in Span(AddressOf(Target, call.id, k), Len(BytesOf(call.id, k, call.on)))
      BY <1>1, <2>4, <2>5, CoveredIsPatch
    <3>2. x - AddressOf(Target, call.id, k) + 1 \in 1..Len(BytesOf(call.id, k, call.on))
      BY <1>1, <3>1, BytesOfType, SpanIndex
    <3>3. snaps[k].address = AddressOf(Target, call.id, k)
      BY <1>1, <2>4 DEF Trail
    <3>4. BytesOf(call.id, k, call.on) \in Seq(Byte)
      BY <1>1, <3>1, BytesOfType
    <3> QED BY <3>2, <3>3, <3>4
  <2>6. snaps'[k].address = snaps[k].address
    BY <1>4, <2>4
  <2> QED BY <1>3, <1>5, <2>2, <2>3, <2>6, ByteAssumption
<1> QED BY <1>6, <1>7

\* Writing a patch: it is then the newest over its cells.
LEMMA WriteLatest ==
  ASSUME TypeOK, Trail, Latest, WritePatch
  PROVE  LatestUpTo(next, mem'[Target])
<1>1. /\ Busy /\ Patching /\ pc = "write" /\ next \in 1..Len(file[call.id].patches)
      /\ call.id \in Ids /\ Target \in Pids /\ mem \in [Pids -> MemType]
      /\ Address \in Cells /\ Wanted = BytesOf(call.id, next, call.on)
      /\ Len(file[call.id].patches) \in Nat /\ Size = Len(Wanted) /\ Last = next
  BY BusyTypes, FileTypes DEF WritePatch, Busy, Patching, TypeOK, Wanted, Patch, BytesOf, Trail
<1>2. mem' = [mem EXCEPT ![Target] = Overlay(@, Address, Wanted, Size)]
  BY DEF WritePatch
<1>3. \A x \in Cells : Covered(next, x) <=> x \in Span(Address, Size)
  BY <1>1, CoveredIsPatch DEF Address
<1>4. snaps[next].address = Address
  BY <1>1 DEF Trail, Address
<1> SUFFICES ASSUME NEW k \in 1..next, NEW x \in Cells, Covered(k, x),
                    \A j \in (k + 1)..next : ~Covered(j, x)
             PROVE  \/ mem'[Target][x] = BytesOf(call.id, k, call.on)[x - snaps[k].address + 1]
                    \/ x \in caved /\ <<Target, x>> \in wiped
  BY DEF LatestUpTo
<1>5. CASE k = next
  BY <1>1, <1>2, <1>3, <1>4, <1>5, OverlayInside
<1>6. CASE k # next
  <2>1. k \in 1..(next - 1) /\ next \in (k + 1)..next
        /\ \A j \in (k + 1)..(next - 1) : j \in (k + 1)..next
    BY <1>1, <1>6
  <2>2. mem'[Target][x] = mem[Target][x]
    BY <1>1, <1>2, <1>3, <2>1, OverlayOutside
  <2> QED BY <1>1, <2>1, <2>2 DEF Latest, LatestUpTo
<1> QED BY <1>5, <1>6

\* A step that does not end the call.
LEMMA BusyAgree ==
  ASSUME TypeOK, AgreeInv, SwitchPending, Step, Busy'
  PROVE  AgreeInv'
<1>1. /\ Busy /\ call' = call /\ Target' = Target /\ file' = file /\ Target \in Pids
      /\ UNCHANGED <<offset, site, enabled, lastPid, start>> /\ stray \subseteq stray'
      /\ wiped \subseteq wiped' /\ pc \in {"read", "write", "rollback"} /\ mem \in [Pids -> MemType]
  <2>1. Busy
    BY DEF Step, Busy, InvalidPatch, SaveBytes, MapCodeCave, ReadError, ProtectError, WritePatch,
           WriteError, Restore, RestoreError, RolledBack
  <2>2. /\ UNCHANGED <<offset, site, enabled, lastPid, start>>
        /\ stray \subseteq stray' /\ wiped \subseteq wiped'
    BY DEF Step, Busy, InvalidPatch, SaveBytes, MapCodeCave, MapsPages, Save, ReadError,
           ProtectError, WritePatch, Finish, Advance, Reply, WriteError, Restore, RestoreError,
           RolledBack, flags, history
  <2> QED BY <2>1, <2>2, BusyTypes, BusyStable DEF Busy, TypeOK
<1>2. \A p \in Pids \ {Target} : mem'[p] = mem[p]
  BY <1>1
  DEF Step, InvalidPatch, SaveBytes, MapCodeCave, MapsPages, ReadError, ProtectError, WritePatch,
      WriteError, Restore, RestoreError, RolledBack
<1>3. OffsetsFixed' /\ Placed' /\ Agreed'
  <2>1. SeenMemory' = SeenMemory
    BY <1>1, <1>2, HiddenWhileBusy
  <2>2. OffsetsFixed /\ Placed /\ Agreed
    BY DEF AgreeInv
  <2>3. stray \cup wiped \subseteq stray' \cup wiped'
    BY <1>1
  <2> QED BY <1>1, <2>1, <2>2, <2>3, KeepAgreed
<1>4. CavesAreKnown'
  BY <1>1, StepCaves DEF AgreeInv
<1>5. Trail' /\ Latest'
  <2>1. CASE SaveBytes \/ MapCodeCave
    <3>1. /\ pc = "read" /\ Trail /\ Latest /\ caved \subseteq caved'
          /\ \E bytes \in Seq(Byte) : Len(bytes) = Size /\ Save(bytes)
      <4>1. CASE SaveBytes
        <5>1. /\ BytesAt(mem[Target], Address, Size) \in Seq(Byte)
              /\ Len(BytesAt(mem[Target], Address, Size)) = Size
          BY <1>1, <4>1, BusyTypes, BytesType DEF SaveBytes, Readable
        <5> QED BY <4>1, <5>1 DEF SaveBytes, AgreeInv
      <4>2. CASE MapCodeCave
        BY <1>1, <4>2, BusyTypes DEF MapCodeCave, MapsPages, MayMap, AgreeInv
      <4> QED BY <2>1, <4>1, <4>2
    <3>2. \A x \in Cells : \/ mem'[Target][x] = mem[Target][x]
                           \/ x \in caved' /\ (mem[Target][x] # Unmapped => <<Target, x>> \in wiped')
      BY <1>1, <2>1 DEF SaveBytes, MapCodeCave, MapsPages, MapPages
    <3> QED BY <1>1, <3>1, <3>2, SaveAgree
  <2>2. CASE WritePatch
    <3>1. Advance /\ pc = "write" /\ UNCHANGED <<snaps, caved>>
      BY <2>2 DEF WritePatch, Finish, Reply, Busy
    <3>2. next' = next + 1 /\ pc' = "read" /\ wiped' = wiped /\ Last' = Last
      BY <3>1 DEF Advance, Last
    <3>3. \A k : AddressOf(Target, call.id, k)' = AddressOf(Target, call.id, k)
                 /\ BytesOf(call.id, k, call.on)' = BytesOf(call.id, k, call.on)
      BY <1>1 DEF AddressOf, OffsetOf, BytesOf
    <3>4. next \in Int /\ next' - 1 = next
      BY <1>1, <3>2, BusyTypes
    <3>5. Trail'
      BY <1>1, <3>1, <3>2, <3>3, <3>4 DEF AgreeInv, Trail, Patching
    <3>6. LatestUpTo(next, mem'[Target])
      BY <2>2, WriteLatest DEF AgreeInv
    <3>7. \A k, x : Covered(k, x)' <=> Covered(k, x)
      BY <3>1 DEF Covered
    <3>8. Latest'
      BY <1>1, <3>1, <3>2, <3>3, <3>4, <3>6, <3>7 DEF Latest, LatestUpTo
    <3> QED BY <3>5, <3>8
  <2>3. CASE pc' = "rollback"
    BY <2>3 DEF Trail, Latest, Patching
  <2> QED
    BY <2>1, <2>2, <2>3
    DEF Step, Busy, InvalidPatch, ReadError, ProtectError, Fail, WriteError, Restore, RestoreError,
        RolledBack, Reply
<1>6. FailsOpenly'
  BY <1>1
  DEF Step, InvalidPatch, SaveBytes, MapCodeCave, Save, ReadError, ProtectError, Fail, WritePatch,
      Finish, Advance, Reply, WriteError, Restore, RestoreError, RolledBack, AgreeInv, FailsOpenly
<1> QED BY <1>3, <1>4, <1>5, <1>6 DEF AgreeInv, Busy, DisableRestoresOff

\* The patch that wrote a cell of an enabled cheat, and the byte it wrote.
LEMMA OnByteType ==
  ASSUME TypeOK, Placed, NEW c \in Ids, enabled[c], NEW s \in Newest(c)
  PROVE  /\ lastPid \in Pids /\ s[1] \in 1..Len(file[c].patches) /\ s[2] \in Cells
         /\ s[2] \in Span(site[c][s[1]], Len(file[c].patches[s[1]].on))
         /\ OnByte(c, s) \in Byte
<1>1. lastPid \in Pids /\ site[c] = Places(lastPid, c)
  BY DEF Placed, TypeOK
<1>2. s[1] \in 1..Len(file[c].patches) /\ s[2] \in Cells
      /\ s[2] \in Span(site[c][s[1]], Len(file[c].patches[s[1]].on))
  BY <1>1 DEF Newest, Sites, Places
<1>3. site[c][s[1]] = AddressOf(lastPid, c, s[1])
  BY <1>1, <1>2 DEF Places
<1>4. file[c].patches[s[1]].on \in Seq(Byte)
  BY <1>2, FileTypes DEF TypeOK
<1>5. Len(file[c].patches[s[1]].on) \in Nat /\ site[c][s[1]] \in Cells
  <2>1. Len(file[c].patches[s[1]].on) \in Nat
    BY <1>4, LenType
  <2>2. AddressOf(lastPid, c, s[1]) \in Cells
    BY <1>1, <1>2, AddressType
  <2> QED BY <1>3, <2>1, <2>2
<1>6. s[2] - site[c][s[1]] + 1 \in 1..Len(file[c].patches[s[1]].on)
  BY <1>2, <1>5, SpanIndex
<1> QED BY <1>1, <1>2, <1>4, <1>6 DEF OnByte

\* The end of a rollback: what was seen before is there, or known to be lost.
LEMMA FailAgree ==
  ASSUME TypeOK, RollbackInv, AgreeInv, SwitchPending, RolledBack
  PROVE  AgreeInv'
<1>1. /\ Busy /\ Target \in Pids /\ mem \in [Pids -> MemType] /\ Last = 0
      /\ pc = "rollback" /\ pc' = "done"
      /\ UNCHANGED <<file, offset, site, enabled, lastPid, mem, call, stray, wiped, start, caved>>
  BY BusyTypes DEF Busy, RolledBack, Reply, cheats, flags, frame, history, TypeOK
<1>2. outcome' # "disabled"
  BY <1>1 DEF RolledBack, Reply, AgreeInv, FailsOpenly
<1>3. SeenMemory[Target] = start /\ SeenMemory'[Target] = mem[Target]
  BY <1>1 DEF SeenMemory, Busy, Target
<1>4. \A x \in Cells \ caved : Untouched(x)
  BY <1>1 DEF RollbackInv, UncoveredIsUntouched
<1>5. OffsetsFixed' /\ Placed' /\ Agreed'
  <2>1. ASSUME NEW c \in Ids, NEW s \in Newest(c), enabled[c],
               SeenMemory[lastPid][s[2]] = OnByte(c, s)
        PROVE  \/ <<lastPid, s[2]>> \in stray' \cup wiped'
               \/ SeenMemory'[lastPid][s[2]] = OnByte(c, s)
    <3>1. /\ lastPid = Target /\ s[2] \in Cells /\ OnByte(c, s) \in Byte
      BY <1>1, <2>1, OnByteType DEF AgreeInv, SwitchPending, Placed
    <3>2. start[s[2]] = OnByte(c, s) /\ start[s[2]] # Unmapped
      BY <1>3, <2>1, <3>1, ByteAssumption
    <3>3. CASE s[2] \in caved
      BY <1>1, <3>1, <3>2, <3>3 DEF AgreeInv, CavesAreKnown
    <3>4. CASE s[2] \notin caved
      BY <1>1, <1>3, <1>4, <3>1, <3>2, <3>4 DEF Untouched
    <3> QED BY <3>3, <3>4
  <2>2. OffsetsFixed /\ Placed /\ Agreed
    BY DEF AgreeInv
  <2> QED BY <1>1, <2>1, <2>2, KeepAgreed
<1> QED
  BY <1>1, <1>2, <1>5
  DEF AgreeInv, Trail, Latest, Patching, CavesAreKnown, FailsOpenly, Busy, DisableRestoresOff

\* The write of the last patch.
LEMMA FinishAgree ==
  ASSUME TypeOK, RollbackInv, AgreeInv, SwitchPending, WritePatch, LastPatch
  PROVE  AgreeInv'
<1> DEFINE id == call.id
<1>1. /\ Busy /\ Patching /\ pc = "write" /\ pc' = "done" /\ id \in Ids /\ Target \in Pids
      /\ mem \in [Pids -> MemType] /\ Address \in Cells /\ call.on \in BOOLEAN
      /\ UNCHANGED <<file, offset, call, snaps, start, caved>> /\ Finish
  BY BusyTypes
  DEF WritePatch, Finish, Reply, LastPatch, Busy, Patching, TypeOK, cheats
<1>2. /\ lastPid' = Target /\ enabled' = [enabled EXCEPT ![id] = call.on]
      /\ stray' = stray \ Written(Target)
      /\ wiped' = wiped \ {s \in Written(Target) : s[2] \notin caved}
      /\ site' = IF call.on
                 THEN [site EXCEPT ![id] = [k \in 1..Last |-> snaps[k].address]] ELSE site
      /\ outcome' = IF call.on THEN "enabled" ELSE "disabled"
  BY <1>1 DEF Finish, Reply
<1>3. OffsetsFixed /\ Placed /\ Agreed /\ Trail /\ Latest /\ CavesAreKnown /\ Ids' = Ids
      /\ DOMAIN site = Ids /\ DOMAIN enabled = Ids /\ enabled[id] # call.on
      /\ lastPid \in {Target, NoPid}
  BY <1>1 DEF AgreeInv, OffsetsFixed, TypeOK, Ids, SwitchPending
<1>4. Last = Len(file[id].patches) /\ Last = next /\ Last \in Nat /\ Last > 0
  BY <1>1, <1>3, BusyTypes DEF Trail, LastPatch
<1>5. /\ \A p, c : Places(p, c)' = Places(p, c)
      /\ \A c, k, on : BytesOf(c, k, on)' = BytesOf(c, k, on)
  BY <1>1 DEF Places, AddressOf, OffsetOf, BytesOf
<1>6. \A k \in 1..Last : \A x : Covered(k, x) <=> x \in Span(Places(Target, id)[k],
                                                    Len(BytesOf(id, k, call.on)))
  BY <1>1, <1>3, <1>4, CoveredIsPatch DEF Places
<1>7. \A k \in 1..Last : snaps[k].address = Places(Target, id)[k]
  BY <1>1, <1>3, <1>4 DEF Trail, Places
<1>8. site'[id] = Places(Target, id)
  <2>1. CASE call.on
    <3>1. site'[id] = [k \in 1..Last |-> snaps[k].address]
      BY <1>1, <1>2, <1>3, <2>1
    <3>2. [k \in 1..Last |-> snaps[k].address] = [k \in 1..Last |-> AddressOf(Target, id, k)]
      BY <1>4, <1>7 DEF Places
    <3> QED BY <1>4, <3>1, <3>2 DEF Places
  <2>2. CASE ~call.on
    BY <1>1, <1>2, <1>3, <2>2 DEF Placed, TypeOK
  <2> QED BY <2>1, <2>2
<1>9. \A d \in Ids \ {id} : site'[d] = site[d] /\ enabled'[d] = enabled[d]
  BY <1>1, <1>2, <1>3
<1>10. DOMAIN site' = Ids
  BY <1>1, <1>2, <1>3
<1>11. ASSUME NEW d \in Ids, enabled[d] PROVE lastPid = Target /\ site[d] = Places(Target, d)
  BY <1>3, <1>11 DEF Placed
<1>12. OffsetsFixed'
  BY <1>1, <1>3, <1>10 DEF OffsetsFixed, FirstOffsets
<1>13. Placed'
  <2>1. Target # NoPid
    BY <1>1, PidAssumption DEF NoPid
  <2>2. ASSUME NEW c \in Ids, enabled'[c] PROVE Len(file[c].patches) > 0 /\ site'[c] = Places(Target, c)
    <3>1. CASE c = id
      BY <1>4, <1>8, <3>1
    <3>2. CASE c # id
      BY <1>3, <1>9, <1>11, <2>2, <3>2 DEF Placed
    <3> QED BY <3>1, <3>2
  <2> QED BY <1>1, <1>2, <1>3, <1>5, <2>1, <2>2 DEF Placed
<1>14. LatestUpTo(Last, mem'[Target]) /\ SeenMemory'[Target] = mem'[Target]
  BY <1>1, <1>3, <1>4, WriteLatest DEF SeenMemory, Busy
\* a cell that the call did not write keeps what is known of it, and its content
<1>15. ASSUME NEW x \in Cells, \A k \in 1..Last : ~Covered(k, x)
       PROVE  /\ <<Target, x>> \in stray \cup wiped => <<Target, x>> \in stray' \cup wiped'
              /\ start[x] # Unmapped =>
                   <<Target, x>> \in stray' \cup wiped' \/ mem'[Target][x] = start[x]
  <2>1. <<Target, x>> \notin Written(Target)
    BY <1>15 DEF Written, Covered
  <2>2. <<Target, x>> \in stray \cup wiped => <<Target, x>> \in stray' \cup wiped'
    BY <1>2, <2>1
  <2>3. mem'[Target][x] = mem[Target][x]
    <3>1. x \notin Span(Address, Size)
      BY <1>1, <1>4, <1>6, <1>15 DEF Places, Address, Size, Wanted, Patch, BytesOf
    <3> QED BY <1>1, <3>1, OverlayOutside DEF WritePatch
  <2>4. ASSUME start[x] # Unmapped, x \in caved PROVE <<Target, x>> \in stray' \cup wiped'
    BY <1>1, <1>3, <2>2, <2>4 DEF CavesAreKnown
  <2>5. ASSUME x \notin caved PROVE mem'[Target][x] = start[x]
    BY <1>1, <1>15, <2>3, <2>5 DEF RollbackInv, UncoveredIsUntouched, Untouched
  <2> QED BY <2>2, <2>4, <2>5
\* a cell that it wrote, where no later patch did, has its byte or belongs to a cave
<1>16. ASSUME NEW k \in 1..Last, NEW x \in Cells, Covered(k, x),
              \A j \in (k + 1)..Last : ~Covered(j, x)
       PROVE  \/ mem'[Target][x] = BytesOf(id, k, call.on)[x - Places(Target, id)[k] + 1]
              \/ <<Target, x>> \in wiped'
  BY <1>2, <1>7, <1>14, <1>16 DEF LatestUpTo
<1>17. ASSUME NEW s \in Newest(id)',
              Len(BytesOf(id, s[1], call.on)) = Len(file[id].patches[s[1]].on)
       PROVE  /\ s[1] \in 1..Last /\ s[2] \in Cells /\ Covered(s[1], s[2])
              /\ \A j \in (s[1] + 1)..Last :
                   Len(BytesOf(id, j, call.on)) = Len(file[id].patches[j].on)
                     => ~Covered(j, s[2])
  <2>1. /\ DOMAIN site'[id] = 1..Last /\ s[1] \in 1..Last /\ s[2] \in Cells
        /\ s[2] \in Span(site'[id][s[1]], Len(file[id].patches[s[1]].on))
    BY <1>1, <1>4, <1>8 DEF Newest, Sites, Places
  <2>2. Covered(s[1], s[2])
    BY <1>6, <1>8, <1>17, <2>1
  <2>3. ASSUME NEW j \in (s[1] + 1)..Last,
               Len(BytesOf(id, j, call.on)) = Len(file[id].patches[j].on)
        PROVE  ~Covered(j, s[2])
    <3>1. j \in 1..Last /\ j > s[1]
      BY <1>4, <2>1
    <3>2. <<j, s[2]>> \notin Sites(id)'
      BY <1>1, <2>1, <3>1 DEF Newest
    <3> QED BY <1>1, <1>6, <1>8, <2>1, <2>3, <3>1, <3>2 DEF Sites
  <2> QED BY <2>1, <2>2, <2>3
<1>18. Agreed'
  <2> SUFFICES ASSUME NEW c \in Ids, enabled'[c], NEW s \in Newest(c)', Alone(c, s[2])'
               PROVE  \/ <<Target, s[2]>> \in stray' \cup wiped'
                      \/ mem'[Target][s[2]] = OnByte(c, s)'
    BY <1>2, <1>3, <1>14 DEF Agreed
  <2>1. CASE c = id
    <3>1. call.on /\ \A k : BytesOf(id, k, call.on) = file[id].patches[k].on
      BY <1>1, <1>2, <1>3, <2>1 DEF BytesOf
    <3>2. /\ s[1] \in 1..Last /\ s[2] \in Cells /\ Covered(s[1], s[2])
          /\ \A j \in (s[1] + 1)..Last : ~Covered(j, s[2])
      <4>1. s \in Newest(id)'
        BY <1>1, <2>1
      <4>2. s[1] \in 1..Last /\ s[2] \in Cells /\ Covered(s[1], s[2])
        BY <1>17, <3>1, <4>1
      <4> QED BY <1>17, <3>1, <4>1, <4>2
    <3> QED BY <1>1, <1>8, <1>16, <2>1, <3>1, <3>2 DEF OnByte
  <2>2. CASE c # id
    <3>1. enabled[c] /\ site'[c] = site[c] /\ lastPid = Target
      BY <1>9, <1>11, <2>2
    <3>2. Newest(c)' = Newest(c) /\ OnByte(c, s)' = OnByte(c, s)
      BY <1>1, <3>1 DEF Newest, Sites, OnByte
    <3>3. ASSUME NEW d \in Ids \ {c}, site[d] = Places(Target, d)
          PROVE  s[2] \notin Reach(d)
      <4>1. site'[d] = site[d]
        BY <1>8, <1>9, <3>3
      <4> QED BY <1>1, <1>2, <1>3, <1>5, <3>3, <4>1 DEF Alone, Reach
    <3>4. Alone(c, s[2])
      BY <3>1, <3>3 DEF Alone
    <3>5. s[2] \notin Reach(id)'
      BY <1>1, <1>2, <1>3, <1>5, <1>8, <2>2 DEF Alone
    <3>6. \A k \in 1..Last : ~Covered(k, s[2])
      BY <1>1, <1>4, <1>6, <1>8, <3>5 DEF Reach, Places, BytesOf, Span
    <3>7. s[2] \in Cells /\ OnByte(c, s) \in Byte
      BY <1>3, <3>1, <3>2, OnByteType
    <3>8. \/ <<Target, s[2]>> \in stray \cup wiped
          \/ start[s[2]] = OnByte(c, s)
      BY <1>1, <1>3, <3>1, <3>2, <3>4 DEF Agreed, SeenMemory, Target
    <3> QED BY <1>15, <3>2, <3>6, <3>7, <3>8, ByteAssumption
  <2> QED BY <2>1, <2>2
<1>19. ASSUME SameSizes(id) PROVE DisableRestoresOff'
  <2> SUFFICES ASSUME ~call.on, NEW s \in Newest(id)'
               PROVE  Shows(Target, id, s, file[id].patches[s[1]].off)'
    BY <1>1, <1>2 DEF DisableRestoresOff, Target
  <2>1. \A k \in 1..Last : Len(BytesOf(id, k, call.on)) = Len(file[id].patches[k].on)
    <3>1. DOMAIN file[id].patches = 1..Last
      <4>1. file[id].patches \in Seq(PatchType)
        BY <1>1, FileTypes DEF TypeOK
      <4> QED BY <1>4, <4>1, LenType
    <3> QED BY <1>19, <3>1 DEF SameSizes, BytesOf
  <2>2. s[1] \in 1..Last
    BY <1>1, <1>4, <1>8 DEF Newest, Sites, Places
  <2>3. /\ s[2] \in Cells /\ Covered(s[1], s[2])
        /\ \A j \in (s[1] + 1)..Last : ~Covered(j, s[2])
    <3>1. \A j \in (s[1] + 1)..Last : j \in 1..Last
      BY <1>4, <2>2
    <3> QED BY <1>17, <2>1, <2>2, <3>1
  <2>4. \/ mem'[Target][s[2]] = BytesOf(id, s[1], call.on)[s[2] - Places(Target, id)[s[1]] + 1]
        \/ <<Target, s[2]>> \in wiped'
    BY <1>16, <2>2, <2>3
  <2>5. s[2] - Places(Target, id)[s[1]] + 1 \in DOMAIN file[id].patches[s[1]].off
    <3>1. /\ BytesOf(id, s[1], call.on) = file[id].patches[s[1]].off
          /\ BytesOf(id, s[1], call.on) \in Seq(Byte) /\ Len(BytesOf(id, s[1], call.on)) \in Nat
          /\ Places(Target, id)[s[1]] \in Cells
      BY <1>1, <1>4, <2>2, BytesOfType DEF BytesOf, Places
    <3>2. s[2] - Places(Target, id)[s[1]] + 1 \in 1..Len(BytesOf(id, s[1], call.on))
      BY <1>6, <2>2, <2>3, <3>1, SpanIndex
    <3> QED BY <3>1, <3>2
  <2>6. mem'[Target][s[2]] = file[id].patches[s[1]].off[s[2] - site'[id][s[1]] + 1]
        \/ <<Target, s[2]>> \in wiped'
    BY <1>8, <2>4 DEF BytesOf
  <2>7. Target' = Target /\ file' = file /\ id' = id
    BY <1>1 DEF Target
  <2> QED BY <1>8, <2>5, <2>6, <2>7 DEF Shows
<1>20. SameSizes(call.id)' <=> SameSizes(id)
  BY <1>1 DEF SameSizes
<1> QED
  BY <1>1, <1>3, <1>12, <1>13, <1>18, <1>19, <1>20
  DEF AgreeInv, Trail, Latest, Patching, CavesAreKnown, FailsOpenly, Busy

LEMMA OtherAgree ==
  ASSUME TypeOK, AgreeInv,
         Return \/ (\E p \in Pids : Exit(p) \/ LoadModule(p)) \/ UNCHANGED vars
  PROVE  AgreeInv'
<1>1. UNCHANGED <<file, offset, site, enabled, lastPid, mem, stray, wiped>> /\ Busy' = Busy
  BY DEF Return, Exit, LoadModule, vars, cheats, flags, history, Busy
<1>2. CASE UNCHANGED <<pc, frame, outcome, history>>
  <2>1. SeenMemory' = SeenMemory
    BY <1>1, <1>2 DEF SeenMemory, frame, history
  <2>2. OffsetsFixed' /\ Placed' /\ Agreed'
    BY <1>1, <2>1, KeepAgreed DEF AgreeInv
  <2>3. UNCHANGED <<pc, call, next, snaps, start, caved, outcome>>
    BY <1>2 DEF frame, history
  <2>4. Trail' /\ CavesAreKnown' /\ FailsOpenly'
    BY <1>1, <2>3
    DEF AgreeInv, Trail, CavesAreKnown, FailsOpenly, Patching, Busy, BytesOf, AddressOf, OffsetOf,
        Last, Target
  <2>5. Latest'
    BY <1>1, <2>3
    DEF AgreeInv, Latest, LatestUpTo, Patching, Covered, BytesOf, Target
  <2>6. \A c : Newest(c)' = Newest(c)
    BY <1>1 DEF Newest, Sites
  <2>7. DisableRestoresOff' <=> DisableRestoresOff
    BY <1>1, <2>3, <2>6 DEF DisableRestoresOff, Shows
  <2>8. (call.id \in Ids => SameSizes(call.id))' <=> (call.id \in Ids => SameSizes(call.id))
    BY <1>1, <2>3 DEF SameSizes, Ids
  <2> QED BY <2>2, <2>4, <2>5, <2>7, <2>8 DEF AgreeInv
<1>3. CASE Return
  <2>1. pc = "done" /\ pc' = "idle" /\ SeenMemory' = SeenMemory
    BY <1>1, <1>3 DEF Return, SeenMemory, Busy
  <2>2. OffsetsFixed' /\ Placed' /\ Agreed'
    BY <1>1, <2>1, KeepAgreed DEF AgreeInv
  <2> QED
    BY <2>1, <2>2
    DEF AgreeInv, Trail, Latest, Patching, CavesAreKnown, FailsOpenly, Busy, DisableRestoresOff
<1> QED BY <1>2, <1>3 DEF Exit, LoadModule, vars

LEMMA NextAgree ==
  TypeOK /\ RollbackInv /\ SwitchPending /\ (Free => AgreeInv) /\ [Next]_vars
    => (Free => AgreeInv)'
<1> SUFFICES ASSUME TypeOK, RollbackInv, SwitchPending, Free => AgreeInv, [Next]_vars, Free'
             PROVE  AgreeInv'
  OBVIOUS
<1>1. ASSUME NEW id, NEW on, SetEnabled(id, on) PROVE file' = file
  BY <1>1
  DEF SetEnabled, UnknownCheat, EmptyCheat, NoModule, Refuse, AlreadySet, Begin, NoBuffer,
      Changes, cheats
<1>2. file' = file
  BY <1>1
  DEF Next, Step, InvalidPatch, SaveBytes, MapCodeCave, Save, ReadError, ProtectError, WritePatch,
      WriteError, Restore, RestoreError, RolledBack, Return, Exit, LoadModule, vars, cheats
<1>3. Free /\ AgreeInv
  BY <1>2 DEF Free, Ids
<1>4. CASE Step
  <2>1. CASE Busy'
    BY <1>3, <1>4, <2>1, BusyAgree
  <2>2. CASE ~Busy'
    <3>1. RolledBack \/ WritePatch
      BY <1>4, <2>2
      DEF Step, Busy, InvalidPatch, SaveBytes, MapCodeCave, Save, ReadError, ProtectError, Fail,
          WriteError, Restore, RestoreError
    <3>2. WritePatch => LastPatch
      BY <2>2 DEF WritePatch, Advance, Busy
    <3> QED BY <1>3, <3>1, <3>2, FailAgree, FinishAgree
  <2> QED BY <2>1, <2>2
<1> QED BY <1>3, <1>4, EnterAgree, OtherAgree DEF Next

LEMMA AgreeAlways == Spec => [](TypeOK /\ (Free => AgreeInv))
BY InitType, InitRollback, InitPending, InitAgree, NextType, NextRollback, NextPending, NextAgree,
   PTL DEF Spec

LEMMA AgreedIsPatched ==
  ASSUME TypeOK, AgreeInv
  PROVE  EnabledIsPatched
<1> SUFFICES ASSUME pc = "idle", NEW c \in Ids, enabled[c]
             PROVE  /\ lastPid # NoPid /\ site[c] # <<>>
                    /\ \A s \in Own(c) : Shows(lastPid, c, s, file[c].patches[s[1]].on)
  BY DEF EnabledIsPatched
<1>1. lastPid \in Pids /\ lastPid # NoPid /\ site[c] = Places(lastPid, c)
      /\ Len(file[c].patches) > 0
  BY DEF AgreeInv, Placed, TypeOK
<1>2. Len(file[c].patches) \in Nat /\ DOMAIN site[c] = 1..Len(file[c].patches)
  BY <1>1, FileTypes DEF TypeOK, Places
<1>3. site[c] # <<>>
  BY <1>1, <1>2
<1>4. ASSUME NEW s \in Own(c) PROVE Shows(lastPid, c, s, file[c].patches[s[1]].on)
  <2>1. s \in Newest(c) /\ Alone(c, s[2])
    BY DEF Own, Alone
  <2>2. /\ s[1] \in 1..Len(file[c].patches)
        /\ s[2] \in Span(site[c][s[1]], Len(file[c].patches[s[1]].on))
    BY <2>1, OnByteType DEF AgreeInv
  <2>3. SeenMemory[lastPid] = mem[lastPid]
    BY <1>1 DEF SeenMemory, Busy
  <2>4. \/ <<lastPid, s[2]>> \in stray \cup wiped
        \/ mem[lastPid][s[2]] = OnByte(c, s)
    BY <2>1, <2>3 DEF AgreeInv, Agreed
  <2>5. s[2] - site[c][s[1]] + 1 \in DOMAIN file[c].patches[s[1]].on
    <3>1. file[c].patches[s[1]].on \in Seq(Byte) /\ site[c][s[1]] \in Cells
      BY <1>1, <2>2, FileTypes, AddressType DEF TypeOK, Places
    <3> QED BY <2>2, <3>1, LenType, SpanIndex
  <2> QED BY <2>4, <2>5 DEF Shows, OnByte
<1> QED BY <1>1, <1>3, <1>4

\* In every file without followers of a master code, for any processes, overlaps, code caves and
\* failures: between calls, what an enabled cheat wrote last is in the memory of the process the
\* flags are about, in every cell that no other cheat can write and no cave replaced
\* (cheat_applier.cpp:56-68, 140-232).
THEOREM FreeFilesArePatched == Spec => [](Free => EnabledIsPatched)
BY AgreedIsPatched, AgreeAlways, PTL

\* In such files a call that switched a cheat off left its `off` bytes where the last enabling
\* wrote the `on` bytes, for every cheat whose patches have both of the same length
\* (cheat_applier.cpp:172, 185-212, docs/PS5_TEST_CHECKLIST.md:38).
THEOREM FreeFilesAreRestored == Spec => []FreeDisableRestoresOff
<1>1. TypeOK /\ (Free => AgreeInv) => FreeDisableRestoresOff
  BY DEF AgreeInv, FreeDisableRestoresOff
<1> QED BY <1>1, AgreeAlways, PTL
=============================================================================
