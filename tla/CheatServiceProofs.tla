------------------------- MODULE CheatServiceProofs -------------------------
(* For any games, files, requests and faults, and whatever starts, exits and is edited *)
(* during a request: the service writes to no process but the one of the game it has    *)
(* found, what it lists as enabled is in that game's memory, what is no longer listed    *)
(* is not, and a file that has not changed is served. The proofs of the applier and of    *)
(* its invariants are used step by step; what is added is when the applier runs, for      *)
(* which game, and with which file.                                                      *)
EXTENDS CheatService, CheatApplierProofs, WellFoundedInduction

-----------------------------------------------------------------------------
(* The files: what the repository hands over is a document, or nothing. *)

Content == [inode : Nat, stamp : Nat, doc : Docs \cup {Broken, <<>>}]
Library ==
  /\ disk \in [Titles -> [DOMAIN Formats -> Content]] /\ edits \in Nat
  /\ handle \in Content /\ file \in Docs \cup {<<>>}
  /\ op \in {"probe", "load", "reload"} /\ title \in Titles /\ format \in Nat \ {0}
  /\ at \in {"stat", "open", "read"} => format \in DOMAIN Formats

LEMMA FormatsDomain == DOMAIN Formats = 1..Len(Formats) /\ Len(Formats) \in Nat
BY ServiceAssumption

LEMMA ContentType ==
  \A f \in Content : /\ f \in [inode : Nat, stamp : Nat, doc : Docs \cup {Broken, <<>>}]
                     /\ f.inode \in Nat /\ f.stamp \in Nat /\ f.doc \in Docs \cup {Broken, <<>>}
BY DEF Content

LEMMA InitLibrary == ServiceInit => Library
<1>1. Repo!Absent \in Content
  BY DEF Repo!Absent, Content
<1>2. ServiceInit => Repo!Init
  BY DEF ServiceInit
<1>3. Repo!Init => disk = [t \in Titles |-> [k \in DOMAIN Formats |-> Repo!Absent]]
  BY DEF Repo!Init
<1>4. Repo!Init => disk \in [Titles -> [DOMAIN Formats -> Content]]
  BY <1>1, <1>3
<1>5. Repo!Init => /\ edits = 0 /\ file = <<>> /\ at = "idle" /\ handle = Repo!Absent
                   /\ op = "probe" /\ title \in Titles /\ format = 1
  BY DEF Repo!Init
<1> QED BY <1>1, <1>2, <1>4, <1>5 DEF Library

\* A change of the directory puts a content there, and changes nothing else.
LEMMA EditKeeps ==
  ASSUME Library, Repo!Edit
  PROVE  Library' /\ UNCHANGED <<file, repo>>
<1>1. PICK t \in Titles, k \in DOMAIN Formats :
        \/ \E d \in Docs \cup {Broken} : Repo!Replace(t, k, d) \/ Repo!Rewrite(t, k, d)
        \/ Repo!Remove(t, k)
  BY DEF Repo!Edit
<1>2. edits + 1 \in Nat /\ disk[t][k].inode \in Nat
  BY ContentType DEF Library
<1>3. \A d \in Docs \cup {Broken}, i \in Nat :
        [inode |-> i, stamp |-> edits + 1, doc |-> d] \in Content
  BY <1>2 DEF Content
<1>4. Repo!Absent \in Content
  BY DEF Repo!Absent, Content
<1>5. \E f \in Content : Repo!Put(t, k, f)
  BY <1>1, <1>2, <1>3, <1>4 DEF Repo!Replace, Repo!Rewrite, Repo!Remove
<1>6. PICK f \in Content : Repo!Put(t, k, f)
  BY <1>5
<1>7. /\ edits' = edits + 1 /\ disk' = [disk EXCEPT ![t][k] = f]
      /\ UNCHANGED <<file, signature, at, op, title, format, handle, result>>
  BY <1>6 DEF Repo!Put, Repo!call_
<1>8. disk' \in [Titles -> [DOMAIN Formats -> Content]]
  BY <1>7 DEF Library
<1> QED BY <1>2, <1>7, <1>8 DEF Library, repo

\* A step of the repository: the file is kept, or it is a new one with its flags.
LEMMA WorkKeeps ==
  ASSUME Library, Repo!Work
  PROVE  /\ Library' /\ UNCHANGED disks /\ at \notin {"idle", "done"}
         /\ ~Publishes => file' = file
<1>1. CASE Repo!TryNext
  BY <1>1, FormatsDomain DEF Repo!TryNext, Repo!dir, Repo!call_, Library, disks
<1>2. CASE Repo!Resolve
  BY <1>2, FormatsDomain DEF Repo!Resolve, Repo!dir, Repo!call_, Library, disks
<1>3. CASE Repo!Unresolved
  BY <1>3
  DEF Repo!Unresolved, Repo!Answer, Repo!Forget, Repo!dir, Repo!call_, Library, disks, Publishes
<1>4. CASE Repo!StatError \/ Repo!StatSame \/ Repo!StatOther
  BY <1>4
  DEF Repo!StatError, Repo!StatSame, Repo!StatOther, Repo!Answer, Repo!dir, Repo!call_, Library,
      disks
<1>5. CASE Repo!OpenError
  BY <1>5
  DEF Repo!OpenError, Repo!LoadFailed, Repo!Answer, Repo!Forget, Repo!dir, Repo!call_, Library,
      disks, Publishes
<1>6. CASE Repo!Open
  BY <1>6 DEF Repo!Open, Repo!dir, Repo!call_, Library, disks
<1>7. CASE Repo!ReadAndParse
  <2>1. /\ format \in DOMAIN Formats /\ title \in Titles /\ handle \in Content
        /\ disk[title][format] \in Content
    BY <1>7 DEF Repo!ReadAndParse, Library
  <2>2. PICK d \in Repo!ReadDocs : IF Repo!Parses(d) THEN Repo!Publish(d) ELSE Repo!LoadFailed
    BY <1>7 DEF Repo!ReadAndParse
  <2>3. d \in Docs \cup {Broken, <<>>}
    BY <2>1, <2>2, ContentType DEF Repo!ReadDocs
  <2>4. /\ handle' = Repo!Absent /\ at = "read" /\ at' = "done"
        /\ UNCHANGED <<disk, edits, op, title, format>>
    BY <1>7, <2>2
    DEF Repo!ReadAndParse, Repo!Publish, Repo!LoadFailed, Repo!Answer, Repo!dir, Repo!call_
  <2>5. handle' \in Content
    BY <2>4 DEF Repo!Absent, Content
  <2>6. file' \in {file, <<>>, d} /\ (file' = d => d # Broken \/ file' = file \/ file' = <<>>)
    BY <2>2 DEF Repo!Parses, Repo!Publish, Repo!LoadFailed, Repo!Forget
  <2>7. file' \in Docs \cup {<<>>}
    BY <2>3, <2>6 DEF Library
  <2>8. ~Publishes => file' = file
    BY <2>2
    DEF Repo!Parses, Repo!Publish, Repo!LoadFailed, Repo!Forget, Repo!Answer, Publishes
  <2> QED BY <2>4, <2>5, <2>7, <2>8 DEF Library, disks
<1> QED BY <1>1, <1>2, <1>3, <1>4, <1>5, <1>6, <1>7 DEF Repo!Work

-----------------------------------------------------------------------------
(* Where a request is, and which game it is about. *)

AtRepository == {"probing", "loading", "reloading"}
AtApplier == {"revert", "applying"}
\* before a request has looked at the running game
Unsure == {"ready", "look", "stopping", "stopped"}
Phases == Unsure \cup AtRepository \cup AtApplier \cup {"probe", "load", "reload", "apply"}

\* The applier and the repository run only while the request waits for them.
Turns ==
  /\ phase \in Phases /\ request.on \in BOOLEAN
  /\ pc # "idle" => phase \in AtApplier
  /\ pc = "idle" => call.pid = NoPid
  /\ at # "idle" => phase \in AtRepository
  /\ phase \notin Unsure => game # NoGame
\* Only the running game has processes, and an application id is given to one start.
Console ==
  /\ launches \in Nat /\ big \in Pids \cup {NoPid}
  /\ \A p \in Pids : app[p] # NoApp => p = big /\ app[p] \in 1..launches
  /\ big # NoPid => app[big] # NoApp
  /\ game # NoGame => game.pid \in Pids /\ game.app \in Apps /\ game.app \in 1..launches
  /\ \A p \in Pids : app[p] # NoApp /\ app[p] = game.app => p = game.pid
\* The game's process still is what it was when the request looked, or has exited since.
Intact ==
  /\ game # NoGame
  /\ app[game.pid] = game.app \/ (app[game.pid] = NoApp /\ phase \notin Unsure)
\* What is known of flags and calls is about the game.
Focus ==
  /\ lastPid \in {NoPid, game.pid} /\ call.pid \in {NoPid, game.pid}
  /\ pc = "done" /\ outcome = "disabled" => call.pid # NoPid
  /\ phase \notin Unsure => Intact
ServiceInv ==
  /\ TypeOK /\ Library /\ Turns /\ Console /\ Focus
  /\ RollbackInv /\ SwitchPending /\ (Free /\ Intact => AgreeInv)

LEMMA NoPidIsNone == NoPid \notin Pids
BY PidAssumption DEF NoPid

\* The flags of a file that has just been parsed or cleared.
LEMMA FreshTypes ==
  ASSUME NEW f \in Files \cup {<<>>}
  PROVE  NoFlags(f) \in [DOMAIN f -> BOOLEAN] /\ FirstOffsets(f) \in [DOMAIN f -> Cells]
<1>1. f \in Seq(CheatType) /\ DOMAIN f = 1..Len(f)
  <2>1. <<>> \in Seq(CheatType)
    OBVIOUS
  <2>2. f \in Seq(CheatType)
    BY <2>1, FileAssumption
  <2> QED BY <2>2
<1>2. ASSUME NEW c \in DOMAIN f, Len(f[c].patches) > 0
      PROVE  f[c].patches[1].offset \in Cells
  <2>0. f[c] \in CheatType
    BY <1>1
  <2>1. f[c].patches \in Seq(PatchType)
    BY <2>0 DEF CheatType
  <2>2. f[c].patches[1] \in PatchType
    BY <1>2, <2>1
  <2> QED BY <2>2 DEF PatchType
<1>3. 0 \in Cells
  BY AddrAssumption DEF Cells
<1> QED BY <1>2, <1>3 DEF NoFlags, FirstOffsets

\* A file taken or cleared while no call runs starts with everything off, and so agrees.
LEMMA FreshKeeps ==
  ASSUME TypeOK, pc = "idle", NEW f \in Docs \cup {<<>>}, file' = f, Fresh(f),
         UNCHANGED <<world, mem, pc, frame, outcome, start, caved, stray, wiped>>,
         game' \in [pid : Pids \cup {NoPid}, app : Apps \cup {NoApp}]
  PROVE  TypeOK' /\ RollbackInv' /\ SwitchPending' /\ AgreeInv' /\ lastPid' = NoPid
<1>1. f \in Files \cup {<<>>} /\ Ids' = DOMAIN f
  BY ServiceAssumption DEF Ids
<1>2. /\ enabled' = NoFlags(f) /\ offset' = FirstOffsets(f) /\ masterId' = NoMaster
      /\ lastPid' = NoPid /\ site' = NoSites(f)
  BY DEF Fresh
<1>3. enabled' \in [Ids' -> BOOLEAN] /\ offset' \in [Ids' -> Cells]
  BY <1>1, <1>2, FreshTypes
<1>4. /\ UNCHANGED <<app, hosts, mem, pc, call, next, snaps, restored, outcome, stray, wiped, caved>>
      /\ pc' = "idle"
  BY DEF world, frame
<1>5. TypeOK'
  BY <1>1, <1>2, <1>3, <1>4 DEF TypeOK
<1>6. RollbackInv' /\ SwitchPending'
  BY <1>4 DEF RollbackInv, SwitchPending, Busy, WritesWhatItSaved, FailedCallRestores
<1>7. OffsetsFixed' /\ \A c \in Ids' : ~enabled'[c]
  BY <1>1, <1>2 DEF OffsetsFixed, NoSites, NoFlags
<1>8. AgreeInv'
  BY <1>4, <1>7
  DEF AgreeInv, Placed, Agreed, Trail, Latest, Patching, CavesAreKnown, FailsOpenly, Busy,
      DisableRestoresOff
<1> QED BY <1>2, <1>5, <1>6, <1>8

LEMMA InitService == ServiceInit => ServiceInv
<1> SUFFICES ASSUME ServiceInit PROVE ServiceInv
  OBVIOUS
<1>1. /\ app = [p \in Pids |-> NoApp] /\ hosts = {} /\ mem = Image /\ game = NoGame /\ file = <<>>
      /\ enabled = <<>> /\ offset = <<>> /\ masterId = NoMaster /\ lastPid = NoPid
      /\ pc = "idle" /\ call = Idle /\ next = 0 /\ snaps = <<>> /\ restored = TRUE
      /\ outcome = "none" /\ caved = {} /\ stray = {} /\ wiped = {} /\ site = <<>>
      /\ big = NoPid /\ launches = 0 /\ phase = "ready" /\ request = Refresh
  BY DEF ServiceInit
<1>2. at = "idle"
  BY DEF ServiceInit, Repo!Init
<1>3. game.pid = NoPid /\ game.app = NoApp /\ request.on = FALSE
  BY <1>1 DEF NoGame, Refresh
<1>4. TypeOK
  <2>1. call.on \in BOOLEAN /\ call.pid = NoPid
    BY <1>1 DEF Idle
  <2>2. snaps \in Seq(SnapType) /\ mem \in [Pids -> MemType]
    BY <1>1, ProcAssumption
  <2>3. enabled \in [Ids -> BOOLEAN] /\ offset \in [Ids -> Cells]
    BY <1>1 DEF Ids
  <2>4. game \in [pid : Pids \cup {NoPid}, app : Apps \cup {NoApp}]
    BY <1>1 DEF NoGame
  <2> QED BY <1>1, <2>1, <2>2, <2>3, <2>4 DEF TypeOK, Outcomes
<1>5. Library
  BY InitLibrary
<1>6. Turns
  BY <1>1, <1>2, <1>3 DEF Turns, Phases, Unsure, Idle
<1>7. Console /\ Focus /\ ~Intact
  BY <1>1, <1>3, NoPidIsNone DEF Console, Focus, Intact, Unsure, Idle
<1>8. RollbackInv /\ SwitchPending
  BY <1>1 DEF RollbackInv, SwitchPending, Busy, WritesWhatItSaved, FailedCallRestores
<1> QED BY <1>4, <1>5, <1>6, <1>7, <1>8 DEF ServiceInv

LEMMA StillLibrary ==
  ASSUME Library, UNCHANGED <<disks, repo, file>>
  PROVE  Library'
BY DEF Library, disks, repo

\* A step of the service alone, or of the repository while it keeps the file.
LEMMA QuietKeeps ==
  ASSUME ServiceInv, UNCHANGED <<vars, games>>, Library', Turns',
         phase' \notin Unsure => phase \notin Unsure \/ (game # NoGame /\ app[game.pid] = game.app)
  PROVE  ServiceInv'
<1>1. TypeOK' /\ RollbackInv'
  BY OtherType, OtherRollback DEF ServiceInv
<1>2. /\ UNCHANGED <<app, hosts, mem, game, file, enabled, lastPid, pc, call, outcome, big, launches>>
  BY DEF vars, world, cheats, flags, frame, games
<1>3. SwitchPending'
  BY <1>2 DEF ServiceInv, SwitchPending, Busy, Target
<1>4. Console'
  BY <1>2 DEF ServiceInv, Console
<1>5. Intact' => Intact
  BY <1>2 DEF ServiceInv, Intact
<1>6. Focus'
  BY <1>2 DEF ServiceInv, Turns, Focus, Intact
<1>7. Free' /\ Intact' => AgreeInv'
  <2>1. Free' => Free
    BY <1>2 DEF Free, Ids
  <2> QED BY <1>5, <2>1, OtherAgree DEF ServiceInv
<1> QED BY <1>1, <1>3, <1>4, <1>6, <1>7 DEF ServiceInv
-----------------------------------------------------------------------------
(* The console, the directory and the clients. *)

\* A game that starts does so in a process that no call and no flag is about, or after the
\* game they were about.
LEMMA LaunchKeeps ==
  ASSUME ServiceInv, NEW p \in Pids, Launch(p)
  PROVE  ServiceInv'
<1>1. /\ launches + 1 \in Apps /\ big = NoPid /\ app[p] = NoApp
      /\ phase \in Unsure \/ p # game.pid
      /\ launches' = launches + 1 /\ big' = p
      /\ app' = [app EXCEPT ![p] = launches + 1] /\ hosts' = hosts \cup {p}
      /\ mem' = [mem EXCEPT ![p] = Image[p]]
      /\ stray' = {s \in stray : s[1] # p} /\ wiped' = {s \in wiped : s[1] # p}
      /\ UNCHANGED <<cheats, flags, pc, frame, outcome, start, caved, site, disks, repo, own>>
  BY DEF Launch, Unsure
<1>2. /\ UNCHANGED <<game, file, enabled, offset, masterId, lastPid, pc, call, next, snaps, restored,
                     outcome, start, caved, site, phase, request, at>>
      /\ Ids' = Ids
  BY <1>1 DEF cheats, flags, frame, own, repo, Ids
<1>3. TypeOK /\ Library /\ Turns /\ Console /\ Focus /\ RollbackInv /\ SwitchPending
  BY DEF ServiceInv
<1>4. app \in [Pids -> Apps \cup {NoApp}] /\ mem \in [Pids -> MemType] /\ Image[p] \in MemType
      /\ launches \in Nat
  BY <1>3, ProcAssumption DEF TypeOK, Console
<1>5. \A q \in Pids : /\ app'[q] = IF q = p THEN launches + 1 ELSE app[q]
                      /\ mem'[q] = IF q = p THEN Image[p] ELSE mem[q]
  BY <1>1, <1>4
<1>6. TypeOK'
  <2>1. app' \in [Pids -> Apps \cup {NoApp}] /\ hosts' \subseteq Pids
    BY <1>1, <1>3, <1>4 DEF TypeOK
  <2>2. mem' \in [Pids -> MemType]
    BY <1>1, <1>4
  <2>3. stray' \subseteq Pids \X Cells /\ wiped' \subseteq Pids \X Cells
    BY <1>1, <1>3 DEF TypeOK
  <2> QED BY <1>2, <1>3, <2>1, <2>2, <2>3 DEF TypeOK
<1>7. Library' /\ Turns'
  BY <1>1, <1>2, <1>3, StillLibrary DEF Turns
<1>8. Console'
  <2>1. \A q \in Pids : app[q] = NoApp
    BY <1>1, <1>3, NoPidIsNone DEF Console
  <2>2. launches + 1 # NoApp
    BY <1>1, PidAssumption
  <2>3. \A q \in Pids : app'[q] # NoApp => q = p /\ app'[q] \in 1..(launches + 1)
    BY <1>4, <1>5, <2>1
  <2>4. game # NoGame => game.app \in 1..launches /\ game.app # launches + 1
    BY <1>3, <1>4 DEF Console
  <2>5. game = NoGame => game.app = NoApp
    BY DEF NoGame
  <2>6. \A q \in Pids : app'[q] # NoApp /\ app'[q] = game.app => q = game.pid
    BY <1>5, <2>1, <2>2, <2>4, <2>5
  <2>7. launches + 1 \in Nat /\ \A n \in 1..launches : n \in 1..(launches + 1)
    BY <1>4
  <2> QED
    BY <1>1, <1>2, <1>3, <1>5, <2>2, <2>3, <2>6, <2>7 DEF Console
<1>9. Intact' => Intact /\ p # game.pid
  <2>1. SUFFICES ASSUME Intact' PROVE Intact /\ p # game.pid
    OBVIOUS
  <2>2. game # NoGame /\ game.pid \in Pids /\ game.app \in 1..launches
    BY <1>2, <1>3, <2>1 DEF Intact, Console
  <2>3. p # game.pid
    BY <1>1, <1>2, <1>4, <1>5, <2>1, <2>2, PidAssumption DEF Intact
  <2> QED BY <1>2, <1>5, <2>1, <2>2, <2>3 DEF Intact
<1>10. Focus'
  <2>1. phase \notin Unsure => p # game.pid /\ game # NoGame /\ game.pid \in Pids
    BY <1>1, <1>3 DEF Turns, Console
  <2> QED BY <1>2, <1>3, <1>5, <2>1 DEF Focus, Intact
<1>11. pc # "idle" => p # game.pid
  BY <1>1, <1>3 DEF Turns, AtApplier, Unsure
<1>12. RollbackInv' /\ SwitchPending'
  <2>1. CASE pc = "idle"
    BY <1>2, <2>1 DEF RollbackInv, SwitchPending, Busy, WritesWhatItSaved, FailedCallRestores
  <2>2. CASE pc # "idle"
    <3>1. call.pid # p /\ (call.pid # NoPid => call.pid \in Pids /\ mem'[call.pid] = mem[call.pid])
      BY <1>3, <1>5, <1>11, <2>2, NoPidIsNone DEF Focus, TypeOK
    <3>2. \A x : <<call.pid, x>> \in stray' <=> <<call.pid, x>> \in stray
      BY <1>1, <3>1
    <3>3. Target' = Target /\ (Busy' <=> Busy) /\ Last' = Last /\ (Busy => call.pid # NoPid)
      BY <1>2, <1>3, NoPidIsNone DEF Target, Busy, Last, TypeOK
    <3>4. Busy => UncoveredIsUntouched' /\ OldestHoldsStart'
      BY <1>2, <1>3, <3>1, <3>2, <3>3
      DEF RollbackInv, UncoveredIsUntouched, OldestHoldsStart, Untouched, Covered, Saved, Target
    <3>5. WritesWhatItSaved'
      BY <1>2, <1>3, <3>3
      DEF RollbackInv, WritesWhatItSaved, Undo, Address, AddressOf, OffsetOf, Size, Wanted, Patch
    <3>6. FailedCallRestores'
      BY <1>2, <1>3, <3>1, <3>2 DEF RollbackInv, FailedCallRestores
    <3>7. SwitchPending'
      BY <1>2, <1>3, <3>3 DEF SwitchPending
    <3> QED BY <1>2, <1>3, <3>3, <3>4, <3>5, <3>6, <3>7 DEF RollbackInv
  <2> QED BY <2>1, <2>2
<1>13. Free' /\ Intact' => AgreeInv'
  <2>1. SUFFICES ASSUME Free', Intact' PROVE AgreeInv'
    OBVIOUS
  <2>2. Free /\ AgreeInv /\ p # game.pid /\ game.pid \in Pids
    BY <1>2, <1>3, <1>9, <2>1 DEF Free, ServiceInv, Console, Intact
  <2>3. /\ lastPid # p /\ call.pid # p
        /\ lastPid \in Pids => mem'[lastPid] = mem[lastPid]
        /\ call.pid \in Pids => mem'[call.pid] = mem[call.pid]
    BY <1>3, <1>5, <2>2, NoPidIsNone DEF Focus
  <2>4. \A q, x : q # p => /\ <<q, x>> \in stray' <=> <<q, x>> \in stray
                           /\ <<q, x>> \in wiped' <=> <<q, x>> \in wiped
    BY <1>1
  <2>5. /\ Target' = Target /\ (Busy' <=> Busy) /\ Last' = Last /\ (Patching' <=> Patching)
        /\ Patching => Busy
        /\ Busy => Target \in Pids
    BY <1>2, <1>3 DEF Target, Busy, Last, TypeOK, Patching
  <2>6. OffsetsFixed'
    BY <1>2, <2>2 DEF AgreeInv, OffsetsFixed, FirstOffsets
  <2>7. \A q, c : Places(q, c)' = Places(q, c)
    BY <1>2 DEF Places, AddressOf, OffsetOf
  <2>8. \A c : Reach(c)' = Reach(c) /\ Sites(c)' = Sites(c) /\ Newest(c)' = Newest(c)
    BY <1>2 DEF Reach, Sites, Newest
  <2>9. Placed'
    BY <1>2, <2>2, <2>7 DEF AgreeInv, Placed
  <2>10. lastPid \in Pids => SeenMemory'[lastPid] = SeenMemory[lastPid]
    BY <1>2, <2>3, <2>5 DEF SeenMemory
  <2>11. \A c, x : Alone(c, x)' <=> Alone(c, x)
    BY <1>2, <2>7, <2>8 DEF Alone
  <2>12. \A c, s : OnByte(c, s)' = OnByte(c, s)
    BY <1>2 DEF OnByte
  <2>13. Agreed'
    <3>1. SUFFICES ASSUME NEW c \in Ids, enabled[c], NEW s \in Newest(c), Alone(c, s[2])
                   PROVE  \/ <<lastPid, s[2]>> \in stray' \cup wiped'
                          \/ SeenMemory'[lastPid][s[2]] = OnByte(c, s)
      BY <1>2, <2>8, <2>11, <2>12 DEF Agreed
    <3>2. lastPid \in Pids
      BY <1>3, <2>2, <3>1 DEF AgreeInv, Placed, TypeOK
    <3> QED BY <2>2, <2>3, <2>4, <2>10, <3>1, <3>2 DEF AgreeInv, Agreed
  <2>14. Trail'
    BY <1>2, <2>2, <2>5 DEF AgreeInv, Trail, BytesOf, AddressOf, OffsetOf
  <2>15. Latest'
    BY <1>2, <2>2, <2>3, <2>4, <2>5
    DEF AgreeInv, Latest, LatestUpTo, Covered, BytesOf, Target
  <2>16. CavesAreKnown' /\ FailsOpenly'
    BY <1>2, <2>2, <2>3, <2>4, <2>5 DEF AgreeInv, CavesAreKnown, FailsOpenly, Target
  <2>17. (call.id \in Ids => SameSizes(call.id))' => DisableRestoresOff'
    <3>1. SUFFICES ASSUME call.id \in Ids => SameSizes(call.id), pc = "done", outcome = "disabled",
                          NEW s \in Newest(call.id)
                   PROVE  Shows(call.pid, call.id, s, file[call.id].patches[s[1]].off)'
      BY <1>2, <2>8 DEF DisableRestoresOff, SameSizes
    <3>2. Shows(call.pid, call.id, s, file[call.id].patches[s[1]].off)
      BY <2>2, <3>1 DEF AgreeInv, DisableRestoresOff
    <3>3. call.pid \in Pids
      BY <1>3, <3>1 DEF Focus, TypeOK
    <3> QED BY <1>2, <2>3, <2>4, <3>2, <3>3 DEF Shows
  <2> QED
    BY <2>6, <2>9, <2>13, <2>14, <2>15, <2>16, <2>17 DEF AgreeInv
<1> QED BY <1>6, <1>7, <1>8, <1>10, <1>12, <1>13 DEF ServiceInv
LEMMA QuitKeeps ==
  ASSUME ServiceInv, Quit
  PROVE  ServiceInv'
<1>1. /\ big \in Pids /\ Exit(big) /\ big' = NoPid
      /\ UNCHANGED <<launches, disks, repo, own>>
  BY DEF Quit, ServiceInv, Console
<1>2. /\ app' = [app EXCEPT ![big] = NoApp]
      /\ UNCHANGED <<game, file, enabled, lastPid, pc, call, outcome, phase, request, at, disks, repo,
                     launches>>
  BY <1>1 DEF Exit, cheats, flags, frame, own, repo
<1>3. TypeOK /\ Library /\ Turns /\ Console /\ Focus /\ SwitchPending
  BY DEF ServiceInv
<1>4. TypeOK' /\ RollbackInv'
  BY <1>1, OtherType, OtherRollback DEF ServiceInv
<1>5. Library' /\ Turns' /\ SwitchPending'
  BY <1>2, <1>3, StillLibrary DEF Turns, SwitchPending, Busy, Target
<1>6. \A q \in Pids : app'[q] = IF q = big THEN NoApp ELSE app[q]
  BY <1>2, <1>3 DEF TypeOK
<1>7. Console'
  BY <1>1, <1>2, <1>3, <1>6 DEF Console
<1>8. (Intact' => Intact) /\ Focus'
  BY <1>2, <1>3, <1>6, PidAssumption DEF Intact, Focus, Console
<1>9. Free' /\ Intact' => AgreeInv'
  <2>1. Free' => Free
    BY <1>2 DEF Free, Ids
  <2> QED BY <1>1, <1>8, <2>1, OtherAgree DEF ServiceInv
<1> QED BY <1>4, <1>5, <1>7, <1>8, <1>9 DEF ServiceInv

LEMMA EditFileKeeps ==
  ASSUME ServiceInv, EditFile
  PROVE  ServiceInv'
<1>1. Library' /\ UNCHANGED <<file, repo>> /\ UNCHANGED <<games, own>>
  BY EditKeeps DEF EditFile, ServiceInv
<1>2. UNCHANGED vars
  BY <1>1 DEF EditFile, vars, cheats
<1>3. Turns'
  BY <1>1, <1>2
  DEF ServiceInv, Turns, repo, own, vars, cheats, frame
<1> QED BY <1>1, <1>2, <1>3, QuietKeeps DEF own

LEMMA AskKeeps ==
  ASSUME ServiceInv, NEW r \in Requests, Ask(r)
  PROVE  ServiceInv'
<1>1. /\ phase = "ready" /\ request' = r /\ phase' \in {"stopping", "look"}
      /\ UNCHANGED <<vars, disks, repo, games>>
  BY DEF Ask
<1>2. r.on \in BOOLEAN
  BY ServiceAssumption
<1>3. UNCHANGED <<game, file, pc, call, at>>
  BY <1>1 DEF vars, cheats, frame, repo
<1>4. Turns'
  BY <1>1, <1>2, <1>3 DEF ServiceInv, Turns, Phases, Unsure, AtApplier, AtRepository
<1>5. Library'
  BY <1>1, <1>3, StillLibrary DEF ServiceInv
<1> QED BY <1>1, <1>4, <1>5, QuietKeeps DEF Unsure

-----------------------------------------------------------------------------
(* refresh_locked. *)

LEMMA LiveType ==
  ASSUME TypeOK, Console
  PROVE  /\ Live \in [pid : Pids \cup {NoPid}, app : Apps \cup {NoApp}]
         /\ Live # NoGame => /\ big \in Pids /\ Live.pid = big /\ Live.app = app[big]
                             /\ app[big] # NoApp /\ Live.app \in Apps
                             /\ Live.app \in 1..launches
<1>1. CASE big = NoPid
  BY <1>1 DEF Live, NoGame
<1>2. CASE big # NoPid
  <2>1. big \in Pids /\ Live = [pid |-> big, app |-> app[big]] /\ app[big] \in Apps
        /\ app[big] # NoApp
    BY <1>2 DEF Live, Console, TypeOK
  <2> QED BY <2>1 DEF Console
<1> QED BY <1>1, <1>2

\* A request that finds no game, or another one, drops the file; the end of the service too.
LEMMA ClearKeeps ==
  ASSUME ServiceInv, NoGameRuns \/ OtherGame \/ Stopped
  PROVE  ServiceInv'
<1>1. /\ Clear /\ UNCHANGED <<world, mem, pc, frame, outcome, start, caved, stray, wiped, disks, repo,
                              games, request>>
      /\ phase \in {"look", "stopping", "revert"} /\ (phase = "revert" => pc = "idle")
      /\ \/ game' = NoGame /\ phase' = "ready"
         \/ game' = Live /\ Live # NoGame /\ phase' = "probe"
         \/ game' = game /\ phase' = "stopped"
  BY DEF NoGameRuns, OtherGame, Stopped, RefreshReturns
<1>2. UNCHANGED <<app, pc, call, outcome, at, request, big, launches>>
  BY <1>1 DEF world, frame, repo, games
<1>3. TypeOK /\ Library /\ Turns /\ Console /\ Focus
  BY DEF ServiceInv
<1>4. pc = "idle" /\ call.pid = NoPid /\ at = "idle"
  BY <1>1, <1>3 DEF Turns, AtApplier, AtRepository
<1>5. game' \in [pid : Pids \cup {NoPid}, app : Apps \cup {NoApp}]
  BY <1>1, <1>3, LiveType DEF TypeOK, NoGame
<1>6. file' = <<>> /\ Fresh(<<>>)
  BY <1>1 DEF Clear
<1>7. TypeOK' /\ RollbackInv' /\ SwitchPending' /\ AgreeInv' /\ lastPid' = NoPid
  BY <1>1, <1>3, <1>4, <1>5, <1>6, FreshKeeps
<1>8. Library'
  BY <1>1, <1>3, <1>6 DEF Library, disks, repo
<1>9. Turns'
  BY <1>1, <1>2, <1>3, <1>4 DEF Turns, Phases, Unsure
<1>10. Console'
  <2>1. game' # NoGame => game'.pid \in Pids /\ game'.app \in Apps /\ game'.app \in 1..launches
    BY <1>1, <1>3, LiveType DEF Console
  <2>2. \A p \in Pids : app[p] # NoApp /\ app[p] = game'.app => p = game'.pid
    <3>1. CASE game' = NoGame
      BY <3>1 DEF NoGame
    <3>2. CASE game' = Live /\ Live # NoGame
      BY <1>3, <3>2, LiveType DEF Console
    <3> QED BY <1>1, <1>3, <3>1, <3>2 DEF Console
  <2> QED BY <1>2, <1>3, <2>1, <2>2 DEF Console
<1>11. Focus'
  <2>1. phase' \notin Unsure => game' = Live /\ Live # NoGame
    BY <1>1 DEF Unsure
  <2>2. phase' \notin Unsure => Intact'
    BY <1>2, <1>3, <2>1, LiveType DEF Intact
  <2> QED BY <1>2, <1>4, <1>7, <2>2 DEF Focus
<1> QED BY <1>7, <1>8, <1>9, <1>10, <1>11 DEF ServiceInv

\* The steps of the service that touch neither file nor flags.
LEMMA CallKeeps ==
  ASSUME ServiceInv, StartProbe \/ StartLoad \/ StartReload
  PROVE  ServiceInv'
<1>1. PICK name \in {"probe", "load", "reload"} :
        /\ phase \in {"probe", "load", "reload"} /\ phase' \in AtRepository
        /\ Repo!Invoke(name, TitleOf[game.app])
        /\ UNCHANGED <<world, mem, game, flags, pc, frame, outcome, history, games, request>>
  BY DEF StartProbe, StartLoad, StartReload, Call, AtRepository
<1>2. /\ op' = name /\ title' = TitleOf[game.app] /\ format' = 1 /\ at' = "resolve"
      /\ UNCHANGED <<disk, edits, file, signature, handle>>
  BY <1>1 DEF Repo!Invoke, Repo!dir
<1>3. game # NoGame /\ game.app \in Apps
  BY <1>1 DEF ServiceInv, Turns, Console, Unsure
<1>4. Library'
  <2>1. TitleOf[game.app] \in Titles
    BY <1>3, ServiceAssumption
  <2> QED BY <1>2, <2>1 DEF ServiceInv, Library
<1>5. UNCHANGED vars
  BY <1>1, <1>2 DEF vars, cheats
<1>6. Turns'
  BY <1>1, <1>3, <1>5
  DEF ServiceInv, Turns, Phases, Unsure, AtRepository, AtApplier, vars, cheats, frame
<1> QED BY <1>1, <1>4, <1>5, <1>6, QuietKeeps DEF Unsure

\* What the service makes of an answer: it goes on, or the request ends.
LEMMA AnswerKeeps ==
  ASSUME ServiceInv,
         \/ ProbeUnchanged \/ ProbeUnchangedForNewProcess \/ ProbeError \/ ProbeChanged
         \/ LoadAnswer \/ ReloadAnswer \/ ReloadError
  PROVE  ServiceInv'
<1>1. /\ phase \in AtRepository /\ Repo!Retire
      /\ UNCHANGED <<world, mem, game, flags, pc, frame, outcome, history, games, request>>
      /\ phase' \in {"ready", "apply", "load", "revert", "reload"}
  BY DEF ProbeUnchanged, ProbeUnchangedForNewProcess, ProbeError, ProbeChanged, LoadAnswer,
         ReloadAnswer, ReloadError, Answered, RefreshReturns, AtRepository
<1>2. /\ at' = "idle" /\ op' = "probe" /\ format' = 1
      /\ UNCHANGED <<disk, edits, file, signature, title, handle>>
  BY <1>1 DEF Repo!Retire, Repo!dir
<1>3. Library'
  BY <1>2 DEF ServiceInv, Library
<1>4. UNCHANGED vars
  BY <1>1, <1>2 DEF vars, cheats
<1>5. phase \notin Unsure /\ phase' \in Phases
  BY <1>1 DEF AtRepository, Unsure, Phases, AtApplier
<1>6. Turns'
  BY <1>1, <1>2, <1>4, <1>5
  DEF ServiceInv, Turns, AtRepository, AtApplier, vars, cheats, frame
<1> QED BY <1>1, <1>3, <1>4, <1>5, <1>6, QuietKeeps

LEMMA TurnKeeps ==
  ASSUME ServiceInv, SameGame \/ Reverted \/ StopConfirmed
  PROVE  ServiceInv'
<1>1. /\ UNCHANGED <<vars, disks, repo, games, request>>
      /\ \/ /\ phase \in {"look", "stopping"} /\ phase' \in {"probe", "revert"}
            /\ game # NoGame /\ Same(game, Live)
         \/ phase = "revert" /\ pc = "idle" /\ phase' \in {"reload", "ready", "apply"}
  <2>1. CASE SameGame
    <3>1. Live # NoGame /\ Same(game, Live) /\ phase = "look" /\ phase' = "probe"
      BY <2>1 DEF SameGame
    <3>2. game # NoGame
      <4>1. Live.pid # NoPid
        BY <3>1, LiveType, NoPidIsNone DEF ServiceInv
      <4> QED BY <3>1, <4>1 DEF Same, NoGame
    <3> QED BY <2>1, <3>1, <3>2 DEF SameGame
  <2>2. CASE Reverted
    BY <2>2 DEF Reverted, RefreshReturns
  <2>3. CASE StopConfirmed
    BY <2>3 DEF StopConfirmed
  <2> QED BY <2>1, <2>2, <2>3
<1>2. UNCHANGED <<game, file, pc, call, at, request, app>>
  BY <1>1 DEF vars, cheats, frame, repo, world
<1>3. game # NoGame /\ pc = "idle" /\ at = "idle" /\ phase' \in Phases
  BY <1>1 DEF ServiceInv, Turns, Unsure, AtApplier, AtRepository, Phases
<1>4. Turns'
  BY <1>2, <1>3 DEF ServiceInv, Turns
<1>5. Library'
  BY <1>1, <1>2, StillLibrary DEF ServiceInv
<1>6. Same(game, Live) => app[game.pid] = game.app
  <2>1. SUFFICES ASSUME Same(game, Live) PROVE app[game.pid] = game.app
    OBVIOUS
  <2>2. Live # NoGame
    BY <1>3, <2>1, NoPidIsNone DEF Same, NoGame, ServiceInv, Console
  <2> QED BY <2>1, <2>2, LiveType DEF Same, ServiceInv
<1>7. phase \notin Unsure \/ app[game.pid] = game.app
  BY <1>1, <1>6 DEF Unsure
<1> QED BY <1>1, <1>3, <1>4, <1>5, <1>7, QuietKeeps

\* The repository at work: a file it hands over comes with fresh flags.
LEMMA RepoWorksKeeps ==
  ASSUME ServiceInv, RepoWorks
  PROVE  ServiceInv'
<1>1. /\ Repo!Work /\ IF Publishes THEN Fresh(file') ELSE UNCHANGED <<flags, site>>
      /\ UNCHANGED <<world, mem, game, pc, frame, outcome, start, caved, stray, wiped, games, own>>
  BY DEF RepoWorks
<1>2. Library' /\ at \notin {"idle", "done"} /\ (~Publishes => file' = file)
  BY <1>1, WorkKeeps DEF ServiceInv
<1>3. /\ UNCHANGED <<app, pc, call, outcome, game, big, launches, phase, request>>
      /\ phase \in AtRepository /\ pc = "idle"
  BY <1>1, <1>2
  DEF ServiceInv, Turns, AtRepository, AtApplier, world, frame, games, own
<1>4. Turns' /\ Console'
  BY <1>3 DEF ServiceInv, Turns, Console
<1>5. CASE Publishes
  <2>1. file' \in Docs \cup {<<>>} /\ game' \in [pid : Pids \cup {NoPid}, app : Apps \cup {NoApp}]
    BY <1>2, <1>3 DEF Library, ServiceInv, TypeOK
  <2>2. TypeOK' /\ RollbackInv' /\ SwitchPending' /\ AgreeInv' /\ lastPid' = NoPid
    BY <1>1, <1>3, <1>5, <2>1, FreshKeeps DEF ServiceInv
  <2>3. Focus'
    BY <1>3, <2>2 DEF ServiceInv, Focus, Intact
  <2> QED BY <1>2, <1>4, <2>2, <2>3 DEF ServiceInv
<1>6. CASE ~Publishes
  <2>1. UNCHANGED <<vars, games>>
    BY <1>1, <1>2, <1>6 DEF vars, cheats, history
  <2> QED BY <1>2, <1>3, <1>4, <2>1, QuietKeeps
<1> QED BY <1>5, <1>6
-----------------------------------------------------------------------------
(* Calls of the applier. *)

\* A call is about the process of the game, or about none: the module may be found in any
\* process of the application, but the application is the game's alone.
LEMMA EnterTargets ==
  ASSUME TypeOK, Console, Focus, game # NoGame, NEW id, NEW on \in BOOLEAN, SetEnabled(id, on)
  PROVE  /\ UNCHANGED <<world, mem, game, file>> /\ pc' # "idle"
         /\ lastPid' \in {NoPid, game.pid} /\ call'.pid \in {NoPid, game.pid}
         /\ pc' = "done" => outcome' # "disabled"
<1>1. \A p \in Targets \cap Pids : p = game.pid
  BY DEF Targets, Hosting, Console
<1>2. ASSUME NEW p \in Pids, Accepts(id, on, p)
      PROVE  call'.pid = game.pid /\ lastPid' \in {NoPid, game.pid}
  BY <1>1, <1>2 DEF Accepts, LastFor, Focus
<1>3. ASSUME NEW p \in Pids, AlreadySet(id, on, p)
      PROVE  Accepts(id, on, p) /\ UNCHANGED <<world, mem, game, file>>
             /\ pc' = "done" /\ outcome' = "already"
  BY <1>3 DEF AlreadySet, Reply, cheats
<1>4. ASSUME NEW p \in Pids, Begin(id, on, p) \/ NoBuffer(id, on, p)
      PROVE  Accepts(id, on, p) /\ UNCHANGED <<world, mem, game, file>>
             /\ (pc' = "read" \/ (pc' = "done" /\ outcome' = "memory_error"))
  BY <1>4 DEF Begin, NoBuffer, Changes, Reply, cheats
<1>5. ASSUME NEW status \in {"invalid_cheat", "invalid_patch", "module_not_found"},
             Refuse(id, on, status)
      PROVE  /\ UNCHANGED <<world, mem, game, file, lastPid>> /\ pc' = "done"
             /\ outcome' # "disabled" /\ call'.pid = NoPid
  BY <1>5 DEF Refuse, Reply, cheats, flags
<1>6. CASE UnknownCheat(id, on) \/ EmptyCheat(id, on) \/ NoModule(id, on)
  BY <1>5, <1>6 DEF UnknownCheat, EmptyCheat, NoModule, Focus
<1>7. CASE \E p \in Pids : AlreadySet(id, on, p) \/ Begin(id, on, p) \/ NoBuffer(id, on, p)
  BY <1>2, <1>3, <1>4, <1>7
<1> QED BY <1>6, <1>7 DEF SetEnabled

LEMMA EnterService ==
  ASSUME ServiceInv, NEW id, NEW on \in BOOLEAN, SetEnabled(id, on), phase \notin Unsure,
         at = "idle", UNCHANGED <<disks, repo, games, request>>, phase' \in AtApplier
  PROVE  ServiceInv'
<1>1. TypeOK /\ Library /\ Turns /\ Console /\ Focus /\ RollbackInv /\ SwitchPending
      /\ game # NoGame /\ Intact /\ (Free => AgreeInv)
  BY DEF ServiceInv, Turns, Focus
<1>2. /\ UNCHANGED <<world, mem, game, file>> /\ pc' # "idle"
      /\ lastPid' \in {NoPid, game.pid} /\ call'.pid \in {NoPid, game.pid}
      /\ pc' = "done" => outcome' # "disabled"
  BY <1>1, EnterTargets
<1>3. TypeOK' /\ RollbackInv'
  BY <1>1, EnterType, EnterRollback
<1>4. SwitchPending'
  <2>1. CASE id \in Ids
    BY <1>1, <2>1, NextPending DEF Next, Asked
  <2>2. CASE id \notin Ids
    BY <2>2
    DEF SetEnabled, UnknownCheat, EmptyCheat, NoModule, AlreadySet, Begin, NoBuffer, Changes,
        Accepts, Refuse, Reply, SwitchPending, Busy
  <2> QED BY <2>1, <2>2
<1>5. Library' /\ at' = "idle"
  BY <1>1, <1>2, StillLibrary DEF repo
<1>6. phase' \notin Unsure /\ phase' \in Phases
  BY DEF Unsure, AtApplier, Phases
<1>7. Turns' /\ Console'
  BY <1>1, <1>2, <1>5, <1>6 DEF Turns, Console, world, games
<1>8. Focus'
  BY <1>1, <1>2, <1>6 DEF Focus, Intact, world
<1>9. Free' /\ Intact' => AgreeInv'
  <2>1. Free' => Free
    BY <1>2 DEF Free, Ids
  <2> QED BY <1>1, <2>1, EnterAgree
<1> QED BY <1>3, <1>4, <1>5, <1>7, <1>8, <1>9 DEF ServiceInv

LEMMA ReturnService ==
  ASSUME ServiceInv, Return, phase \in AtApplier, phase' \in AtApplier \cup {"ready"},
         UNCHANGED <<disks, repo, games, request>>
  PROVE  ServiceInv'
<1>1. TypeOK /\ Library /\ Turns /\ Console /\ Focus /\ SwitchPending /\ game # NoGame
      /\ phase \notin Unsure /\ at = "idle"
  BY DEF ServiceInv, Turns, AtApplier, Unsure, AtRepository
<1>2. /\ UNCHANGED <<app, game, file, enabled, lastPid>> /\ pc' = "idle" /\ call'.pid = NoPid
  BY DEF Return, world, cheats, flags, Idle
<1>3. TypeOK' /\ RollbackInv'
  BY OtherType, OtherRollback DEF ServiceInv
<1>4. SwitchPending'
  BY <1>2 DEF SwitchPending, Busy
<1>5. Library' /\ at' = "idle"
  BY <1>1, <1>2, StillLibrary DEF repo
<1>6. Turns' /\ Console'
  BY <1>1, <1>2, <1>5
  DEF Turns, Console, games, Phases, Unsure, AtApplier
<1>7. Focus'
  BY <1>1, <1>2 DEF Focus, Intact
<1>8. Free' /\ Intact' => AgreeInv'
  <2>1. Free' => Free
    BY <1>2 DEF Free, Ids
  <2> QED BY <1>1, <2>1, OtherAgree DEF ServiceInv, Focus
<1> QED BY <1>3, <1>4, <1>5, <1>6, <1>7, <1>8 DEF ServiceInv

\* What a step of a call leaves alone.
LEMMA StepTargets ==
  ASSUME TypeOK, Step
  PROVE  /\ UNCHANGED <<world, game, file, call>> /\ Busy /\ pc' # "idle"
         /\ lastPid' \in {lastPid, call.pid} /\ call.pid \in Pids
<1>1. Busy /\ UNCHANGED <<world, game, file, call>> /\ pc' # "idle"
  BY DEF Step, InvalidPatch, SaveBytes, MapCodeCave, Save, ReadError, ProtectError, WritePatch,
         Finish, Advance, WriteError, Restore, RestoreError, RolledBack, Reply, Fail, Busy,
         cheats, frame
<1>2. lastPid' \in {lastPid, call.pid}
  BY DEF Step, InvalidPatch, SaveBytes, MapCodeCave, Save, ReadError, ProtectError, WritePatch,
         Finish, Advance, WriteError, Restore, RestoreError, RolledBack, flags, Target
<1> QED BY <1>1, <1>2 DEF TypeOK, Busy

\* It writes to its target only, and only while that runs.
LEMMA StepWrites ==
  ASSUME TypeOK, Step, NEW p \in Pids, mem'[p] # mem[p]
  PROVE  p = call.pid /\ app[call.pid] # NoApp
<1>1. Busy /\ Target \in Pids /\ mem \in [Pids -> MemType] /\ Target = call.pid
  BY StepTargets DEF TypeOK, Target
<1>2. ASSUME NEW m, mem' = [mem EXCEPT ![Target] = m] PROVE p = Target /\ m # mem[Target]
  BY <1>1, <1>2
<1>3. CASE MapCodeCave \/ ProtectError
  BY <1>1, <1>2, <1>3 DEF MapCodeCave, ProtectError, MapsPages, CanMap
<1>4. CASE WritePatch \/ Restore
  BY <1>1, <1>2, <1>4 DEF WritePatch, Restore
<1>5. ASSUME NEW a \in Cells, NEW s PROVE Overlay(mem[Target], a, s, 0) = mem[Target]
  <2>1. Span(a, 0) = {}
    BY AddrAssumption DEF Span, Cells
  <2> QED BY <1>1, <2>1 DEF Overlay, MemType
<1>6. CASE WriteError
  <2>1. PICK k \in Partial(Size) : mem' = [mem EXCEPT ![Target] = Overlay(@, Address, Wanted, k)]
    BY <1>6 DEF WriteError
  <2>2. Address \in Cells
    BY <1>1, <1>6, BusyTypes DEF WriteError
  <2>3. p = Target /\ Overlay(mem[Target], Address, Wanted, k) # mem[Target]
    BY <1>1, <2>1
  <2> QED BY <1>1, <1>5, <2>1, <2>2, <2>3 DEF Partial
<1>7. CASE RestoreError
  <2>1. PICK k \in Partial(Len(Undo.bytes)) :
          mem' = [mem EXCEPT ![Target] = Overlay(@, Undo.address, Undo.bytes, k)]
    BY <1>7 DEF RestoreError
  <2>2. Undo.address \in Cells
    BY <1>7, UndoType DEF RestoreError
  <2>3. p = Target /\ Overlay(mem[Target], Undo.address, Undo.bytes, k) # mem[Target]
    BY <1>1, <2>1
  <2> QED BY <1>1, <1>5, <2>1, <2>2, <2>3 DEF Partial
<1> QED
  BY <1>1, <1>3, <1>4, <1>6, <1>7
  DEF Step, InvalidPatch, SaveBytes, ReadError, RolledBack

LEMMA StepService ==
  ASSUME ServiceInv, ApplierWorks
  PROVE  ServiceInv'
<1>1. TypeOK /\ Library /\ Turns /\ Console /\ Focus /\ RollbackInv /\ SwitchPending
      /\ Step /\ UNCHANGED <<disks, repo, games, own>>
  BY DEF ServiceInv, ApplierWorks
<1>2. /\ UNCHANGED <<app, game, file, call, phase, request, at>> /\ Busy /\ pc' # "idle" /\ pc # "idle"
      /\ lastPid' \in {NoPid, game.pid} /\ call.pid \in Pids
  BY <1>1, StepTargets DEF world, own, repo, Busy, Focus
<1>3. phase \in AtApplier /\ Intact /\ (Free => AgreeInv)
  BY <1>1, <1>2 DEF Turns, Focus, ServiceInv, AtApplier, Unsure
<1>4. TypeOK' /\ RollbackInv' /\ SwitchPending'
  BY <1>1, StepType, StepRollback, NextPending DEF Next
<1>5. Library' /\ Turns' /\ Console'
  BY <1>1, <1>2, <1>3, StillLibrary DEF Turns, Console, games
<1>6. Focus'
  BY <1>1, <1>2, NoPidIsNone DEF Focus, Intact
<1>7. Free' => AgreeInv'
  BY <1>1, <1>3, NextAgree DEF Next
<1> QED BY <1>4, <1>5, <1>6, <1>7 DEF ServiceInv

LEMMA ApplierKeeps ==
  ASSUME ServiceInv, RevertNext \/ RevertReturned \/ Apply \/ Applied
  PROVE  ServiceInv'
<1>1. CASE RevertNext
  <2>1. PICK c \in Left : SetEnabled(c, FALSE)
    BY <1>1 DEF RevertNext
  <2>2. /\ phase = "revert" /\ phase' = "revert" /\ UNCHANGED <<disks, repo, games, request>>
    BY <1>1 DEF RevertNext
  <2>3. phase \notin Unsure /\ phase' \in AtApplier /\ at = "idle"
    BY <2>2 DEF ServiceInv, Turns, Unsure, AtApplier, AtRepository
  <2> QED BY <2>1, <2>2, <2>3, EnterService
<1>2. CASE Apply
  <2>1. /\ SetEnabled(request.id, request.on) /\ phase = "apply" /\ phase' = "applying"
        /\ UNCHANGED <<disks, repo, games, request>>
    BY <1>2 DEF Apply
  <2>2. phase \notin Unsure /\ phase' \in AtApplier /\ at = "idle" /\ request.on \in BOOLEAN
    BY <2>1 DEF ServiceInv, Turns, Unsure, AtApplier, AtRepository
  <2> QED BY <2>1, <2>2, EnterService
<1>3. CASE RevertReturned \/ Applied
  <2>1. /\ Return /\ phase \in AtApplier /\ phase' \in AtApplier \cup {"ready"}
        /\ UNCHANGED <<disks, repo, games, request>>
    BY <1>3 DEF RevertReturned, Applied, AtApplier
  <2> QED BY <2>1, ReturnService
<1> QED BY <1>1, <1>2, <1>3

-----------------------------------------------------------------------------
(* The invariant of the service, and what follows from it. *)

LEMMA NextService == ServiceInv /\ [ServiceNext]_allVars => ServiceInv'
<1> SUFFICES ASSUME ServiceInv, [ServiceNext]_allVars PROVE ServiceInv'
  OBVIOUS
<1>1. CASE Works
  BY <1>1, ClearKeeps, TurnKeeps, CallKeeps, RepoWorksKeeps, AnswerKeeps, ApplierKeeps, StepService
  DEF Works
<1>2. CASE UNCHANGED allVars
  <2>1. UNCHANGED <<vars, disks, repo, games, phase, request>>
    BY <1>2 DEF allVars, own
  <2>2. Library' /\ Turns'
    BY <2>1, StillLibrary DEF ServiceInv, Turns, vars, cheats, frame, repo
  <2> QED BY <2>1, <2>2, QuietKeeps
<1> QED BY <1>1, <1>2, LaunchKeeps, QuitKeeps, EditFileKeeps, AskKeeps DEF ServiceNext

THEOREM ServiceInvHolds == ServiceSpec => []ServiceInv
BY InitService, NextService, PTL DEF ServiceSpec

\* The applier's guarantee holds of every call the service makes: one that fails leaves the game
\* as it found it, whatever starts and exits meanwhile (cheat_applier.cpp:214-227).
THEOREM FailuresRestore == ServiceSpec => [](TypeOK /\ FailedCallRestores)
<1>1. ServiceInv => TypeOK /\ FailedCallRestores
  BY DEF ServiceInv, RollbackInv
<1> QED BY <1>1, ServiceInvHolds, PTL

\* Nothing is written to a process that is not the game of the request: not to the process of a
\* game that exited, not to one that started since, not to another that has the module
\* (cheat_service.cpp:89-110, ps5_game_platform.cpp:440-475).
THEOREM OnlyTheGameIsWritten == ServiceSpec => OnlyLiveGameWritten
<1>1. ServiceInv /\ [ServiceNext]_allVars => \A p \in Pids : Wrote(p) => app[p] = game.app
  <2> SUFFICES ASSUME ServiceInv, [ServiceNext]_allVars, NEW p \in Pids, Wrote(p)
               PROVE  app[p] = game.app
    OBVIOUS
  <2>1. TypeOK /\ Turns /\ Console /\ Focus
    BY DEF ServiceInv
  <2>2. CASE \E q \in Pids : Launch(q)
    <3>1. PICK q \in Pids : Launch(q)
      BY <2>2
    <3>2. app' = [app EXCEPT ![q] = launches + 1] /\ launches + 1 \in Apps /\ app[q] = NoApp
          /\ mem' = [mem EXCEPT ![q] = Image[q]]
      BY <3>1 DEF Launch
    <3>3. p = q
      BY <2>1, <3>2 DEF Wrote, TypeOK
    <3> QED BY <2>1, <3>2, <3>3, PidAssumption DEF Wrote, TypeOK
  <2>3. CASE ApplierWorks
    <3>1. Busy /\ call.pid \in Pids /\ Step
      BY <2>1, <2>3, StepTargets DEF ApplierWorks
    <3>2. call.pid = game.pid /\ Intact
      BY <2>1, <3>1, NoPidIsNone DEF Focus, Turns, Busy, AtApplier, Unsure
    <3>3. p = call.pid /\ app[call.pid] # NoApp
      BY <2>1, <3>1, StepWrites DEF Wrote
    <3>4. p = game.pid /\ app[game.pid] # NoApp
      BY <3>2, <3>3
    <3> QED BY <3>2, <3>4 DEF Intact
  <2>4. CASE \/ Quit \/ EditFile \/ (\E r \in Requests : Ask(r)) \/ UNCHANGED allVars
    BY <2>4 DEF Wrote, Quit, Exit, EditFile, Ask, allVars, vars
  <2>5. CASE Works /\ ~ApplierWorks
    <3>1. CASE RevertNext \/ Apply
      <4>1. \E id : \E on \in BOOLEAN : SetEnabled(id, on)
        <5>1. CASE RevertNext
          BY <5>1 DEF RevertNext
        <5>2. CASE Apply
          BY <2>1, <5>2 DEF Apply, Turns
        <5> QED BY <3>1, <5>1, <5>2
      <4>2. game # NoGame
        BY <2>1, <3>1 DEF RevertNext, Apply, Turns, Unsure
      <4>3. mem' = mem
        BY <2>1, <4>1, <4>2, EnterTargets
      <4> QED BY <4>3 DEF Wrote
    <3>2. CASE mem' = mem
      BY <3>2 DEF Wrote
    <3> QED
      BY <2>5, <3>1, <3>2
      DEF Works, NoGameRuns, SameGame, OtherGame, StartProbe, StartLoad, StartReload, Call, RepoWorks,
          ProbeUnchanged, ProbeUnchangedForNewProcess, ProbeError, ProbeChanged, LoadAnswer,
          ReloadAnswer, ReloadError, Answered, RevertReturned, Applied, Return, Reverted,
          StopConfirmed, Stopped, vars
  <2> QED BY <2>2, <2>3, <2>4, <2>5 DEF ServiceNext
<1>2. ServiceInv /\ [ServiceNext]_allVars => [\A p \in Pids : Wrote(p) => app[p] = game.app]_allVars
  BY <1>1
<1> QED BY <1>2, ServiceInvHolds, PTL DEF ServiceSpec, OnlyLiveGameWritten

\* In files without followers of a master code: what the service lists as enabled, while it is at
\* rest, is in the memory of the game that runs, after any restarts of the game, hot reloads,
\* refused reloads, failures and rollbacks (cheat_service.cpp:66-192).
THEOREM FreeListsArePatched == ServiceSpec => [](Free => ListedIsPatched)
<1>1. ServiceInv => (Free => ListedIsPatched)
  <2> SUFFICES ASSUME ServiceInv, Free, Resting, Playing, NEW c \in Ids, enabled[c]
               PROVE  /\ lastPid = big
                      /\ \A s \in Own(c) : Shows(big, c, s, file[c].patches[s[1]].on)
    BY DEF ListedIsPatched
  <2>1. TypeOK /\ Turns /\ Console /\ Focus
    BY DEF ServiceInv
  <2>2. game.pid = big /\ big \in Pids /\ app[big] = game.app /\ game # NoGame
    BY <2>1, LiveType DEF Playing
  <2>3. AgreeInv /\ pc = "idle"
    BY <2>1, <2>2 DEF ServiceInv, Intact, Turns, Resting, AtApplier
  <2>4. EnabledIsPatched
    BY <2>1, <2>3, AgreedIsPatched
  <2>5. lastPid = big
    BY <2>1, <2>2, <2>3, <2>4 DEF EnabledIsPatched, Focus
  <2> QED BY <2>3, <2>4, <2>5 DEF EnabledIsPatched
<1> QED BY <1>1, ServiceInvHolds, PTL

-----------------------------------------------------------------------------
(* No patch without an owner. *)

Quiet == \A c \in Ids : ~enabled[c]
\* Cheats are on only while the service has a file loaded, and a file is replaced, or dropped
\* with its flags, only when all are off; a revert that is clean so far leaves no cheat behind
\* its cursor on, but the one whose call has not ended well yet.
Order ==
  /\ cursor \in Nat
  /\ ~loaded => Quiet
  /\ phase \in {"load", "loading", "reload", "reloading", "stopped"} => Quiet
  /\ phase \in {"probe", "probing"} /\ changed => Quiet
  /\ phase \in {"apply", "applying"} => loaded
  /\ phase = "probing" => op = "probe"
  /\ phase = "revert" /\ pc # "idle" => ~call.on
  /\ pc = "rollback" => outcome \notin Success
  /\ phase = "revert" /\ clean =>
       \A c \in Ids : c < cursor /\ enabled[c] =>
         pc # "idle" /\ c = call.id /\ (pc = "done" => outcome \notin Success)
\* A game that the service does not know yet is as it started.
Untold == \A p \in Pids : app[p] # NoApp /\ app[p] # game.app => mem[p] = Image[p]
\* In the game it knows, what has been patched belongs to a cheat that is on, or is not known;
\* what the game had mapped stays mapped.
Alive == game # NoGame /\ app[game.pid] = game.app
Unclear(x) == Image[game.pid][x] = Unmapped \/ <<game.pid, x>> \in stray \cup wiped
NoOrphans ==
  \A x \in Cells :
    /\ SeenMemory[game.pid][x] = Image[game.pid][x] \/ Owned(x) \/ Unclear(x)
    /\ Image[game.pid][x] # Unmapped => SeenMemory[game.pid][x] # Unmapped
OwnerInv ==
  /\ Order /\ Untold
  /\ HonestDocs /\ Alive /\ (phase = "stopped" => clean) => NoOrphans

LEMMA NoneOwned == Quiet => \A x : ~Owned(x)
BY DEF Quiet, Owned

\* A step that changes neither what is seen of the game nor the flags keeps its orphans away; one
\* that drops the flags does too when all are off.
LEMMA KeepOrphans ==
  ASSUME NoOrphans, Quiet \/ UNCHANGED <<file, enabled, site>>, game'.pid = game.pid,
         SeenMemory'[game.pid] = SeenMemory[game.pid],
         \A x \in Cells : <<game.pid, x>> \in stray \cup wiped =>
                            <<game.pid, x>> \in stray' \cup wiped'
  PROVE  NoOrphans'
<1>1. \A x \in Cells : Unclear(x) => Unclear(x)'
  BY DEF Unclear
<1>2. \A x \in Cells : Owned(x) => Owned(x)'
  <2>1. CASE Quiet
    BY <2>1, NoneOwned
  <2>2. CASE UNCHANGED <<file, enabled, site>>
    BY <2>2 DEF Owned, Sites, Ids
  <2> QED BY <2>1, <2>2
<1> QED BY <1>1, <1>2 DEF NoOrphans

LEMMA InitOwner == ServiceInit => OwnerInv
<1> SUFFICES ASSUME ServiceInit PROVE OwnerInv
  OBVIOUS
<1>1. /\ app = [p \in Pids |-> NoApp] /\ game = NoGame /\ file = <<>> /\ pc = "idle"
      /\ phase = "ready" /\ cursor = 1
  BY DEF ServiceInit
<1>2. Quiet
  BY <1>1 DEF Quiet, Ids
<1> QED BY <1>1, <1>2 DEF OwnerInv, Order, Untold, Alive

\* The steps that change nothing of the applier's state.
LEMMA StillOwner ==
  ASSUME OwnerInv, UNCHANGED vars, Order', (phase' = "stopped" => clean') => phase # "stopped" \/ clean
  PROVE  OwnerInv'
<1>1. UNCHANGED <<app, mem, game, file, enabled, site, pc, call, start, stray, wiped>>
  BY DEF vars, world, cheats, flags, frame, history
<1>2. SeenMemory' = SeenMemory /\ (Alive' <=> Alive) /\ Untold'
  BY <1>1 DEF OwnerInv, SeenMemory, Busy, Alive, Untold
<1>3. NoOrphans => NoOrphans'
  BY <1>1, <1>2, KeepOrphans
<1> QED BY <1>2, <1>3 DEF OwnerInv

LEMMA QuietOwner ==
  ASSUME ServiceInv, OwnerInv,
         EditFile \/ (\E r \in Requests : Ask(r)) \/ SameGame \/ Reverted \/ StopConfirmed
  PROVE  OwnerInv'
<1>1. Order /\ pc \in {"idle", "read", "write", "rollback", "done"} /\ Turns
      /\ \A c \in Ids : c \in Nat /\ c >= 1
  <2>1. Ids = 1..Len(file) /\ Len(file) \in Nat
    BY FileTypes DEF ServiceInv, TypeOK
  <2> QED BY <2>1 DEF OwnerInv, ServiceInv, TypeOK
<1>2. CASE EditFile
  <2>1. UNCHANGED <<file, repo>>
    BY <1>2, EditKeeps DEF EditFile, ServiceInv
  <2>2. UNCHANGED <<vars, op, own>>
    BY <1>2, <2>1 DEF EditFile, vars, cheats, repo
  <2>3. Order'
    BY <1>1, <2>2 DEF Order, Quiet, Ids, own, vars, cheats, flags, frame
  <2> QED BY <2>2, <2>3, StillOwner DEF own
<1>3. CASE \E r \in Requests : Ask(r)
  <2>1. /\ phase = "ready" /\ phase' \in {"look", "stopping"}
        /\ UNCHANGED <<vars, cursor, clean, loaded, changed>>
    BY <1>3 DEF Ask
  <2>2. Order'
    BY <1>1, <2>1 DEF Order, Quiet, Ids, vars, cheats, flags, frame
  <2> QED BY <2>1, <2>2, StillOwner
<1>4. CASE SameGame
  <2>1. /\ phase = "look" /\ phase' = "probe" /\ ~changed'
        /\ UNCHANGED <<vars, cursor, clean, loaded>>
    BY <1>4 DEF SameGame
  <2>2. Order'
    BY <1>1, <2>1 DEF Order, Quiet, Ids, vars, cheats, flags, frame
  <2> QED BY <2>1, <2>2, StillOwner
<1>5. CASE Reverted
  <2>1. /\ phase = "revert" /\ pc = "idle" /\ Left = {} /\ phase' \in {"reload", "ready"}
        /\ UNCHANGED <<vars, cursor, clean, loaded, changed>> /\ (phase' = "reload" => clean)
    BY <1>5 DEF Reverted, RefreshReturns
  <2>2. clean => Quiet
    BY <1>1, <2>1 DEF Order, Quiet, Left
  <2>3. Order'
    BY <1>1, <2>1, <2>2 DEF Order, Quiet, Ids, vars, cheats, flags, frame
  <2> QED BY <2>1, <2>3, StillOwner
<1>6. CASE StopConfirmed
  <2>1. /\ phase = "stopping" /\ phase' = "revert" /\ cursor' = 1
        /\ UNCHANGED <<vars, loaded, changed>>
    BY <1>6 DEF StopConfirmed
  <2>2. pc = "idle"
    BY <1>1, <2>1 DEF Turns, AtApplier
  <2>3. Order'
    BY <1>1, <2>1, <2>2 DEF Order, Quiet, Ids, vars, cheats, flags, frame
  <2> QED BY <2>1, <2>3, StillOwner
<1> QED BY <1>2, <1>3, <1>4, <1>5, <1>6

\* The repository: what it is asked for, and what the service makes of its answers.
LEMMA RepositoryOwner ==
  ASSUME ServiceInv, OwnerInv,
         \/ StartProbe \/ StartLoad \/ StartReload
         \/ ProbeUnchanged \/ ProbeUnchangedForNewProcess \/ ProbeError \/ ProbeChanged
         \/ LoadAnswer \/ ReloadAnswer \/ ReloadError
  PROVE  OwnerInv'
<1>1. Order /\ Turns
  BY DEF OwnerInv, ServiceInv
<1>2. CASE StartProbe \/ StartLoad \/ StartReload
  <2>1. /\ \/ phase = "probe" /\ phase' = "probing" /\ op' = "probe"
           \/ phase = "load" /\ phase' = "loading"
           \/ phase = "reload" /\ phase' = "reloading"
        /\ file' = file
        /\ UNCHANGED <<world, mem, game, flags, pc, frame, outcome, history, changed, cursor, clean,
                       loaded>>
    BY <1>2 DEF StartProbe, StartLoad, StartReload, Call, Repo!Invoke
  <2>2. UNCHANGED vars
    BY <2>1 DEF vars, cheats
  <2>3. Order'
    BY <1>1, <2>1, <2>2 DEF Order, Quiet, Ids, flags, frame
  <2> QED BY <2>1, <2>2, <2>3, StillOwner
<1>3. CASE \/ ProbeUnchanged \/ ProbeUnchangedForNewProcess \/ ProbeError \/ ProbeChanged
           \/ LoadAnswer \/ ReloadAnswer \/ ReloadError
  <2>1. /\ phase \in AtRepository /\ file' = file
        /\ UNCHANGED <<world, mem, game, flags, pc, frame, outcome, history>>
    BY <1>3
    DEF ProbeUnchanged, ProbeUnchangedForNewProcess, ProbeError, ProbeChanged, LoadAnswer,
        ReloadAnswer, ReloadError, Answered, Repo!Retire, AtRepository
  <2>2. UNCHANGED vars
    BY <2>1 DEF vars, cheats
  <2>3. pc = "idle" /\ \A c \in Ids : c \in Nat /\ c >= 1
    <3>1. Ids = 1..Len(file) /\ Len(file) \in Nat
      BY FileTypes DEF ServiceInv, TypeOK
    <3> QED BY <1>1, <2>1, <3>1 DEF Turns, AtRepository, AtApplier
  <2>4. /\ Quiet' <=> Quiet
        /\ UNCHANGED <<enabled, pc, call, outcome>> /\ Ids' = Ids
    BY <2>2 DEF Quiet, Ids, vars, cheats, flags, frame
  <2>5. CASE ProbeUnchanged \/ ProbeError
    <3>1. phase' \in {"ready", "apply"} /\ (phase' = "apply" => loaded)
          /\ UNCHANGED <<cursor, loaded>>
      BY <2>5 DEF ProbeUnchanged, ProbeError, RefreshReturns
    <3> QED BY <1>1, <2>2, <2>3, <2>4, <3>1, StillOwner, <2>1 DEF Order, AtRepository
  <2>6. CASE ProbeUnchangedForNewProcess
    <3>1. phase = "probing" /\ changed /\ phase' = "load" /\ UNCHANGED <<cursor, loaded>>
      BY <2>6 DEF ProbeUnchangedForNewProcess, Answered
    <3> QED BY <1>1, <2>2, <2>3, <2>4, <3>1, StillOwner DEF Order
  <2>7. CASE ProbeChanged
    <3>1. phase = "probing" /\ phase' = (IF loaded THEN "revert" ELSE "reload") /\ cursor' = 1
          /\ UNCHANGED <<loaded>>
      BY <2>7 DEF ProbeChanged, Answered
    <3> QED BY <1>1, <2>2, <2>3, <2>4, <3>1, StillOwner DEF Order
  <2>8. CASE LoadAnswer \/ ReloadAnswer \/ ReloadError
    <3>1. /\ phase \in {"loading", "reloading"} /\ phase' \in {"ready", "apply"}
          /\ phase' = "apply" => loaded'
          /\ UNCHANGED cursor
      BY <2>8 DEF LoadAnswer, ReloadAnswer, ReloadError, RefreshReturns, Answered
    <3> QED BY <1>1, <2>2, <2>3, <2>4, <3>1, StillOwner DEF Order
  <2> QED BY <1>3, <2>5, <2>6, <2>7, <2>8
<1> QED BY <1>2, <1>3

\* A probe opens nothing, and an operation has no result before it is done.
Probing ==
  /\ op = "probe" => at \notin {"open", "read"}
  /\ at # "done" => result = "none"

LEMMA InitProbing == ServiceInit => Probing
BY DEF ServiceInit, Repo!Init, Probing

LEMMA NextProbing == Probing /\ [ServiceNext]_allVars => Probing'
<1> SUFFICES ASSUME Probing, [ServiceNext]_allVars PROVE Probing'
  OBVIOUS
<1>1. CASE UNCHANGED repo
  BY <1>1 DEF Probing, repo
<1>2. CASE EditFile
  BY <1>2
  DEF EditFile, Repo!Edit, Repo!Replace, Repo!Rewrite, Repo!Remove, Repo!Put, Repo!call_, Probing
<1>3. CASE \E name : Repo!Invoke(name, TitleOf[game.app])
  BY <1>3 DEF Repo!Invoke, Probing
<1>4. CASE Repo!Retire
  BY <1>4 DEF Repo!Retire, Probing
<1>5. CASE Repo!Work
  BY <1>5
  DEF Probing, Repo!Work, Repo!TryNext, Repo!Resolve, Repo!Unresolved, Repo!StatError,
      Repo!StatSame, Repo!StatOther, Repo!OpenError, Repo!Open, Repo!ReadAndParse, Repo!LoadFailed,
      Repo!Publish, Repo!Answer, Repo!call_
<1> QED
  BY <1>1, <1>2, <1>3, <1>4, <1>5
  DEF ServiceNext, Launch, Quit, Ask, Works, NoGameRuns, SameGame, OtherGame, StartProbe, StartLoad,
      StartReload, Call, RepoWorks, ProbeUnchanged, ProbeUnchangedForNewProcess, ProbeError,
      ProbeChanged, LoadAnswer, ReloadAnswer, ReloadError, Answered, RevertNext, RevertReturned,
      Reverted, StopConfirmed, Stopped, Apply, Applied, ApplierWorks, allVars

\* A file that is handed over replaces one whose cheats are all off.
LEMMA WorksOwner ==
  ASSUME ServiceInv, OwnerInv, Probing, RepoWorks
  PROVE  OwnerInv'
<1>1. /\ Repo!Work /\ (~Publishes => file' = file /\ UNCHANGED <<flags, site>>)
      /\ Publishes => Fresh(file')
      /\ UNCHANGED <<world, mem, game, pc, frame, outcome, start, caved, stray, wiped, games, own>>
      /\ at \notin {"idle", "done"}
  BY WorkKeeps DEF RepoWorks, ServiceInv
<1>2. /\ UNCHANGED <<app, mem, pc, call, outcome, game, start, stray, wiped, phase, changed, cursor, clean,
                     loaded>>
      /\ phase \in AtRepository /\ pc = "idle"
  BY <1>1 DEF ServiceInv, Turns, AtRepository, AtApplier, world, frame, own
<1>3. op' = op /\ (op = "probe" => ~Publishes)
  <2>1. op' = op
    BY <1>1
    DEF Repo!Work, Repo!TryNext, Repo!Resolve, Repo!Unresolved, Repo!StatError, Repo!StatSame,
        Repo!StatOther, Repo!OpenError, Repo!Open, Repo!ReadAndParse, Repo!call_
  <2>2. ASSUME op = "probe" PROVE result' \notin {"loaded", "failed"}
    <3>1. at \notin {"open", "read"} /\ result = "none"
      BY <1>1, <2>2 DEF Probing
    <3> QED
      BY <1>1, <2>2, <3>1
      DEF Repo!Work, Repo!TryNext, Repo!Resolve, Repo!Unresolved, Repo!StatError, Repo!StatSame,
          Repo!StatOther, Repo!OpenError, Repo!Open, Repo!ReadAndParse, Repo!Answer
  <2> QED BY <2>1, <2>2 DEF Publishes
<1>4. Order
  BY DEF OwnerInv
<1>5. CASE ~Publishes
  <2>1. UNCHANGED vars
    BY <1>1, <1>5 DEF vars, cheats, history
  <2>2. Order'
    BY <1>2, <1>3, <1>4, <2>1 DEF Order, Quiet, Ids, vars, cheats, flags
  <2> QED BY <1>2, <2>1, <2>2, StillOwner
<1>6. CASE Publishes
  <2>1. Quiet
    BY <1>2, <1>3, <1>4, <1>6 DEF Order, AtRepository
  <2>2. Quiet'
    BY <1>1, <1>6 DEF Quiet, Fresh, NoFlags, Ids
  <2>3. Order'
    BY <1>2, <1>3, <1>4, <2>2 DEF Order, AtRepository, Quiet
  <2>4. SeenMemory' = SeenMemory /\ (Alive' <=> Alive) /\ Untold'
    BY <1>2 DEF SeenMemory, Busy, Alive, Untold, OwnerInv
  <2>5. NoOrphans => NoOrphans'
    BY <1>2, <2>1, <2>4, KeepOrphans
  <2> QED BY <1>2, <2>3, <2>4, <2>5 DEF OwnerInv
<1> QED BY <1>5, <1>6

\* A request that finds another game finds it as it started; the end of the service drops what
\* has been reverted.
LEMMA ClearOwner ==
  ASSUME ServiceInv, OwnerInv, NoGameRuns \/ OtherGame \/ Stopped
  PROVE  OwnerInv'
<1>1. /\ Clear /\ UNCHANGED <<world, mem, pc, frame, outcome, start, caved, stray, wiped>>
      /\ phase \in {"look", "stopping", "revert"} /\ (phase = "revert" => pc = "idle")
      /\ UNCHANGED <<cursor, clean>> /\ ~loaded'
      /\ \/ game' = NoGame /\ phase' = "ready" /\ Live = NoGame
         \/ game' = Live /\ Live # NoGame /\ phase' = "probe"
         \/ game' = game /\ phase' = "stopped"
  BY DEF NoGameRuns, OtherGame, Stopped, RefreshReturns
<1>2. UNCHANGED <<app, mem, pc, call, outcome, start, stray, wiped>> /\ file' = <<>>
  BY <1>1 DEF world, frame, Clear
<1>3. TypeOK /\ Turns /\ Console /\ Order /\ Untold /\ pc = "idle"
  BY <1>1 DEF ServiceInv, OwnerInv, Turns, AtApplier
<1>4. Quiet'
  BY <1>1, <1>2 DEF Quiet, Ids
<1>5. Order'
  BY <1>1, <1>2, <1>3, <1>4 DEF Order, Quiet
<1>6. mem \in [Pids -> MemType] /\ SeenMemory' = [p \in Pids |-> mem[p]] /\ SeenMemory = [p \in Pids |-> mem[p]]
  BY <1>2, <1>3 DEF TypeOK, SeenMemory, Busy
<1>7. CASE NoGameRuns
  <2>1. game' = NoGame /\ Live = NoGame
    BY <1>7 DEF NoGameRuns
  <2>2. \A p \in Pids : app[p] = NoApp
    BY <1>3, <2>1, NoPidIsNone DEF Console, Live, NoGame
  <2> QED BY <1>2, <1>5, <2>1, <2>2 DEF OwnerInv, Untold, Alive
<1>8. CASE OtherGame
  <2>1. game' = Live /\ Live # NoGame /\ ~Same(game, Live)
    BY <1>8 DEF OtherGame
  <2>2. big \in Pids /\ game'.pid = big /\ game'.app = app[big] /\ app[big] # NoApp
    BY <1>3, <2>1, LiveType
  <2>3. app[big] # game.app
    BY <1>3, <2>1, <2>2 DEF Console, Same
  <2>4. mem[big] = Image[big]
    BY <1>3, <2>2, <2>3 DEF Untold
  <2>5. Untold'
    BY <1>2, <1>3, <2>2 DEF Untold, Console
  <2>6. NoOrphans'
    BY <1>6, <2>2, <2>4 DEF NoOrphans
  <2> QED BY <1>5, <2>5, <2>6 DEF OwnerInv
<1>9. CASE Stopped
  <2>1. game' = game /\ phase' = "stopped"
    BY <1>9 DEF Stopped
  <2>2. (Alive' <=> Alive) /\ Untold'
    BY <1>2, <1>3, <2>1 DEF Alive, Untold
  <2>3. ASSUME Alive, clean PROVE Quiet
    <3>1. Same(game, Live) /\ game # NoGame
      <4>1. game.pid \in Pids /\ app[game.pid] # NoApp
        BY <1>3, <2>3, PidAssumption DEF Alive, Console
      <4>2. game.pid = big /\ big # NoPid
        BY <1>3, <4>1, NoPidIsNone DEF Console
      <4> QED BY <2>3, <4>2 DEF Same, Live, Alive
    <3>2. phase = "revert" /\ Left = {}
      BY <1>9, <3>1 DEF Stopped
    <3>3. \A c \in Ids : c \in Nat
      BY <1>3, FileTypes DEF TypeOK
    <3> QED BY <1>3, <2>3, <3>2, <3>3 DEF Order, Quiet, Left
  <2>4. Alive /\ clean /\ NoOrphans => NoOrphans'
    BY <1>2, <1>6, <2>1, <2>3, KeepOrphans
  <2> QED BY <1>1, <1>5, <2>1, <2>2, <2>4 DEF OwnerInv
<1> QED BY <1>7, <1>8, <1>9

\* A game that starts is not the one the flags are about.
LEMMA ConsoleOwner ==
  ASSUME ServiceInv, OwnerInv, (\E p \in Pids : Launch(p)) \/ Quit
  PROVE  OwnerInv'
<1>1. TypeOK /\ Turns /\ Console /\ Focus /\ Order /\ Untold /\ app \in [Pids -> Apps \cup {NoApp}]
      /\ mem \in [Pids -> MemType] /\ NoApp \notin Apps
  BY PidAssumption DEF ServiceInv, OwnerInv, TypeOK
<1>2. ASSUME NEW p \in Pids, Launch(p) PROVE OwnerInv'
  <2>1. /\ launches + 1 \in Apps /\ big = NoPid /\ app[p] = NoApp
        /\ phase \in Unsure \/ p # game.pid
        /\ app' = [app EXCEPT ![p] = launches + 1] /\ mem' = [mem EXCEPT ![p] = Image[p]]
        /\ stray' = {s \in stray : s[1] # p} /\ wiped' = {s \in wiped : s[1] # p}
        /\ UNCHANGED <<cheats, flags, pc, frame, outcome, start, site, repo, own>>
    BY <1>2 DEF Launch, Unsure
  <2>2. /\ UNCHANGED <<game, file, enabled, pc, call, outcome, start, site, phase, changed, cursor, clean,
                       loaded, op>>
        /\ Ids' = Ids
    BY <2>1 DEF cheats, flags, frame, own, repo, Ids
  <2>3. Order'
    BY <1>1, <2>2 DEF Order, Quiet
  <2>4. \A q \in Pids : app[q] = NoApp
    BY <1>1, <2>1, NoPidIsNone DEF Console
  <2>5. Untold'
    BY <1>1, <2>1, <2>2, <2>4 DEF Untold
  <2>6. Alive' => FALSE
    <3>1. game # NoGame => game.pid \in Pids /\ game.app \in Apps /\ game.app # launches + 1
      BY <1>1 DEF Console
    <3> QED BY <1>1, <2>1, <2>2, <2>4, <3>1 DEF Alive
  <2> QED BY <2>3, <2>5, <2>6 DEF OwnerInv
<1>3. CASE Quit
  <2>1. /\ app' = [app EXCEPT ![big] = NoApp]
        /\ UNCHANGED <<mem, cheats, flags, pc, frame, outcome, history, repo, own>>
    BY <1>3 DEF Quit, Exit
  <2>2. UNCHANGED <<game, file, enabled, pc, call, outcome, start, site, stray, wiped, phase, changed, cursor,
                    clean, loaded, op, mem>>
    BY <2>1 DEF cheats, flags, frame, history, own, repo
  <2>3. Order'
    BY <1>1, <2>2 DEF Order, Quiet, Ids
  <2>4. \A q \in Pids : app'[q] = app[q] \/ app'[q] = NoApp
    BY <1>1, <2>1
  <2>5. Untold' /\ SeenMemory' = SeenMemory
    BY <1>1, <2>2, <2>4 DEF Untold, SeenMemory, Busy
  <2>6. Alive' => Alive
    <3>1. game # NoGame => game.pid \in Pids /\ game.app \in Apps
      BY <1>1 DEF Console
    <3> QED BY <1>1, <2>2, <2>4, <3>1 DEF Alive
  <2>7. NoOrphans => NoOrphans'
    BY <2>2, <2>5, KeepOrphans
  <2> QED BY <2>2, <2>3, <2>5, <2>6, <2>7 DEF OwnerInv
<1> QED BY <1>2, <1>3

-----------------------------------------------------------------------------
(* Orphans and the calls of the applier. *)

\* Entering a call changes no flag: what is known of the flags is known of the game.
LEMMA EnterQuietly ==
  ASSUME TypeOK, Console, Focus, game # NoGame, NEW id, NEW on \in BOOLEAN, SetEnabled(id, on)
  PROVE  /\ UNCHANGED <<app, mem, game, file, enabled, site, stray, wiped>>
         /\ pc = "idle" /\ pc' \in {"read", "done"} /\ call'.id = id /\ call'.on = on
         /\ pc' = "done" /\ outcome' \in Success => id \in Ids /\ enabled[id] = on
<1>1. \A p \in Targets \cap Pids : p = game.pid
  BY DEF Targets, Hosting, Console
<1>2. ASSUME NEW p \in Pids, Accepts(id, on, p)
      PROVE  /\ UNCHANGED enabled /\ EnabledFor(p) = enabled /\ id \in Ids
             /\ call'.id = id /\ call'.on = on /\ pc = "idle"
  BY <1>1, <1>2 DEF Accepts, EnabledFor, Stale, Focus
<1>3. ASSUME NEW p \in Pids, AlreadySet(id, on, p)
      PROVE  /\ Accepts(id, on, p) /\ EnabledFor(p)[id] = on
             /\ UNCHANGED <<app, mem, game, file, site, stray, wiped>> /\ pc' = "done"
  BY <1>3 DEF AlreadySet, Reply, cheats, world, history
<1>4. ASSUME NEW p \in Pids, Begin(id, on, p) \/ NoBuffer(id, on, p)
      PROVE  /\ Accepts(id, on, p) /\ UNCHANGED <<app, mem, game, file, site, stray, wiped>>
             /\ (pc' = "read" \/ (pc' = "done" /\ outcome' = "memory_error"))
  BY <1>4 DEF Begin, NoBuffer, Changes, Reply, cheats, world
<1>5. ASSUME NEW status \in {"invalid_cheat", "invalid_patch", "module_not_found"},
             Refuse(id, on, status)
      PROVE  /\ UNCHANGED <<app, mem, game, file, enabled, site, stray, wiped>> /\ pc' = "done"
             /\ outcome' \notin Success /\ call'.id = id /\ call'.on = on /\ pc = "idle"
  BY <1>5 DEF Refuse, Reply, cheats, flags, world, history, Success
<1>6. CASE UnknownCheat(id, on) \/ EmptyCheat(id, on) \/ NoModule(id, on)
  BY <1>5, <1>6 DEF UnknownCheat, EmptyCheat, NoModule
<1>7. CASE \E p \in Pids : AlreadySet(id, on, p) \/ Begin(id, on, p) \/ NoBuffer(id, on, p)
  BY <1>2, <1>3, <1>4, <1>7 DEF Success
<1> QED BY <1>6, <1>7 DEF SetEnabled

LEMMA EnterOwner ==
  ASSUME ServiceInv, OwnerInv, NEW id, NEW on \in BOOLEAN, SetEnabled(id, on), phase \notin Unsure,
         UNCHANGED <<repo, loaded, clean>>, Order'
  PROVE  OwnerInv'
<1>1. TypeOK /\ Console /\ Focus /\ game # NoGame /\ Untold
  BY DEF ServiceInv, OwnerInv, Turns
<1>2. UNCHANGED <<app, mem, game, file, enabled, site, stray, wiped>>
  BY <1>1, EnterQuietly
<1>3. SeenMemory' = SeenMemory
  BY SeenAtEntry
<1>4. NoOrphans => NoOrphans'
  BY <1>2, <1>3, KeepOrphans
<1>5. (Alive' <=> Alive) /\ Untold'
  BY <1>1, <1>2 DEF Alive, Untold
<1> QED BY <1>4, <1>5 DEF OwnerInv, Unsure

LEMMA CallOwner ==
  ASSUME ServiceInv, OwnerInv, RevertNext \/ RevertReturned \/ Apply \/ Applied
  PROVE  OwnerInv'
<1>1. TypeOK /\ Turns /\ Console /\ Focus /\ Order /\ Untold
      /\ \A c \in Ids : c \in Nat
  <2>1. Ids = 1..Len(file) /\ Len(file) \in Nat
    BY FileTypes DEF ServiceInv, TypeOK
  <2> QED BY <2>1 DEF ServiceInv, OwnerInv
<1>2. CASE RevertNext
  <2>1. PICK c \in Left : (\A d \in Left : c <= d) /\ SetEnabled(c, FALSE) /\ cursor' = c + 1
    BY <1>2 DEF RevertNext
  <2>2. /\ phase = "revert" /\ phase' = "revert" /\ pc = "idle"
        /\ UNCHANGED <<repo, clean, loaded, changed>>
    BY <1>2 DEF RevertNext
  <2>3. game # NoGame /\ phase \notin Unsure
    BY <1>1, <2>2 DEF Turns, Unsure
  <2>4. /\ UNCHANGED <<file, enabled>> /\ pc' \in {"read", "done"} /\ call'.id = c /\ call'.on = FALSE
        /\ pc' = "done" /\ outcome' \in Success => enabled[c] = FALSE
    BY <1>1, <2>1, <2>3, EnterQuietly
  <2>5. c \in Ids /\ enabled[c] /\ c >= cursor /\ c \in Nat /\ cursor \in Nat
    BY <1>1, <2>1 DEF Left, Order
  <2>6. ASSUME clean, NEW d \in Ids, d < c + 1, enabled[d] PROVE d = c
    <3>1. d >= cursor
      BY <1>1, <2>2, <2>5, <2>6 DEF Order
    <3>2. c <= d
      BY <2>1, <2>6, <3>1 DEF Left
    <3> QED BY <1>1, <2>5, <2>6, <3>2
  <2>7. Order'
    <3>1. cursor' \in Nat /\ Ids' = Ids /\ (Quiet' <=> Quiet)
      BY <2>1, <2>4, <2>5 DEF Ids, Quiet
    <3> QED BY <1>1, <2>1, <2>2, <2>4, <2>5, <2>6, <3>1 DEF Order
  <2> QED BY <2>1, <2>2, <2>3, <2>7, EnterOwner
<1>3. CASE Apply
  <2>1. /\ phase = "apply" /\ phase' = "applying" /\ SetEnabled(request.id, request.on)
        /\ UNCHANGED <<repo, clean, loaded, changed, cursor>>
    BY <1>3 DEF Apply
  <2>2. game # NoGame /\ phase \notin Unsure /\ request.on \in BOOLEAN
    BY <1>1, <2>1 DEF Turns, Unsure
  <2>3. UNCHANGED <<file, enabled>> /\ pc' \in {"read", "done"}
    BY <1>1, <2>1, <2>2, EnterQuietly
  <2>4. Order'
    BY <1>1, <2>1, <2>3 DEF Order, Quiet, Ids
  <2> QED BY <2>1, <2>2, <2>4, EnterOwner
<1>4. CASE RevertReturned \/ Applied
  <2>1. /\ Return /\ UNCHANGED <<cursor, loaded, changed>>
        /\ \/ phase = "revert" /\ phase' = "revert" /\ (clean' => clean /\ outcome \in Success)
           \/ phase = "applying" /\ phase' = "ready"
    BY <1>4 DEF RevertReturned, Applied
  <2>2. /\ UNCHANGED <<app, mem, game, file, enabled, site, stray, wiped>>
        /\ pc = "done" /\ pc' = "idle"
    BY <2>1 DEF Return, world, cheats, flags
  <2>3. SeenMemory' = SeenMemory /\ (Alive' <=> Alive) /\ Untold'
    BY <1>1, <2>2 DEF SeenMemory, Busy, Alive, Untold
  <2>4. Order'
    BY <1>1, <2>1, <2>2 DEF Order, Quiet, Ids
  <2>5. NoOrphans => NoOrphans'
    BY <2>2, <2>3, KeepOrphans
  <2> QED BY <2>1, <2>3, <2>4, <2>5 DEF OwnerInv
<1> QED BY <1>2, <1>3, <1>4

\* Of the numbers up to n that are in a set, one is the last.
LEMMA LastIn ==
  ASSUME NEW n \in Nat, NEW S \in SUBSET (1..n), S # {}
  PROVE  \E k \in S : \A j \in (k + 1)..n : j \notin S
<1> DEFINE T == {n - k : k \in S}
<1>1. T \subseteq Nat /\ T # {}
  <2>1. PICK m \in S : TRUE
    OBVIOUS
  <2>2. n - m \in T
    BY <2>1
  <2>3. \A k \in S : k \in Int /\ n - k \in Nat
    OBVIOUS
  <2> QED BY <2>2, <2>3
<1>2. PICK t \in T : \A u \in T : ~(<<u, t>> \in OpToRel(<, Nat))
  BY <1>1, NatLessThanWellFounded, WFMin
<1>3. \A u \in T : u \in Nat /\ t \in Nat
  BY <1>1
<1>4. \A u \in T : ~(u < t)
  BY <1>2, <1>3, Zenon DEF OpToRel
<1>5. PICK k \in S : t = n - k
  OBVIOUS
<1>6. ASSUME NEW j \in (k + 1)..n, j \in S PROVE FALSE
  <2>1. n - j \in T /\ n - j < n - k
    BY <1>6
  <2> QED BY <1>4, <1>5, <2>1
<1> QED BY <1>6

\* The patches of an honest file: what they write when they are taken back is the game's own.
LEMMA HonestPatch ==
  ASSUME TypeOK, Library, HonestDocs, OffsetsFixed, NEW c \in Ids,
         NEW k \in 1..Len(file[c].patches), NEW p \in Pids
  PROVE  /\ Len(file[c].patches[k].on) <= Len(file[c].patches[k].off)
         /\ \A x \in Span(AddressOf(p, c, k), Len(file[c].patches[k].off)) :
              Image[p][x] \in {file[c].patches[k].off[x - AddressOf(p, c, k) + 1], Unmapped}
<1>1. file \in Docs
  BY DEF Library, Ids
<1>2. Honest(file[c])
  BY <1>1 DEF HonestDocs, Ids
<1>3. k \in DOMAIN file[c].patches
  <2>1. file[c].patches \in Seq(PatchType)
    BY FileTypes DEF TypeOK
  <2> QED BY <2>1, LenType
<1>4. OffsetOf(c, k) = file[c].patches[k].offset
  BY DEF OffsetOf, OffsetsFixed, FirstOffsets, Ids
<1>5. AddressOf(p, c, k) =
        PatchAddress(file[c].patches[k], file[c].patches[k].offset, p \in Ps2, Base[p])
  BY <1>4 DEF AddressOf
<1> QED BY <1>2, <1>3, <1>5 DEF Honest

LEMMA HonestIsFree ==
  ASSUME Library, HonestDocs
  PROVE  Free
<1>1. CASE file = <<>>
  BY <1>1 DEF Free, Ids
<1>2. CASE file \in Docs
  BY <1>2 DEF Free, Ids, HonestDocs, Honest
<1> QED BY <1>1, <1>2 DEF Library

\* What a step of a call does to flags and lists of cells.
LEMMA StepChanges ==
  ASSUME TypeOK, Step
  PROVE  /\ Busy /\ Target \in Pids /\ UNCHANGED <<app, game, file, call, start>>
         /\ \/ /\ Busy' /\ UNCHANGED <<enabled, site>> /\ stray \subseteq stray' /\ wiped \subseteq wiped'
            \/ RolledBack \/ (WritePatch /\ LastPatch /\ Finish)
         /\ pc' = "rollback" =>
              \/ outcome' \in {"invalid_patch", "memory_error"}
              \/ pc = "rollback" /\ outcome' = outcome
<1>1. Busy /\ Target \in Pids /\ UNCHANGED <<app, game, file, call>>
  BY StepTargets DEF world, Target
<1>2. ASSUME InvalidPatch \/ ReadError \/ WriteError
      PROVE  /\ Busy' /\ UNCHANGED <<enabled, site, stray, wiped, start>> /\ pc' = "rollback"
             /\ outcome' \in {"invalid_patch", "memory_error"}
  BY <1>2 DEF InvalidPatch, ReadError, WriteError, Fail, Busy, flags, history
<1>3. ASSUME SaveBytes \/ MapCodeCave
      PROVE  /\ Busy' /\ UNCHANGED <<enabled, site, stray, start>> /\ wiped \subseteq wiped'
             /\ pc' = "write"
  BY <1>3 DEF SaveBytes, MapCodeCave, MapsPages, Save, Busy, flags
<1>4. ASSUME ProtectError
      PROVE  /\ Busy' /\ UNCHANGED <<enabled, site, stray, start>> /\ wiped \subseteq wiped'
             /\ pc' = "rollback" /\ outcome' = "memory_error"
  BY <1>4 DEF ProtectError, MapsPages, Fail, Busy, flags
<1>5. ASSUME WritePatch
      PROVE  /\ UNCHANGED start /\ pc' \in {"read", "done"}
             /\ \/ Busy' /\ UNCHANGED <<enabled, site, stray, wiped>>
                \/ LastPatch /\ Finish
  BY <1>5 DEF WritePatch, Advance, Finish, Reply, Busy
<1>6. ASSUME Restore \/ RestoreError
      PROVE  /\ Busy' /\ UNCHANGED <<enabled, site, wiped, start, outcome>> /\ stray \subseteq stray'
             /\ pc = "rollback"
  BY <1>6 DEF Restore, RestoreError, Busy, flags, history
<1>7. ASSUME RolledBack
      PROVE  UNCHANGED start /\ pc' = "done"
  BY <1>7 DEF RolledBack, Reply, history
<1> QED BY <1>1, <1>2, <1>3, <1>4, <1>5, <1>6, <1>7 DEF Step

\* The order of things during a call.
LEMMA StepOrder ==
  ASSUME ServiceInv, OwnerInv, ApplierWorks
  PROVE  Order' /\ Untold'
<1>1. TypeOK /\ Turns /\ Console /\ Focus /\ Order /\ Untold /\ SwitchPending /\ Step
      /\ UNCHANGED <<repo, own>> /\ Busy /\ call.id \in Ids /\ call.on \in BOOLEAN
      /\ mem \in [Pids -> MemType]
  BY StepTargets, BusyTypes DEF ServiceInv, OwnerInv, ApplierWorks, TypeOK
<1>2. /\ UNCHANGED <<app, game, file, call, phase, changed, cursor, clean, loaded, op>> /\ Ids' = Ids
      /\ phase \in AtApplier /\ pc' # "idle" /\ call.pid = game.pid /\ Intact
  <2>1. pc # "idle" /\ call.pid \in Pids /\ pc' # "idle" /\ UNCHANGED <<app, game, file, call>>
    BY <1>1, StepTargets DEF Busy, world
  <2>2. phase \in AtApplier /\ phase \notin Unsure
    BY <1>1, <2>1 DEF Turns, AtApplier, Unsure
  <2> QED BY <1>1, <2>1, <2>2, NoPidIsNone DEF Focus, own, repo, Ids
<1>3. Untold'
  <2>1. SUFFICES ASSUME NEW p \in Pids, app[p] # NoApp, app[p] # game.app PROVE mem'[p] = Image[p]
    BY <1>2 DEF Untold
  <2>2. mem'[p] # mem[p] => p = game.pid /\ app[game.pid] # NoApp
    BY <1>1, <1>2, StepWrites
  <2> QED BY <1>1, <1>2, <2>1, <2>2 DEF Untold, Intact
<1>4. /\ pc' = "rollback" => outcome' \notin Success
      /\ \/ UNCHANGED enabled /\ (pc' = "done" => outcome' \notin Success)
         \/ enabled' = [enabled EXCEPT ![call.id] = call.on]
  <2>1. pc' = "rollback" => outcome' \notin Success
    BY <1>1, StepChanges DEF Order, Success
  <2>2. CASE Busy' /\ UNCHANGED enabled
    BY <2>1, <2>2 DEF Busy
  <2>3. CASE RolledBack
    BY <1>1, <2>1, <2>3 DEF RolledBack, Reply, Order, Success, flags
  <2>4. CASE Finish
    BY <2>1, <2>4 DEF Finish
  <2> QED BY <1>1, <2>2, <2>3, <2>4, StepChanges
<1>5. ASSUME ~loaded PROVE Quiet'
  <2>1. Quiet /\ phase = "revert" /\ ~call.on
    BY <1>1, <1>2, <1>5 DEF Order, AtApplier, Busy
  <2> QED BY <1>1, <1>2, <1>4, <2>1 DEF Quiet, TypeOK
<1>6. ASSUME phase = "revert", clean, NEW c \in Ids, c < cursor, enabled'[c]
      PROVE  c = call.id /\ (pc' = "done" => outcome' \notin Success)
  <2>1. ~call.on
    BY <1>1, <1>6 DEF Order, Busy
  <2>2. enabled[c] /\ (c = call.id => UNCHANGED enabled /\ (pc' = "done" => outcome' \notin Success))
    BY <1>1, <1>4, <1>6, <2>1 DEF TypeOK
  <2> QED BY <1>1, <1>6, <2>2 DEF Order
<1> QED BY <1>1, <1>2, <1>3, <1>4, <1>5, <1>6 DEF Order, AtApplier, Busy

\* A step that does not end the call is not seen.
LEMMA BusyOrphans ==
  ASSUME TypeOK, Step, Busy', NoOrphans, UNCHANGED <<enabled, site>>,
         stray \subseteq stray', wiped \subseteq wiped'
  PROVE  NoOrphans'
<1>1. Busy /\ UNCHANGED <<game, file, call, start>>
  BY StepChanges
<1>2. ASSUME NEW p \in Pids \ {Target} PROVE mem'[p] = mem[p]
  BY <1>2, StepWrites DEF Target
<1>3. SeenMemory' = SeenMemory
  BY <1>1, <1>2, HiddenWhileBusy
<1> QED BY <1>1, <1>3, KeepOrphans

\* The end of a rollback: what was there before is there, or known to be lost.
LEMMA FailOrphans ==
  ASSUME TypeOK, RollbackInv, AgreeInv, NoOrphans, RolledBack, game.pid = Target
  PROVE  NoOrphans'
<1>1. /\ Busy /\ Target \in Pids /\ mem \in [Pids -> MemType] /\ Last = 0 /\ pc' = "done"
      /\ UNCHANGED <<game, file, enabled, site, mem, call, stray, wiped, start>>
  BY BusyTypes DEF Busy, RolledBack, Reply, cheats, flags, frame, history, TypeOK
<1>2. SeenMemory[Target] = start /\ SeenMemory'[Target] = mem[Target]
  BY <1>1 DEF SeenMemory, Busy, Target
<1>3. \A x : (Unclear(x)' <=> Unclear(x)) /\ (Owned(x)' <=> Owned(x))
  BY <1>1 DEF Unclear, Owned, Sites, Ids
<1>4. ASSUME NEW x \in Cells
      PROVE  /\ mem[Target][x] = Image[Target][x] \/ Owned(x) \/ Unclear(x)
             /\ Image[Target][x] # Unmapped => mem[Target][x] # Unmapped
  <2>1. /\ start[x] = Image[Target][x] \/ Owned(x) \/ Unclear(x)
        /\ Image[Target][x] # Unmapped => start[x] # Unmapped
    BY <1>2 DEF NoOrphans
  <2>2. /\ x \in caved => start[x] = Unmapped \/ <<Target, x>> \in wiped
        /\ start[x] # Unmapped => mem[Target][x] # Unmapped
    BY <1>1 DEF AgreeInv, CavesAreKnown
  <2>3. x \notin caved => Untouched(x)
    BY <1>1 DEF RollbackInv, UncoveredIsUntouched
  <2> QED BY <2>1, <2>2, <2>3 DEF Untouched, Unclear
<1> QED BY <1>1, <1>2, <1>3, <1>4 DEF NoOrphans

\* The write of the last patch.
LEMMA FinishOrphans ==
  ASSUME TypeOK, Library, RollbackInv, AgreeInv, SwitchPending, HonestDocs, NoOrphans,
         WritePatch, LastPatch, Finish, game.pid = Target
  PROVE  NoOrphans'
<1> DEFINE id == call.id
<1>1. /\ Busy /\ Patching /\ pc = "write" /\ pc' = "done" /\ id \in Ids /\ Target \in Pids
      /\ mem \in [Pids -> MemType] /\ Address \in Cells /\ Address \in Int /\ call.on \in BOOLEAN
      /\ UNCHANGED <<game, file, offset, call, snaps, start, caved>> /\ Ids' = Ids
      /\ Wanted \in Seq(Byte) /\ Size = Len(Wanted) /\ Size \in Nat
      /\ mem' = [mem EXCEPT ![Target] = Overlay(@, Address, Wanted, Size)]
  BY BusyTypes, AddrAssumption
  DEF WritePatch, Finish, Reply, LastPatch, Busy, Patching, TypeOK, cheats, Ids, Cells
<1>2. /\ lastPid' = Target /\ enabled' = [enabled EXCEPT ![id] = call.on]
      /\ stray' = stray \ Written(Target)
      /\ wiped' = wiped \ {s \in Written(Target) : s[2] \notin caved}
      /\ site' = IF call.on
                 THEN [site EXCEPT ![id] = [k \in 1..Last |-> snaps[k].address]] ELSE site
  BY DEF Finish
<1>3. OffsetsFixed /\ Placed /\ Trail /\ Latest /\ CavesAreKnown /\ DOMAIN site = Ids
      /\ DOMAIN enabled = Ids /\ enabled[id] # call.on /\ lastPid \in {Target, NoPid}
  BY <1>1 DEF AgreeInv, OffsetsFixed, TypeOK, Ids, SwitchPending
<1>4. Last = Len(file[id].patches) /\ Last = next /\ Last \in Nat /\ Last > 0
  BY <1>1, <1>3, BusyTypes DEF Trail, LastPatch
<1>5. \A k \in 1..Last :
        /\ snaps[k].address = AddressOf(Target, id, k)
        /\ \A x \in Cells : Covered(k, x) <=>
             x \in Span(AddressOf(Target, id, k), Len(BytesOf(id, k, call.on)))
  BY <1>1, <1>3, <1>4, CoveredIsPatch DEF Trail
<1>6. SeenMemory[Target] = start /\ SeenMemory'[Target] = mem'[Target]
      /\ LatestUpTo(Last, mem'[Target])
  BY <1>1, <1>3, <1>4, WriteLatest DEF SeenMemory, Busy, Target
<1>7. ASSUME NEW x \in Cells PROVE Image[Target][x] # Unmapped => mem'[Target][x] # Unmapped
  <2>1. Image[Target][x] # Unmapped => mem[Target][x] # Unmapped
    BY <1>1, <1>3, <1>6 DEF NoOrphans, CavesAreKnown
  <2>2. CASE x \in Span(Address, Size)
    <3>1. x - Address + 1 \in 1..Len(Wanted)
      BY <1>1, <2>2, SpanIndex
    <3>2. Wanted[x - Address + 1] \in Byte
      BY <1>1, <3>1
    <3>3. mem'[Target][x] = Wanted[x - Address + 1]
      BY <1>1, <2>2, OverlayInside
    <3> QED BY <3>2, <3>3, ByteAssumption
  <2>3. CASE x \notin Span(Address, Size)
    BY <1>1, <2>1, <2>3, OverlayOutside
  <2> QED BY <2>2, <2>3
<1>8. \A d \in Ids \ {id} : enabled'[d] = enabled[d] /\ site'[d] = site[d] /\ Sites(d)' = Sites(d)
  BY <1>1, <1>2, <1>3 DEF Sites
\* a cell the call did not write
<1>9. ASSUME NEW x \in Cells, \A k \in 1..Last : ~Covered(k, x)
      PROVE  mem'[Target][x] = Image[Target][x] \/ Owned(x)' \/ Unclear(x)'
  <2>1. <<Target, x>> \notin Written(Target)
    BY <1>9 DEF Written, Covered
  <2>2. Unclear(x) => Unclear(x)'
    BY <1>1, <1>2, <2>1 DEF Unclear
  <2>3. mem'[Target][x] = mem[Target][x]
    <3>1. x \notin Span(Address, Size)
      BY <1>1, <1>4, <1>5, <1>9 DEF Address, Size, Wanted, Patch, BytesOf
    <3> QED BY <1>1, <3>1, OverlayOutside
  <2>4. Owned(x) => Owned(x)'
    <3>1. SUFFICES ASSUME NEW d \in Ids, enabled[d], NEW s \in Sites(d), s[2] = x PROVE Owned(x)'
      BY DEF Owned
    <3>2. CASE d # id
      BY <1>1, <1>8, <3>1, <3>2 DEF Owned
    <3>3. CASE d = id
      <4>1. ~call.on /\ lastPid = Target /\ site[id] = Places(Target, id)
        BY <1>1, <1>3, <3>1, <3>3 DEF Placed
      <4>2. s[1] \in 1..Last /\ x \in Span(AddressOf(Target, id, s[1]), Len(file[id].patches[s[1]].on))
        BY <1>4, <3>1, <3>3, <4>1 DEF Sites, Places
      <4>3. /\ Len(file[id].patches[s[1]].on) <= Len(file[id].patches[s[1]].off)
            /\ AddressOf(Target, id, s[1]) \in Int
            /\ Len(file[id].patches[s[1]].on) \in Int /\ Len(file[id].patches[s[1]].off) \in Int
        <5>1. file[id].patches[s[1]].on \in Seq(Byte) /\ file[id].patches[s[1]].off \in Seq(Byte)
          BY <1>1, <1>4, <4>2, FileTypes DEF TypeOK
        <5>2. Len(file[id].patches[s[1]].on) \in Nat /\ Len(file[id].patches[s[1]].off) \in Nat
          BY <5>1, LenType
        <5>3. s[1] \in 1..Len(file[id].patches)
          BY <1>4, <4>2
        <5>4. Len(file[id].patches[s[1]].on) <= Len(file[id].patches[s[1]].off)
          BY <1>1, <1>3, <5>3, HonestPatch
        <5>5. AddressOf(Target, id, s[1]) \in Int
          BY <1>1, <5>3, BytesOfType
        <5> QED BY <5>2, <5>4, <5>5
      <4>4. x \in Span(AddressOf(Target, id, s[1]), Len(BytesOf(id, s[1], call.on)))
        BY <4>1, <4>2, <4>3, SpanMonotone DEF BytesOf
      <4> QED BY <1>5, <1>9, <4>2, <4>4
    <3> QED BY <3>2, <3>3
  <2>5. /\ start[x] = Image[Target][x] \/ Owned(x) \/ Unclear(x)
        /\ Image[Target][x] # Unmapped => start[x] # Unmapped
    BY <1>6 DEF NoOrphans
  <2>6. CASE x \in caved
    BY <1>1, <1>3, <2>2, <2>5, <2>6 DEF CavesAreKnown, Unclear
  <2>7. CASE x \notin caved
    <3>1. mem[Target][x] = start[x]
      BY <1>1, <1>9, <2>7 DEF RollbackInv, UncoveredIsUntouched, Untouched
    <3> QED BY <2>2, <2>3, <2>4, <2>5, <3>1
  <2> QED BY <2>6, <2>7
\* a cell it wrote to switch the cheat on belongs to it now
<1>10. ASSUME NEW x \in Cells, NEW k \in 1..Last, Covered(k, x), call.on PROVE Owned(x)'
  <2>1. site'[id] = [j \in 1..Last |-> snaps[j].address] /\ enabled'[id]
    BY <1>1, <1>2, <1>3, <1>10
  <2>2. x \in Span(site'[id][k], Len(file[id].patches[k].on))
    BY <1>5, <1>10, <2>1 DEF BytesOf
  <2>3. <<k, x>> \in Sites(id)'
    BY <1>1, <1>10, <2>1, <2>2 DEF Sites
  <2> QED BY <1>1, <2>1, <2>3 DEF Owned
\* one it wrote to switch it off is as the game had it
<1>11. ASSUME NEW x \in Cells, NEW i \in 1..Last, Covered(i, x), ~call.on
       PROVE  mem'[Target][x] = Image[Target][x] \/ Unclear(x)'
  <2>1. PICK k \in {j \in 1..Last : Covered(j, x)} :
          \A j \in (k + 1)..Last : j \notin {l \in 1..Last : Covered(l, x)}
    <3>1. {j \in 1..Last : Covered(j, x)} \in SUBSET (1..Last) /\ {j \in 1..Last : Covered(j, x)} # {}
      BY <1>11
    <3> QED BY <1>4, <3>1, LastIn
  <2>2. k \in 1..Last /\ Covered(k, x) /\ \A j \in (k + 1)..Last : ~Covered(j, x)
    <3>1. \A j \in (k + 1)..Last : j \in 1..Last
      BY <1>4, <2>1
    <3> QED BY <2>1, <3>1
  <2>3. \/ mem'[Target][x] = file[id].patches[k].off[x - AddressOf(Target, id, k) + 1]
        \/ x \in caved /\ <<Target, x>> \in wiped
    BY <1>5, <1>6, <1>11, <2>2 DEF LatestUpTo, BytesOf
  <2>4. Image[Target][x] \in {file[id].patches[k].off[x - AddressOf(Target, id, k) + 1], Unmapped}
    <3>1. x \in Span(AddressOf(Target, id, k), Len(file[id].patches[k].off))
      BY <1>5, <1>11, <2>2 DEF BytesOf
    <3> QED BY <1>1, <1>3, <1>4, <2>2, <3>1, HonestPatch
  <2>5. x \in caved /\ <<Target, x>> \in wiped => <<Target, x>> \in wiped'
    BY <1>2
  <2> QED BY <1>1, <2>3, <2>4, <2>5 DEF Unclear, Target
<1> QED
  <2>1. game'.pid = Target
    BY <1>1
  <2>2. SUFFICES ASSUME NEW x \in Cells
                 PROVE  /\ mem'[Target][x] = Image[Target][x] \/ Owned(x)' \/ Unclear(x)'
                        /\ Image[Target][x] # Unmapped => mem'[Target][x] # Unmapped
    BY <1>6, <2>1 DEF NoOrphans
  <2> QED BY <1>1, <1>7, <1>9, <1>10, <1>11

LEMMA StepOwner ==
  ASSUME ServiceInv, OwnerInv, ApplierWorks
  PROVE  OwnerInv'
<1>1. TypeOK /\ Library /\ Turns /\ Console /\ Focus /\ RollbackInv /\ SwitchPending /\ Step
      /\ UNCHANGED own /\ (Free /\ Intact => AgreeInv)
  BY DEF ServiceInv, ApplierWorks
<1>2. /\ Busy /\ UNCHANGED <<app, game, file, call, start>> /\ Target \in Pids /\ Target = call.pid
  BY <1>1, StepChanges DEF Target
<1>3. phase \notin Unsure /\ phase # "stopped" /\ phase' = phase /\ game.pid = Target /\ Intact
  <2>1. phase \notin Unsure /\ phase # "stopped"
    BY <1>1, <1>2 DEF Turns, Busy, AtApplier, Unsure
  <2> QED BY <1>1, <1>2, <2>1, NoPidIsNone DEF Focus, own
<1>4. ASSUME HonestDocs, Alive, NoOrphans PROVE NoOrphans'
  <2>1. AgreeInv
    BY <1>1, <1>3, <1>4, HonestIsFree
  <2> QED
    BY <1>1, <1>2, <1>3, <1>4, <2>1, StepChanges, BusyOrphans, FailOrphans, FinishOrphans
<1>5. Alive' <=> Alive
  BY <1>2 DEF Alive
<1> QED BY <1>3, <1>4, <1>5, StepOrder DEF OwnerInv

LEMMA NextOwner == ServiceInv /\ OwnerInv /\ Probing /\ [ServiceNext]_allVars => OwnerInv'
<1> SUFFICES ASSUME ServiceInv, OwnerInv, Probing, [ServiceNext]_allVars PROVE OwnerInv'
  OBVIOUS
<1>1. CASE Works
  BY <1>1, QuietOwner, RepositoryOwner, WorksOwner, ClearOwner, CallOwner, StepOwner DEF Works
<1>2. CASE UNCHANGED allVars
  <2>1. UNCHANGED <<vars, op, phase, changed, cursor, clean, loaded>>
    BY <1>2 DEF allVars, own, repo
  <2>2. Order'
    BY <2>1 DEF OwnerInv, Order, Quiet, Ids, vars, cheats, flags, frame
  <2> QED BY <2>1, <2>2, StillOwner
<1> QED BY <1>1, <1>2, ConsoleOwner, QuietOwner DEF ServiceNext

LEMMA OwnerInvHolds == ServiceSpec => [](ServiceInv /\ OwnerInv)
BY InitService, InitProbing, InitOwner, NextService, NextProbing, NextOwner, PTL DEF ServiceSpec

\* In files whose patches put back what the game has there, overlapping or not: while the service
\* rests, every byte of the running game that is not the game's own belongs to a cheat the
\* service lists as enabled, or is in a code cave, or is known to be lost: through hot reloads,
\* refused ones, restarts of the game, failures, rollbacks, and a stop whose reverts succeeded
\* (cheat_service.cpp:50-84, 88-145).
THEOREM NoPatchIsOrphaned == ServiceSpec => [](HonestDocs => NoOrphanPatches)
<1>1. ServiceInv /\ OwnerInv => (HonestDocs => NoOrphanPatches)
  <2> SUFFICES ASSUME ServiceInv, OwnerInv, HonestDocs, Resting, Playing,
                      phase = "stopped" => clean, NEW x \in Cells
               PROVE  \/ mem[big][x] = Image[big][x] \/ Image[big][x] = Unmapped
                      \/ Owned(x) \/ <<big, x>> \in stray \cup wiped
    BY DEF NoOrphanPatches
  <2>1. TypeOK /\ Turns /\ Console
    BY DEF ServiceInv
  <2>2. game.pid = big /\ big \in Pids /\ app[big] = game.app /\ game # NoGame
    BY <2>1, LiveType DEF Playing
  <2>3. Alive /\ pc = "idle"
    BY <2>1, <2>2 DEF Alive, Turns, Resting, AtApplier
  <2>4. NoOrphans /\ SeenMemory[big] = mem[big]
    BY <2>2, <2>3 DEF OwnerInv, SeenMemory, Busy
  <2> QED BY <2>2, <2>4 DEF NoOrphans, Unclear
<1> QED BY <1>1, OwnerInvHolds, PTL

-----------------------------------------------------------------------------
(* A file that has not changed is served. A probe that answers "unchanged" leaves the list as it *)
(* is: that is right only if the file was taken in by a load of this process, or by a reload, and *)
(* not dropped since. It holds as long as a title has one file at a time: with two, removing the  *)
(* one of higher precedence brings the other back with a signature that was never given up.      *)

OneFileEach ==
  \A t \in Titles, j, k \in DOMAIN Formats : Repo!Exists(t, j) /\ Repo!Exists(t, k) => j = k

Signed == signature # Repo!NoSig
\* the file that the signature was taken from is not there any more, and will not be again
Gone == disk[signature.title][signature.format].stamp # signature.stamp
\* the signature is of a file of the game's title
Ours == Signed /\ game # NoGame /\ signature.title = TitleOf[game.app]

Genuine(f) ==
  f # Repo!Absent => f.inode > 0 /\ f.stamp \in 1..edits /\ f.doc \in Docs \cup {Broken}
Stamped ==
  /\ \A t \in Titles, k \in DOMAIN Formats : Genuine(disk[t][k])
  /\ at = "read" => handle # Repo!Absent /\ Genuine(handle)
  /\ Signed => /\ signature \in [title : Titles, format : DOMAIN Formats, stamp : Nat]
               /\ signature.stamp \in 1..edits
\* What the repository has been asked.
Named ==
  /\ phase \in AtRepository => title = TitleOf[game.app]
  /\ phase = "probing" => op = "probe"
  /\ phase = "loading" => op = "load"
  /\ phase = "reloading" => op = "reload"
  /\ phase \in {"load", "loading"} => changed
  /\ phase = "stopping" => request.kind = "stop"
\* A probe passes no file by: while the signed file is there, it finds it and calls it unchanged.
Recognised ==
  phase = "probing" =>
    /\ Ours /\ ~Gone => /\ at = "resolve" => format <= signature.format
                        /\ at = "stat" => format = signature.format
                        /\ at = "done" => result = "unchanged"
    /\ at = "done" /\ result = "unchanged" => Ours
Reloaded == phase = "reloading" /\ at = "done" /\ result = "loaded"
\* So the signed file of the game is gone by the time a reload is thought of; a reload then never
\* finds it unchanged.
Outdated ==
  /\ /\ phase \in {"reload", "reloading"} \/ (phase = "revert" /\ request.kind # "stop")
     /\ Ours
     => Gone \/ Reloaded
  /\ phase = "reloading" /\ at = "done" => result # "unchanged" /\ (result = "missing" => ~Signed)
  /\ Reloaded => file \in Docs
  /\ phase = "loading" /\ at = "done" /\ result = "failed" => ~Signed
\* The list is dropped before its file is gone only for a new process, which then loads it.
Missed ==
  game # NoGame /\ ~loaded /\ Ours =>
    \/ Gone \/ Reloaded \/ phase = "stopped"
    \/ changed /\ phase \in {"probe", "probing", "load", "loading"}
Served == phase = "ready" /\ reply /\ game # NoGame /\ Signed => Gone \/ loaded
SignedInv == Stamped /\ Named /\ Recognised /\ Outdated /\ Missed /\ Served

LEMMA InitSigned == ServiceInit => SignedInv
<1> SUFFICES ASSUME ServiceInit PROVE SignedInv
  OBVIOUS
<1>1. /\ phase = "ready" /\ game = NoGame /\ signature = Repo!NoSig /\ at = "idle"
      /\ disk = [t \in Titles |-> [k \in DOMAIN Formats |-> Repo!Absent]]
  BY DEF ServiceInit, Repo!Init
<1>2. Stamped
  BY <1>1 DEF Stamped, Signed, Genuine
<1> QED
  BY <1>1, <1>2
  DEF SignedInv, Named, Recognised, Reloaded, Outdated, Missed, Served, Ours, Signed, AtRepository

\* No stamp comes back: a file that is gone stays so.
LEMMA EditStamps ==
  ASSUME Library, Stamped, Repo!Edit
  PROVE  Stamped' /\ (Signed /\ Gone => Gone')
<1>1. PICK t \in Titles, k \in DOMAIN Formats :
        \/ \E d \in Docs \cup {Broken} : Repo!Replace(t, k, d) \/ Repo!Rewrite(t, k, d)
        \/ Repo!Remove(t, k)
  BY DEF Repo!Edit
<1>2. edits \in Nat /\ edits + 1 \in Nat /\ disk[t][k] \in Content /\ disk[t][k].inode \in Nat
  BY ContentType DEF Library
<1> DEFINE Fits(f) == f # Repo!Absent =>
                        f.inode > 0 /\ f.stamp = edits + 1 /\ f.doc \in Docs \cup {Broken}
           Fine(f) == f # Repo!Absent =>
                        f.inode > 0 /\ f.stamp \in 1..edits' /\ f.doc \in Docs \cup {Broken}
<1>3. \E f \in Content : Fits(f) /\ Repo!Put(t, k, f)
  <2>1. CASE Repo!Remove(t, k)
    <3>1. Repo!Absent \in Content
      BY DEF Repo!Absent, Content
    <3> QED BY <2>1, <3>1 DEF Repo!Remove
  <2>2. ASSUME NEW d \in Docs \cup {Broken}, Repo!Replace(t, k, d) \/ Repo!Rewrite(t, k, d)
        PROVE  \E i \in Nat : i > 0 /\ Repo!Put(t, k, [inode |-> i, stamp |-> edits + 1, doc |-> d])
    <3>1. CASE Repo!Replace(t, k, d)
      <4>1. edits + 1 > 0
        BY <1>2
      <4> QED BY <1>2, <3>1, <4>1 DEF Repo!Replace
    <3>2. CASE Repo!Rewrite(t, k, d)
      <4>1. disk[t][k].inode > 0
        BY <3>2 DEF Repo!Rewrite, Repo!Exists, Stamped, Genuine
      <4> QED BY <1>2, <3>2, <4>1 DEF Repo!Rewrite
    <3> QED BY <2>2, <3>1, <3>2
  <2>3. ASSUME NEW d \in Docs \cup {Broken}, Repo!Replace(t, k, d) \/ Repo!Rewrite(t, k, d)
        PROVE  \E f \in Content : Fits(f) /\ Repo!Put(t, k, f)
    <3>1. PICK i \in Nat : i > 0 /\ Repo!Put(t, k, [inode |-> i, stamp |-> edits + 1, doc |-> d])
      BY <2>2, <2>3
    <3>2. [inode |-> i, stamp |-> edits + 1, doc |-> d] \in Content
      BY <1>2 DEF Content
    <3> QED BY <3>1, <3>2
  <2> QED BY <1>1, <2>1, <2>3
<1>4. PICK f \in Content : Fits(f) /\ Repo!Put(t, k, f)
  BY <1>3
<1>5. /\ edits' = edits + 1 /\ disk' = [disk EXCEPT ![t][k] = f]
      /\ UNCHANGED <<signature, at, handle>>
  BY <1>4 DEF Repo!Put
<1>6. \A u \in Titles, j \in DOMAIN Formats :
        disk'[u][j] = IF u = t /\ j = k THEN f ELSE disk[u][j]
  BY <1>5 DEF Library
<1>7. \A n \in 1..edits : n \in 1..edits' /\ n # edits + 1 /\ n # 0
  BY <1>2, <1>5
<1>8. \A g : Genuine(g) => Fine(g)
  BY <1>7 DEF Genuine
<1>9. Fine(f)
  BY <1>2, <1>4, <1>5
<1>10. Stamped'
  <2>1. \A u \in Titles, j \in DOMAIN Formats : Fine(disk'[u][j])
    BY <1>6, <1>8, <1>9 DEF Stamped
  <2>2. at' = "read" => handle' # Repo!Absent /\ Fine(handle')
    BY <1>5, <1>8 DEF Stamped
  <2>3. Signed' => /\ signature' \in [title : Titles, format : DOMAIN Formats, stamp : Nat]
                   /\ signature'.stamp \in 1..edits'
    BY <1>5, <1>7 DEF Stamped, Signed
  <2> QED BY <2>1, <2>2, <2>3 DEF Stamped, Genuine
<1>11. Signed /\ Gone => Gone'
  <2>1. f.stamp \in {0, edits + 1}
    BY <1>4 DEF Repo!Absent
  <2> QED BY <1>5, <1>6, <1>7, <2>1 DEF Stamped, Gone
<1> QED BY <1>10, <1>11

\* A step of the repository signs what it hands over, or forgets what was signed, or keeps it.
LEMMA WorkStamps ==
  ASSUME Library, Stamped, Probing, Repo!Work
  PROVE  /\ Stamped' /\ UNCHANGED <<disk, edits, op, title>> /\ at \notin {"idle", "done"}
         /\ signature' = signature \/ ~Signed' \/ (at' = "done" /\ result' = "loaded")
         /\ result' = "loaded" => file' \in Docs
         /\ result' \in {"missing", "failed"} /\ op # "probe" => ~Signed'
         /\ result' = "unchanged" =>
              /\ format \in DOMAIN Formats /\ signature' = signature
              /\ Repo!Exists(title, format)
              /\ Repo!SigOf(title, format, disk[title][format]) = signature
<1>1. CASE Repo!TryNext \/ Repo!Resolve
  BY <1>1
  DEF Repo!TryNext, Repo!Resolve, Repo!dir, Repo!call_, Stamped, Signed, Genuine, Probing
<1>2. CASE Repo!Unresolved
  BY <1>2
  DEF Repo!Unresolved, Repo!Answer, Repo!Forget, Repo!dir, Repo!call_, Stamped, Signed, Genuine
<1>3. CASE Repo!StatError \/ Repo!StatSame \/ Repo!StatOther
  BY <1>3
  DEF Repo!StatError, Repo!StatSame, Repo!StatOther, Repo!Answer, Repo!dir, Repo!call_, Stamped,
      Signed, Genuine, Probing, Library
<1>4. CASE Repo!OpenError
  BY <1>4
  DEF Repo!OpenError, Repo!LoadFailed, Repo!Forget, Repo!Answer, Repo!dir, Repo!call_, Stamped, Signed,
      Genuine
<1>5. CASE Repo!Open
  BY <1>5 DEF Repo!Open, Repo!Exists, Repo!dir, Repo!call_, Stamped, Signed, Genuine, Probing, Library
<1>6. CASE Repo!ReadAndParse
  <2>1. /\ format \in DOMAIN Formats /\ title \in Titles /\ handle \in Content /\ at = "read"
        /\ disk[title][format] \in Content /\ handle # Repo!Absent /\ Genuine(handle)
    BY <1>6 DEF Repo!ReadAndParse, Library, Stamped
  <2>2. PICK d \in Repo!ReadDocs : IF Repo!Parses(d) THEN Repo!Publish(d) ELSE Repo!LoadFailed
    BY <1>6 DEF Repo!ReadAndParse
  <2>3. d \in Docs \cup {Broken}
    <3>1. CASE /\ disk[title][format].inode = handle.inode
               /\ disk[title][format].stamp # handle.stamp
      <4>1. disk[title][format].inode > 0
        BY <2>1, <3>1 DEF Genuine
      <4>2. disk[title][format] # Repo!Absent
        BY <4>1 DEF Repo!Absent
      <4>3. Genuine(disk[title][format]) /\ Genuine(handle)
        BY <2>1 DEF Stamped
      <4> QED BY <2>1, <2>2, <3>1, <4>2, <4>3 DEF Repo!ReadDocs, Genuine
    <3>2. CASE ~(/\ disk[title][format].inode = handle.inode
                 /\ disk[title][format].stamp # handle.stamp)
      BY <2>1, <2>2, <3>2 DEF Repo!ReadDocs, Genuine
    <3> QED BY <3>1, <3>2
  <2>4. /\ at' = "done" /\ UNCHANGED <<disk, edits, op, title, format>>
    BY <1>6, <2>2
    DEF Repo!ReadAndParse, Repo!Publish, Repo!LoadFailed, Repo!Answer, Repo!dir, Repo!call_
  <2>5. CASE Repo!Parses(d)
    <3>1. /\ file' = d /\ d \in Docs /\ result' = "loaded"
          /\ signature' = [title |-> title, format |-> format, stamp |-> handle.stamp]
      BY <2>2, <2>3, <2>5 DEF Repo!Parses, Repo!Publish, Repo!SigOf, Repo!Answer
    <3>2. handle.stamp \in Nat /\ handle.stamp \in 1..edits
      BY <2>1, ContentType DEF Genuine
    <3> QED BY <2>1, <2>4, <3>1, <3>2 DEF Stamped, Genuine
  <2>6. CASE ~Repo!Parses(d)
    BY <2>1, <2>2, <2>4, <2>6 DEF Repo!LoadFailed, Repo!Forget, Repo!Answer, Stamped, Signed, Genuine
  <2> QED BY <2>5, <2>6
<1> QED BY <1>1, <1>2, <1>3, <1>4, <1>5, <1>6 DEF Repo!Work

\* One of a probe: the candidate after one that is not there, or the file that has been found.
LEMMA ProbeSteps ==
  ASSUME ServiceInv, Probing, SignedInv, OneFileEach, phase = "probing", Repo!Work,
         UNCHANGED <<phase, game>>
  PROVE  Recognised'
<1>1. /\ op = "probe" /\ title = TitleOf[game.app] /\ title \in Titles /\ game # NoGame
      /\ Recognised /\ Library /\ Stamped /\ at \notin {"open", "read"}
  BY DEF SignedInv, Named, Probing, ServiceInv, Library, Turns, AtRepository, Unsure
<1>2. /\ UNCHANGED <<disk, title>>
      /\ result' = "unchanged" => /\ format \in DOMAIN Formats /\ signature' = signature
                                  /\ Repo!Exists(title, format)
                                  /\ Repo!SigOf(title, format, disk[title][format]) = signature
  BY <1>1, WorkStamps
<1>3. UNCHANGED signature
  BY <1>1
  DEF Repo!Work, Repo!TryNext, Repo!Resolve, Repo!Unresolved, Repo!StatError, Repo!StatSame,
      Repo!StatOther, Repo!OpenError, Repo!Open, Repo!ReadAndParse
<1>4. result' = "unchanged" => Ours'
  <2>1. SUFFICES ASSUME result' = "unchanged" PROVE Ours
    BY <1>3 DEF Ours, Signed
  <2>2. Genuine(disk[title][format]) /\ disk[title][format] # Repo!Absent /\ edits \in Nat
    BY <1>1, <1>2, <2>1 DEF Stamped, Repo!Exists, Library
  <2>3. signature.title = title /\ signature.stamp > 0
    BY <1>2, <2>1, <2>2 DEF Repo!SigOf, Genuine
  <2> QED BY <1>1, <2>3 DEF Ours, Signed, Repo!NoSig
<1>5. ASSUME Ours, ~Gone
      PROVE  /\ at' = "resolve" => format' <= signature.format
             /\ at' = "stat" => format' = signature.format
             /\ at' = "done" => result' = "unchanged"
  <2>1. /\ signature \in [title : Titles, format : DOMAIN Formats, stamp : Nat]
        /\ signature.title = title /\ signature.stamp \in 1..edits
        /\ disk[title][signature.format].stamp = signature.stamp
    BY <1>1, <1>5 DEF Ours, Stamped, Gone
  <2>2. Repo!Exists(title, signature.format) /\ signature.format \in DOMAIN Formats
    BY <2>1 DEF Repo!Exists, Repo!Absent
  <2>3. \A k \in DOMAIN Formats : Repo!Exists(title, k) => k = signature.format
    BY <1>1, <2>2 DEF OneFileEach
  <2>4. at = "resolve" => format <= signature.format
    BY <1>1, <1>5 DEF Recognised
  <2>5. at = "stat" => format = signature.format
    BY <1>1, <1>5 DEF Recognised
  <2>6. format \in Nat \ {0} /\ Len(Formats) \in Nat /\ DOMAIN Formats = 1..Len(Formats)
    BY <1>1, FormatsDomain DEF Library
  <2>7. CASE Repo!TryNext
    BY <2>2, <2>4, <2>6, <2>7 DEF Repo!TryNext
  <2>8. CASE Repo!Resolve
    BY <1>1, <2>3, <2>6, <2>8 DEF Repo!Resolve
  <2>9. CASE Repo!Unresolved
    BY <2>2, <2>4, <2>6, <2>9 DEF Repo!Unresolved
  <2>10. CASE Repo!StatError
    BY <2>2, <2>5, <2>10 DEF Repo!StatError
  <2>11. CASE Repo!StatSame
    BY <2>11 DEF Repo!StatSame, Repo!Answer
  <2>12. CASE Repo!StatOther
    <3>1. Repo!SigOf(title, format, disk[title][format]) = signature
      BY <2>1, <2>5, <2>12 DEF Repo!StatOther, Repo!SigOf
    <3> QED BY <2>12, <3>1 DEF Repo!StatOther
  <2> QED
    BY <1>1, <2>7, <2>8, <2>9, <2>10, <2>11, <2>12
    DEF Repo!Work, Repo!OpenError, Repo!Open, Repo!ReadAndParse
<1>6. (Ours' <=> Ours) /\ (Gone' <=> Gone) /\ signature' = signature
  BY <1>2, <1>3 DEF Ours, Gone, Signed
<1> QED BY <1>4, <1>5, <1>6 DEF Recognised

LEMMA RepoWorksSigned ==
  ASSUME ServiceInv, Probing, SignedInv, OneFileEach, RepoWorks
  PROVE  SignedInv'
<1>1. /\ Repo!Work /\ UNCHANGED <<phase, game, request, changed, loaded, reply>>
      /\ Library /\ Turns /\ Stamped /\ Named /\ Outdated /\ Missed /\ Served
  BY DEF RepoWorks, own, SignedInv, ServiceInv
<1>2. /\ Stamped' /\ UNCHANGED <<disk, edits, op, title>> /\ at \notin {"idle", "done"}
      /\ signature' = signature \/ ~Signed' \/ (at' = "done" /\ result' = "loaded")
      /\ result' = "loaded" => file' \in Docs
      /\ result' \in {"missing", "failed"} /\ op # "probe" => ~Signed'
      /\ result' = "unchanged" =>
           /\ format \in DOMAIN Formats /\ signature' = signature
           /\ Repo!Exists(title, format)
           /\ Repo!SigOf(title, format, disk[title][format]) = signature
  BY <1>1, WorkStamps
<1>3. Named' /\ phase \in AtRepository
  BY <1>1, <1>2 DEF Named, Turns
<1>4. Recognised'
  <2>1. CASE phase = "probing"
    BY <1>1, <2>1, ProbeSteps
  <2>2. CASE phase # "probing"
    BY <1>1, <2>2 DEF Recognised
  <2> QED BY <2>1, <2>2
<1>5. signature' = signature => (Ours' <=> Ours) /\ (Gone' <=> Gone)
  BY <1>1, <1>2 DEF Ours, Gone, Signed
<1>6. ~Signed' => ~Ours'
  BY DEF Ours
<1>7. phase = "reloading" => /\ Ours' => Gone' \/ Reloaded'
                             /\ result' # "unchanged"
                             /\ result' = "missing" => ~Signed'
  <2>1. SUFFICES ASSUME phase = "reloading"
                 PROVE  /\ Ours' => Gone' \/ Reloaded'
                        /\ result' # "unchanged"
                        /\ result' = "missing" => ~Signed'
    OBVIOUS
  <2>2. op = "reload" /\ title = TitleOf[game.app] /\ game # NoGame /\ ~Reloaded /\ title \in Titles
    BY <1>1, <1>2, <2>1 DEF Named, Turns, Unsure, Reloaded, AtRepository, Library
  <2>3. Ours => Gone
    BY <1>1, <2>1, <2>2 DEF Outdated
  <2>4. Ours' => Gone' \/ Reloaded'
    BY <1>1, <1>2, <1>5, <1>6, <2>1, <2>3 DEF Reloaded
  <2>5. result' # "unchanged"
    <3>1. SUFFICES ASSUME result' = "unchanged" PROVE FALSE
      OBVIOUS
    <3>2. Genuine(disk[title][format]) /\ disk[title][format] # Repo!Absent /\ edits \in Nat
      BY <1>1, <1>2, <2>2, <3>1 DEF Stamped, Repo!Exists, Library
    <3>3. /\ signature.title = title /\ signature.format = format
          /\ signature.stamp = disk[title][format].stamp /\ signature.stamp > 0
      BY <1>2, <3>1, <3>2 DEF Repo!SigOf, Genuine
    <3> QED BY <2>2, <2>3, <3>3 DEF Ours, Signed, Gone, Repo!NoSig
  <2> QED BY <1>2, <2>2, <2>4, <2>5
<1>8. Outdated'
  BY <1>1, <1>2, <1>3, <1>7 DEF Outdated, AtRepository, Reloaded, Named
<1>9. Missed'
  <2>1. CASE phase = "probing"
    <3>1. signature' = signature /\ ~Reloaded
      BY <1>1, <2>1
      DEF Probing, Named, Reloaded, Repo!Work, Repo!TryNext, Repo!Resolve, Repo!Unresolved,
          Repo!StatError, Repo!StatSame, Repo!StatOther, Repo!OpenError, Repo!Open, Repo!ReadAndParse
    <3> QED BY <1>1, <1>5, <2>1, <3>1 DEF Missed
  <2>2. CASE phase = "loading"
    BY <1>1, <2>2 DEF Missed, Named
  <2>3. CASE phase = "reloading"
    BY <1>7, <2>3 DEF Missed
  <2> QED BY <1>3, <2>1, <2>2, <2>3 DEF AtRepository
<1>10. Served'
  BY <1>1, <1>3 DEF Served, AtRepository
<1> QED BY <1>2, <1>3, <1>4, <1>8, <1>9, <1>10 DEF SignedInv

LEMMA EditSigned ==
  ASSUME ServiceInv, SignedInv, EditFile
  PROVE  SignedInv'
<1>1. /\ Repo!Edit /\ UNCHANGED <<game, own>> /\ Library /\ Stamped
  BY DEF EditFile, SignedInv, ServiceInv
<1>2. /\ UNCHANGED <<file, signature, at, op, title, format, handle, result>>
      /\ UNCHANGED <<phase, request, changed, loaded, reply>>
  BY <1>1, EditKeeps DEF repo, own
<1>3. Stamped' /\ (Signed /\ Gone => Gone')
  BY <1>1, EditStamps
<1>4. (Signed' <=> Signed) /\ (Ours' <=> Ours) /\ (Reloaded' <=> Reloaded) /\ (Ours => Signed)
  BY <1>1, <1>2 DEF Signed, Ours, Reloaded
<1>5. Named'
  BY <1>1, <1>2 DEF SignedInv, Named
<1>6. Recognised'
  BY <1>2, <1>3, <1>4 DEF SignedInv, Recognised
<1>7. Outdated'
  BY <1>2, <1>3, <1>4 DEF SignedInv, Outdated
<1>8. Missed' /\ Served'
  BY <1>1, <1>2, <1>3, <1>4 DEF SignedInv, Missed, Served
<1> QED BY <1>3, <1>5, <1>6, <1>7, <1>8 DEF SignedInv

\* The steps that leave the repository alone, and those by which an operation begins or ends.
LEMMA StillSigned ==
  ASSUME SignedInv, UNCHANGED <<disk, edits, signature, handle>>, at' = at \/ at' # "read"
  PROVE  Stamped' /\ (Signed' <=> Signed) /\ (Gone' <=> Gone) /\ (game' = game => (Ours' <=> Ours))
BY DEF SignedInv, Stamped, Genuine, Signed, Gone, Ours

\* Steps of the console and of the applier.
LEMMA OthersSigned ==
  ASSUME ServiceInv, OwnerInv, SignedInv,
         \/ UNCHANGED allVars
         \/ (\E p \in Pids : Launch(p)) \/ Quit \/ RevertNext \/ RevertReturned \/ Apply \/ Applied
         \/ ApplierWorks
  PROVE  SignedInv'
<1>1. /\ UNCHANGED <<disks, repo, file, game, request, changed, loaded>>
      /\ \/ UNCHANGED <<phase, reply>>
         \/ phase = "apply" /\ phase' = "applying"
         \/ phase = "applying" /\ phase' = "ready" /\ loaded
  <2>1. CASE UNCHANGED allVars
    BY <2>1 DEF allVars, vars, cheats, own
  <2>2. CASE (\E p \in Pids : Launch(p)) \/ Quit
    BY <2>2 DEF Launch, Quit, Exit, cheats, own
  <2>3. CASE RevertNext \/ Apply
    <3>1. /\ \E id, on : SetEnabled(id, on)
          /\ UNCHANGED <<disks, repo, request, changed, loaded, reply>>
          /\ phase' = phase \/ (phase = "apply" /\ phase' = "applying")
      BY <2>3 DEF RevertNext, Apply
    <3>2. UNCHANGED <<file, game>>
      BY <3>1
      DEF SetEnabled, UnknownCheat, EmptyCheat, NoModule, AlreadySet, Begin, NoBuffer, Changes,
          Refuse, cheats
    <3> QED BY <3>1, <3>2
  <2>4. CASE RevertReturned \/ Applied
    BY <2>4 DEF RevertReturned, Applied, Return, cheats, OwnerInv, Order
  <2>5. CASE ApplierWorks
    BY <2>5, StepTargets DEF ApplierWorks, own, cheats, ServiceInv
  <2> QED BY <2>1, <2>2, <2>3, <2>4, <2>5
<1>2. /\ Stamped' /\ (Signed' <=> Signed) /\ (Gone' <=> Gone) /\ (Ours' <=> Ours)
      /\ (Reloaded => Reloaded') /\ UNCHANGED <<disk, at, op, title, format, result, signature>>
      /\ phase # "applying" => (Reloaded' <=> Reloaded)
  BY <1>1, StillSigned DEF disks, repo, Reloaded
<1>3. Named' /\ Recognised'
  BY <1>1, <1>2 DEF SignedInv, Named, Recognised, AtRepository
<1>4. Outdated'
  BY <1>1, <1>2 DEF SignedInv, Outdated, Reloaded
<1>5. Missed' /\ Served'
  BY <1>1, <1>2 DEF SignedInv, Missed, Served, Reloaded
<1> QED BY <1>2, <1>3, <1>4, <1>5 DEF SignedInv

\* A request that begins, finds its game, or ends without an answer of the repository.
LEMMA RequestSigned ==
  ASSUME ServiceInv, OwnerInv, SignedInv,
         \/ \E r \in Requests : Ask(r)
         \/ NoGameRuns \/ SameGame \/ OtherGame \/ Reverted \/ StopConfirmed \/ Stopped
  PROVE  SignedInv'
<1>1. /\ UNCHANGED <<disk, edits, signature, at, op, title, format, handle, result>>
      /\ phase \notin AtRepository /\ phase' \notin AtRepository \cup {"load", "loading"}
      /\ phase' = "stopping" => request'.kind = "stop"
  <2>1. CASE \E r \in Requests : Ask(r)
    BY <2>1 DEF Ask, AtRepository, disks, repo
  <2>2. CASE NoGameRuns \/ SameGame \/ OtherGame
    BY <2>2 DEF NoGameRuns, SameGame, OtherGame, RefreshReturns, AtRepository, disks, repo
  <2>3. CASE Reverted \/ StopConfirmed \/ Stopped
    BY <2>3 DEF Reverted, StopConfirmed, Stopped, RefreshReturns, AtRepository, disks, repo
  <2> QED BY <2>1, <2>2, <2>3
<1>2. /\ Stamped' /\ (Signed' <=> Signed) /\ (Gone' <=> Gone) /\ (game' = game => (Ours' <=> Ours))
      /\ ~Reloaded /\ ~Reloaded'
  BY <1>1, StillSigned DEF Reloaded, AtRepository
<1>3. Named' /\ Recognised'
  BY <1>1 DEF Named, Recognised, AtRepository
<1>4. phase' \notin {"reload", "reloading", "revert"} => Outdated'
  BY <1>1, <1>2 DEF Outdated, AtRepository
<1>5. CASE \E r \in Requests : Ask(r)
  <2>1. phase = "ready" /\ phase' \in {"look", "stopping"} /\ UNCHANGED <<game, loaded>>
    BY <1>5 DEF Ask, vars, cheats
  <2> QED BY <1>2, <1>3, <1>4, <2>1 DEF SignedInv, Missed, Served
<1>6. CASE NoGameRuns
  <2>1. game' = NoGame /\ phase' \in {"ready", "apply"}
    BY <1>6 DEF NoGameRuns, RefreshReturns
  <2> QED BY <1>2, <1>3, <1>4, <2>1 DEF SignedInv, Missed, Served
<1>7. CASE SameGame
  <2>1. phase = "look" /\ phase' = "probe" /\ UNCHANGED <<game, loaded>>
    BY <1>7 DEF SameGame, vars, cheats
  <2> QED BY <1>2, <1>3, <1>4, <2>1 DEF SignedInv, Missed, Served
<1>8. CASE OtherGame
  <2>1. phase' = "probe" /\ changed'
    BY <1>8 DEF OtherGame
  <2> QED BY <1>2, <1>3, <1>4, <2>1 DEF SignedInv, Missed, Served
<1>9. CASE Reverted
  <2>1. /\ phase = "revert" /\ request.kind # "stop" /\ UNCHANGED <<game, request, loaded>>
        /\ phase' = "reload" \/ (phase' \in {"ready", "apply"} /\ ~reply')
    BY <1>9 DEF Reverted, RefreshReturns, vars, cheats
  <2>2. Ours => Gone
    BY <1>2, <2>1 DEF SignedInv, Outdated
  <2>3. Outdated'
    BY <1>1, <1>2, <2>1, <2>2 DEF Outdated, AtRepository
  <2> QED BY <1>2, <1>3, <2>1, <2>2, <2>3 DEF SignedInv, Missed, Served
<1>10. CASE StopConfirmed
  <2>1. /\ phase = "stopping" /\ phase' = "revert" /\ UNCHANGED <<game, request, loaded>>
    BY <1>10 DEF StopConfirmed, vars, cheats
  <2>2. request.kind = "stop"
    BY <2>1 DEF SignedInv, Named
  <2>3. Outdated'
    BY <1>1, <1>2, <2>1, <2>2 DEF Outdated, AtRepository
  <2> QED BY <1>2, <1>3, <2>1, <2>3 DEF SignedInv, Missed, Served
<1>11. CASE Stopped
  <2>1. phase' = "stopped"
    BY <1>11 DEF Stopped
  <2> QED BY <1>2, <1>3, <1>4, <2>1 DEF SignedInv, Missed, Served
<1> QED BY <1>5, <1>6, <1>7, <1>8, <1>9, <1>10, <1>11

\* What the service makes of an answer.
LEMMA AnswersSigned ==
  ASSUME ServiceInv, OwnerInv, SignedInv,
         \/ StartProbe \/ StartLoad \/ StartReload
         \/ ProbeUnchanged \/ ProbeUnchangedForNewProcess \/ ProbeError \/ ProbeChanged
         \/ LoadAnswer \/ ReloadAnswer \/ ReloadError
  PROVE  SignedInv'
<1>1. Turns /\ Library /\ Stamped /\ Named /\ Recognised /\ Outdated /\ Missed /\ Served
      /\ game # NoGame
  <2>1. phase \notin Unsure
    BY DEF StartProbe, StartLoad, StartReload, Call, ProbeUnchanged, ProbeUnchangedForNewProcess,
           ProbeError, ProbeChanged, LoadAnswer, ReloadAnswer, ReloadError, Answered, Unsure
  <2> QED BY <2>1 DEF ServiceInv, SignedInv, Turns
<1>2. CASE StartProbe \/ StartLoad \/ StartReload
  <2>1. /\ at' = "resolve" /\ format' = 1 /\ title' = TitleOf[game.app]
        /\ UNCHANGED <<disk, edits, signature, handle, file, game, request, changed, loaded, reply>>
        /\ \/ phase = "probe" /\ phase' = "probing" /\ op' = "probe"
           \/ phase = "load" /\ phase' = "loading" /\ op' = "load"
           \/ phase = "reload" /\ phase' = "reloading" /\ op' = "reload"
    BY <1>2 DEF StartProbe, StartLoad, StartReload, Call, Repo!Invoke, Repo!dir
  <2>2. /\ Stamped' /\ (Signed' <=> Signed) /\ (Gone' <=> Gone) /\ (Ours' <=> Ours)
        /\ ~Reloaded /\ ~Reloaded'
    BY <2>1, StillSigned DEF Reloaded
  <2>3. Named'
    BY <1>1, <2>1 DEF Named
  <2>4. Recognised'
    <3>1. Ours => signature.format \in 1..Len(Formats)
      BY <1>1, FormatsDomain DEF Ours, Stamped
    <3>2. Ours => 1 <= signature.format
      BY <3>1
    <3> QED BY <2>1, <2>2, <3>2 DEF Recognised
  <2>5. Outdated' /\ Missed' /\ Served'
    BY <1>1, <2>1, <2>2 DEF Outdated, Missed, Served
  <2> QED BY <2>2, <2>3, <2>4, <2>5 DEF SignedInv
<1>3. CASE \/ ProbeUnchanged \/ ProbeUnchangedForNewProcess \/ ProbeError \/ ProbeChanged
           \/ LoadAnswer \/ ReloadAnswer \/ ReloadError
  <2>1. /\ at = "done" /\ at' = "idle" /\ UNCHANGED <<disk, edits, signature, handle>>
        /\ UNCHANGED <<file, game, request>>
    BY <1>3
    DEF ProbeUnchanged, ProbeUnchangedForNewProcess, ProbeError, ProbeChanged, LoadAnswer,
        ReloadAnswer, ReloadError, Answered, Repo!Retire, Repo!dir
  <2>2. /\ Stamped' /\ (Signed' <=> Signed) /\ (Gone' <=> Gone) /\ (Ours' <=> Ours) /\ ~Reloaded'
    BY <2>1, StillSigned DEF Reloaded
  <2>3. phase' \notin AtRepository \cup {"load", "stopping"} => Named' /\ Recognised'
    BY DEF Named, Recognised, AtRepository
  <2>4. phase' \in {"ready", "apply", "load"} => Outdated'
    BY <2>2 DEF Outdated
  <2>5. CASE ProbeUnchanged
    <3>1. /\ phase = "probing" /\ result = "unchanged" /\ ~changed /\ UNCHANGED loaded
          /\ phase' \in {"ready", "apply"}
      BY <2>5 DEF ProbeUnchanged, Answered, RefreshReturns
    <3>2. Ours /\ (Gone \/ loaded)
      BY <1>1, <2>1, <3>1 DEF Recognised, Missed, Reloaded
    <3>3. Missed' /\ Served'
      BY <2>2, <3>1, <3>2 DEF Missed, Served
    <3> QED BY <2>2, <2>3, <2>4, <3>1, <3>3 DEF SignedInv, AtRepository
  <2>6. CASE ProbeUnchangedForNewProcess
    <3>1. phase = "probing" /\ phase' = "load" /\ changed /\ changed'
      BY <2>6 DEF ProbeUnchangedForNewProcess, Answered
    <3>2. Named' /\ Recognised' /\ Missed' /\ Served'
      BY <3>1 DEF Named, Recognised, Missed, Served, AtRepository
    <3> QED BY <2>2, <2>4, <3>1, <3>2 DEF SignedInv
  <2>7. CASE ProbeError
    <3>1. /\ phase = "probing" /\ result = "error" /\ UNCHANGED loaded
          /\ phase' \in {"ready", "apply"} /\ ~reply'
      BY <2>7 DEF ProbeError, Answered, RefreshReturns
    <3>2. Ours => Gone
      BY <1>1, <2>1, <3>1 DEF Recognised
    <3>3. Missed' /\ Served'
      BY <2>2, <3>1, <3>2 DEF Missed, Served
    <3> QED BY <2>2, <2>3, <2>4, <3>1, <3>3 DEF SignedInv, AtRepository
  <2>8. CASE ProbeChanged
    <3>1. /\ phase = "probing" /\ result \in {"changed", "missing"} /\ phase' \in {"revert", "reload"}
      BY <2>8 DEF ProbeChanged, Answered
    <3>2. Ours => Gone
      BY <1>1, <2>1, <3>1 DEF Recognised
    <3>3. Outdated' /\ Missed' /\ Served'
      BY <2>2, <3>1, <3>2 DEF Outdated, Missed, Served
    <3> QED BY <2>2, <2>3, <3>1, <3>3 DEF SignedInv, AtRepository
  <2>9. CASE LoadAnswer
    <3>1. /\ phase = "loading" /\ result \in {"loaded", "failed"} /\ phase' \in {"ready", "apply"}
          /\ result = "loaded" => loaded'
      BY <2>9 DEF LoadAnswer, Answered, RefreshReturns
    <3>2. loaded' \/ ~Signed
      BY <1>1, <2>1, <3>1 DEF Outdated
    <3>3. Missed' /\ Served'
      BY <2>2, <3>2 DEF Missed, Served, Ours
    <3> QED BY <2>2, <2>3, <2>4, <3>1, <3>3 DEF SignedInv, AtRepository
  <2>10. CASE ReloadAnswer
    <3>1. /\ phase = "reloading" /\ result \in {"loaded", "unchanged", "missing"}
          /\ phase' \in {"ready", "apply"} /\ loaded' = (result # "missing" /\ file # <<>>)
      BY <2>10 DEF ReloadAnswer, Answered, RefreshReturns
    <3>2. <<>> \notin Docs
      BY ServiceAssumption
    <3>3. loaded' \/ ~Signed
      BY <1>1, <2>1, <3>1, <3>2 DEF Outdated, Reloaded
    <3>4. Missed' /\ Served'
      BY <2>2, <3>3 DEF Missed, Served, Ours
    <3> QED BY <2>2, <2>3, <2>4, <3>1, <3>4 DEF SignedInv, AtRepository
  <2>11. CASE ReloadError
    <3>1. /\ phase = "reloading" /\ result = "error" /\ UNCHANGED loaded
          /\ phase' \in {"ready", "apply"} /\ ~reply'
      BY <2>11 DEF ReloadError, Answered, RefreshReturns
    <3>2. Ours => Gone
      BY <1>1, <2>1, <3>1 DEF Outdated, Reloaded
    <3>3. Missed' /\ Served'
      BY <2>2, <3>1, <3>2 DEF Missed, Served
    <3> QED BY <2>2, <2>3, <2>4, <3>1, <3>3 DEF SignedInv, AtRepository
  <2> QED BY <1>3, <2>5, <2>6, <2>7, <2>8, <2>9, <2>10, <2>11
<1> QED BY <1>2, <1>3

LEMMA NextSigned ==
  ServiceInv /\ OwnerInv /\ Probing /\ SignedInv /\ OneFileEach /\ [ServiceNext]_allVars => SignedInv'
BY OthersSigned, EditSigned, RequestSigned, AnswersSigned, RepoWorksSigned
DEF ServiceNext, Works

LEMMA OneFormatIsEnough == Len(Formats) = 1 => OneFileEach
BY FormatsDomain DEF OneFileEach

\* As long as no title has files of two formats at once, a refresh that succeeds with the file on
\* disk as it was last taken in has its cheats on the list, whatever games, edits and requests came
\* before (refresh_locked, cheat_service.cpp:112-121).
THEOREM UnchangedIsServed ==
  ServiceSpec /\ []OneFileEach => []UnchangedIsLoaded
<1>1. ServiceInv /\ SignedInv => UnchangedIsLoaded
  BY DEF SignedInv, Served, UnchangedIsLoaded, Playing, Signed, Gone
<1>2. ServiceSpec => [](ServiceInv /\ OwnerInv) /\ []Probing
  BY OwnerInvHolds, InitProbing, NextProbing, PTL DEF ServiceSpec
<1> QED BY <1>1, <1>2, InitSigned, NextSigned, PTL DEF ServiceSpec
=============================================================================
