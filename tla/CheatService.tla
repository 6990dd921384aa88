---------------------------- MODULE CheatService ----------------------------
(* CheatService (src/application/cheat_service.cpp): one request at a time finds  *)
(* the running game, brings the cheat file up to date and switches cheats, by      *)
(* calling the repository and the applier. Games start and exit, and cheat files   *)
(* change, between any two steps of a request.                                     *)
EXTENDS CheatApplier

CONSTANTS
  Titles, Formats, Docs, Broken, MaxEdits,   \* of CheatRepository
  TitleOf,                                   \* the title an application id runs
  Requests                                   \* what clients may ask for

VARIABLES
  disk, edits, signature, at, op, title, format, handle, result, \* CheatRepository
  big,        \* pid of the running game (the console's BigApp), or NoPid
  launches,   \* number of games started: application ids are not used twice
  phase,      \* where the request is
  request,    \* [kind, id, on]
  changed,    \* identity_changed
  cursor,     \* disable_enabled_locked: the first cheat not looked at yet
  clean,      \* disable_enabled_locked: its `success`
  loaded,     \* loaded_
  error,      \* error_
  reply       \* what refresh() or set_enabled() returned

Repo == INSTANCE CheatRepository
          WITH output <- file, Nothing <- <<>>

\* no parser accepts a file without a cheat
ASSUME ServiceAssumption ==
  /\ Docs \subseteq Files \ {<<>>} /\ TitleOf \in [Apps -> Titles] /\ Formats \in Seq(STRING)
  /\ Requests \subseteq [kind : {"refresh", "toggle", "stop"}, id : Nat, on : BOOLEAN]

repo == <<signature, at, op, title, format, handle, result>>
disks == <<disk, edits>>
games == <<big, launches>>
own == <<phase, request, changed, cursor, clean, loaded, error, reply>>
applier == <<mem, enabled, offset, masterId, lastPid, pc, frame, outcome, history>>
allVars == <<vars, disks, repo, games, own>>

NoGame == [pid |-> NoPid, app |-> NoApp]
Kinds == {"refresh", "toggle", "stop"}
Refresh == [kind |-> "refresh", id |-> 0, on |-> FALSE]
Toggle(id, on) == [kind |-> "toggle", id |-> id, on |-> on]
Stop == [kind |-> "stop", id |-> 0, on |-> FALSE]

\* a CheatFile that has just been cleared or parsed: no flag is inherited
Fresh(f) ==
  /\ enabled' = NoFlags(f) /\ offset' = FirstOffsets(f)
  /\ masterId' = NoMaster /\ lastPid' = NoPid /\ site' = NoSites(f)
KeepList == UNCHANGED <<file, flags, site>>   \* mutant: clear_locked does nothing
Clear == file' = <<>> /\ Fresh(<<>>)

-----------------------------------------------------------------------------
(* The console: a game starts in a pid that the request under way does not use. *)

Launch(p) ==
  LET a == launches + 1
  IN /\ big = NoPid /\ app[p] = NoApp /\ a \in Apps
     /\ phase = "ready" \/ p # game.pid
     /\ launches' = a /\ big' = p
     /\ app' = [app EXCEPT ![p] = a] /\ hosts' = hosts \cup {p}
     /\ mem' = [mem EXCEPT ![p] = Image[p]]
     /\ stray' = {s \in stray : s[1] # p} /\ wiped' = {s \in wiped : s[1] # p}
     /\ UNCHANGED <<cheats, flags, pc, frame, outcome, start, caved, site, disks, repo, own>>
Quit ==
  /\ big # NoPid /\ Exit(big) /\ big' = NoPid
  /\ UNCHANGED <<launches, disks, repo, own>>
EditFile == Repo!Edit /\ UNCHANGED <<world, mem, game, flags, pc, frame, outcome, history, games, own>>

-----------------------------------------------------------------------------
(* A request, and refresh_locked up to the probe: lines 88 to 111. *)

Ask(r) ==
  /\ phase = "ready" /\ request' = r
  /\ phase' = IF r.kind = "stop" THEN "stopping" ELSE "look"
  /\ UNCHANGED <<vars, disks, repo, games, changed, cursor, clean, loaded, error, reply>>

\* refresh_locked returns v: a toggle goes on to the applier if a file is loaded
RefreshReturns(v, l) ==
  /\ phase' = IF request.kind = "toggle" /\ v /\ l THEN "apply" ELSE "ready"
  /\ reply' = (v /\ request.kind = "refresh")
  /\ loaded' = l

\* current_game
Live == IF big = NoPid THEN NoGame ELSE [pid |-> big, app |-> app[big]]
\* same_game; the title goes with the application
SamePid(l, r) == l.pid = r.pid   \* mutant: only the pid is compared
Same(l, r) == l.pid = r.pid /\ l.app = r.app
NoGameRuns ==
  /\ phase = "look" /\ Live = NoGame
  /\ Clear /\ game' = NoGame /\ error' = "" /\ RefreshReturns(TRUE, FALSE)
  /\ UNCHANGED <<world, mem, pc, frame, outcome, start, caved, stray, wiped, disks, repo, games,
                 request, changed, cursor, clean>>
SameGame ==
  /\ phase = "look" /\ Live # NoGame /\ Same(game, Live)
  /\ phase' = "probe" /\ changed' = FALSE
  /\ UNCHANGED <<vars, disks, repo, games, request, cursor, clean, loaded, error, reply>>
OtherGame ==
  /\ phase = "look" /\ Live # NoGame /\ ~Same(game, Live)
  /\ Clear /\ loaded' = FALSE
  /\ game' = Live /\ phase' = "probe" /\ changed' = TRUE
  /\ UNCHANGED <<world, mem, pc, frame, outcome, start, caved, stray, wiped, disks, repo, games,
                 request, cursor, clean, error, reply>>

-----------------------------------------------------------------------------
(* The repository at work, and what refresh_locked makes of its answers. *)

Call(name, from, to) ==
  /\ phase = from /\ phase' = to
  /\ Repo!Invoke(name, TitleOf[game.app])
  /\ UNCHANGED <<world, mem, game, flags, pc, frame, outcome, history, games,
                 request, changed, cursor, clean, loaded, error, reply>>
StartProbe == Call("probe", "probe", "probing")
StartLoad == Call("load", "load", "loading")
StartReload == Call("reload", "reload", "reloading")

Publishes == result' \in {"loaded", "failed"} \/ (op = "reload" /\ result' = "missing")
RepoWorks ==
  /\ Repo!Work
  /\ IF Publishes THEN Fresh(file') ELSE UNCHANGED <<flags, site>>
  /\ UNCHANGED <<world, mem, game, pc, frame, outcome, start, caved, stray, wiped, games, own>>

Answered(where, results) ==
  /\ phase = where /\ at = "done" /\ result \in results /\ Repo!Retire
  /\ UNCHANGED <<world, mem, game, flags, pc, frame, outcome, history, games, request>>
\* mutant: the signature is trusted for a new process too
TrustUnchanged ==
  /\ Answered("probing", {"unchanged"})
  /\ error' = "" /\ RefreshReturns(TRUE, loaded)
  /\ UNCHANGED <<changed, cursor, clean>>
ProbeUnchanged ==
  /\ Answered("probing", {"unchanged"}) /\ ~changed
  /\ error' = "" /\ RefreshReturns(TRUE, loaded)
  /\ UNCHANGED <<changed, cursor, clean>>
ProbeUnchangedForNewProcess ==
  /\ Answered("probing", {"unchanged"}) /\ changed /\ phase' = "load"
  /\ UNCHANGED <<changed, cursor, clean, loaded, error, reply>>
ProbeError ==
  /\ Answered("probing", {"error"})
  /\ error' = "could not inspect" /\ RefreshReturns(FALSE, loaded)
  /\ UNCHANGED <<changed, cursor, clean>>
\* mutant: the new file is loaded over cheats that are still enabled
ReloadAtOnce ==
  /\ Answered("probing", {"changed", "missing"})
  /\ phase' = "reload" /\ cursor' = 1 /\ clean' = TRUE
  /\ UNCHANGED <<changed, loaded, error, reply>>
ProbeChanged ==
  /\ Answered("probing", {"changed", "missing"})
  /\ phase' = IF loaded THEN "revert" ELSE "reload"
  /\ cursor' = 1 /\ clean' = TRUE
  /\ UNCHANGED <<changed, loaded, error, reply>>
LoadAnswer ==
  /\ Answered("loading", {"loaded", "failed"})
  /\ IF result = "loaded"
     THEN error' = "" /\ RefreshReturns(TRUE, TRUE)
     ELSE error' = "could not reload" /\ RefreshReturns(FALSE, loaded)
  /\ UNCHANGED <<changed, cursor, clean>>
ReloadAnswer ==
  /\ Answered("reloading", {"loaded", "unchanged", "missing"})
  /\ error' = "" /\ RefreshReturns(TRUE, result # "missing" /\ file # <<>>)
  /\ UNCHANGED <<changed, cursor, clean>>
ReloadError ==
  /\ Answered("reloading", {"error"})
  /\ error' = "could not parse" /\ RefreshReturns(FALSE, loaded)
  /\ UNCHANGED <<changed, cursor, clean>>

-----------------------------------------------------------------------------
(* disable_enabled_locked, on the way to a reload or to the end of the service. *)

Success == {"enabled", "disabled", "already"}
Left == {c \in Ids : c >= cursor /\ enabled[c]}
RevertNext ==
  /\ phase = "revert" /\ pc = "idle"
  /\ \E c \in Left : (\A d \in Left : c <= d) /\ SetEnabled(c, FALSE) /\ cursor' = c + 1
  /\ UNCHANGED <<disks, repo, games, phase, request, changed, clean, loaded, error, reply>>
RevertReturned ==
  /\ phase = "revert" /\ pc = "done" /\ Return
  /\ IF outcome \in Success THEN UNCHANGED <<clean, error>>
     ELSE clean' = FALSE /\ error' = "not applied"
  /\ UNCHANGED <<disks, repo, games, phase, request, changed, cursor, loaded, reply>>
\* mutant: a revert that failed does not stop the reload
RevertedSomehow ==
  /\ phase = "revert" /\ pc = "idle" /\ Left = {} /\ request.kind # "stop"
  /\ phase' = "reload"
  /\ UNCHANGED <<vars, disks, repo, games, request, changed, cursor, clean, loaded, reply, error>>
Reverted ==
  /\ phase = "revert" /\ pc = "idle" /\ Left = {} /\ request.kind # "stop"
  /\ IF clean THEN phase' = "reload" /\ UNCHANGED <<loaded, reply>>
     ELSE RefreshReturns(FALSE, loaded)
  /\ UNCHANGED <<vars, disks, repo, games, request, changed, cursor, clean, error>>

\* ~CheatService
StopConfirmed ==
  /\ phase = "stopping" /\ game # NoGame /\ Same(game, Live)
  /\ phase' = "revert" /\ cursor' = 1 /\ clean' = TRUE
  /\ UNCHANGED <<vars, disks, repo, games, request, changed, loaded, error, reply>>
Stopped ==
  /\ \/ phase = "stopping" /\ (game = NoGame \/ ~Same(game, Live))
     \/ phase = "revert" /\ pc = "idle" /\ Left = {} /\ request.kind = "stop"
  /\ Clear /\ phase' = "stopped" /\ loaded' = FALSE
  /\ UNCHANGED <<world, mem, game, pc, frame, outcome, start, caved, stray, wiped, disks, repo, games,
                 request, changed, cursor, clean, error, reply>>

-----------------------------------------------------------------------------
(* set_enabled after its refresh: lines 178 to 191. *)

Apply ==
  /\ phase = "apply" /\ phase' = "applying"
  /\ SetEnabled(request.id, request.on)
  /\ UNCHANGED <<disks, repo, games, request, changed, cursor, clean, loaded, error, reply>>
Applied ==
  /\ phase = "applying" /\ pc = "done" /\ Return
  /\ phase' = "ready" /\ reply' = (outcome \in Success)
  /\ error' = IF outcome \in Success THEN "" ELSE "not applied"
  /\ UNCHANGED <<disks, repo, games, request, changed, cursor, clean, loaded>>
ApplierWorks == Step /\ UNCHANGED <<disks, repo, games, own>>

-----------------------------------------------------------------------------
ServiceInit ==
  /\ app = [p \in Pids |-> NoApp] /\ hosts = {} /\ mem = Image
  /\ game = NoGame /\ file = <<>>
  /\ enabled = <<>> /\ offset = <<>> /\ masterId = NoMaster /\ lastPid = NoPid
  /\ pc = "idle" /\ call = Idle /\ next = 0 /\ snaps = <<>> /\ restored = TRUE
  /\ outcome = "none" /\ start \in {Image[p] : p \in Pids} /\ caved = {}
  /\ stray = {} /\ wiped = {} /\ site = <<>>
  /\ Repo!Init
  /\ big = NoPid /\ launches = 0
  /\ phase = "ready" /\ request = Refresh /\ changed = FALSE /\ cursor = 1 /\ clean = TRUE
  /\ loaded = FALSE /\ error = "" /\ reply = TRUE

Works ==
  \/ NoGameRuns \/ SameGame \/ OtherGame
  \/ StartProbe \/ StartLoad \/ StartReload \/ RepoWorks
  \/ ProbeUnchanged \/ ProbeUnchangedForNewProcess \/ ProbeError \/ ProbeChanged
  \/ LoadAnswer \/ ReloadAnswer \/ ReloadError
  \/ RevertNext \/ RevertReturned \/ Reverted \/ StopConfirmed \/ Stopped
  \/ Apply \/ Applied \/ ApplierWorks
ServiceNext ==
  \/ \E p \in Pids : Launch(p)
  \/ Quit \/ EditFile
  \/ \E r \in Requests : Ask(r)
  \/ Works
ServiceSpec == ServiceInit /\ [][ServiceNext]_allVars

-----------------------------------------------------------------------------
(* Properties. *)

Resting == phase \in {"ready", "stopped"}
Playing == game # NoGame /\ game = Live

\* While the service is at rest, every byte that differs from what the running game
\* started with belongs to a cheat the service lists as enabled, and can undo: a hot
\* reload, a refused reload, a change of game or a stop whose reverts succeeded leaves no
\* patch behind that nobody owns (cheat_service.cpp:54-59, 100-106 and 128-130). Code caves
\* stay mapped; what a cave replaced, or a failing rollback left, is not known.
Owned(x) == \E c \in Ids : enabled[c] /\ \E s \in Sites(c) : s[2] = x
NoOrphanPatches ==
  Resting /\ Playing /\ (phase = "stopped" => clean) => \A x \in Cells :
    \/ mem[big][x] = Image[big][x] \/ Image[big][x] = Unmapped
    \/ Owned(x) \/ <<big, x>> \in stray \cup wiped

\* Of which files that is proved: no cheat follows a master code, and the `off` bytes of a
\* patch are the game's own, as many at least as its `on` bytes.
Honest(c) ==
  /\ ~c.mc
  /\ \A k \in DOMAIN c.patches, p \in Pids :
       LET patch == c.patches[k]
           a == PatchAddress(patch, patch.offset, p \in Ps2, Base[p])
       IN /\ Len(patch.on) <= Len(patch.off)
          /\ \A x \in Span(a, Len(patch.off)) :
               Image[p][x] \in {patch.off[x - a + 1], Unmapped}
HonestDocs == \A f \in Docs : \A c \in DOMAIN f : Honest(f[c])

\* What the service lists as enabled is in the memory of the game that runs, through
\* restarts of the game, hot reloads and failures (cheat_service.cpp:100-105).
ListedIsPatched ==
  Resting /\ Playing => \A c \in Ids : enabled[c] =>
    /\ lastPid = big
    /\ \A s \in Own(c) : Shows(big, c, s, file[c].patches[s[1]].on)

\* A refresh that found the file unchanged serves its cheats: when a request has
\* succeeded and the file on disk is the one last loaded, the list is not empty
\* (cheat_service.cpp:112-121, docs/CHEAT_SERVICE_LIFECYCLE.md:11-12).
UnchangedIsLoaded ==
  phase = "ready" /\ reply /\ Playing /\ signature # Repo!NoSig =>
    \/ disk[signature.title][signature.format].stamp # signature.stamp
    \/ loaded

\* Only the process of the game confirmed for this request is written to.
Wrote(p) == mem'[p] # mem[p] /\ app'[p] = app[p]
OnlyLiveGameWritten == [][\A p \in Pids : Wrote(p) => app[p] = game.app]_allVars

\* With a frontend that keeps polling, the list ends up being that of the running
\* game: empty when none runs or no file exists, else the file that takes precedence.
FairServiceSpec ==
  ServiceSpec /\ WF_allVars(Works) /\ SF_allVars(Ask(Refresh))
ListIsCurrent ==
  IF big = NoPid THEN game = NoGame /\ ~loaded
  ELSE /\ game = Live
       /\ LET k == Repo!Resolved(TitleOf[game.app])
          IN /\ k = {} => ~loaded
             /\ \A j \in k : disk[TitleOf[game.app]][j].doc # Broken =>
                  loaded /\ file = disk[TitleOf[game.app]][j].doc
Converges == <>[](phase \in {"ready", "look"} => ListIsCurrent)
=============================================================================
