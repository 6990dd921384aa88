------------------------------ MODULE GameLookup ------------------------------
(* Ps5GamePlatform (src/platform/ps5_game_platform.cpp): current_game,             *)
(* find_module and find_module_in_app, call by call of the kernel, while processes *)
(* start, exit and load modules.                                                   *)
EXTENDS Naturals, Sequences, FiniteSets

CONSTANTS
  Pids,        \* pids of processes, from 1
  Apps,        \* application ids
  Images,      \* [comm, name, mods] a process starts with: comm as the table has it
  Modules,     \* names of modules
  Hollow,      \* those without a section in memory
  Eboot,       \* "eboot", "eboot.bin"
  LastPid,     \* 9999: where the scan over pids ends
  MaxHandles,  \* 4096: modules a list may have
  Platform,    \* classify_platform of the title of each application
  MetaFiles,   \* [versions, title] a param.json or param.sfo may hold
  Paths,       \* number of paths a metadata file is looked for at
  MaxEvents,   \* bound: processes started and modules loaded
  Faults       \* "table", "memory", "kernel": what may fail

ASSUME LookupAssumption ==
  /\ Pids \subseteq Nat \ {0} /\ 0 \notin Apps /\ "none" \notin Modules
  /\ IsFiniteSet(Modules \cup UNION {i.mods : i \in Images})
  /\ {LastPid, MaxHandles, Paths, MaxEvents} \subseteq Nat

VARIABLES
  running,  \* the processes, newest first: [pid, app, comm, name, mods]
  events,   \* processes started and modules loaded so far
  pc, loop, \* where the call is, and in which loop: "table", "scan", or "one"
  app, want, \* what it looks for; want is NoModule in current_game
  table,    \* kinfo_proc of read_process_table
  at,       \* the place in the loop
  handles,  \* what SYS_dl_get_list has given
  pid,      \* the answer
  version, title,          \* of the GameContext
  had,      \* history: pids that were an answer at some moment of the call
  steady,   \* history: processes that have been one throughout the call
  gone,     \* history: pids that exited during the call
  short,    \* history: a list of modules or an image base was refused
  given     \* history: metadata files read

None == 0            \* no pid, no application (-1)
NoModule == "none"   \* what current_game looks for
Absent == [text |-> "", fits |-> FALSE]    \* a key that is not there
Missing == [versions |-> <<>>, title |-> "absent"]
Unknown == "unknown"   \* the version copied where there is none
TitleId == "id"        \* the title id, as a name
ghosts == <<had, steady, gone, short>>
games == <<version, title, given>>
world == <<running, events>>
search == <<loop, app, want, table, at, handles, pid>>
allVars == <<world, pc, search, ghosts, games>>

Procs == {running[i] : i \in DOMAIN running}
Running(p) == {x \in Procs : x.pid = p}
Offers(x, m) == m \in x.mods \ Hollow \/ m = Eboot \/ m = x.name
\* a process that answers the call
Answers(x) == (loop = "one" \/ x.app = app) /\ (want # NoModule => Offers(x, want))

-----------------------------------------------------------------------------
(* The console. A pid that exited during a call is not given away before it ends.  *)

Start(p, a, image) ==
  /\ events < MaxEvents /\ Running(p) = {} /\ p \notin gone
  /\ LET x == [pid |-> p, app |-> a, comm |-> image.comm, name |-> image.name,
               mods |-> image.mods]
     IN /\ running' = <<x>> \o running
        /\ had' = had \cup (IF pc # "idle" /\ Answers(x) /\ (loop = "one" => p = pid) THEN {p} ELSE {})
  /\ events' = events + 1
  /\ UNCHANGED <<pc, search, steady, gone, short, games>>
Exit(i) ==
  /\ running' = [j \in 1..(Len(running) - 1) |-> running[IF j < i THEN j ELSE j + 1]]
  /\ gone' = (IF pc = "idle" THEN {} ELSE gone \cup {running[i].pid})
  /\ steady' = steady \ {running[i]}
  /\ UNCHANGED <<events, pc, search, had, short, games>>
LoadModule(i, m) ==
  /\ m \notin running[i].mods /\ events < MaxEvents /\ events' = events + 1
  /\ LET x == [running[i] EXCEPT !.mods = @ \cup {m}]
     IN /\ running' = [running EXCEPT ![i] = x]
        /\ had' = had \cup (IF pc # "idle" /\ Answers(x) /\ (loop = "one" => x.pid = pid) THEN {x.pid} ELSE {})
        /\ steady' = IF running[i] \in steady THEN (steady \ {running[i]}) \cup {x} ELSE steady
  /\ UNCHANGED <<pc, search, gone, short, games>>

-----------------------------------------------------------------------------
(* The three calls. *)

Begin(a, m, in, p) ==
  /\ pc = "idle" /\ app' = a /\ want' = m /\ loop' = in /\ pid' = p
  /\ steady' = {x \in Procs : Answers(x)' /\ (in = "one" => x.pid = p)}
  /\ had' = {x.pid : x \in steady'}
  /\ UNCHANGED <<world, table, at, handles, gone, short, games>>
\* current_game: the id of the BigApp, which may have no process (left)
CurrentGame(a) == pc' = "table" /\ Begin(a, NoModule, "table", None)
NoBigApp == pc' = "lost" /\ Begin(None, NoModule, "table", None)
FindModule(p, m) == pc' = "count" /\ Begin(None, m, "one", p)
FindInApp(a, m) == pc' = "table" /\ Begin(a, m, "table", None)

\* read_process_table; without it only the scan over pids is left
ReadTable ==
  /\ pc = "table" /\ pc' = "loop" /\ table' = running
  /\ UNCHANGED <<world, loop, app, want, at, handles, pid, ghosts, games>>
TableFails ==
  /\ pc = "table" /\ "table" \in Faults
  /\ pc' = "loop" /\ loop' = "scan"
  /\ UNCHANGED <<world, app, want, table, at, handles, pid, ghosts, games>>

\* the candidate, and process_matches_app
Last == IF loop = "table" THEN Len(table) ELSE LastPid
Candidate == CASE loop = "table" -> table[at].pid [] loop = "scan" -> at [] OTHER -> pid
AnyApp == Running(Candidate) # {}    \* mutant: the application is not compared
Matches == \E x \in Running(Candidate) : x.app = app
GoOn ==
  /\ IF loop = "one" THEN pc' = "lost" /\ at' = at ELSE pc' = "loop" /\ at' = at + 1
  /\ UNCHANGED <<world, loop, app, want, table, handles, pid, games>>
Goes(here, there) == pc = here /\ pc' = there /\ UNCHANGED <<world, search, ghosts, games>>
Found(p) ==
  /\ pc' = (IF want = NoModule THEN "path" ELSE "found") /\ pid' = p /\ at' = 1
  /\ table' = <<>> /\ handles' = {}                     \* free
  /\ had' = had \cap {p} /\ steady' = {} /\ gone' = {}   \* what the properties still need
  /\ UNCHANGED <<world, loop, app, want, short, games>>

Match ==
  /\ Goes("loop", IF want = NoModule THEN "name" ELSE "count")
  /\ at <= Last /\ Matches
Pass == pc = "loop" /\ at <= Last /\ ~Matches /\ GoOn /\ UNCHANGED ghosts
\* mutant: no scan over pids after a table without a match
TableIsAll == Goes("loop", "lost") /\ loop = "table" /\ at > Last
TableEnds ==
  /\ pc = "loop" /\ loop = "table" /\ at > Last
  /\ loop' = "scan" /\ at' = 1
  /\ UNCHANGED <<world, pc, app, want, table, handles, pid, ghosts, games>>
ScanEnds == Goes("loop", "lost") /\ loop = "scan" /\ at > Last
\* the process's name: of the table's process just as the table has it
Named == \E x \in Running(Candidate) : x.name = table[at].comm
TakeName == pc = "name" /\ (loop = "table" => Named) /\ Found(Candidate)
PassName == pc = "name" /\ loop = "table" /\ ~Named /\ GoOn /\ UNCHANGED ghosts

-----------------------------------------------------------------------------
(* find_module_with_fallback: find_native_module, then find_eboot_imagebase.       *)

Count == {Cardinality(x.mods) : x \in Running(Candidate)}
Refusal(f, cond) == IF cond \/ f \in Faults THEN short' = TRUE ELSE FALSE
CountModules ==
  /\ pc = "count" /\ pc' = "list"
  /\ \E x \in Running(Candidate) : x.mods # {} /\ Cardinality(x.mods) <= MaxHandles
                                   /\ handles' = x.mods
  /\ UNCHANGED <<world, loop, app, want, table, at, pid, ghosts, games>>
NoCount ==
  /\ pc = "count" /\ pc' = "eboot"
  /\ \/ Count \subseteq {0} /\ UNCHANGED short
     \/ Count # {} /\ Refusal("memory", \E n \in Count : n > MaxHandles)
  /\ UNCHANGED <<world, search, had, steady, gone, games>>
\* the list is asked for again: one that has grown does not fit
ListModules ==
  /\ pc = "list" /\ \E x \in Running(Candidate) : handles = x.mods
  /\ pc' = (IF want \in handles \ Hollow THEN "info" ELSE "eboot")
  /\ UNCHANGED <<world, search, ghosts, games>>
NoList ==
  /\ pc = "list" /\ pc' = "eboot" /\ \A x \in Running(Candidate) : handles # x.mods
  /\ short' = (short \/ Running(Candidate) # {})
  /\ UNCHANGED <<world, search, had, steady, gone, games>>
TakeModule == pc = "info" /\ Running(Candidate) # {} /\ Found(Candidate)
ModuleGone == Goes("info", "eboot") /\ Running(Candidate) = {}

IsEboot == \E x \in Running(Candidate) : want \in {Eboot, x.name}
FindEboot == Goes("eboot", "base") /\ IsEboot
NotEboot == pc = "eboot" /\ ~IsEboot /\ GoOn /\ UNCHANGED ghosts
TakeEboot == pc = "base" /\ Running(Candidate) # {} /\ Found(Candidate)
NoImagebase ==
  /\ pc = "base" /\ GoOn /\ UNCHANGED <<had, steady, gone>>
  /\ \/ Running(Candidate) = {} /\ UNCHANGED short
     \/ Refusal("kernel", FALSE)

-----------------------------------------------------------------------------
(* resolve_metadata. A value is [text, fits]; one that is too long is cut, and its  *)
(* key counts as absent, though the text stays.                                     *)

Texts(vs) == {i \in DOMAIN vs : vs[i].text # "" /\ vs[i].fits}
Written(vs) == {i \in DOMAIN vs : vs[i] # Absent}
FirstOf(S) == CHOOSE i \in S : \A j \in S : i <= j
LastOf(S) == CHOOSE i \in S : \A j \in S : j <= i
\* the loop over kVersionKeys; and APP_VER, then VERSION
KeyVersion(vs) ==
  IF Texts(vs) # {} THEN vs[FirstOf(Texts(vs))].text
  ELSE IF Written(vs) = {} THEN "" ELSE vs[LastOf(Written(vs))].text
SfoVersion(vs) ==
  LET some == {i \in DOMAIN vs : vs[i].text # ""}
  IN IF some = {} THEN "" ELSE vs[FirstOf(some)].text
VersionIn(f) == IF Platform[app] = "ps5" THEN KeyVersion(f.versions) ELSE SfoVersion(f.versions)
NameIn(f) == IF f.title = "absent" THEN "" ELSE f.title
Or(text, default) == IF text = "" THEN default ELSE text

BothKnown(f) == VersionIn(f) # "" /\ NameIn(f) # ""  \* mutant: until both are known
Enough(f) == VersionIn(f) # "" \/ NameIn(f) # ""
ReadMeta(f) ==
  /\ pc = "path" /\ at <= Paths
  /\ version' = Or(VersionIn(f), version) /\ title' = Or(NameIn(f), title)
  /\ given' = Append(given, f)
  /\ at' = (IF Enough(f) THEN Paths + 1 ELSE at + 1)
  /\ UNCHANGED <<world, pc, loop, app, want, table, handles, pid, ghosts>>
Defaults ==
  /\ pc = "path" /\ at > Paths /\ pc' = "found"
  /\ version' = Or(version, Unknown) /\ title' = Or(title, TitleId)
  /\ UNCHANGED <<world, search, ghosts, given>>

Init ==
  /\ running = <<>> /\ events = 0
  /\ pc = "idle" /\ loop = "table" /\ app = None /\ want = NoModule /\ table = <<>> /\ at = 1
  /\ handles = {} /\ pid = None /\ version = "" /\ title = ""
  /\ had = {} /\ steady = {} /\ gone = {} /\ short = FALSE /\ given = <<>>
\* the answer has been seen, and the next call starts afresh
Return ==
  /\ pc \in {"found", "lost"} /\ UNCHANGED world
  /\ pc' = "idle" /\ loop' = "table" /\ app' = None /\ want' = NoModule /\ table' = <<>>
  /\ at' = 1 /\ handles' = {} /\ pid' = None /\ version' = "" /\ title' = ""
  /\ had' = {} /\ steady' = {} /\ gone' = {} /\ short' = FALSE /\ given' = <<>>
Lookup ==
  \/ (\E a \in Apps : CurrentGame(a)) \/ NoBigApp \/ (\E p \in Pids, m \in Modules : FindModule(p, m))
  \/ (\E a \in Apps, m \in Modules : FindInApp(a, m))
  \/ ReadTable \/ TableFails \/ Match \/ Pass \/ TableEnds \/ ScanEnds \/ TakeName \/ PassName
  \/ CountModules \/ NoCount \/ ListModules \/ NoList \/ TakeModule \/ ModuleGone
  \/ FindEboot \/ NotEboot \/ TakeEboot \/ NoImagebase
  \/ (\E f \in MetaFiles \cup {Missing} : ReadMeta(f)) \/ Defaults \/ Return
Console ==
  \/ \E p \in Pids, a \in Apps, image \in Images : Start(p, a, image)
  \/ \E i \in DOMAIN running : Exit(i)
  \/ \E i \in DOMAIN running, m \in Modules : LoadModule(i, m)
Next == Console \/ Lookup
Spec == Init /\ [][Next]_allVars

-----------------------------------------------------------------------------
(* Properties. *)

\* The process a lookup answers was an answer at some moment of the call: it ran the
\* application and offered the module together, although these are asked for in calls of
\* their own while processes come and go (ps5_game_platform.cpp:284-295, 300-306, 458-473).
AnswerIsReal == pc \in {"path", "found"} => pid \in had
\* A process that answers throughout the call is not missed, whatever starts and exits
\* meanwhile, unless a list of modules or an image base is refused, or both ways to it are
\* shut: its pid is past the end of the scan, and the table could not be read or has another
\* name for it (ps5_game_platform.cpp:266-309, 336-362 and 440-475).
StableIsFound ==
  pc = "lost" =>
    \A x \in steady :
      short \/ (x.pid > LastPid /\ (table = <<>> \/ (want = NoModule /\ x.name # x.comm)))
\* Name and version come from one file, the first of the paths that has either: those of two
\* installations are never mixed, and what is missing gets its default (lines 203-235).
Useful == {k \in DOMAIN given : VersionIn(given[k]) # "" \/ NameIn(given[k]) # ""}
MetadataFromOneFile ==
  pc = "found" /\ want = NoModule =>
    IF Useful = {} THEN version = Unknown /\ title = TitleId
    ELSE LET f == given[FirstOf(Useful)]
         IN /\ version = Or(VersionIn(f), Unknown) /\ title = Or(NameIn(f), TitleId)
=============================================================================
