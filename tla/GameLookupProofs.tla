--------------------------- MODULE GameLookupProofs ---------------------------
(* For any processes, modules, files and failures: what a lookup answers was an      *)
(* answer at some moment of the call, a process that answers throughout the call is  *)
(* not missed, and name and version come from one file. The first rests on pids that *)
(* are not given away within a call: whatever has been found out about a candidate   *)
(* stays true of it, or it is gone. The second follows what the loops have before    *)
(* them of the processes that answer from the beginning.                             *)
EXTENDS GameLookup, FiniteSetTheorems, TLAPS

Proc == [pid : Pids, app : Apps, comm : {i.comm : i \in Images}, name : {i.name : i \in Images},
         mods : SUBSET (Modules \cup UNION {i.mods : i \in Images})]

\* every process has a pid of its own
OwnPid == \A i, j \in DOMAIN running : running[i].pid = running[j].pid => i = j
Calling == pc \notin {"idle", "path", "found", "lost"}
\* who answers now has been noted
Noted == Calling => \A x \in Procs : Answers(x) /\ (loop = "one" => x.pid = pid) => x.pid \in had
\* the candidate is the process it was, or gone
Kept == Running(Candidate) # {} \/ Candidate \in gone
Checked ==
  /\ pc = "table" => loop = "table"
  /\ pc = "name" => Candidate \in had
  /\ pc \in {"count", "list", "info", "eboot", "base"} /\ loop # "one" =>
       Kept /\ \A x \in Running(Candidate) : x.app = app
  /\ pc = "info" => Kept /\ \A x \in Running(Candidate) : want \in x.mods \ Hollow
  /\ pc = "base" => Kept /\ \A x \in Running(Candidate) : want \in {Eboot, x.name}
Inv == running \in Seq(Proc) /\ OwnPid /\ Noted /\ Checked /\ AnswerIsReal

-----------------------------------------------------------------------------
\* two processes with one pid are one
LEMMA OnePerPid ==
  ASSUME Inv, NEW x \in Procs, NEW y \in Procs, x.pid = y.pid
  PROVE  x = y
BY DEF Inv, Procs, OwnPid

LEMMA InitInv == Init => Inv
<1> SUFFICES ASSUME Init PROVE Inv  OBVIOUS
<1>1. running = <<>> /\ pc = "idle"
  BY DEF Init
<1>2. running \in Seq(Proc) /\ OwnPid
  BY <1>1 DEF OwnPid
<1> QED  BY <1>1, <1>2 DEF Inv, Noted, Calling, Checked, AnswerIsReal

-----------------------------------------------------------------------------
(* The console.                                                                    *)

LEMMA Starts ==
  ASSUME Inv, NEW p \in Pids, NEW a \in Apps, NEW image \in Images, Start(p, a, image)
  PROVE  Inv'
<1> DEFINE x == [pid |-> p, app |-> a, comm |-> image.comm, name |-> image.name,
                 mods |-> image.mods]
<1>1. x \in Proc  BY DEF Proc
<1>2. running' = <<x>> \o running /\ p \notin gone /\ Running(p) = {}
  BY DEF Start
<1>3. running' \in Seq(Proc)
  BY <1>1, <1>2 DEF Inv
<1>4. Len(running') = Len(running) + 1 /\ running'[1] = x
      /\ \A i \in DOMAIN running' : i # 1 => i - 1 \in DOMAIN running /\ running'[i] = running[i - 1]
  BY <1>1, <1>2 DEF Inv
<1>5. \A i \in DOMAIN running : i + 1 \in DOMAIN running' /\ running'[i + 1] = running[i]
  BY <1>1, <1>2 DEF Inv
<1>6. \A i \in DOMAIN running : running[i].pid # p
  BY <1>2 DEF Running, Procs
<1>7. OwnPid'
  <2> SUFFICES ASSUME NEW i \in DOMAIN running', NEW j \in DOMAIN running',
                      running'[i].pid = running'[j].pid
               PROVE  i = j
    BY DEF OwnPid
  <2>0. i \in Nat /\ j \in Nat  BY <1>3
  <2>1. CASE i = 1 /\ j = 1  BY <2>1
  <2>2. CASE i = 1 /\ j # 1  BY <2>2, <1>4, <1>6
  <2>3. CASE i # 1 /\ j = 1  BY <2>3, <1>4, <1>6
  <2>4. CASE i # 1 /\ j # 1
    <3>1. i - 1 = j - 1  BY <2>4, <1>4 DEF Inv, OwnPid
    <3> QED  BY <3>1, <2>0
  <2> QED  BY <2>1, <2>2, <2>3, <2>4
<1>8. Procs' = Procs \cup {x}
  <2>1. Procs' \subseteq Procs \cup {x}  BY <1>4 DEF Procs
  <2>2. Procs \subseteq Procs'  BY <1>5 DEF Procs
  <2>3. x \in Procs'  BY <1>3, <1>4 DEF Procs, Inv
  <2> QED  BY <2>1, <2>2, <2>3
<1>9. had \subseteq had' /\ (Calling /\ Answers(x) /\ (loop = "one" => p = pid) => p \in had')
  BY DEF Start, Calling
<1>10. \A y : Answers(y)' <=> Answers(y)
  BY DEF Start, Answers, Offers, search
<1>11. Candidate' = Candidate /\ pc' = pc /\ loop' = loop /\ pid' = pid /\ gone' = gone
       /\ app' = app /\ want' = want
  BY DEF Start, Candidate, search
<1>12. Noted'
  BY <1>8, <1>9, <1>10, <1>11 DEF Inv, Noted, Calling
<1>13. Kept => Kept' /\ Running(Candidate)' = Running(Candidate)
  <2> SUFFICES ASSUME Kept PROVE Kept' /\ Running(Candidate)' = Running(Candidate)  OBVIOUS
  <2>1. Candidate # p  BY <1>2 DEF Kept
  <2> QED  BY <2>1, <1>8, <1>11 DEF Kept, Running
<1>14. Checked'
  BY <1>9, <1>11, <1>13 DEF Inv, Checked
<1> QED  BY <1>3, <1>7, <1>9, <1>11, <1>12, <1>14 DEF Inv, AnswerIsReal

\* the others stay
LEMMA ExitKeeps ==
  ASSUME running \in Seq(Proc), NEW i \in DOMAIN running, Exit(i), NEW x \in Procs,
         x # running[i]
  PROVE  x \in Procs'
<1> DEFINE old(j) == IF j < i THEN j ELSE j + 1
<1>1. running' = [j \in 1..(Len(running) - 1) |-> running[old(j)]]
  BY DEF Exit
<1>2. Len(running) \in Nat /\ DOMAIN running = 1..Len(running)
  OBVIOUS
<1>3. PICK k \in 1..Len(running) : x = running[k]
  BY <1>2 DEF Procs
<1>4. k # i /\ i \in 1..Len(running) /\ DOMAIN running' = 1..(Len(running) - 1)
  BY <1>1, <1>2, <1>3
<1>5. CASE k < i
  <2>1. k \in 1..(Len(running) - 1) /\ old(k) = k  BY <1>2, <1>4, <1>5
  <2> QED  BY <2>1, <1>1, <1>3, <1>4 DEF Procs
<1>6. CASE ~(k < i)
  <2>1. k - 1 \in 1..(Len(running) - 1) /\ old(k - 1) = k  BY <1>2, <1>4, <1>6
  <2> QED  BY <2>1, <1>1, <1>3, <1>4 DEF Procs
<1> QED  BY <1>5, <1>6

LEMMA Exits ==
  ASSUME Inv, NEW i \in DOMAIN running, Exit(i)
  PROVE  Inv'
<1> DEFINE old(j) == IF j < i THEN j ELSE j + 1
<1>1. running' = [j \in 1..(Len(running) - 1) |-> running[old(j)]] /\ i \in 1..Len(running)
  BY DEF Exit, Inv
<1>2. Len(running) \in Nat /\ DOMAIN running = 1..Len(running)
      /\ \A j \in DOMAIN running : running[j] \in Proc
  BY DEF Inv
<1>3. \A j \in 1..(Len(running) - 1) : old(j) \in DOMAIN running /\ old(j) # i
  BY <1>1, <1>2
<1>4. running' \in Seq(Proc) /\ DOMAIN running' = 1..(Len(running) - 1)
  <2>1. Len(running) - 1 \in Nat  BY <1>1, <1>2
  <2> QED  BY <1>1, <1>2, <1>3, <2>1
<1>5. OwnPid'
  <2> SUFFICES ASSUME NEW j \in DOMAIN running', NEW k \in DOMAIN running',
                      running'[j].pid = running'[k].pid
               PROVE  j = k
    BY DEF OwnPid
  <2>1. running[old(j)].pid = running[old(k)].pid  BY <1>1, <1>4
  <2>2. old(j) = old(k)  BY <2>1, <1>3, <1>4 DEF Inv, OwnPid
  <2> QED  BY <2>2, <1>4, <1>2
<1>6. Procs' \subseteq Procs
  BY <1>1, <1>3, <1>4 DEF Procs
<1>7. \A x \in Procs : x.pid # running[i].pid => x \in Procs'
  BY ExitKeeps DEF Inv
<1>8. UNCHANGED <<pc, loop, app, want, table, at, handles, pid, had>>
      /\ (pc # "idle" => gone' = gone \cup {running[i].pid})
  BY DEF Exit, search
<1>9. Noted'
  BY <1>6, <1>8 DEF Inv, Noted, Calling, Answers, Offers
<1>10. Candidate' = Candidate
  BY <1>8 DEF Candidate
<1>11. Running(Candidate)' \subseteq Running(Candidate)
  BY <1>6, <1>10 DEF Running
<1>12. pc # "idle" /\ Kept => Kept'
  <2> SUFFICES ASSUME pc # "idle", Kept PROVE Kept'  OBVIOUS
  <2>1. CASE Candidate = running[i].pid  BY <2>1, <1>8, <1>10 DEF Kept
  <2>2. CASE Candidate # running[i].pid
    <3>1. Running(Candidate) \subseteq Running(Candidate)'  BY <2>2, <1>7, <1>10 DEF Running
    <3> QED  BY <3>1, <1>8, <1>10 DEF Kept
  <2> QED  BY <2>1, <2>2
<1>13. Checked'
  BY <1>8, <1>10, <1>11, <1>12 DEF Inv, Checked
<1> QED  BY <1>4, <1>5, <1>8, <1>9, <1>13 DEF Inv, AnswerIsReal

LEMMA Loads ==
  ASSUME Inv, NEW i \in DOMAIN running, NEW m \in Modules, LoadModule(i, m)
  PROVE  Inv'
<1> DEFINE x == [running[i] EXCEPT !.mods = @ \cup {m}]
<1>1. running' = [running EXCEPT ![i] = x] /\ had \subseteq had'
      /\ (Calling /\ Answers(x) /\ (loop = "one" => x.pid = pid) => x.pid \in had')
  BY DEF LoadModule, Calling
<1>2. running[i] \in Proc  BY DEF Inv
<1>3. x \in Proc /\ x.pid = running[i].pid /\ x.app = running[i].app
      /\ x.name = running[i].name /\ running[i].mods \subseteq x.mods
  BY <1>2 DEF Proc
<1>4. running' \in Seq(Proc) /\ DOMAIN running' = DOMAIN running
      /\ \A j \in DOMAIN running : running'[j] = IF j = i THEN x ELSE running[j]
  BY <1>1, <1>3 DEF Inv
<1>5. OwnPid'
  BY <1>3, <1>4 DEF Inv, OwnPid
<1>6. Procs' \subseteq Procs \cup {x}
  BY <1>4 DEF Procs
<1>7. UNCHANGED <<pc, loop, app, want, table, at, handles, pid, gone>>
  BY DEF LoadModule, search
<1>8. Noted'
  BY <1>1, <1>6, <1>7 DEF Inv, Noted, Calling, Answers, Offers
<1>9. Candidate' = Candidate
  BY <1>7 DEF Candidate
<1>10. \A y \in Running(Candidate)' :
         \E z \in Running(Candidate) : y.app = z.app /\ y.name = z.name /\ z.mods \subseteq y.mods
  BY <1>3, <1>6, <1>9 DEF Running, Procs
<1>11. Kept => Kept'
  <2> SUFFICES ASSUME NEW y \in Running(Candidate) PROVE Running(Candidate)' # {}
    BY <1>7, <1>9 DEF Kept
  <2>1. PICK j \in DOMAIN running : y = running[j] /\ y.pid = Candidate
    BY DEF Running, Procs
  <2>2. running'[j] \in Procs' /\ running'[j].pid = Candidate
    BY <2>1, <1>3, <1>4 DEF Procs
  <2> QED  BY <2>2, <1>9 DEF Running
<1>12. Checked'
  BY <1>1, <1>7, <1>9, <1>10, <1>11 DEF Inv, Checked
<1> QED  BY <1>1, <1>4, <1>5, <1>7, <1>8, <1>12 DEF Inv, AnswerIsReal

-----------------------------------------------------------------------------
(* The calls. None of them changes a process.                                      *)

LEMMA Begins ==
  ASSUME Inv, NEW a, NEW m, NEW in, NEW p, Begin(a, m, in, p),
         pc' \in {"table", "count", "lost"}, pc' = "table" => in = "table",
         pc' = "count" => in = "one"
  PROVE  Inv'
<1>1. UNCHANGED running /\ loop' = in /\ pid' = p
      /\ had' = {x.pid : x \in {y \in Procs : Answers(y)' /\ (in = "one" => y.pid = p)}}
  BY DEF Begin, world
<1>2. Procs' = Procs /\ OwnPid'
  BY <1>1 DEF Procs, Inv, OwnPid
<1>3. Noted'
  BY <1>1, <1>2 DEF Noted
<1> QED  BY <1>1, <1>2, <1>3 DEF Inv, Checked, AnswerIsReal

\* a step that moves on within a call and keeps what has been noted
LEMMA Steps ==
  ASSUME Inv, UNCHANGED <<running, app, want, had>>, Calling,
         pc' \in {"lost", "loop"} \/ Checked', pc' \notin {"path", "found", "table"},
         loop' = "one" <=> loop = "one", loop = "one" => pid' = pid
  PROVE  Inv'
<1>1. Procs' = Procs /\ OwnPid'
  BY DEF Procs, Inv, OwnPid
<1>2. \A x : Answers(x)' <=> Answers(x)
  BY DEF Answers, Offers
<1>3. Noted'
  BY <1>1, <1>2 DEF Noted, Inv
<1> QED  BY <1>1, <1>3 DEF Inv, Checked, AnswerIsReal

\* one that answers
LEMMA Founds ==
  ASSUME Inv, NEW p \in had, Found(p)
  PROVE  Inv'
<1>1. UNCHANGED running /\ pid' = p /\ had' = had \cap {p} /\ pc' \in {"path", "found"}
  BY DEF Found, world
<1>2. OwnPid'
  BY <1>1 DEF Inv, OwnPid
<1> QED  BY <1>1, <1>2 DEF Inv, Noted, Calling, Checked, AnswerIsReal

\* a candidate that passes the checks answers
LEMMA Answering ==
  ASSUME Inv, NEW x \in Running(Candidate), loop = "one" \/ x.app = app,
         want = NoModule \/ Offers(x, want), Calling
  PROVE  Candidate \in had
<1>1. x \in Procs /\ x.pid = Candidate /\ Answers(x)
  BY DEF Running, Answers
<1>2. loop = "one" => x.pid = pid
  BY <1>1 DEF Candidate
<1> QED  BY <1>1, <1>2 DEF Inv, Noted

LEMMA Stutters ==
  ASSUME UNCHANGED allVars
  PROVE  UNCHANGED <<running, pc, loop, app, want, table, at, pid, had, gone>>
<1>1. UNCHANGED world /\ UNCHANGED pc /\ UNCHANGED search /\ UNCHANGED ghosts
  BY DEF allVars
<1> QED  BY <1>1 DEF world, search, ghosts

LEMMA NextKeeps == Inv /\ [Next]_allVars => Inv'
<1> SUFFICES ASSUME Inv, [Next]_allVars PROVE Inv'  OBVIOUS
<1> USE DEF Calling, world, search, ghosts, games
<1>1. CASE Console
  BY <1>1, Starts, Exits, Loads DEF Console
<1>2. ASSUME NEW a \in Apps, CurrentGame(a) PROVE Inv'
  BY <1>2, Begins DEF CurrentGame
<1>3. CASE NoBigApp
  BY <1>3, Begins DEF NoBigApp
<1>4. ASSUME NEW p \in Pids, NEW m \in Modules, FindModule(p, m) PROVE Inv'
  BY <1>4, Begins DEF FindModule
<1>5. ASSUME NEW a \in Apps, NEW m \in Modules, FindInApp(a, m) PROVE Inv'
  BY <1>5, Begins DEF FindInApp
<1>6. CASE ReadTable
  BY <1>6, Steps DEF ReadTable
<1>7. CASE TableFails
  BY <1>7, Steps DEF TableFails, Inv, Checked
<1>8. CASE Match
  <2>1. PICK x \in Running(Candidate) : x.app = app
    BY <1>8 DEF Match, Matches
  <2>2. \A y \in Running(Candidate) : y = x
    BY <2>1, OnePerPid DEF Running
  <2>3. want = NoModule => Candidate \in had
    BY <1>8, <2>1, Answering DEF Match, Goes
  <2>4. Candidate' = Candidate /\ Running(Candidate)' = Running(Candidate)
    BY <1>8 DEF Match, Goes, Candidate, Running, Procs
  <2>5. Checked'
    BY <1>8, <2>1, <2>2, <2>3, <2>4 DEF Match, Goes, Checked, Kept
  <2> QED  BY <1>8, <2>5, Steps DEF Match, Goes
<1>9. CASE Pass
  BY <1>9, Steps DEF Pass, GoOn
<1>10. CASE TableEnds
  BY <1>10, Steps DEF TableEnds
<1>11. CASE ScanEnds
  BY <1>11, Steps DEF ScanEnds, Goes
<1>12. CASE TakeName
  BY <1>12, Founds DEF TakeName, Inv, Checked
<1>13. CASE PassName
  BY <1>13, Steps DEF PassName, GoOn
<1>14. CASE CountModules \/ NoCount \/ NoList \/ ModuleGone
  <2>1. UNCHANGED <<running, app, want, had, loop, pid, table, at, gone>>
        /\ pc \in {"count", "list", "info"} /\ pc' \in {"list", "eboot"}
    BY <1>14 DEF CountModules, NoCount, NoList, ModuleGone, Goes
  <2>2. Candidate' = Candidate /\ Running(Candidate)' = Running(Candidate)
    BY <2>1 DEF Candidate, Running, Procs
  <2>3. Checked'
    BY <2>1, <2>2 DEF Inv, Checked, Kept
  <2> QED  BY <2>1, <2>3, Steps
<1>15. CASE ListModules \/ FindEboot
  <2>1. UNCHANGED <<running, app, want, had, loop, pid, table, at, gone>>
        /\ pc \in {"list", "eboot"} /\ pc' \in {"info", "eboot", "base"}
    BY <1>15 DEF ListModules, FindEboot, Goes
  <2>2. Candidate' = Candidate /\ Running(Candidate)' = Running(Candidate)
    BY <2>1 DEF Candidate, Running, Procs
  <2>3. PICK x \in Running(Candidate) :
          /\ pc' = "info" => want \in x.mods \ Hollow
          /\ pc' = "base" => want \in {Eboot, x.name}
    BY <1>15 DEF ListModules, FindEboot, IsEboot, Goes
  <2>4. \A y \in Running(Candidate) : y = x
    BY <2>3, OnePerPid DEF Running
  <2>5. Checked'
    BY <2>1, <2>2, <2>3, <2>4 DEF Inv, Checked, Kept
  <2> QED  BY <2>1, <2>5, Steps
<1>16. CASE TakeModule \/ TakeEboot
  <2>1. PICK x \in Running(Candidate) : TRUE
    BY <1>16 DEF TakeModule, TakeEboot
  <2>2. Offers(x, want) /\ (loop = "one" \/ x.app = app)
    BY <1>16, <2>1 DEF TakeModule, TakeEboot, Inv, Checked, Offers
  <2>3. Candidate \in had
    BY <1>16, <2>2, Answering DEF TakeModule, TakeEboot
  <2> QED  BY <1>16, <2>3, Founds DEF TakeModule, TakeEboot
<1>17. CASE NotEboot \/ NoImagebase
  BY <1>17, Steps DEF NotEboot, NoImagebase, GoOn
<1>18. CASE (\E f \in MetaFiles \cup {Missing} : ReadMeta(f)) \/ Defaults \/ UNCHANGED allVars
  <2>1. UNCHANGED <<running, loop, app, want, had, pid, gone>>
        /\ (pc' = pc \/ (pc' = "found" /\ pc = "path"))
        /\ (pc = "path" \/ UNCHANGED <<pc, table, at>>)
    <3>1. ASSUME NEW f \in MetaFiles \cup {Missing}, ReadMeta(f) PROVE <2>1!:
      BY <3>1 DEF ReadMeta
    <3>2. CASE Defaults  BY <3>2 DEF Defaults
    <3>3. CASE UNCHANGED allVars  BY <3>3, Stutters
    <3> QED  BY <1>18, <3>1, <3>2, <3>3
  <2>2. Procs' = Procs /\ OwnPid' /\ AnswerIsReal'
    BY <2>1 DEF Procs, Inv, OwnPid, AnswerIsReal
  <2>3. Noted'
    BY <2>1, <2>2 DEF Inv, Noted, Answers, Offers
  <2>4. Checked'
    <3>1. CASE pc = "path"  BY <3>1, <2>1 DEF Checked
    <3>2. CASE pc # "path"
      <4>1. Candidate' = Candidate /\ Running(Candidate)' = Running(Candidate)
        BY <3>2, <2>1, <2>2 DEF Candidate, Running
      <4> QED  BY <3>2, <2>1, <4>1 DEF Inv, Checked, Kept
    <3> QED  BY <3>1, <3>2
  <2> QED  BY <2>1, <2>2, <2>3, <2>4 DEF Inv
<1>19. CASE Return
  BY <1>19 DEF Return, Inv, OwnPid, Noted, Checked, AnswerIsReal
<1> QED
  BY <1>1, <1>2, <1>3, <1>4, <1>5, <1>6, <1>7, <1>8, <1>9, <1>10, <1>11, <1>12, <1>13, <1>14,
     <1>15, <1>16, <1>17, <1>18, <1>19 DEF Next, Lookup

-----------------------------------------------------------------------------
\* AnswerIsReal, for any processes, applications, modules, files and failures: the three
\* lookups of ps5_game_platform.cpp:411-475 never put together an answer out of two
\* processes, or out of what one process was at different times.
THEOREM AnswersAreReal == Spec => []AnswerIsReal
<1>1. Inv => AnswerIsReal  BY DEF Inv
<1> QED  BY InitInv, NextKeeps, <1>1, PTL DEF Spec
-----------------------------------------------------------------------------
(* A process that answers throughout the call is not missed.                       *)

\* the table has another name for it than the kernel
Elsewhere(x) == want = NoModule /\ x.name # x.comm
\* the loop has x before it, or the table has passed it by for its name
AtHand(x) ==
  \/ loop = "one"
  \/ /\ loop = "table"
     /\ \/ pc = "table"
        \/ \E k \in DOMAIN table : /\ table[k].pid = x.pid /\ table[k].comm = x.comm
                                   /\ k >= at \/ Elsewhere(x)
  \/ loop = "scan" /\ x.pid >= at /\ (table = <<>> \/ Elsewhere(x))
Ahead == Calling => \A x \in steady : short \/ AtHand(x)
\* when the list of modules has not given it, only the image base is left
BaseLeft ==
  pc \in {"eboot", "base"} =>
    \A x \in steady : x.pid = Candidate => short \/ want \in {Eboot, x.name}
Steady == \A x \in steady : x \in Procs /\ Answers(x) /\ (loop = "one" => x.pid = pid)
Phases ==
  /\ at \in Nat /\ table \in Seq(Proc) /\ loop \in {"one", "table", "scan"}
  /\ pc \in {"idle", "table"} => table = <<>> /\ at = 1
  /\ pc \in {"table", "loop", "name"} => loop \in {"table", "scan"}
  /\ pc = "name" => want = NoModule
  /\ pc \in {"count", "list", "info", "eboot", "base"} => want # NoModule
  /\ pc \in {"idle", "path", "found"} => steady = {}
FindInv == Phases /\ Steady /\ Ahead /\ BaseLeft /\ StableIsFound

LEMMA ProcType ==
  ASSUME Inv, NEW x \in Procs
  PROVE  x \in Proc /\ x.pid \in Nat /\ x.pid >= 1 /\ x.app \in Apps /\ x.app # None
<1>1. x \in Proc  BY DEF Inv, Procs
<1>2. x.pid \in Pids /\ x.app \in Apps  BY <1>1 DEF Proc
<1>3. x.pid \in Nat \ {0}  BY <1>2, LookupAssumption
<1>5. x.pid \in Nat /\ x.pid >= 1  BY <1>3
<1>4. x.app # None  BY <1>2, LookupAssumption DEF None
<1> QED  BY <1>1, <1>2, <1>4, <1>5

LEMMA NoMods ==
  ASSUME Inv, NEW x \in Procs, Cardinality(x.mods) = 0
  PROVE  x.mods = {}
<1>1. x.mods \subseteq Modules \cup UNION {i.mods : i \in Images}
  BY ProcType DEF Proc
<1>2. IsFiniteSet(x.mods)
  BY <1>1, FS_Subset, LookupAssumption
<1> QED  BY <1>2, FS_EmptySet

LEMMA InitFind == Init => FindInv
<1> SUFFICES ASSUME Init PROVE FindInv  OBVIOUS
<1>1. table = <<>> /\ at = 1 /\ pc = "idle" /\ steady = {} /\ loop = "table"
  BY DEF Init
<1> QED  BY <1>1 DEF FindInv, Phases, Steady, Ahead, Calling, BaseLeft, StableIsFound

\* what the console does to the processes that answer throughout
LEMMA ConsoleFinds ==
  ASSUME Inv, FindInv, UNCHANGED <<pc, search, short>>,
         \A x \in steady' : x \in Procs' /\ \E y \in steady :
           /\ x.pid = y.pid /\ x.app = y.app /\ x.comm = y.comm /\ x.name = y.name
           /\ y.mods \subseteq x.mods
  PROVE  FindInv'
<1>1. UNCHANGED <<pc, loop, app, want, table, at, pid, short>>
  BY DEF search
<1>2. Phases'
  BY <1>1 DEF FindInv, Phases
<1>3. Steady'
  BY <1>1 DEF FindInv, Steady, Answers, Offers
<1>4. Ahead'
  BY <1>1 DEF FindInv, Ahead, Calling, AtHand, Elsewhere
<1>5. BaseLeft'
  BY <1>1 DEF FindInv, BaseLeft, Candidate
<1>6. StableIsFound'
  BY <1>1 DEF FindInv, StableIsFound
<1> QED  BY <1>2, <1>3, <1>4, <1>5, <1>6 DEF FindInv

LEMMA BeginFinds ==
  ASSUME Inv, FindInv, NEW a, NEW m, NEW in, NEW p, Begin(a, m, in, p),
         \/ pc' = "table" /\ in = "table"
         \/ pc' = "count" /\ in = "one" /\ m # NoModule
         \/ pc' = "lost" /\ in = "table" /\ a = None
  PROVE  FindInv'
<1>1. /\ pc = "idle" /\ app' = a /\ want' = m /\ loop' = in /\ pid' = p
      /\ steady' = {x \in Procs : Answers(x)' /\ (in = "one" => x.pid = p)}
      /\ UNCHANGED <<running, table, at, short>>
  BY DEF Begin, world
<1>2. Procs' = Procs
  BY <1>1 DEF Procs
<1>3. Phases'
  BY <1>1 DEF FindInv, Phases
<1>5. Steady'
  BY <1>1, <1>2 DEF Steady
<1>6. Ahead' /\ BaseLeft'
  BY <1>1 DEF Ahead, AtHand, BaseLeft, Calling
<1>4. ASSUME pc' = "lost", NEW x \in steady' PROVE FALSE
  <2>1. x \in Procs /\ x.app = None
    BY <1>1, <1>4 DEF Answers
  <2> QED  BY <2>1, ProcType
<1> QED  BY <1>3, <1>4, <1>5, <1>6 DEF FindInv, StableIsFound

\* the loop leaves a candidate that is no answer
LEMMA GoOnFinds ==
  ASSUME Inv, FindInv, GoOn, UNCHANGED steady, short => short',
         pc \in {"loop", "name", "eboot", "base"},
         \A x \in steady : x.pid = Candidate =>
           short' \/ (loop = "table" /\ (table[at].comm = x.comm => Elsewhere(x)))
  PROVE  FindInv'
<1>1. /\ UNCHANGED <<running, loop, app, want, table, pid>>
      /\ IF loop = "one" THEN pc' = "lost" /\ at' = at ELSE pc' = "loop" /\ at' = at + 1
  BY DEF GoOn, world
<1>2. Procs' = Procs
  BY <1>1 DEF Procs
<1>3. at \in Nat
  BY DEF FindInv, Phases
<1>4. Steady' /\ BaseLeft'
  BY <1>1, <1>2 DEF FindInv, Steady, Answers, Offers, BaseLeft
<1>5. CASE loop = "one"
  <2>1. \A x \in steady : short'
    BY <1>5 DEF FindInv, Steady, Candidate
  <2> QED  BY <1>1, <1>4, <1>5, <2>1 DEF FindInv, Phases, Ahead, Calling, StableIsFound
<1>6. CASE loop # "one"
  <2>1. Phases'
    BY <1>1, <1>3, <1>6 DEF FindInv, Phases
  <2>2. ASSUME NEW x \in steady, ~short' PROVE AtHand(x)'
    <3>1. AtHand(x) /\ at \in Nat
      BY <2>2 DEF FindInv, Ahead, Calling, Phases
    <3>2. CASE loop = "table"
      <4>1. pc # "table"
        OBVIOUS
      <4>2. PICK k \in DOMAIN table : /\ table[k].pid = x.pid /\ table[k].comm = x.comm
                                      /\ k >= at \/ Elsewhere(x)
        BY <3>1, <3>2, <4>1 DEF AtHand
      <4>3. k = at => Elsewhere(x)
        BY <2>2, <3>2, <4>2 DEF Candidate
      <4>4. k \in Nat
        BY DEF FindInv, Phases
      <4>5. k >= at + 1 \/ Elsewhere(x)
        BY <3>1, <4>2, <4>3, <4>4
      <4> QED  BY <1>1, <3>2, <4>2, <4>5 DEF AtHand, Elsewhere
    <3>3. CASE loop = "scan"
      <4>1. x.pid # at
        BY <2>2, <3>3 DEF Candidate
      <4>2. x.pid \in Nat
        BY ProcType DEF FindInv, Steady
      <4>3. x.pid >= at + 1
        BY <3>1, <3>3, <4>1, <4>2 DEF AtHand
      <4> QED  BY <1>1, <3>1, <3>3, <4>3 DEF AtHand, Elsewhere
    <3> QED  BY <1>6, <3>1, <3>2, <3>3 DEF AtHand
  <2> QED  BY <1>1, <1>4, <1>6, <2>1, <2>2 DEF FindInv, Ahead, StableIsFound
<1> QED  BY <1>5, <1>6

\* a step within the checks of one candidate
LEMMA CheckFinds ==
  ASSUME Inv, FindInv, UNCHANGED <<running, loop, app, want, table, at, pid, steady>>,
         short => short', pc \in {"loop", "count", "list", "info", "eboot"},
         pc' \in {"name", "count", "list", "info", "eboot", "base"}, BaseLeft',
         pc = "loop" => (pc' = "name" <=> want = NoModule),
         pc # "loop" => pc' # "name"
  PROVE  FindInv'
<1>1. Procs' = Procs
  BY DEF Procs
<1>2. Steady'
  BY <1>1 DEF FindInv, Steady, Answers, Offers
<1>3. Phases'
  BY DEF FindInv, Phases
<1>4. Ahead'
  BY DEF FindInv, Ahead, Calling, AtHand, Elsewhere
<1> QED  BY <1>2, <1>3, <1>4 DEF FindInv, StableIsFound

\* a process that answers throughout is the only one with its pid
LEMMA SteadyIsCandidate ==
  ASSUME Inv, Steady, NEW x \in steady, x.pid = Candidate
  PROVE  Running(Candidate) = {x}
<1>1. x \in Procs /\ x \in Running(Candidate)
  BY DEF Steady, Running
<1>2. \A y \in Running(Candidate) : y = x
  BY <1>1, OnePerPid DEF Running
<1> QED  BY <1>1, <1>2

LEMMA NextFinds == Inv /\ FindInv /\ [Next]_allVars => FindInv'
<1> SUFFICES ASSUME Inv, FindInv, [Next]_allVars PROVE FindInv'  OBVIOUS
<1> USE DEF Calling
<1>0. Steady /\ Phases  BY DEF FindInv
<1>1. CASE Console
  <2>1. ASSUME NEW p \in Pids, NEW a \in Apps, NEW image \in Images, Start(p, a, image)
        PROVE  FindInv'
    <3>1. UNCHANGED <<pc, search, short, steady>> /\ \A x \in Procs : x \in Procs'
      <4>1. \E x \in Proc : running' = <<x>> \o running
        BY <2>1 DEF Start, Proc
      <4>2. \A i \in DOMAIN running : i + 1 \in DOMAIN running' /\ running'[i + 1] = running[i]
        BY <4>1 DEF Inv
      <4> QED  BY <2>1, <4>2 DEF Start, Procs
    <3> QED  BY <3>1, <1>0, ConsoleFinds DEF Steady
  <2>2. ASSUME NEW i \in DOMAIN running, Exit(i) PROVE FindInv'
    <3>1. UNCHANGED <<pc, search, short>> /\ steady' = steady \ {running[i]}
      BY <2>2 DEF Exit
    <3>2. \A x \in steady' : x \in Procs'
      BY <1>0, <2>2, <3>1, ExitKeeps DEF Steady, Inv
    <3> QED  BY <3>1, <3>2, ConsoleFinds
  <2>3. ASSUME NEW i \in DOMAIN running, NEW m \in Modules, LoadModule(i, m) PROVE FindInv'
    <3> DEFINE z == [running[i] EXCEPT !.mods = @ \cup {m}]
    <3>1. /\ UNCHANGED <<pc, search, short>> /\ running' = [running EXCEPT ![i] = z]
          /\ steady' = IF running[i] \in steady THEN (steady \ {running[i]}) \cup {z} ELSE steady
      BY <2>3 DEF LoadModule
    <3>2. running[i] \in Proc
      BY DEF Inv
    <3>3. z \in Proc /\ z.pid = running[i].pid /\ z.app = running[i].app /\ z.comm = running[i].comm
          /\ z.name = running[i].name /\ running[i].mods \subseteq z.mods
      BY <3>2 DEF Proc
    <3>4. DOMAIN running' = DOMAIN running
          /\ \A j \in DOMAIN running : running'[j] = IF j = i THEN z ELSE running[j]
      BY <3>1 DEF Inv
    <3>5. z \in Procs' /\ \A x \in Procs : x # running[i] => x \in Procs'
      BY <3>4 DEF Procs
    <3>6. running[i] \in Procs
      BY DEF Procs
    <3> QED  BY <1>0, <3>1, <3>3, <3>5, ConsoleFinds DEF Steady
  <2> QED  BY <1>1, <2>1, <2>2, <2>3 DEF Console
<1>2. CASE (\E a \in Apps : CurrentGame(a)) \/ NoBigApp \/ (\E p \in Pids, m \in Modules : FindModule(p, m))
           \/ (\E a \in Apps, m \in Modules : FindInApp(a, m))
  BY <1>2, BeginFinds, LookupAssumption DEF CurrentGame, NoBigApp, FindModule, FindInApp, NoModule
<1>3. CASE ReadTable
  <2>1. /\ pc = "table" /\ pc' = "loop" /\ table' = running /\ at = 1
        /\ UNCHANGED <<running, loop, app, want, at, pid, steady, short>>
    BY <1>3, <1>0 DEF ReadTable, world, ghosts, Phases
  <2>2. Procs' = Procs
    BY <2>1 DEF Procs
  <2>3. Phases' /\ Steady' /\ BaseLeft' /\ StableIsFound'
    BY <2>1, <2>2, <1>0 DEF Inv, Phases, Steady, Answers, Offers, BaseLeft, StableIsFound
  <2>4. ASSUME NEW x \in steady, loop = "table"
        PROVE  \E k \in DOMAIN table' : table'[k].pid = x.pid /\ table'[k].comm = x.comm /\ k >= 1
    <3>1. PICK k \in DOMAIN running : running[k] = x
      BY <1>0 DEF Steady, Procs
    <3>2. k >= 1
      BY DEF Inv
    <3> QED  BY <2>1, <3>1, <3>2
  <2>5. loop = "table"
    BY <2>1 DEF Inv, Checked
  <2>6. Ahead'
    BY <2>1, <2>4, <2>5 DEF Ahead, AtHand
  <2> QED  BY <2>3, <2>6 DEF FindInv
<1>4. CASE TableFails
  <2>1. /\ pc = "table" /\ pc' = "loop" /\ loop' = "scan" /\ at = 1 /\ table = <<>>
        /\ loop \in {"table", "scan"}
        /\ UNCHANGED <<running, app, want, table, at, pid, steady, short>>
    BY <1>4, <1>0 DEF TableFails, world, ghosts, Phases
  <2>2. Procs' = Procs
    BY <2>1 DEF Procs
  <2>3. Phases' /\ Steady' /\ BaseLeft' /\ StableIsFound'
    BY <2>1, <2>2, <1>0 DEF Phases, Steady, Answers, Offers, BaseLeft, StableIsFound
  <2>4. \A x \in steady : x.pid >= 1
    BY <1>0, ProcType DEF Steady
  <2> QED  BY <2>1, <2>3, <2>4 DEF FindInv, Ahead, AtHand
<1>5. CASE Match
  BY <1>5, CheckFinds DEF Match, Goes, search, world, ghosts, BaseLeft
<1>6. CASE Pass
  <2>1. pc = "loop" /\ GoOn /\ ~Matches /\ UNCHANGED <<steady, short>> /\ loop # "one"
    BY <1>6, <1>0 DEF Pass, ghosts, Phases
  <2>2. ASSUME NEW x \in steady, x.pid = Candidate PROVE FALSE
    BY <2>1, <2>2, <1>0, SteadyIsCandidate DEF Matches, Steady, Answers
  <2> QED  BY <2>1, <2>2, GoOnFinds
<1>7. CASE TableEnds
  <2>1. /\ pc = "loop" /\ pc' = pc /\ loop = "table" /\ at > Len(table) /\ loop' = "scan" /\ at' = 1
        /\ UNCHANGED <<running, app, want, table, pid, steady, short>>
    BY <1>7 DEF TableEnds, world, ghosts, Last
  <2>2. Procs' = Procs
    BY <2>1 DEF Procs
  <2>3. Phases' /\ Steady' /\ BaseLeft' /\ StableIsFound'
    BY <2>1, <2>2, <1>0 DEF Phases, Steady, Answers, Offers, BaseLeft, StableIsFound
  <2>4. ASSUME NEW x \in steady, ~short PROVE x.pid >= 1 /\ Elsewhere(x)
    <3>1. x.pid >= 1
      BY <1>0, ProcType DEF Steady
    <3>2. \A k \in DOMAIN table : ~(k >= at)
      BY <1>0, <2>1 DEF Phases
    <3> QED  BY <2>1, <2>4, <3>1, <3>2 DEF FindInv, Ahead, AtHand
  <2> QED  BY <2>1, <2>3, <2>4 DEF FindInv, Ahead, AtHand, Elsewhere
<1>8. CASE ScanEnds
  <2>1. /\ pc = "loop" /\ pc' = "lost" /\ loop = "scan" /\ at > LastPid
        /\ UNCHANGED <<running, loop, app, want, table, at, pid, steady, short>>
    BY <1>8 DEF ScanEnds, Goes, world, search, ghosts, Last
  <2>2. Procs' = Procs
    BY <2>1 DEF Procs
  <2>3. Phases' /\ Steady' /\ Ahead' /\ BaseLeft'
    BY <2>1, <2>2, <1>0 DEF Phases, Steady, Answers, Offers, Ahead, BaseLeft
  <2>4. ASSUME NEW x \in steady, ~short
        PROVE  x.pid > LastPid /\ (table = <<>> \/ Elsewhere(x))
    <3>1. x.pid >= at /\ (table = <<>> \/ Elsewhere(x))
      BY <2>1, <2>4 DEF FindInv, Ahead, AtHand
    <3>2. x.pid \in Nat /\ at \in Nat /\ LastPid \in Nat
      BY <1>0, ProcType, LookupAssumption DEF Steady, Phases
    <3> QED  BY <2>1, <3>1, <3>2
  <2> QED  BY <2>1, <2>3, <2>4 DEF FindInv, StableIsFound, Elsewhere
<1>9. CASE TakeName \/ TakeModule \/ TakeEboot
  <2>1. \E p : Found(p)
    BY <1>9 DEF TakeName, TakeModule, TakeEboot
  <2>2. pc' \in {"path", "found"} /\ steady' = {} /\ at' = 1 /\ table' = <<>> /\ loop' = loop
    BY <2>1 DEF Found
  <2> QED  BY <1>0, <2>2 DEF FindInv, Phases, Steady, Ahead, BaseLeft, StableIsFound
<1>10. CASE PassName
  <2>1. pc = "name" /\ loop = "table" /\ ~Named /\ GoOn /\ UNCHANGED <<steady, short>>
        /\ want = NoModule
    BY <1>10, <1>0 DEF PassName, ghosts, Phases
  <2>2. ASSUME NEW x \in steady, x.pid = Candidate, table[at].comm = x.comm
        PROVE  Elsewhere(x)
    BY <2>1, <2>2, <1>0, SteadyIsCandidate DEF Named, Elsewhere
  <2> QED  BY <2>1, <2>2, GoOnFinds
<1>11. CASE CountModules \/ NoCount \/ ListModules \/ NoList \/ ModuleGone \/ FindEboot
  <2>1. /\ UNCHANGED <<running, loop, app, want, table, at, pid, steady>> /\ (short => short')
        /\ pc \in {"count", "list", "info", "eboot"}
        /\ pc' \in {"list", "info", "eboot", "base"} /\ Candidate' = Candidate
    <3>1. /\ UNCHANGED <<running, loop, app, want, table, at, pid, steady>>
          /\ pc \in {"count", "list", "info", "eboot"} /\ pc' \in {"list", "info", "eboot", "base"}
      BY <1>11
      DEF CountModules, NoCount, ListModules, NoList, ModuleGone, FindEboot, Goes, world, search,
          ghosts
    <3>2. short => short'
      BY <1>11
      DEF CountModules, NoCount, ListModules, NoList, ModuleGone, FindEboot, Goes, Refusal, ghosts
    <3> QED  BY <3>1, <3>2 DEF Candidate
  <2>2. ASSUME NEW x \in steady, x.pid = Candidate, pc' \in {"eboot", "base"}, ~short'
        PROVE  want \in {Eboot, x.name}
    <3>1. Running(Candidate) = {x} /\ Offers(x, want)
      BY <1>0, <2>1, <2>2, SteadyIsCandidate DEF Steady, Answers, Phases
    <3>2. CASE NoCount
      <4>1. x.mods = {}
        <5>1. Cardinality(x.mods) \in Count
          BY <3>1 DEF Count
        <5>2. Cardinality(x.mods) = 0
          BY <2>2, <3>2, <5>1 DEF NoCount, Refusal
        <5> QED  BY <1>0, <5>2, NoMods DEF Steady
      <4> QED  BY <3>1, <4>1 DEF Offers
    <3>3. CASE ListModules
      BY <2>2, <3>1, <3>3 DEF ListModules, Offers
    <3>4. CASE NoList
      BY <2>2, <3>1, <3>4 DEF NoList
    <3>5. CASE ModuleGone
      BY <3>1, <3>5 DEF ModuleGone
    <3>6. CASE FindEboot
      BY <3>1, <3>6 DEF FindEboot, IsEboot
    <3>7. CASE CountModules
      BY <2>2, <3>7 DEF CountModules
    <3> QED  BY <1>11, <3>2, <3>3, <3>4, <3>5, <3>6, <3>7
  <2>3. BaseLeft'
    BY <2>1, <2>2 DEF BaseLeft
  <2> QED  BY <2>1, <2>3, CheckFinds
<1>12. CASE NotEboot \/ NoImagebase
  <2>1. pc \in {"eboot", "base"} /\ GoOn /\ UNCHANGED steady /\ (short => short')
    BY <1>12 DEF NotEboot, NoImagebase, Refusal, ghosts
  <2>2. ASSUME NEW x \in steady, x.pid = Candidate PROVE short'
    <3>1. Running(Candidate) = {x} /\ (short \/ want \in {Eboot, x.name})
      BY <1>0, <2>1, <2>2, SteadyIsCandidate DEF FindInv, BaseLeft
    <3>2. CASE NotEboot
      BY <3>1, <3>2 DEF NotEboot, IsEboot, ghosts
    <3>3. CASE NoImagebase
      BY <3>1, <3>3 DEF NoImagebase, Refusal
    <3> QED  BY <1>12, <3>2, <3>3
  <2> QED  BY <2>1, <2>2, GoOnFinds
<1>13. CASE (\E f \in MetaFiles \cup {Missing} : ReadMeta(f)) \/ Defaults
  <2>1. pc = "path" /\ pc' \in {"path", "found"} /\ UNCHANGED <<loop, table, steady>>
        /\ at' \in Nat
    BY <1>13, <1>0, LookupAssumption DEF ReadMeta, Defaults, search, ghosts, Phases
  <2> QED  BY <1>0, <2>1 DEF FindInv, Phases, Steady, Ahead, BaseLeft, StableIsFound
<1>14. CASE Return
  <2>1. pc' = "idle" /\ table' = <<>> /\ at' = 1 /\ steady' = {} /\ loop' = "table"
    BY <1>14 DEF Return
  <2> QED  BY <2>1 DEF FindInv, Phases, Steady, Ahead, BaseLeft, StableIsFound
<1>15. CASE UNCHANGED allVars
  <2>1. UNCHANGED <<running, pc, search, steady, short>>
    BY <1>15 DEF allVars, world, ghosts
  <2>2. Procs' = Procs
    BY <2>1 DEF Procs
  <2> QED  BY <1>0, <2>1, <2>2, ConsoleFinds DEF Steady
<1> QED
  BY <1>1, <1>2, <1>3, <1>4, <1>5, <1>6, <1>7, <1>8, <1>9, <1>10, <1>11, <1>12, <1>13, <1>14, <1>15
  DEF Next, Lookup

\* StableIsFound, for any processes, applications, modules and failures: the loops over the
\* process table and over the pids miss no process that answers throughout the call, whatever
\* else starts, exits or loads modules meanwhile (ps5_game_platform.cpp:266-309, 336-362 and
\* 440-475).
THEOREM NothingIsMissed == Spec => []StableIsFound
<1>1. FindInv => StableIsFound  BY DEF FindInv
<1> QED  BY InitInv, InitFind, NextKeeps, NextFinds, <1>1, PTL DEF Spec
-----------------------------------------------------------------------------
(* Name and version come from one file.                                            *)

\* Nothing is known before the first useful file, and nothing is read after it.
FirstKnown ==
  IF Useful = {} THEN version = "" /\ title = ""
  ELSE LET f == given[FirstOf(Useful)]
       IN at > Paths /\ version = VersionIn(f) /\ title = NameIn(f)
MetaInv ==
  /\ given \in Seq(MetaFiles \cup {Missing})
  /\ pc \notin {"path", "found"} => given = <<>> /\ version = "" /\ title = ""
  /\ pc = "path" => FirstKnown
  /\ MetadataFromOneFile

LEMMA NothingRead ==
  ASSUME NEW S
  PROVE  <<>> \in Seq(S) /\ DOMAIN <<>> = {}
OBVIOUS

\* a step that reads no file, of a call that has no answer yet or has it
LEMMA KeepsMeta ==
  ASSUME MetaInv, UNCHANGED games,
         \/ UNCHANGED <<pc, app, want, at>>
         \/ pc \notin {"path", "found"} /\ (pc' = "found" => want' # NoModule)
  PROVE  MetaInv'
<1>1. UNCHANGED <<version, title, given>>
  BY DEF games
<1>2. CASE UNCHANGED <<pc, app, want, at>>
  <2>1. \A f : VersionIn(f)' = VersionIn(f)
    BY <1>2 DEF VersionIn
  <2>2. Useful' = Useful
    BY <1>1, <2>1 DEF Useful
  <2>3. FirstKnown' <=> FirstKnown
    BY <1>1, <1>2, <2>1, <2>2 DEF FirstKnown
  <2>4. MetadataFromOneFile' <=> MetadataFromOneFile
    BY <1>1, <1>2, <2>1, <2>2 DEF MetadataFromOneFile
  <2> QED  BY <1>1, <1>2, <2>3, <2>4 DEF MetaInv
<1>3. CASE pc \notin {"path", "found"} /\ (pc' = "found" => want' # NoModule)
  <2>1. given' = <<>> /\ version' = "" /\ title' = ""
    BY <1>1, <1>3 DEF MetaInv
  <2>2. DOMAIN given' = {}
    BY <2>1, NothingRead, Zenon
  <2>3. Useful' = {}
    BY <2>2 DEF Useful
  <2> QED  BY <1>1, <1>3, <2>1, <2>3 DEF MetaInv, FirstKnown, MetadataFromOneFile
<1> QED  BY <1>2, <1>3

LEMMA ReadsMeta ==
  ASSUME Phases, MetaInv, NEW f \in MetaFiles \cup {Missing}, ReadMeta(f)
  PROVE  MetaInv'
<1> DEFINE n == Len(given) + 1
<1>1. /\ pc = "path" /\ pc' = "path" /\ at <= Paths /\ app' = app
      /\ version' = Or(VersionIn(f), version) /\ title' = Or(NameIn(f), title)
      /\ given' = Append(given, f) /\ at' = (IF Enough(f) THEN Paths + 1 ELSE at + 1)
  BY DEF ReadMeta
<1>2. Useful = {} /\ version = "" /\ title = ""
  <2>1. at \in Nat /\ Paths \in Nat
    BY LookupAssumption DEF Phases
  <2>2. ~(at > Paths)
    BY <1>1, <2>1
  <2>3. FirstKnown
    BY <1>1 DEF MetaInv
  <2> QED  BY <2>2, <2>3 DEF FirstKnown
<1>3. version' = VersionIn(f) /\ title' = NameIn(f)
  BY <1>1, <1>2 DEF Or
<1>4. given \in Seq(MetaFiles \cup {Missing})
  BY DEF MetaInv
<1>5. /\ given' \in Seq(MetaFiles \cup {Missing}) /\ DOMAIN given' = 1..n /\ n \in Nat
      /\ given'[n] = f /\ \A k \in 1..n : k # n => k \in DOMAIN given /\ given'[k] = given[k]
  BY <1>1, <1>4
<1>6. \A g : VersionIn(g)' = VersionIn(g)
  BY <1>1 DEF VersionIn
<1>7. Useful' = IF Enough(f) THEN {n} ELSE {}
  <2>1. \A k \in 1..n : k # n => VersionIn(given'[k]) = "" /\ NameIn(given'[k]) = ""
    BY <1>2, <1>5 DEF Useful
  <2>2. Useful' = {k \in 1..n : VersionIn(given'[k]) # "" \/ NameIn(given'[k]) # ""}
    BY <1>5, <1>6 DEF Useful
  <2>3. n \in 1..n
    BY <1>4
  <2> QED  BY <1>5, <2>1, <2>2, <2>3 DEF Enough
<1>8. FirstKnown'
  <2>1. CASE Enough(f)
    <3>1. FirstOf({n}) = n
      <4>1. n <= n
        BY <1>5
      <4>2. n \in {n} /\ \A j \in {n} : n <= j
        BY <4>1
      <4>3. FirstOf({n}) \in {n}
        BY <4>2 DEF FirstOf
      <4> QED  BY <4>3
    <3>2. at' > Paths
      BY <1>1, <2>1, LookupAssumption
    <3> QED  BY <1>3, <1>5, <1>6, <1>7, <2>1, <3>1, <3>2 DEF FirstKnown
  <2>2. CASE ~Enough(f)
    BY <1>3, <1>7, <2>2 DEF FirstKnown, Enough
  <2> QED  BY <2>1, <2>2
<1> QED  BY <1>1, <1>5, <1>8 DEF MetaInv, MetadataFromOneFile

LEMMA DefaultsMeta ==
  ASSUME MetaInv, Defaults
  PROVE  MetaInv'
<1>1. /\ pc = "path" /\ pc' = "found" /\ app' = app /\ given' = given
      /\ version' = Or(version, Unknown) /\ title' = Or(title, TitleId)
  BY DEF Defaults, search
<1>2. \A g : VersionIn(g)' = VersionIn(g)
  BY <1>1 DEF VersionIn
<1>3. Useful' = Useful
  BY <1>1, <1>2 DEF Useful
<1>4. FirstKnown
  BY <1>1 DEF MetaInv
<1>5. MetadataFromOneFile'
  <2>1. CASE Useful = {}
    BY <1>1, <1>3, <1>4, <2>1 DEF MetadataFromOneFile, FirstKnown, Or
  <2>2. CASE Useful # {}
    BY <1>1, <1>2, <1>3, <1>4, <2>2 DEF MetadataFromOneFile, FirstKnown
  <2> QED  BY <2>1, <2>2
<1> QED  BY <1>1, <1>5 DEF MetaInv

LEMMA InitMeta == Init => MetaInv
<1> SUFFICES ASSUME Init PROVE MetaInv  OBVIOUS
<1>1. pc = "idle" /\ given = <<>> /\ version = "" /\ title = ""
  BY DEF Init
<1>2. given \in Seq(MetaFiles \cup {Missing})
  BY <1>1, NothingRead, Zenon
<1> QED  BY <1>1, <1>2 DEF MetaInv, MetadataFromOneFile

LEMMA NextMeta == Phases /\ MetaInv /\ [Next]_allVars => MetaInv'
<1> SUFFICES ASSUME Phases, MetaInv, [Next]_allVars PROVE MetaInv'  OBVIOUS
<1>1. CASE Console \/ UNCHANGED allVars
  <2>1. UNCHANGED <<pc, app, want, at, games>>
    BY <1>1 DEF Console, Start, Exit, LoadModule, allVars, search
  <2> QED  BY <2>1, KeepsMeta
<1>2. CASE (\E a \in Apps : CurrentGame(a)) \/ NoBigApp
           \/ (\E p \in Pids, m \in Modules : FindModule(p, m))
           \/ (\E a \in Apps, m \in Modules : FindInApp(a, m))
  <2>1. pc = "idle" /\ UNCHANGED games /\ pc' # "found"
    BY <1>2 DEF CurrentGame, NoBigApp, FindModule, FindInApp, Begin
  <2> QED  BY <2>1, KeepsMeta
<1>3. CASE TakeName \/ TakeModule \/ TakeEboot
  <2>1. pc \in {"name", "info", "base"} /\ \E p : Found(p)
    BY <1>3 DEF TakeName, TakeModule, TakeEboot
  <2>2. UNCHANGED games /\ (pc' = "found" => want' # NoModule)
    BY <2>1 DEF Found, games
  <2> QED  BY <2>1, <2>2, KeepsMeta
<1>4. CASE \/ ReadTable \/ TableFails \/ Match \/ Pass \/ TableEnds \/ ScanEnds \/ PassName
           \/ CountModules \/ NoCount \/ ListModules \/ NoList \/ ModuleGone
           \/ FindEboot \/ NotEboot \/ NoImagebase
  <2>1. pc \notin {"path", "found"} /\ UNCHANGED games /\ pc' # "found"
    BY <1>4
    DEF ReadTable, TableFails, Match, Pass, TableEnds, ScanEnds, PassName, CountModules, NoCount,
        ListModules, NoList, ModuleGone, FindEboot, NotEboot, NoImagebase, Goes, GoOn
  <2> QED  BY <2>1, KeepsMeta
<1>5. CASE (\E f \in MetaFiles \cup {Missing} : ReadMeta(f)) \/ Defaults
  BY <1>5, ReadsMeta, DefaultsMeta
<1>6. CASE Return
  <2>1. pc' = "idle" /\ given' = <<>> /\ version' = "" /\ title' = ""
    BY <1>6 DEF Return
  <2>2. given' \in Seq(MetaFiles \cup {Missing})
    BY <2>1, NothingRead, Zenon
  <2> QED  BY <2>1, <2>2 DEF MetaInv, MetadataFromOneFile
<1> QED  BY <1>1, <1>2, <1>3, <1>4, <1>5, <1>6 DEF Next, Lookup

\* MetadataFromOneFile, for any files at any number of paths: the loop stops at the first file
\* that has a name or a version, and the defaults fill in what that file lacks
\* (ps5_game_platform.cpp:203-235).
THEOREM MetadataIsFromOneFile == Spec => []MetadataFromOneFile
<1>1. FindInv => Phases  BY DEF FindInv
<1>2. MetaInv => MetadataFromOneFile  BY DEF MetaInv
<1> QED
  BY InitInv, InitFind, InitMeta, NextKeeps, NextFinds, NextMeta, <1>1, <1>2, PTL DEF Spec
=============================================================================
