------------------------------ MODULE MediaTile ------------------------------
(* install_media_tile_if_needed (src/platform/ps5_media_tile.cpp), run by main   *)
(* before the server: two files embedded in the program are written below        *)
(* /user/app unless they are there already, and the title is registered. Calls   *)
(* fail, the console loses power, and a later build may carry other files.       *)
EXTENDS Naturals

CONSTANTS
  Builds,      \* builds of the program, each with its own assets
  NoBuild,
  MaxChanges,  \* bound on new builds and on removals of the title
  MaxFaults    \* bound on failed calls and losses of power

ASSUME TileAssumption == NoBuild \notin Builds /\ {MaxChanges, MaxFaults} \subseteq Nat

VARIABLES
  build,       \* the build that is started
  files,       \* param.json and icon0.png on disk
  unsynced,    \* files that a loss of power may still cut short
  dirs,        \* directories of the title that exist
  registered,  \* the Media tab has the title
  pc, file,    \* where install_media_tile_if_needed is, and in which file
  current,     \* assets_current
  appInst,     \* AppInstUtil is initialised
  result,      \* what this run of the program returned
  atStart, attempted, failed,  \* history of this run: files, register_title, a failure
  changes, faults

vars == <<build, files, unsynced, dirs, registered, pc, file, current, appInst, result,
          atStart, attempted, failed, changes, faults>>
disk == <<files, unsynced, dirs>>
history == <<atStart, attempted, failed>>
bounds == <<changes, faults>>

Files == {"param", "icon"}
Content(b, whole) == [build |-> b, whole |-> whole]
Missing == Content(NoBuild, FALSE)
Contents == {Missing} \cup [build : Builds, whole : BOOLEAN]
Ours == [f \in Files |-> Content(build, TRUE)]

-----------------------------------------------------------------------------
Init ==
  /\ build \in Builds /\ files = [f \in Files |-> Missing] /\ unsynced = {} /\ dirs = 0
  /\ registered = FALSE /\ pc = "off" /\ file = "param" /\ current = FALSE
  /\ appInst = FALSE /\ result = "failed"
  /\ atStart = files /\ attempted = FALSE /\ failed = FALSE
  /\ changes = 0 /\ faults = 0

MayFail == faults < MaxFaults /\ faults' = faults + 1 /\ failed' = TRUE
NothingFails == UNCHANGED <<failed, faults>>

Start ==
  /\ pc = "off" /\ pc' = "check"
  /\ atStart' = files /\ attempted' = FALSE /\ failed' = FALSE /\ result' = "failed"
  /\ UNCHANGED <<build, disk, registered, file, current, appInst, bounds>>

\* file_matches, for both files; a file that cannot be read does not match
Matches == files = Ours
Check ==
  /\ pc = "check" /\ pc' = "init"
  /\ \/ current' = Matches /\ NothingFails
     \/ current' = FALSE /\ MayFail
  /\ UNCHANGED <<build, disk, registered, file, appInst, result, atStart, attempted, changes>>

\* mutant: the files are written again each time
InitialiseAndWrite ==
  /\ pc = "init" /\ appInst' = TRUE /\ pc' = "mkdir" /\ NothingFails
  /\ UNCHANGED <<build, disk, registered, file, current, result, atStart, attempted, changes>>
\* sceAppInstUtilInitialize
Initialise ==
  /\ pc = "init"
  /\ \/ appInst' = TRUE /\ pc' = (IF current THEN "register" ELSE "mkdir") /\ NothingFails
     \/ appInst' = FALSE /\ pc' = "serving" /\ MayFail
  /\ UNCHANGED <<build, disk, registered, file, current, result, atStart, attempted, changes>>

\* mutant: a directory that is there already is an error
NewDirectories ==
  /\ pc = "mkdir"
  /\ IF dirs = 0 THEN dirs' = 2 /\ pc' = "open" /\ file' = "param" /\ NothingFails
     ELSE UNCHANGED <<dirs, file>> /\ pc' = "asset_error" /\ NothingFails
  /\ UNCHANGED <<build, files, unsynced, registered, current, appInst, result,
                 atStart, attempted, changes>>
\* mkdir of each directory, one by one; EEXIST is no error
MakeDirectories ==
  /\ pc = "mkdir"
  /\ \/ dirs = 2 /\ pc' = "open" /\ file' = "param" /\ UNCHANGED dirs /\ NothingFails
     \/ dirs < 2 /\ dirs' = dirs + 1 /\ UNCHANGED <<pc, file>> /\ NothingFails
     \/ pc' = "asset_error" /\ UNCHANGED <<dirs, file>> /\ MayFail
  /\ UNCHANGED <<build, files, unsynced, registered, current, appInst, result, atStart,
                 attempted, changes>>

\* write_file: fopen cuts the file, fwrite and fclose fill it
OpenAsset ==
  /\ pc = "open"
  /\ \/ /\ pc' = "write" /\ files' = [files EXCEPT ![file] = Content(build, FALSE)]
        /\ unsynced' = unsynced \cup {file} /\ NothingFails
     \/ pc' = "asset_error" /\ UNCHANGED <<files, unsynced>> /\ MayFail
  /\ UNCHANGED <<build, dirs, registered, file, current, appInst, result, atStart,
                 attempted, changes>>
AfterAsset == IF file = "param" THEN pc' = "open" /\ file' = "icon"
              ELSE pc' = "register" /\ UNCHANGED file
\* mutant: a short write is not noticed
WriteUnchecked ==
  /\ pc = "write" /\ AfterAsset
  /\ \/ files' = [files EXCEPT ![file] = Content(build, TRUE)] /\ NothingFails
     \/ UNCHANGED files /\ MayFail
  /\ UNCHANGED <<build, unsynced, dirs, registered, current, appInst, result, atStart,
                 attempted, changes>>
WriteAsset ==
  /\ pc = "write"
  /\ \/ files' = [files EXCEPT ![file] = Content(build, TRUE)] /\ AfterAsset /\ NothingFails
     \/ pc' = "asset_error" /\ UNCHANGED <<files, file>> /\ MayFail
  /\ UNCHANGED <<build, unsynced, dirs, registered, current, appInst, result, atStart,
                 attempted, changes>>

AssetError ==
  /\ pc = "asset_error" /\ pc' = "serving" /\ appInst' = FALSE
  /\ UNCHANGED <<build, disk, registered, file, current, result, history, bounds>>

\* mutant: the title is registered only with new assets, as before the registration fix
RegisterChanged ==
  /\ pc = "register" /\ pc' = "serving" /\ appInst' = FALSE
  /\ \/ current /\ result' = "current" /\ UNCHANGED <<registered, attempted>> /\ NothingFails
     \/ /\ ~current /\ attempted' = TRUE
        /\ \/ registered' = TRUE /\ result' = "installed" /\ NothingFails
           \/ UNCHANGED <<registered, result>> /\ MayFail
  /\ UNCHANGED <<build, disk, file, current, atStart, changes>>
\* register_title, then sceAppInstUtilTerminate and the return
Register ==
  /\ pc = "register" /\ pc' = "serving" /\ appInst' = FALSE /\ attempted' = TRUE
  /\ \/ /\ registered' = TRUE /\ NothingFails
        /\ result' = IF current THEN "current" ELSE "installed"
     \/ UNCHANGED <<registered, result>> /\ MayFail
  /\ UNCHANGED <<build, disk, file, current, atStart, changes>>

\* the program ends, or the console loses power: data that was not synced is cut short
Quit ==
  /\ pc = "serving" /\ pc' = "off"
  /\ UNCHANGED <<build, disk, registered, file, current, appInst, result, history, bounds>>
PowerLoss ==
  /\ pc # "off" /\ faults < MaxFaults /\ faults' = faults + 1 /\ pc' = "off"
  /\ \E lost \in SUBSET unsynced :
       files' = [f \in Files |-> IF f \in lost THEN Content(files[f].build, FALSE) ELSE files[f]]
  /\ unsynced' = {} /\ appInst' = FALSE
  /\ UNCHANGED <<build, dirs, registered, file, current, result, history, changes>>
\* between two runs: another build, or somebody removes the title
Upgrade ==
  /\ pc = "off" /\ changes < MaxChanges /\ changes' = changes + 1
  /\ build' \in Builds \ {build}
  /\ UNCHANGED <<disk, registered, pc, file, current, appInst, result, history, faults>>
RemoveTitle ==
  /\ pc = "off" /\ changes < MaxChanges /\ changes' = changes + 1
  /\ files' = [f \in Files |-> Missing] /\ dirs' = 0 /\ unsynced' = {} /\ registered' = FALSE
  /\ UNCHANGED <<build, pc, file, current, appInst, result, history, faults>>

Install == Check \/ Initialise \/ MakeDirectories \/ OpenAsset \/ WriteAsset \/ AssetError
           \/ Register
Next == Start \/ Install \/ Quit \/ PowerLoss \/ Upgrade \/ RemoveTitle
Spec == Init /\ [][Next]_vars
\* the program runs on until it has installed the tile; it is ended and started again
FairSpec == Spec /\ WF_vars(Install) /\ WF_vars(Start) /\ WF_vars(Quit)

-----------------------------------------------------------------------------
(* Properties. *)

\* The title is registered, and the run called a success, only over both files of the
\* build that runs, whole: never over the remains of a write that failed or of a loss of
\* power, nor over another build's files (ps5_media_tile.cpp:86-117 and 157-173).
OnlyWholeAssetsRegistered ==
  pc = "register" \/ (pc = "serving" /\ result # "failed") => files = Ours

\* A run that found its own files in place, and could read them, writes to neither
\* (docs/MEDIA_TILE_PLAN.md:32; lines 136-140 and 157).
IdenticalUntouched == pc \in {"open", "write"} => atStart # Ours \/ failed

\* However a run ends, AppInstUtil is terminated if it was initialised; and a run in which
\* no call fails has tried to register the title, whether the files were there or not, and
\* reports which of the two it was (docs/MEDIA_TILE_REGISTRATION_FIX_PLAN.md: "Assets
\* existentes não impedem uma nova tentativa de registro"; lines 151-184).
EndsProperly ==
  pc = "serving" =>
    /\ ~appInst
    /\ ~failed => attempted /\ result = IF atStart = Ours THEN "current" ELSE "installed"

\* Whatever failed or was lost on the way, once failures and new builds have ended the
\* Media tab has the title and the files are this build's, for good.
TileConverges == <>[](registered /\ files = Ours)
=============================================================================
