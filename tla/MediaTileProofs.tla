---------------------------- MODULE MediaTileProofs ----------------------------
(* For any builds and any number of failures: what a run registers and reports.   *)
(* Stages says what is known at each place of a run.                               *)
EXTENDS MediaTile, TLAPS

TypeOK ==
  /\ build \in Builds /\ files \in [Files -> Contents] /\ atStart \in [Files -> Contents]
  /\ unsynced \subseteq Files /\ file \in Files
  /\ {current, appInst, attempted, failed} \subseteq BOOLEAN
  /\ result \in {"installed", "current", "failed"}

Stages ==
  /\ pc \in {"off", "check", "init"} => ~appInst
  /\ pc \in {"check", "init"} => files = atStart
  /\ pc \in {"init", "mkdir", "open", "write", "register"} =>
       (current => atStart = Ours) /\ (~failed => (current <=> atStart = Ours))
  /\ pc \in {"check", "init", "mkdir", "open", "write", "asset_error", "register"} =>
       result = "failed"
  /\ pc \in {"mkdir", "open", "write"} => ~current
  /\ pc \in {"open", "write"} /\ file = "icon" => files["param"] = Content(build, TRUE)
  /\ pc = "asset_error" => failed
  /\ pc = "register" => files = Ours
  /\ pc = "register" /\ current => atStart = Ours

IInv == TypeOK /\ Stages /\ OnlyWholeAssetsRegistered /\ EndsProperly

-----------------------------------------------------------------------------
LEMMA OursIs ==
  ASSUME build \in Builds
  PROVE  /\ Ours \in [Files -> Contents] /\ Ours["param"] = Content(build, TRUE)
         /\ Ours["icon"] = Content(build, TRUE) /\ Missing \in Contents
         /\ \A b \in Builds, w \in BOOLEAN : Content(b, w) \in Contents
         /\ \A f \in [Files -> Contents] :
              f["param"] = Content(build, TRUE) /\ f["icon"] = Content(build, TRUE) => f = Ours
<1>1. Missing \in Contents /\ \A b \in Builds, w \in BOOLEAN : Content(b, w) \in Contents
  BY DEF Contents, Content
<1>2. Ours = [f \in Files |-> Content(build, TRUE)]  BY DEF Ours
<1>3. Content(build, TRUE) \in Contents  BY <1>1
<1>4. Ours \in [Files -> Contents]  BY <1>2, <1>3
<1>5. "param" \in Files /\ "icon" \in Files /\ \A x \in Files : x = "param" \/ x = "icon"
  BY DEF Files
<1>6. ASSUME NEW f \in [Files -> Contents], f["param"] = Content(build, TRUE),
             f["icon"] = Content(build, TRUE)
      PROVE  f = Ours
  BY <1>2, <1>5, <1>6
<1> QED  BY <1>1, <1>2, <1>4, <1>5, <1>6

\* a content that is cut short by a loss of power is one
LEMMA CutShort ==
  ASSUME NEW x \in Contents PROVE Content(x.build, FALSE) \in Contents
<1>1. CASE x = Missing  BY <1>1 DEF Missing, Content, Contents
<1>2. CASE x \in [build : Builds, whole : BOOLEAN]  BY <1>2 DEF Content, Contents
<1> QED  BY <1>1, <1>2 DEF Contents

LEMMA StepKeeps ==
  ASSUME IInv, [Next]_vars PROVE IInv'
<1> USE DEF IInv, TypeOK, Stages, OnlyWholeAssetsRegistered, EndsProperly, history, bounds,
            MayFail, NothingFails
<1>1. CASE Start
  BY <1>1 DEF Start, disk, Ours, Files
<1>2. CASE Check
  BY <1>2 DEF Check, Matches, disk, Ours, Files
<1>3. CASE Initialise
  BY <1>3 DEF Initialise, disk, Ours, Files
<1>4. CASE MakeDirectories
  BY <1>4 DEF MakeDirectories, Ours, Files
<1>5. CASE OpenAsset
  <2>1. CASE pc' = "asset_error" /\ UNCHANGED <<files, unsynced>> /\ MayFail
    BY <1>5, <2>1 DEF OpenAsset, Ours
  <2>2. CASE /\ pc' = "write" /\ files' = [files EXCEPT ![file] = Content(build, FALSE)]
             /\ unsynced' = unsynced \cup {file} /\ NothingFails
    <3>1. files' \in [Files -> Contents]  BY <2>2, OursIs
    <3>2. file = "icon" => files'["param"] = Content(build, TRUE)
      <4>1. file = "icon" => files["param"] = Content(build, TRUE)  BY <1>5 DEF OpenAsset
      <4>2. file = "icon" => files'["param"] = files["param"]  BY <2>2 DEF Files
      <4> QED  BY <4>1, <4>2
    <3> QED  BY <1>5, <2>2, <3>1, <3>2 DEF OpenAsset, Ours
  <2> QED  BY <1>5, <2>1, <2>2 DEF OpenAsset
<1>6. CASE WriteAsset
  BY <1>6, OursIs DEF WriteAsset, AfterAsset, Ours, Files
<1>7. CASE AssetError
  BY <1>7 DEF AssetError, disk, Ours, Files
<1>8. CASE Register
  BY <1>8 DEF Register, disk, Ours, Files
<1>9. CASE Quit
  BY <1>9 DEF Quit, disk, Ours, Files
<1>10. CASE PowerLoss
  <2>1. PICK lost \in SUBSET unsynced :
          files' = [f \in Files |-> IF f \in lost THEN Content(files[f].build, FALSE) ELSE files[f]]
    BY <1>10 DEF PowerLoss
  <2>2. \A f \in Files : files[f] \in Contents /\ Content(files[f].build, FALSE) \in Contents
    BY CutShort
  <2>3. files' \in [Files -> Contents]  BY <2>1, <2>2
  <2> QED  BY <1>10, <2>3 DEF PowerLoss, Ours
<1>11. CASE Upgrade
  BY <1>11 DEF Upgrade, disk, Ours, Files
<1>12. CASE RemoveTitle
  BY <1>12, OursIs, CutShort DEF RemoveTitle, Ours, Files
<1>13. CASE UNCHANGED vars  BY <1>13 DEF vars, disk, Ours
<1> QED
  BY <1>1, <1>2, <1>3, <1>4, <1>5, <1>6, <1>7, <1>8, <1>9, <1>10, <1>11, <1>12, <1>13 DEF Next, Install

LEMMA Invariance == Spec => []IInv
<1>1. Init => IInv
  <2> SUFFICES ASSUME Init PROVE IInv  OBVIOUS
  <2> QED
    BY OursIs DEF Init, IInv, TypeOK, Stages, OnlyWholeAssetsRegistered, EndsProperly, Files
<1>2. IInv /\ [Next]_vars => IInv'  BY StepKeeps
<1> QED  BY <1>1, <1>2, PTL DEF Spec

-----------------------------------------------------------------------------
\* The title is registered, and a run calls itself a success, only over both whole files of
\* the build that runs, whatever failed or was lost before (ps5_media_tile.cpp:86-117, 157-173).
THEOREM WholeAssetsRegistered == Spec => []OnlyWholeAssetsRegistered
<1>1. IInv => OnlyWholeAssetsRegistered  BY DEF IInv
<1> QED  BY <1>1, Invariance, PTL

\* A run that found its own files in place, and could read them, opens neither (lines 136-157).
THEOREM IdenticalAreUntouched == Spec => []IdenticalUntouched
<1>1. IInv => IdenticalUntouched  BY DEF IInv, Stages, TypeOK, IdenticalUntouched
<1> QED  BY <1>1, Invariance, PTL

\* A run ends with AppInstUtil terminated, and without a failure with a registration and a
\* true account of it (lines 151-184).
THEOREM RunsEndProperly == Spec => []EndsProperly
<1>1. IInv => EndsProperly  BY DEF IInv
<1> QED  BY <1>1, Invariance, PTL
=============================================================================
