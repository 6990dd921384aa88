----------------------- MODULE CheatRepositoryProofs -----------------------
(* Proofs about CheatRepository for any titles, formats, contents and number of   *)
(* changes to the directory: type correctness, and that an unchanged signature     *)
(* vouches for what was loaded.                                                    *)
EXTENDS CheatRepository, TLAPS

-----------------------------------------------------------------------------
(* Type correctness. *)

LEMMA FormatsDomain == DOMAIN Formats = 1..Len(Formats) /\ Len(Formats) \in Nat
BY FormatAssumption

\* Absent is not a file, and has the stamp of no file.
LEMMA AbsentType ==
  /\ Absent \notin FileType /\ Absent.stamp = 0
  /\ \A f \in FileType : f.stamp \in Nat /\ f.doc \in Docs \cup {Broken}
<1>1. Nothing \notin Docs \cup {Broken}
  BY DocAssumption
<1> QED BY <1>1 DEF Absent, FileType

LEMMA InitType == Init => TypeOK
BY FormatsDomain, EditAssumption DEF Init, TypeOK, Absent

LEMMA PutType ==
  ASSUME TypeOK, NEW t \in Titles, NEW k \in DOMAIN Formats, NEW f \in FileType \cup {Absent},
         Put(t, k, f)
  PROVE  TypeOK'
<1>1. edits' \in 0..MaxEdits
  BY EditAssumption DEF TypeOK, Put
<1>2. disk' \in [Titles -> [DOMAIN Formats -> FileType \cup {Absent}]]
  BY DEF TypeOK, Put
<1> QED BY <1>1, <1>2 DEF TypeOK, Put, call_

\* Every change of the directory puts a file of type FileType, or none.
LEMMA EditPuts ==
  ASSUME TypeOK, Edit
  PROVE  \E t \in Titles, k \in DOMAIN Formats, f \in FileType \cup {Absent} :
           Put(t, k, f) /\ (f = Absent \/ f.stamp = edits + 1)
<1>1. PICK t \in Titles, k \in DOMAIN Formats :
        \/ \E d \in Docs \cup {Broken} : Replace(t, k, d) \/ Rewrite(t, k, d)
        \/ Remove(t, k)
  BY DEF Edit
<1>2. edits + 1 \in Nat
  BY EditAssumption DEF TypeOK
<1>3. ASSUME NEW d \in Docs \cup {Broken}, Replace(t, k, d)
      PROVE  \E f \in FileType : Put(t, k, f) /\ f.stamp = edits + 1
  <2>1. [inode |-> edits + 1, stamp |-> edits + 1, doc |-> d] \in FileType
    BY <1>2 DEF FileType
  <2> QED BY <1>3, <2>1 DEF Replace
<1>4. ASSUME NEW d \in Docs \cup {Broken}, Rewrite(t, k, d)
      PROVE  \E f \in FileType : Put(t, k, f) /\ f.stamp = edits + 1
  <2>1. disk[t][k] \in FileType
    BY <1>1, <1>4 DEF TypeOK, Rewrite, Exists
  <2>2. [inode |-> disk[t][k].inode, stamp |-> edits + 1, doc |-> d] \in FileType
    BY <1>2, <2>1 DEF FileType
  <2> QED BY <1>4, <2>2 DEF Rewrite
<1>5. CASE Remove(t, k)
  BY <1>1, <1>5 DEF Remove
<1> QED BY <1>1, <1>3, <1>4, <1>5

LEMMA WorkType ==
  ASSUME TypeOK, Work
  PROVE  TypeOK'
<1>1. CASE TryNext
  BY <1>1, FormatsDomain DEF TypeOK, TryNext, dir, call_
<1>2. CASE Resolve
  BY <1>2, FormatsDomain DEF TypeOK, Resolve, dir, call_
<1>3. CASE Unresolved
  BY <1>3 DEF TypeOK, Unresolved, Answer, Forget, dir, call_
<1>4. CASE StatError \/ StatSame \/ StatOther
  BY <1>4 DEF TypeOK, StatError, StatSame, StatOther, Answer, dir, call_
<1>5. CASE OpenError
  BY <1>5 DEF TypeOK, OpenError, LoadFailed, Answer, Forget, dir, call_
<1>6. CASE Open
  BY <1>6 DEF TypeOK, Open, Exists, dir, call_
<1>7. CASE ReadAndParse
  <2>1. /\ format \in DOMAIN Formats /\ title \in Titles /\ handle \in FileType
        /\ disk[title][format] \in FileType \cup {Absent}
    BY <1>7 DEF TypeOK, ReadAndParse
  <2>2. handle.stamp \in Nat /\ handle.doc \in Docs \cup {Broken}
    BY <2>1, AbsentType
  <2>3. PICK d \in ReadDocs :
          IF d = Broken THEN LoadFailed
          ELSE /\ output' = d /\ signature' = SigOf(title, format, handle)
               /\ Answer("loaded")
    BY <1>7 DEF ReadAndParse, Parses, Publish
  <2>4. d \in Docs \cup {Broken, Nothing}
    BY <2>1, <2>2, AbsentType DEF ReadDocs, Absent
  <2> QED
    BY <1>7, <2>1, <2>2, <2>3, <2>4
    DEF TypeOK, ReadAndParse, LoadFailed, Answer, Forget, SigOf, dir, call_
<1> QED BY <1>1, <1>2, <1>3, <1>4, <1>5, <1>6, <1>7 DEF Work

LEMMA NextType == TypeOK /\ [Next]_vars => TypeOK'
<1> SUFFICES ASSUME TypeOK, [Next]_vars PROVE TypeOK'
  OBVIOUS
<1>1. CASE Edit
  BY <1>1, EditPuts, PutType
<1>2. ASSUME NEW t \in Titles, NEW name \in {"probe", "load", "reload"}, Invoke(name, t)
      PROVE  TypeOK'
  BY <1>2, FormatsDomain DEF TypeOK, Invoke, dir
<1>3. CASE Work
  BY <1>3, WorkType
<1>4. CASE Retire
  BY <1>4, FormatsDomain DEF TypeOK, Retire, dir
<1>5. CASE UNCHANGED vars
  BY <1>5 DEF TypeOK, vars, dir, call_
<1> QED BY <1>1, <1>2, <1>3, <1>4, <1>5 DEF Next

\* The repository's state keeps its types: among others a resolved path is always one
\* of the candidates, and a cleared file is never mistaken for a loaded one.
THEOREM TypeCorrect == Spec => []TypeOK
BY InitType, NextType, PTL DEF Spec

-----------------------------------------------------------------------------
(* The signature. *)

LEMMA InitVouch == Init => VouchInv
BY EditAssumption DEF Init, VouchInv, StampsAreOld, HandleIsTheFile, SignatureVouches, Exists, Absent

\* A change of the directory has a stamp that nothing refers to.
LEMMA PutVouch ==
  ASSUME TypeOK, VouchInv, NEW t \in Titles, NEW k \in DOMAIN Formats,
         NEW f \in FileType \cup {Absent}, f = Absent \/ f.stamp = edits + 1, Put(t, k, f)
  PROVE  VouchInv'
<1>1. /\ edits \in Nat /\ edits' = edits + 1 /\ f.stamp \in {0, edits + 1}
      /\ UNCHANGED <<output, signature, at, title, format, handle>>
  BY AbsentType, EditAssumption DEF TypeOK, Put, call_
<1>2. \A u \in Titles, j \in DOMAIN Formats :
        disk'[u][j] = IF u = t /\ j = k THEN f ELSE disk[u][j]
  BY DEF TypeOK, Put
<1>3. \A u \in Titles, j \in DOMAIN Formats : disk[u][j].stamp \in Nat
  BY AbsentType DEF TypeOK
<1>4. StampsAreOld'
  BY <1>1, <1>2, <1>3, AbsentType DEF VouchInv, StampsAreOld, Exists
<1>5. HandleIsTheFile'
  BY <1>1, <1>2 DEF TypeOK, VouchInv, StampsAreOld, HandleIsTheFile
<1>6. SignatureVouches'
  BY <1>1, <1>2 DEF TypeOK, VouchInv, StampsAreOld, SignatureVouches
<1> QED BY <1>4, <1>5, <1>6 DEF VouchInv

\* A step that leaves the directory alone, and what was loaded or forgets it.
LEMMA QuietVouch ==
  ASSUME TypeOK, VouchInv, UNCHANGED dir, at' # "read",
         UNCHANGED <<output, signature>> \/ Forget
  PROVE  VouchInv'
BY DEF VouchInv, StampsAreOld, HandleIsTheFile, SignatureVouches, Forget, Exists, dir

LEMMA WorkVouch ==
  ASSUME TypeOK, VouchInv, Work
  PROVE  VouchInv'
<1>1. CASE TryNext \/ Resolve \/ Unresolved \/ StatError \/ StatSame \/ StatOther \/ OpenError
  BY <1>1, QuietVouch
  DEF TryNext, Resolve, Unresolved, StatError, StatSame, StatOther, OpenError, LoadFailed, Answer
<1>2. CASE Open
  <2>1. /\ handle' = disk[title][format] /\ disk[title][format] \in FileType
        /\ UNCHANGED <<disk, edits, output, signature, title, format>>
        /\ title \in Titles /\ format \in DOMAIN Formats
    BY <1>2 DEF TypeOK, Open, Exists, dir, call_
  <2>2. handle'.stamp \in 1..edits
    BY <1>2, <2>1, AbsentType, EditAssumption DEF TypeOK, VouchInv, StampsAreOld, Open
  <2> QED
    BY <2>1, <2>2 DEF VouchInv, StampsAreOld, HandleIsTheFile, SignatureVouches, Exists
<1>3. CASE ReadAndParse
  <2>1. /\ UNCHANGED <<disk, edits, title, format>> /\ at = "read"
        /\ handle.stamp \in 1..edits
        /\ disk[title][format].stamp = handle.stamp => disk[title][format] = handle
    BY <1>3 DEF ReadAndParse, VouchInv, StampsAreOld, HandleIsTheFile, dir, call_
  <2>2. PICK d \in ReadDocs :
          IF d = Broken THEN LoadFailed
          ELSE /\ output' = d /\ signature' = SigOf(title, format, handle)
               /\ Answer("loaded")
    BY <1>3 DEF ReadAndParse, Parses, Publish
  <2>3. CASE d = Broken
    BY <1>3, <2>2, <2>3, QuietVouch DEF ReadAndParse, LoadFailed, Answer
  <2>4. CASE d # Broken
    <3>1. /\ output' = d /\ at' = "done"
          /\ signature' = [title |-> title, format |-> format, stamp |-> handle.stamp]
      BY <2>2, <2>4 DEF SigOf, Answer
    <3>2. disk[title][format].stamp = handle.stamp => d = disk[title][format].doc
      BY <2>1 DEF ReadDocs
    <3>3. SignatureVouches'
      BY <2>1, <3>1, <3>2 DEF SignatureVouches
    <3> QED
      BY <2>1, <3>1, <3>3 DEF VouchInv, StampsAreOld, HandleIsTheFile, Exists
  <2> QED BY <2>3, <2>4
<1> QED BY <1>1, <1>2, <1>3 DEF Work

LEMMA NextVouch == TypeOK /\ VouchInv /\ [Next]_vars => VouchInv'
<1> SUFFICES ASSUME TypeOK, VouchInv, [Next]_vars PROVE VouchInv'
  OBVIOUS
<1>1. CASE Edit
  BY <1>1, EditPuts, PutVouch
<1>2. ASSUME NEW t \in Titles, NEW name \in {"probe", "load", "reload"}, Invoke(name, t)
      PROVE  VouchInv'
  BY <1>2, QuietVouch DEF Invoke
<1>3. CASE Work
  BY <1>3, WorkVouch
<1>4. CASE Retire
  BY <1>4, QuietVouch DEF Retire
<1>5. CASE UNCHANGED vars
  BY <1>5 DEF VouchInv, StampsAreOld, HandleIsTheFile, SignatureVouches, Exists, vars, dir, call_
<1> QED BY <1>1, <1>2, <1>3, <1>4, <1>5 DEF Next

\* However files are replaced, rewritten and removed during loads, a file that still has
\* the recorded signature holds what was loaded (file_cheat_repository.cpp:150-171, 216).
THEOREM SignatureIsTrustworthy == Spec => []SignatureVouches
<1>1. Spec => [](TypeOK /\ VouchInv)
  BY InitType, InitVouch, NextType, NextVouch, PTL DEF Spec
<1>2. VouchInv => SignatureVouches
  BY DEF VouchInv
<1> QED BY <1>1, <1>2, PTL
=============================================================================
