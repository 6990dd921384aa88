-------------------------- MODULE CheatRepository --------------------------
(* FileCheatRepository (src/repository/file_cheat_repository.cpp): finding the  *)
(* cheat file of a game, recognising that it changed, and loading it, while     *)
(* somebody replaces, edits and removes the files. Every system call is a step. *)
EXTENDS Naturals, Sequences

CONSTANTS
  Titles,    \* title ids (with their version: the stem of a file name)
  Formats,   \* the extensions in order of precedence (kExtensions)
  Docs,      \* what a file that parses is parsed into
  Broken,    \* content that no parser accepts, or that no loading may accept
  Nothing,   \* a cleared CheatFile
  MaxEdits   \* bound: changes made to the directory

ASSUME DocAssumption == Broken \notin Docs /\ Nothing \notin Docs /\ Broken # Nothing
ASSUME FormatAssumption == Formats \in Seq(STRING)
ASSUME EditAssumption == MaxEdits \in Nat

NoSig == [title |-> "none", format |-> 0, stamp |-> 0]
Absent == [inode |-> 0, stamp |-> 0, doc |-> Nothing]
FileType == [inode : Nat, stamp : Nat, doc : Docs \cup {Broken}]

VARIABLES
  disk,       \* disk[t][k]: the file of title t with the k-th format, or Absent
  edits,      \* number of changes so far: the stamp and the inode of the newest
  output,     \* the CheatFile of the caller
  signature,  \* signature_, NoSig when has_signature_ is false
  at,         \* where the running operation is
  op,         \* the operation: "probe", "load" or "reload"
  title,      \* the game it is called for
  format,     \* the candidate being looked at, then the resolved path
  handle,     \* the open descriptor: the file as it was when it was opened
  result      \* what the operation returns

dir == <<disk, edits>>
call_ == <<op, title>>
vars == <<dir, output, signature, at, call_, format, handle, result>>

-----------------------------------------------------------------------------
(* The directory: a file is replaced (another inode), rewritten in place, or    *)
(* removed. The inode, size and times of a file are one stamp, new every time.  *)

Exists(t, k) == disk[t][k] # Absent
Put(t, k, f) ==
  /\ edits < MaxEdits /\ edits' = edits + 1
  /\ disk' = [disk EXCEPT ![t][k] = f]
  /\ UNCHANGED <<output, signature, at, call_, format, handle, result>>
Replace(t, k, d) ==
  Put(t, k, [inode |-> edits + 1, stamp |-> edits + 1, doc |-> d])
Rewrite(t, k, d) ==
  /\ Exists(t, k)
  /\ Put(t, k, [inode |-> disk[t][k].inode, stamp |-> edits + 1, doc |-> d])
Remove(t, k) == Exists(t, k) /\ Put(t, k, Absent)

-----------------------------------------------------------------------------
(* The operations. *)

PathOnly(t, k, f) == [title |-> t, format |-> k, stamp |-> 0]   \* mutant: no times
SigOf(t, k, f) == [title |-> t, format |-> k, stamp |-> f.stamp]

Invoke(name, t) ==
  /\ at = "idle" /\ at' = "resolve"
  /\ op' = name /\ title' = t /\ format' = 1 /\ result' = "none"
  /\ UNCHANGED <<dir, output, signature, handle>>

Answer(r) == at' = "done" /\ result' = r

\* resolve_path: one lstat per candidate
TryNext ==
  /\ at = "resolve" /\ format <= Len(Formats) /\ ~Exists(title, format)
  /\ format' = format + 1
  /\ UNCHANGED <<dir, output, signature, at, call_, handle, result>>
Resolve ==
  /\ at = "resolve" /\ format <= Len(Formats) /\ Exists(title, format)
  /\ at' = IF op = "load" THEN "open" ELSE "stat"
  /\ UNCHANGED <<dir, output, signature, call_, format, handle, result>>

\* what a load that fails, and a reload that finds no file, do
Forget == output' = Nothing /\ signature' = NoSig
Unresolved ==
  /\ at = "resolve" /\ format > Len(Formats)
  /\ Answer(IF op = "load" THEN "failed" ELSE "missing")
  /\ IF op = "probe" THEN UNCHANGED <<output, signature>> ELSE Forget
  /\ UNCHANGED <<dir, call_, format, handle>>

\* stat_signature of the resolved path, and its comparison with signature_
StatError ==
  /\ at = "stat" /\ ~Exists(title, format) /\ Answer("error")
  /\ UNCHANGED <<dir, output, signature, call_, format, handle>>
StatSame ==
  /\ at = "stat" /\ Exists(title, format)
  /\ SigOf(title, format, disk[title][format]) = signature
  /\ Answer("unchanged")
  /\ UNCHANGED <<dir, output, signature, call_, format, handle>>
StatOther ==
  /\ at = "stat" /\ Exists(title, format)
  /\ SigOf(title, format, disk[title][format]) # signature
  /\ IF op = "probe" THEN Answer("changed") ELSE at' = "open" /\ UNCHANGED result
  /\ UNCHANGED <<dir, output, signature, call_, format, handle>>

\* load_path failed: load clears what it was given, reload keeps it
LoadFailed ==
  /\ Answer(IF op = "load" THEN "failed" ELSE "error")
  /\ IF op = "load" THEN Forget ELSE UNCHANGED <<output, signature>>
OpenError ==
  /\ at = "open" /\ ~Exists(title, format) /\ LoadFailed
  /\ UNCHANGED <<dir, call_, format, handle>>
\* open, and the fstat that the signature is made of
Open ==
  /\ at = "open" /\ Exists(title, format)
  /\ handle' = disk[title][format] /\ at' = "read"
  /\ UNCHANGED <<dir, output, signature, call_, format, result>>

\* What reading the descriptor may give: the content at fstat, unless the same
\* file has been rewritten since; then its new content, cut at the old size or mixed.
ReadDocs ==
  LET now == disk[title][format]
  IN IF now.inode = handle.inode /\ now.stamp # handle.stamp
     THEN {now.doc, Broken} ELSE {handle.doc}
Accepted(d) == TRUE   \* mutant: the result of the parser is ignored
Parses(d) == d # Broken
\* mutant: the signature is that of the path after the read
PublishAsOnDisk(d) ==
  /\ output' = d /\ signature' = SigOf(title, format, disk[title][format])
  /\ Answer("loaded")
Publish(d) ==
  /\ output' = d /\ signature' = SigOf(title, format, handle)
  /\ Answer("loaded")
\* read, parse into a temporary, and publish only a parse that succeeded
ReadAndParse ==
  /\ at = "read" /\ handle' = Absent
  /\ \E d \in ReadDocs : IF Parses(d) THEN Publish(d) ELSE LoadFailed
  /\ UNCHANGED <<dir, call_, format>>

Retire ==
  /\ at = "done" /\ at' = "idle"
  /\ op' = "probe" /\ format' = 1 /\ result' = "none"
  /\ UNCHANGED <<dir, output, signature, title, handle>>

-----------------------------------------------------------------------------
Edit ==
  \E t \in Titles, k \in DOMAIN Formats :
    \/ \E d \in Docs \cup {Broken} : Replace(t, k, d) \/ Rewrite(t, k, d)
    \/ Remove(t, k)
Work ==
  \/ TryNext \/ Resolve \/ Unresolved
  \/ StatError \/ StatSame \/ StatOther
  \/ OpenError \/ Open \/ ReadAndParse

Init ==
  /\ disk = [t \in Titles |-> [k \in DOMAIN Formats |-> Absent]] /\ edits = 0
  /\ output = Nothing /\ signature = NoSig
  /\ at = "idle" /\ op = "probe" /\ title \in Titles /\ format = 1
  /\ handle = Absent /\ result = "none"
Next ==
  \/ Edit
  \/ \E t \in Titles, name \in {"probe", "load", "reload"} : Invoke(name, t)
  \/ Work
  \/ Retire

Spec == Init /\ [][Next]_vars

-----------------------------------------------------------------------------
(* Properties. *)

TypeOK ==
  /\ disk \in [Titles -> [DOMAIN Formats -> FileType \cup {Absent}]]
  /\ edits \in 0..MaxEdits
  /\ output \in Docs \cup {Nothing}
  /\ signature = NoSig \/ signature \in [title : Titles, format : DOMAIN Formats, stamp : Nat]
  /\ at \in {"idle", "resolve", "stat", "open", "read", "done"}
  /\ op \in {"probe", "load", "reload"} /\ title \in Titles
  /\ format \in 1..(Len(Formats) + 1)
  /\ at \in {"stat", "open", "read"} => format \in DOMAIN Formats
  /\ handle \in FileType \cup {Absent} /\ (at = "read" => handle # Absent)
  /\ result \in {"none", "missing", "unchanged", "changed", "error", "loaded", "failed"}

\* Whenever the file on disk still has the recorded signature, what was loaded is
\* what that file holds: a file edited or replaced at any moment of a load is
\* never taken for the one that was read, because fstat comes before the read
\* (file_cheat_repository.cpp:150-171 and 216).
SignatureVouches ==
  signature # NoSig =>
    LET f == disk[signature.title][signature.format]
    IN f.stamp = signature.stamp => output = f.doc

\* Why it does, as an inductive invariant: no stamp is used twice, and the descriptor a
\* load reads from holds what the file of that stamp holds.
StampsAreOld ==
  /\ \A t \in Titles, k \in DOMAIN Formats :
       disk[t][k].stamp <= edits /\ (Exists(t, k) => disk[t][k].stamp > 0)
  /\ signature # NoSig => signature.stamp \in 1..edits
  /\ at = "read" => handle.stamp \in 1..edits
HandleIsTheFile ==
  at = "read" /\ disk[title][format].stamp = handle.stamp => disk[title][format] = handle
VouchInv == StampsAreOld /\ HandleIsTheFile /\ SignatureVouches

\* The path resolve_path would return for t when nothing changes meanwhile.
Resolved(t) ==
  {k \in DOMAIN Formats : Exists(t, k) /\ \A j \in 1..(k - 1) : ~Exists(t, j)}
UpToDate(t) ==
  /\ Resolved(t) = {} => output = Nothing
  /\ \A k \in Resolved(t) : disk[t][k].doc # Broken => output = disk[t][k].doc

\* A caller that does not stop asking: the polls of the frontend go on, each for the
\* title of the call before unless the game changes, and no call is abandoned.
FairSpec == Spec /\ WF_vars(Work) /\ WF_vars(Retire) /\ SF_vars(Invoke("reload", title))

\* When the directory and the game come to rest, hot reload ends with the file of the
\* highest precedence, if it parses, and with nothing when there is none; whatever was
\* edited, removed or half written meanwhile (file_cheat_repository.cpp:205-223).
Settles == <>[][title' = title]_vars => <>[]UpToDate(title)
=============================================================================
