------------------------------ MODULE FileStores ------------------------------
(***************************************************************************)
(* What the workspace keeps in files, one system call at a time: workflow  *)
(* versions and recordings (written beside, then linked), run records,     *)
(* counts and pending patches (written beside, then renamed over), and the *)
(* audit log (appended to in place).  Each thread does one job of one      *)
(* store; any call may fail, any process may be killed, and the machine    *)
(* may lose power once, which drops what was not flushed.                  *)
(***************************************************************************)
EXTENDS Naturals, Sequences, FiniteSets

CONSTANTS
  Threads,     \* worker threads, of one process or of several
  Versions,    \* the version numbers of the workflow, from 1
  Workloads,   \* what the threads may be asked: functions from Threads to jobs
  Recording, Document, Decisions,   \* the other names: a recording, a document, the audit log
  LogFile,     \* the file that is the audit log
  NoFile

ASSUME StoresAssumption ==
  /\ IsFiniteSet(Versions) /\ Versions = 1..Cardinality(Versions)
  /\ Recording \notin Versions /\ Document \notin Versions /\ Decisions \notin Versions
  /\ Recording # Document /\ Document # Decisions /\ Decisions # Recording
  /\ LogFile \notin Threads /\ NoFile \notin Threads \cup {LogFile}

\* A job: publish a version (after its parent, in the workflow's directory),
\* create a recording, replace a document (in the order asked for, or with its
\* directory synced), append a decision, or list the versions.
Publish == {"publish", "create"}

Name == Versions \cup {Recording, Document, Decisions}

\* What each kind of job is about.
NamesOf ==
  [list |-> Versions, publish |-> Versions, create |-> {Recording}, replace |-> {Document},
   append |-> {Decisions}]

\* A document is either written in the order asked for, by one process's threads,
\* or it is a shared one that is read before it is written.
ASSUME WorkloadsAssumption ==
  \A jobs \in Workloads :
    /\ DOMAIN jobs = Threads
    /\ \A t \in Threads :
         /\ jobs[t].kind \in DOMAIN NamesOf /\ jobs[t].name \in NamesOf[jobs[t].kind]
         /\ jobs[t].order \in Nat
    /\ \A t, u \in Threads :
         jobs[t].kind = "replace" /\ jobs[u].kind = "replace" =>
           \/ jobs[t].order = 0 /\ jobs[u].order = 0
           \/ jobs[t].order # 0 /\ jobs[u].order # 0 /\ jobs[t].process = jobs[u].process

Dir(name) == IF name \in Versions THEN "workflow" ELSE name

\* A file's lines, of which the first `flushed` are on stable storage.  A line
\* that was cut short reads as torn.
Torn == [by |-> NoFile, seq |-> 0, data |-> "torn"]
Empty == [lines |-> <<>>, flushed |-> 0]

VARIABLES
  job,      \* [Threads -> a job], chosen once
  pc,       \* [Threads -> the next system call]
  outcome,  \* [Threads -> what the job returned or raised]
  inode,    \* [Threads \cup {LogFile} -> the file: each thread makes one]
  seen,     \* [Name -> the file it names, or NoFile]
  kept,     \* [Name -> the file it names on stable storage, or NoFile]
  temp,     \* the threads whose temporary name exists
  folder,   \* the workflow's directory: "none", "seen", or "kept" by its parent
  lock,     \* [{"document", "audit"} -> the thread that holds the lock, or NoFile]
  written,  \* the order of the last ordered write (LocalArtifactStore._written)
  scan,     \* [Threads -> what a listing found when it began]
  power     \* "on", or "lost"

vars == <<job, pc, outcome, inode, seen, kept, temp, folder, lock, written, scan, power>>

First(j) ==
  CASE j.kind \in {"publish", "list"} -> "list"
    [] j.kind = "create" -> "temp"
    [] j.kind = "replace" -> "lock"
    [] j.kind = "append" -> "open"

Init ==
  /\ job \in Workloads
  /\ pc = [t \in Threads |-> First(job[t])]
  /\ outcome = [t \in Threads |-> "none"]
  /\ inode = [f \in Threads \cup {LogFile} |-> Empty]
  /\ seen = [n \in Name |-> NoFile] /\ kept = seen
  /\ temp = {} /\ folder = "none"
  /\ lock = [l \in {"document", "audit"} |-> NoFile]
  /\ written = 0
  /\ scan = [t \in Threads |-> {}]
  /\ power = "on"

At(t, at) == power = "on" /\ pc[t] = at

Step(t, to) == pc' = [pc EXCEPT ![t] = to] /\ UNCHANGED <<job, power>>

Files == <<inode, seen, kept, temp, folder>>

\* The job returns or raises.
Return(t, result) ==
  /\ outcome' = [outcome EXCEPT ![t] = result]
  /\ Step(t, "done")

-----------------------------------------------------------------------------
(* Listing the versions, and making the workflow's directory.              *)

Present == {v \in Versions : seen[v] # NoFile}

\* The directory is read entry by entry: what was there at first is found, and
\* what is linked meanwhile may be.
List(t) ==
  /\ At(t, "list")
  /\ scan' = [scan EXCEPT ![t] = Present]
  /\ Step(t, "listed")
  /\ UNCHANGED <<outcome, lock, written, Files>>

Contiguous(found) == found = 1..Cardinality(found)

Listed(t) ==
  /\ At(t, "listed")
  /\ \E later \in SUBSET (Present \ scan[t]) :
       LET found == scan[t] \cup later
           parentMissing == job[t].name # 1 /\ job[t].name - 1 \notin found
       IN /\ scan' = [scan EXCEPT ![t] = found]
          /\ CASE ~Contiguous(found) -> Return(t, "inconsistent")
               [] Contiguous(found) /\ job[t].kind = "list" -> Return(t, "ok")
               [] Contiguous(found) /\ job[t].kind = "publish" /\ parentMissing ->
                    Return(t, "parent_missing")
               [] OTHER -> Step(t, "mkdir") /\ UNCHANGED outcome
  /\ UNCHANGED <<lock, written, Files>>

\* Only the publisher that finds no directory syncs the directory above it.
MakeDirectory(t) ==
  /\ At(t, "mkdir")
  /\ folder' = IF folder = "none" THEN "seen" ELSE folder
  /\ Step(t, IF folder = "none" THEN "sync_parent" ELSE "temp")
  /\ UNCHANGED <<outcome, inode, seen, kept, temp, lock, written, scan>>

SyncParent(t) ==
  /\ At(t, "sync_parent")
  /\ folder' = "kept"
  /\ Step(t, "temp")
  /\ UNCHANGED <<outcome, inode, seen, kept, temp, lock, written, scan>>

-----------------------------------------------------------------------------
(* Writing a file beside its name, and giving it the name.                 *)

CreateTemp(t) ==
  /\ At(t, "temp")
  /\ temp' = temp \cup {t}
  /\ Step(t, "write")
  /\ UNCHANGED <<outcome, inode, seen, kept, folder, lock, written, scan>>

Line(t, seq) == [by |-> t, seq |-> seq, data |-> job[t].data]

\* Every byte, or a part of them before an error or a kill.
Write(t) ==
  /\ At(t, "write")
  /\ \/ /\ inode' = [inode EXCEPT ![t].lines = <<Line(t, 1)>>]
        /\ Step(t, "fsync")
     \/ /\ inode' = [inode EXCEPT ![t].lines = <<Torn>>]
        /\ Step(t, "cut_short")
  /\ UNCHANGED <<outcome, seen, kept, temp, folder, lock, written, scan>>

Flushed(file) == [file EXCEPT !.flushed = Len(file.lines)]

MutSync(t) ==
  /\ At(t, "fsync")
  /\ Step(t, IF job[t].kind = "replace" THEN "rename" ELSE "link")
  /\ UNCHANGED <<outcome, inode, seen, kept, temp, folder, lock, written, scan>>

Sync(t) ==
  /\ At(t, "fsync")
  /\ inode' = [inode EXCEPT ![t] = Flushed(@)]
  /\ Step(t, IF job[t].kind = "replace" THEN "rename" ELSE "link")
  /\ UNCHANGED <<outcome, seen, kept, temp, folder, lock, written, scan>>

SameBytes(t) == inode[seen[job[t].name]].lines[1].data = job[t].data

\* A name that exists is never replaced: the same bytes are taken as published
\* before, and anything else is a conflict.
Link(t) ==
  /\ At(t, "link")
  /\ IF seen[job[t].name] = NoFile
     THEN /\ seen' = [seen EXCEPT ![job[t].name] = t]
          /\ Step(t, "unlink") /\ UNCHANGED outcome
     ELSE /\ outcome' =
               [outcome EXCEPT ![t] =
                  IF job[t].kind = "publish" /\ SameBytes(t) THEN "ok" ELSE "exists"]
          /\ Step(t, "unlink") /\ UNCHANGED seen
  /\ UNCHANGED <<inode, kept, temp, folder, lock, written, scan>>

Unlink(t) ==
  /\ At(t, "unlink")
  /\ temp' = temp \ {t}
  /\ Step(t, IF outcome[t] = "none" THEN "sync" ELSE "done")
  /\ UNCHANGED <<outcome, inode, seen, kept, folder, lock, written, scan>>

KeptIn(dir) == [n \in Name |-> IF Dir(n) = dir THEN seen[n] ELSE kept[n]]

SyncDirectory(t) ==
  /\ At(t, "sync")
  /\ kept' = KeptIn(Dir(job[t].name))
  /\ IF job[t].kind = "replace"
     THEN Step(t, "unlock") /\ outcome' = [outcome EXCEPT ![t] = "ok"]
     ELSE Return(t, "ok")
  /\ UNCHANGED <<inode, seen, temp, folder, lock, written, scan>>

MutCutShort(t) ==
  At(t, "cut_short") /\ Return(t, "unavailable") /\ UNCHANGED <<lock, written, scan, Files>>

\* An error after the temporary file was made removes it before it is raised,
\* unless that fails too.
CutShort(t) ==
  /\ At(t, "cut_short")
  /\ temp' \in {temp, temp \ {t}}
  /\ outcome' = [outcome EXCEPT ![t] = "unavailable"]
  /\ Step(t, IF job[t].kind = "replace" THEN "unlock" ELSE "done")
  /\ UNCHANGED <<inode, seen, kept, folder, lock, written, scan>>

Linking(t) ==
  \/ MakeDirectory(t) \/ SyncParent(t) \/ CreateTemp(t) \/ Write(t) \/ Sync(t)
  \/ Link(t) \/ Unlink(t) \/ SyncDirectory(t) \/ CutShort(t)

-----------------------------------------------------------------------------
(* Replacing a document.                                                   *)

MutFree(t, l) == TRUE

Free(t, l) == lock[l] = NoFile

\* A write asked for before one that has landed is dropped.
MutOvertaken(t) == FALSE

Overtaken(t) == job[t].order # 0 /\ written > job[t].order

TakeDocument(t) ==
  /\ At(t, "lock") /\ Free(t, "document")
  /\ IF Overtaken(t)
     THEN Return(t, "dropped") /\ UNCHANGED lock
     ELSE lock' = [lock EXCEPT !["document"] = t] /\ Step(t, "temp") /\ UNCHANGED outcome
  /\ UNCHANGED <<written, scan, Files>>

\* A run's record is not synced by name: only counts and pending patches are.
Rename(t) ==
  /\ At(t, "rename")
  /\ seen' = [seen EXCEPT ![job[t].name] = t]
  /\ temp' = temp \ {t}
  /\ written' = IF job[t].order # 0 THEN job[t].order ELSE written
  /\ IF job[t].order # 0
     THEN Step(t, "unlock") /\ outcome' = [outcome EXCEPT ![t] = "ok"]
     ELSE Step(t, "sync") /\ UNCHANGED outcome
  /\ UNCHANGED <<inode, kept, folder, lock, scan>>

\* A line of the log that could not be flushed, or not all of it, is still in
\* the file's buffer when the lock is let go of.
Buffered == {"unwritten", "cut"}

Unlock(t, l) ==
  /\ At(t, "unlock") /\ lock[l] = t
  /\ lock' = [lock EXCEPT ![l] = NoFile]
  /\ Step(t, IF outcome[t] \in Buffered THEN "close" ELSE "done")
  /\ UNCHANGED <<outcome, written, scan, Files>>

Replacing(t) == TakeDocument(t) \/ Rename(t) \/ Unlock(t, "document")

-----------------------------------------------------------------------------
(* Appending a decision to the audit log.                                  *)

Open(t) ==
  /\ At(t, "open")
  /\ seen' = [seen EXCEPT ![Decisions] = LogFile]
  /\ Step(t, "lock_log")
  /\ UNCHANGED <<outcome, inode, kept, temp, folder, lock, written, scan>>

TakeLog(t) ==
  /\ At(t, "lock_log") /\ Free(t, "audit")
  /\ lock' = [lock EXCEPT !["audit"] = t]
  /\ Step(t, "read")
  /\ UNCHANGED <<outcome, written, scan, Files>>

Log == inode[LogFile].lines

\* The whole chain is read and checked before a line follows it: what is no
\* entry, whole or torn, has no place in it.
Chained(lines) == \A i \in DOMAIN lines : lines[i].seq = i

ReadLog(t) ==
  /\ At(t, "read")
  /\ IF Chained(Log)
     THEN /\ scan' = [scan EXCEPT ![t] = {Len(Log)}]
          /\ Step(t, "append") /\ UNCHANGED outcome
     ELSE /\ outcome' = [outcome EXCEPT ![t] = "corrupt"]
          /\ Step(t, "unlock") /\ UNCHANGED scan
  /\ UNCHANGED <<lock, written, Files>>

\* What has no newline yet is continued by whatever is written next: by its own
\* rest, which completes the entry, or by another's bytes, which do not.
Cut(t) == [Torn EXCEPT !.by = t]
Garbled == [Torn EXCEPT !.data = "garbled"]

Ragged(lines) ==
  lines # <<>> /\ lines[Len(lines)].seq = 0 /\ lines[Len(lines)].data = "torn"

Complete(lines) == IF Ragged(lines) THEN SubSeq(lines, 1, Len(lines) - 1) ELSE lines

\* The bytes a thread writes begin where an entry may: on a new line, or after
\* the part of it that was written before.
Continues(t) ==
  IF outcome[t] = "cut" THEN Ragged(Log) /\ Log[Len(Log)] = Cut(t) ELSE ~Ragged(Log)

Piece(t, ends, seq) ==
  IF Continues(t) THEN (IF ends THEN Line(t, seq) ELSE Cut(t))
                  ELSE (IF ends THEN Garbled ELSE Torn)

AtMost(n, bound) == IF n <= bound THEN n ELSE bound

\* What the log holds after a write of all that is left of a thread's line, or
\* of a part of it: always at the end of the file, whoever wrote there since.
Landed(t, ends) ==
  \E length \in scan[t] :
    inode' = [inode EXCEPT ![LogFile] =
                [lines |-> Append(Complete(Log), Piece(t, ends, length + 1)),
                 flushed |-> AtMost(@.flushed, Len(Complete(Log)))]]

\* The write goes through, or it fails after all, some or none of the line.
AppendLine(t) ==
  /\ At(t, "append")
  /\ \/ Landed(t, TRUE) /\ Step(t, "flush") /\ UNCHANGED outcome
     \/ /\ \/ UNCHANGED inode /\ outcome' = [outcome EXCEPT ![t] = "unwritten"]
           \/ Landed(t, FALSE) /\ outcome' = [outcome EXCEPT ![t] = "cut"]
        /\ Step(t, "unlock")
  /\ UNCHANGED <<seen, kept, temp, folder, lock, written, scan>>

\* Closing the file writes what its buffer kept, without the lock; it may fail
\* again. The append raises AuditLogCorrupt whatever becomes of its line.
Close(t) ==
  /\ At(t, "close")
  /\ UNCHANGED inode \/ Landed(t, TRUE) \/ Landed(t, FALSE)
  /\ Step(t, "done")
  /\ UNCHANGED <<outcome, seen, kept, temp, folder, lock, written, scan>>

Flush(t) ==
  /\ At(t, "flush")
  /\ inode' = [inode EXCEPT ![LogFile] = Flushed(@)]
  /\ outcome' = [outcome EXCEPT ![t] = "ok"]
  /\ Step(t, "unlock")
  /\ UNCHANGED <<seen, kept, temp, folder, lock, written, scan>>

Appending(t) ==
  \/ Open(t) \/ TakeLog(t) \/ ReadLog(t) \/ AppendLine(t) \/ Flush(t)
  \/ Unlock(t, "audit") \/ Close(t)

-----------------------------------------------------------------------------
(* Failing calls, killed processes, and the loss of power.                 *)

\* A call that raises OSError: what follows is the code's finally blocks.
Fail(t) ==
  /\ power = "on"
  /\ CASE pc[t] \in {"fsync", "rename"} \/ (pc[t] = "link" /\ seen[job[t].name] = NoFile) ->
            Step(t, "cut_short") /\ UNCHANGED outcome
       [] pc[t] \in {"flush", "sync"} /\ job[t].kind \in {"append", "replace"} ->
            /\ outcome' = [outcome EXCEPT ![t] = "unavailable"] /\ Step(t, "unlock")
       [] pc[t] = "temp" /\ job[t].kind = "replace" ->
            /\ outcome' = [outcome EXCEPT ![t] = "unavailable"] /\ Step(t, "unlock")
       [] pc[t] \in {"list", "mkdir", "sync_parent", "open"}
          \/ (pc[t] \in {"temp", "sync"} /\ job[t].kind \in Publish) ->
            Return(t, "unavailable")
       [] pc[t] = "unlink" -> Return(t, "unavailable")
       [] OTHER -> FALSE
  /\ UNCHANGED <<lock, written, scan, Files>>

\* A process that ends takes its threads with it, and the operating system lets
\* go of its locks.
Kill(process) ==
  LET ending == {t \in Threads : job[t].process = process /\ pc[t] # "done"}
  IN /\ power = "on" /\ ending # {}
     /\ outcome' = [t \in Threads |-> IF t \in ending THEN "killed" ELSE outcome[t]]
     /\ pc' = [t \in Threads |-> IF t \in ending THEN "done" ELSE pc[t]]
     /\ lock' = [l \in DOMAIN lock |-> IF lock[l] \in ending THEN NoFile ELSE lock[l]]
     /\ UNCHANGED <<job, power, written, scan, Files>>

\* What a file may hold afterwards: what was flushed, and any part of the rest.
Survivors(file) ==
  {[lines |-> SubSeq(file.lines, 1, k) \o tail, flushed |-> k + Len(tail)] :
     k \in file.flushed..Len(file.lines), tail \in {<<>>, <<Torn>>}}

Survived(file) ==
  {s \in Survivors(file) : Len(s.lines) <= Len(file.lines)}

\* A name that was not synced may be lost, and with it the file.
LosePower ==
  /\ power = "on" /\ power' = "lost"
  /\ \E lost \in SUBSET {n \in Name : kept[n] # seen[n]}, whole \in BOOLEAN :
       LET back == [n \in Name |-> IF n \in lost THEN kept[n] ELSE seen[n]]
           gone == folder = "seen" /\ ~whole
       IN /\ seen' = [n \in Name |-> IF n \in Versions /\ gone THEN NoFile ELSE back[n]]
          /\ folder' = IF gone THEN "none" ELSE folder
  /\ inode' \in {i \in [DOMAIN inode -> UNION {Survived(inode[f]) : f \in DOMAIN inode}] :
                   \A f \in DOMAIN inode :
                     IF \E n \in Name : seen[n] = f THEN i[f] \in Survived(inode[f])
                     ELSE i[f] = inode[f]}
  /\ UNCHANGED <<job, pc, outcome, kept, temp, lock, written, scan>>

Work(t) == List(t) \/ Listed(t) \/ Linking(t) \/ Replacing(t) \/ Appending(t)

Done == (power = "lost" \/ \A t \in Threads : pc[t] = "done") /\ UNCHANGED vars

Next ==
  \/ \E t \in Threads : Work(t) \/ Fail(t) \/ Kill(job[t].process)
  \/ LosePower \/ Done

Spec == Init /\ [][Next]_vars

-----------------------------------------------------------------------------
(* What a reader of the workspace's files may rely on, whichever processes *)
(* write them, are killed or fail, and when the machine loses power.       *)

Calls ==
  {"list", "listed", "mkdir", "sync_parent", "temp", "write", "fsync", "link", "unlink",
   "sync", "cut_short", "lock", "rename", "unlock", "open", "lock_log", "read", "append",
   "flush", "close", "done"}

Outcomes ==
  {"none", "ok", "exists", "inconsistent", "parent_missing", "unavailable", "dropped",
   "corrupt", "unwritten", "cut", "killed"}

\* Threads are at the code's system calls, names name files, and a lock is held
\* by a thread that is at work.
TypeOK ==
  /\ job \in Workloads
  /\ pc \in [Threads -> Calls] /\ outcome \in [Threads -> Outcomes]
  /\ {seen[n] : n \in Name} \cup {kept[n] : n \in Name} \subseteq Threads \cup {LogFile, NoFile}
  /\ temp \subseteq Threads /\ folder \in {"none", "seen", "kept"}
  /\ {lock["document"], lock["audit"]} \subseteq Threads \cup {NoFile}
  /\ power \in {"on", "lost"}
  /\ \A l \in DOMAIN lock : lock[l] # NoFile => pc[lock[l]] # "done"

\* A reader only ever sees complete files: no version, recording or document is
\* partly written under its name, also after the power was lost.
ReadersSeeWholeFiles ==
  \A n \in Name \ {Decisions} :
    seen[n] # NoFile => inode[seen[n]].lines = <<Line(seen[n], 1)>>

\* A version or a recording, once it has a name, is never replaced: of two
\* writers of one version with different contents, one is told of a conflict.
NeverReplaced ==
  [][power' = "on" =>
       \A n \in Versions \cup {Recording} : seen[n] # NoFile => seen'[n] = seen[n]]_vars

\* What a publish that returned stored is what a reader finds.
PublishedIsStored ==
  power = "on" =>
    \A t \in Threads :
      outcome[t] = "ok" /\ job[t].kind \in Publish =>
        seen[job[t].name] # NoFile /\ job[seen[job[t].name]].data = job[t].data

\* A listing is one of the versions the store had while it was read, so no
\* version is published whose parent is missing.
NoVersionIsSkipped ==
  power = "on" =>
    /\ \A v \in Present : 1..v \subseteq Present
    /\ \A t \in Threads :
         job[t].kind = "list" /\ outcome[t] = "ok" =>
           \A v \in scan[t] : 1..v \subseteq scan[t]

\* A run's record is never replaced by one that was asked for earlier, whichever
\* thread runs first and whichever write fails.
NewestWriteStays ==
  [][seen[Document] # NoFile /\ power' = "on" =>
       job[seen'[Document]].order >= job[seen[Document]].order]_vars

\* A write that failed may still have put its line into the log when the file
\* was closed, after the lock was let go of.
ClosedLate == \E t \in Threads : pc[t] = "done" /\ outcome[t] \in Buffered

\* Until then nothing follows a line that was cut short: the log is a chain
\* with at most its last line torn.
DecisionsAreChained ==
  ~ClosedLate => Chained(Complete(Log))

\* A decision that was returned as recorded.
IsRecorded(t) == job[t].kind = "append" /\ outcome[t] = "ok"

\* Its entry is in the log, once, and flushed, so that it survives a loss of
\* power whenever the log's own name does; unless the bytes of a failed write
\* ran into it, and then the line that holds both is there, which stops every
\* reader.
DecisionIsRecorded ==
  \A t \in Threads : IsRecorded(t) =>
    LET flushed == {i \in DOMAIN Log : i <= inode[LogFile].flushed}
    IN  \/ Cardinality({i \in flushed : Log[i].by = t}) = 1
        \/ \E i \in flushed : Log[i] = Garbled

\* Of two decisions that were returned as recorded, the one further down in the
\* log has the later place: they never share one, whatever failed in between.
\* The module's docstring says so of all decisions, from the lock (log.py:3-6);
\* a line whose append failed may have the place of another.
RecordedLines == {i \in DOMAIN Log : Log[i].by # NoFile /\ IsRecorded(Log[i].by)}

PlacesAreInOrder == \A i, j \in RecordedLines : i < j => Log[i].seq < Log[j].seq

\* What was returned after its directory was synced survives a loss of power: a
\* recording, the count of a day's calls, the pending patches.
SyncedSurvives ==
  power = "lost" =>
    \A t \in Threads :
      /\ outcome[t] = "ok" /\ job[t].kind \in {"create", "replace"} /\ job[t].order = 0
      => seen[job[t].name] # NoFile

\* Whatever is killed, fails or races, a reader finds whole files, every version
\* up to the latest, what was published, and what was synced before the power
\* was lost.
StoredIsRead ==
  TypeOK /\ ReadersSeeWholeFiles /\ PublishedIsStored /\ NoVersionIsSkipped /\ SyncedSurvives

\* No file gives way to one it should outlive: a version to a rival of the same
\* number, a run's newer record to an older one.
NothingOverwritten == NeverReplaced /\ NewestWriteStays

\* The audit log holds every decision that was returned as recorded, at a place
\* of its own, in a chain until a write that failed puts its line out of place.
DecisionsAreKept == DecisionsAreChained /\ DecisionIsRecorded /\ PlacesAreInOrder

\* A thread's calls return; no process, failure or loss of power is assumed.
FairSpec == Spec /\ \A t \in Threads : WF_vars(Work(t))

\* Every job returns, so no lock is held for ever, unless the power is lost.
EveryJobReturns == <>(power = "lost" \/ \A t \in Threads : pc[t] = "done")
=============================================================================
