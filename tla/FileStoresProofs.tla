--------------------------- MODULE FileStoresProofs ---------------------------
(***************************************************************************)
(* What the workspace's files promise their readers, for any number of     *)
(* threads, processes, versions and jobs: names give whole files, versions *)
(* are never replaced, later records never give way to earlier ones,       *)
(* recorded decisions stay, and what was synced outlives a loss of power.  *)
(***************************************************************************)
EXTENDS FileStores, FiniteSetTheorems, SequenceTheorems, TLAPS

-----------------------------------------------------------------------------
(* Types.                                                                  *)

\* What a line may say.
LineOf == [by : Threads \cup {NoFile}, seq : Nat,
           data : {job[t].data : t \in Threads} \cup {"torn", "garbled"}]

File == [lines : Seq(LineOf), flushed : Nat]

\* The system calls of each kind of job.
CallsOf ==
  [list    |-> {"list", "listed", "done"},
   publish |-> {"list", "listed", "mkdir", "sync_parent", "temp", "write", "fsync", "link",
                "unlink", "sync", "cut_short", "done"},
   create  |-> {"temp", "write", "fsync", "link", "unlink", "sync", "cut_short", "done"},
   replace |-> {"lock", "temp", "write", "fsync", "rename", "sync", "cut_short", "unlock",
                "done"},
   append  |-> {"open", "lock_log", "read", "append", "flush", "unlock", "close", "done"}]

\* The calls made while a lock is held.
Holds(t, l) ==
  IF l = "document" THEN job[t].kind = "replace" /\ pc[t] \notin {"lock", "done"}
  ELSE job[t].kind = "append" /\ pc[t] \in {"read", "append", "flush", "unlock"}

TypeInv ==
  /\ job \in Workloads
  /\ pc \in [Threads -> Calls] /\ outcome \in [Threads -> Outcomes]
  /\ inode \in [Threads \cup {LogFile} -> File]
  /\ seen \in [Name -> Threads \cup {LogFile, NoFile}]
  /\ kept \in [Name -> Threads \cup {LogFile, NoFile}]
  /\ temp \subseteq Threads /\ folder \in {"none", "seen", "kept"}
  /\ lock \in [{"document", "audit"} -> Threads \cup {NoFile}]
  /\ written \in Nat /\ scan \in [Threads -> SUBSET Nat]
  /\ power \in {"on", "lost"}

\* Where a thread is: at a call of its job, with the locks that call is made
\* under and no others, and without a result before the job has one.
Placed(t) ==
  /\ pc[t] \in CallsOf[job[t].kind]
  /\ \A l \in {"document", "audit"} : lock[l] = t <=> Holds(t, l)
  /\ pc[t] \notin {"unlink", "unlock", "close", "done"} => outcome[t] = "none"
  /\ pc[t] = "unlink" => outcome[t] \in {"none", "exists"} \/ (outcome[t] = "ok" /\ job[t].kind = "publish")
  /\ outcome[t] \in Buffered => job[t].kind = "append"
  /\ pc[t] = "close" => outcome[t] \in Buffered

-----------------------------------------------------------------------------
(* Files under their names.                                                *)

\* A thread's file is complete and flushed.
Whole(t) == inode[t] = [lines |-> <<Line(t, 1)>>, flushed |-> 1]

\* The calls after a thread's file has its name.
Past == {"unlink", "sync", "unlock", "close", "done"}

\* A name other than the log's, where it names a file, names the whole file of
\* a thread that was asked for that name and is past writing it.
NamesWhole(n, f) ==
  f # NoFile =>
    /\ f \in Threads /\ job[f].kind \in Publish \cup {"replace"} /\ job[f].name = n
    /\ Whole(f) /\ pc[f] \in Past

FilesInv ==
  /\ \A n \in Name \ {Decisions} : NamesWhole(n, seen[n]) /\ NamesWhole(n, kept[n])
  /\ seen[Decisions] \in {LogFile, NoFile} /\ kept[Decisions] \in {LogFile, NoFile}

\* What is on stable storage under a name is still named, unless by another file.
KeptIsSeen == \A n \in Name : kept[n] # NoFile => seen[n] # NoFile

\* A thread writes its file, and its name then names it.
Written(t) ==
  /\ pc[t] = "fsync" => inode[t].lines = <<Line(t, 1)>>
  /\ pc[t] \in {"link", "rename"} => Whole(t)
  /\ pc[t] = "sync" => seen[job[t].name] = t
  /\ pc[t] = "unlink" /\ outcome[t] = "none" => seen[job[t].name] = t

\* What a job that returned has stored.
Stored(t) ==
  outcome[t] = "ok" /\ job[t].kind \in Publish =>
    seen[job[t].name] # NoFile /\ job[seen[job[t].name]].data = job[t].data

Synced(t, names) ==
  outcome[t] = "ok" /\ job[t].kind \in {"create", "replace"} /\ job[t].order = 0 =>
    names[job[t].name] # NoFile

\* Versions have their parents, and listings are of versions that have.
Parents == \A v \in Present : 1..v \subseteq Present

Lists(t) ==
  /\ job[t].kind \in {"list", "publish"} /\ pc[t] = "listed" => scan[t] \subseteq Present
  /\ job[t].kind = "publish" /\ pc[t] \in {"mkdir", "sync_parent", "temp", "write", "fsync", "link"} =>
       job[t].name = 1 \/ job[t].name - 1 \in Present
  /\ job[t].kind = "list" /\ outcome[t] = "ok" => \A v \in scan[t] : 1..v \subseteq scan[t]

\* Records are written in the order asked for: what a thread may still write is
\* asked for after what has landed.
Ordered(t) ==
  job[t].kind = "replace" /\ job[t].order # 0
    /\ pc[t] \in {"temp", "write", "fsync", "rename"} => written <= job[t].order

LatestStays == seen[Document] # NoFile => job[seen[Document]].order <= written

-----------------------------------------------------------------------------
(* The audit log.                                                          *)

LogInv ==
  DecisionsAreChained /\ PlacesAreInOrder /\ inode[LogFile].flushed <= Len(Log)

\* The lines a thread has written.
Mine(t) == {i \in DOMAIN Log : Log[i].by = t}

\* Only a write that failed leaves a part of a line.
Tidy(t) ==
  job[t].kind = "append" /\ outcome[t] \in {"none", "ok"} => \A i \in Mine(t) : Log[i].seq # 0

\* A thread writes after it has checked the chain, and once; what is recorded
\* meanwhile is nothing, so its place is after every recorded one.
Deciding(t) ==
  job[t].kind = "append" =>
    /\ pc[t] \in {"open", "lock_log", "read", "append"} => Mine(t) = {}
    /\ pc[t] = "append" =>
         \E n \in Nat :
           /\ scan[t] = {n} /\ \A j \in RecordedLines : Log[j].seq <= n
           /\ ~ClosedLate => Chained(Log) /\ n = Len(Log)
    /\ pc[t] = "flush" =>
         \/ Mine(t) = {} /\ \E i \in DOMAIN Log : Log[i] = Garbled
         \/ \E i \in DOMAIN Log :
              Mine(t) = {i} /\ \A j \in RecordedLines : j < i /\ Log[j].seq < Log[i].seq

Decided(t) ==
  IsRecorded(t) =>
    \/ \E i \in 1..inode[LogFile].flushed : Mine(t) = {i}
    \/ \E i \in 1..inode[LogFile].flushed : Log[i] = Garbled

-----------------------------------------------------------------------------

Promised(t) ==
  /\ Written(t) /\ Stored(t) /\ Synced(t, kept) /\ Lists(t) /\ Ordered(t)
  /\ Deciding(t) /\ Tidy(t)

\* While the power is on, and after it was lost.
Inv ==
  /\ TypeInv /\ FilesInv /\ LogInv
  /\ \A t \in Threads : Placed(t) /\ Decided(t) /\ Synced(t, seen)
  /\ power = "on" =>
       /\ KeptIsSeen /\ Parents /\ LatestStays
       /\ \A t \in Threads : Promised(t)

\* Names and jobs.
LEMMA JobOf ==
  ASSUME job \in Workloads, NEW t \in Threads
  PROVE  /\ job[t].kind \in {"list", "publish", "create", "replace", "append"}
         /\ job[t].kind \in {"list", "publish"} => job[t].name \in Versions
         /\ job[t].kind = "create" => job[t].name = Recording
         /\ job[t].kind = "replace" => job[t].name = Document
         /\ job[t].kind = "append" => job[t].name = Decisions
         /\ job[t].name \in Name /\ job[t].order \in Nat
BY WorkloadsAssumption DEF NamesOf, Name

LEMMA NamesDiffer ==
  /\ Recording \notin Versions /\ Document \notin Versions /\ Decisions \notin Versions
  /\ Recording # Document /\ Document # Decisions /\ Decisions # Recording
  /\ Recording \in Name /\ Document \in Name /\ Decisions \in Name
  /\ LogFile \notin Threads /\ NoFile \notin Threads /\ NoFile # LogFile
BY StoresAssumption DEF Name

LEMMA CallsOfKind ==
  ASSUME NEW t \in Threads, job \in Workloads, pc[t] \in CallsOf[job[t].kind]
  PROVE  /\ job[t].kind = "list" => pc[t] \in {"list", "listed", "done"}
         /\ job[t].kind = "publish" =>
              pc[t] \in {"list", "listed", "mkdir", "sync_parent", "temp", "write", "fsync",
                         "link", "unlink", "sync", "cut_short", "done"}
         /\ job[t].kind = "create" =>
              pc[t] \in {"temp", "write", "fsync", "link", "unlink", "sync", "cut_short", "done"}
         /\ job[t].kind = "replace" =>
              pc[t] \in {"lock", "temp", "write", "fsync", "rename", "sync", "cut_short",
                         "unlock", "done"}
         /\ job[t].kind = "append" =>
              pc[t] \in {"open", "lock_log", "read", "append", "flush", "unlock", "close", "done"}
         /\ job[t].kind \in {"list", "publish", "create", "replace", "append"}
BY JobOf DEF CallsOf

LEMMA LineType ==
  ASSUME NEW t \in Threads, NEW seq \in Nat
  PROVE  /\ Line(t, seq) \in LineOf /\ Torn \in LineOf /\ Cut(t) \in LineOf /\ Garbled \in LineOf
         /\ Line(t, seq).by = t /\ Line(t, seq).seq = seq /\ Line(t, seq).data = job[t].data
         /\ Cut(t).by = t /\ Cut(t).seq = 0 /\ Cut(t).data = "torn"
         /\ Torn.by = NoFile /\ Torn.seq = 0 /\ Torn.data = "torn"
         /\ Garbled.by = NoFile /\ Garbled.seq = 0 /\ Garbled.data = "garbled"
<1>1. t # NoFile
  BY NamesDiffer
<1> QED
  BY <1>1 DEF Line, Torn, Cut, Garbled, LineOf

\* What of the log is complete: all of it, but for a last line that is torn.
LEMMA CompleteLines ==
  ASSUME NEW S, NEW lines \in Seq(S)
  PROVE  /\ Complete(lines) \in Seq(S) /\ Len(Complete(lines)) \in Nat
         /\ Len(Complete(lines)) <= Len(lines) /\ Len(lines) <= Len(Complete(lines)) + 1
         /\ \A i \in 1..Len(Complete(lines)) : Complete(lines)[i] = lines[i]
         /\ \A i \in 1..Len(lines) :
              \/ i \in 1..Len(Complete(lines))
              \/ i = Len(lines) /\ lines[i].seq = 0 /\ lines[i].data = "torn"
         /\ Ragged(lines) => Len(lines) = Len(Complete(lines)) + 1
         /\ ~Ragged(lines) => Complete(lines) = lines
<1>1. Len(lines) \in Nat /\ DOMAIN lines = 1..Len(lines)
  OBVIOUS
<1>2. CASE ~Ragged(lines)
  <2>1. Complete(lines) = lines
    BY <1>2 DEF Complete
  <2>2. Len(lines) <= Len(lines) /\ Len(lines) <= Len(lines) + 1
    BY <1>1
  <2> QED
    BY <1>1, <1>2, <2>1, <2>2, Zenon
<1>3. CASE Ragged(lines)
  <2>1. lines # <<>> /\ lines[Len(lines)].seq = 0 /\ lines[Len(lines)].data = "torn"
    BY <1>3 DEF Ragged
  <2>2. Len(lines) > 0 /\ Len(lines) - 1 \in Nat
    BY <1>1, <2>1, EmptySeq
  <2>3. Complete(lines) = SubSeq(lines, 1, Len(lines) - 1)
    BY <1>3 DEF Complete
  <2>4. /\ Complete(lines) \in Seq(S) /\ Len(Complete(lines)) = Len(lines) - 1
        /\ \A i \in 1..(Len(lines) - 1) : Complete(lines)[i] = lines[i]
    BY <1>1, <2>2, <2>3, SubSeqProperties
  <2> DEFINE n == Len(lines) - 1
  <2>5. n \in Nat /\ Len(lines) = n + 1
    BY <1>1, <2>2
  <2>6. /\ Complete(lines) \in Seq(S) /\ Len(Complete(lines)) = n
        /\ \A i \in 1..n : Complete(lines)[i] = lines[i]
    BY <2>4
  <2> HIDE DEF n
  <2>7. \A i \in 1..(n + 1) : i \in 1..n \/ i = n + 1
    BY <2>5
  <2>8. \A i \in 1..Len(lines) :
          \/ i \in 1..Len(Complete(lines))
          \/ i = Len(lines) /\ lines[i].seq = 0 /\ lines[i].data = "torn"
    BY <2>1, <2>5, <2>6, <2>7
  <2> QED
    BY <1>3, <2>5, <2>6, <2>8
<1> QED
  BY <1>2, <1>3

\* A chain with at most its last line torn, line by line.
LEMMA ChainedLines ==
  ASSUME NEW S, NEW lines \in Seq(S)
  PROVE  /\ Chained(Complete(lines)) <=>
              \A i \in 1..Len(lines) :
                \/ lines[i].seq = i
                \/ i = Len(lines) /\ lines[i].seq = 0 /\ lines[i].data = "torn"
         /\ Chained(lines) => ~Ragged(lines)
<1>1. /\ Len(lines) \in Nat /\ DOMAIN lines = 1..Len(lines)
      /\ DOMAIN Complete(lines) = 1..Len(Complete(lines)) /\ Len(Complete(lines)) \in Nat
      /\ Len(Complete(lines)) <= Len(lines) /\ Len(lines) <= Len(Complete(lines)) + 1
      /\ \A i \in 1..Len(Complete(lines)) : Complete(lines)[i] = lines[i]
  BY CompleteLines
<1>2. ASSUME Chained(Complete(lines)), NEW i \in 1..Len(lines)
      PROVE  \/ lines[i].seq = i
             \/ i = Len(lines) /\ lines[i].seq = 0 /\ lines[i].data = "torn"
  BY <1>1, <1>2, CompleteLines DEF Chained
<1>3. ASSUME \A i \in 1..Len(lines) :
               \/ lines[i].seq = i
               \/ i = Len(lines) /\ lines[i].seq = 0 /\ lines[i].data = "torn",
             NEW i \in 1..Len(Complete(lines))
      PROVE  Complete(lines)[i].seq = i
  <2>1. i \in 1..Len(lines) /\ Complete(lines)[i] = lines[i]
    BY <1>1
  <2>2. CASE i = Len(lines) /\ lines[i].seq = 0 /\ lines[i].data = "torn"
    <3>1. lines # <<>>
      BY <1>1, <2>2
    <3>2. Ragged(lines)
      BY <2>2, <3>1 DEF Ragged
    <3>3. Len(lines) = Len(Complete(lines)) + 1
      BY <3>2, CompleteLines
    <3> QED
      BY <1>1, <2>2, <3>3
  <2> QED
    BY <1>3, <2>1, <2>2
<1>4. ASSUME Chained(lines), Ragged(lines) PROVE FALSE
  <2>1. lines # <<>> /\ lines[Len(lines)].seq = 0
    BY <1>4 DEF Ragged
  <2>2. Len(lines) \in DOMAIN lines
    BY <1>1, <2>1, EmptySeq
  <2>3. lines[Len(lines)].seq = Len(lines) /\ Len(lines) # 0
    BY <1>1, <1>4, <2>2 DEF Chained
  <2> QED
    BY <2>1, <2>3
<1> QED
  BY <1>1, <1>2, <1>3, <1>4 DEF Chained

\* The first states.
LEMMA InitInv == Init => Inv
<1> SUFFICES ASSUME Init PROVE Inv
  OBVIOUS
<1>1. \A t \in Threads : First(job[t]) \in Calls /\ First(job[t]) \in CallsOf[job[t].kind]
        /\ First(job[t]) \in {"list", "temp", "lock", "open"}
        /\ (First(job[t]) = "temp" => job[t].kind = "create")
  BY JobOf DEF Init, First, Calls, CallsOf
<1>2. Empty \in File /\ Len(Empty.lines) = 0 /\ DOMAIN Empty.lines = {} /\ Empty.flushed = 0
  BY EmptySeq DEF Empty, File
<1>3. TypeInv
  BY <1>1, <1>2, NamesDiffer DEF TypeInv, Init, Outcomes
<1>4. \A n \in Name : seen[n] = NoFile /\ kept[n] = NoFile
  BY DEF Init
<1>5. FilesInv /\ KeptIsSeen /\ Parents /\ LatestStays
  BY <1>4, NamesDiffer DEF FilesInv, KeptIsSeen, Parents, LatestStays, NamesWhole, Present, Name
<1>6. Log = <<>> /\ inode[LogFile] = Empty
  BY DEF Init, Log, Empty
<1>7. LogInv
  <2>1. Log \in Seq({}) /\ Len(Log) = 0 /\ DOMAIN Log = {} /\ inode[LogFile].flushed = 0
    BY <1>2, <1>6 DEF Log
  <2>2. Complete(Log) = Log
    BY <1>6 DEF Complete, Ragged
  <2>3. Chained(Complete(Log))
    BY <2>1, <2>2 DEF Chained
  <2> QED
    BY <2>1, <2>3 DEF LogInv, DecisionsAreChained, PlacesAreInOrder, RecordedLines
<1>8. ASSUME NEW t \in Threads
      PROVE  Placed(t) /\ Decided(t) /\ Synced(t, seen) /\ Promised(t)
  <2>1. pc[t] = First(job[t]) /\ outcome[t] = "none" /\ job \in Workloads
        /\ \A l \in {"document", "audit"} : lock[l] = NoFile
    BY DEF Init
  <2>2. pc[t] \in {"list", "temp", "lock", "open"} /\ pc[t] \in CallsOf[job[t].kind]
        /\ (pc[t] = "temp" => job[t].kind = "create")
    BY <1>1, <2>1
  <2>3. Placed(t)
    <3>1. t # NoFile
      BY NamesDiffer
    <3>2. ~Holds(t, "document")
      BY <2>1, <2>2, CallsOfKind DEF Holds
    <3>3. ~Holds(t, "audit")
      BY <2>1, <2>2 DEF Holds
    <3> QED
      BY <2>1, <2>2, <3>1, <3>2, <3>3 DEF Placed, Buffered
  <2>4. Mine(t) = {}
    BY <1>2, <1>6 DEF Mine
  <2> QED
    BY <2>1, <2>2, <2>3, <2>4 DEF Decided, Synced, Promised, Written, Stored, Lists, Ordered, Deciding,
         Tidy, IsRecorded
<1> QED
  BY <1>3, <1>5, <1>7, <1>8 DEF Inv

-----------------------------------------------------------------------------
(* What any step of a thread leaves alone.                                 *)

\* A file takes its name when nothing has it, or under the document's lock; the
\* log's name is always the log's.
Named(t, n) ==
  \/ /\ seen'[n] = t /\ n = job[t].name /\ job[t].kind \in Publish \cup {"replace"}
     /\ pc[t] \in {"link", "rename"} /\ pc'[t] \in Past /\ n # Decisions
     /\ seen[n] = NoFile \/ (job[t].kind = "replace" /\ n = Document)
  \/ n = Decisions /\ seen'[n] = LogFile

\* What a thread writes at the end of the log: under its lock, all of its line or
\* a part of it, or what is left of it when the file is closed.
Extended(t) ==
  /\ pc[t] \in {"append", "close"} /\ job[t].kind = "append"
  /\ \E length \in scan[t], ends \in BOOLEAN :
       /\ Log' = Append(Complete(Log), Piece(t, ends, length + 1))
       /\ inode'[LogFile].flushed = AtMost(inode[LogFile].flushed, Len(Complete(Log)))
       /\ pc[t] = "append" /\ ends => pc'[t] = "flush" /\ outcome'[t] = outcome[t]
       /\ pc[t] = "append" /\ ~ends => pc'[t] = "unlock" /\ outcome'[t] = "cut"
       /\ pc[t] = "close" => pc'[t] = "done" /\ outcome'[t] = outcome[t]

Moves(t) ==
  /\ power = "on" /\ power' = "on" /\ job' = job
  /\ \A u \in Threads \ {t} :
       pc'[u] = pc[u] /\ outcome'[u] = outcome[u] /\ scan'[u] = scan[u] /\ inode'[u] = inode[u]
  /\ inode'[t] = inode[t] \/ pc[t] \in {"write", "fsync"}
  /\ pc[t] \in Past => pc'[t] \in Past
  /\ \A n \in Name : kept'[n] \in {kept[n], seen[n]}
  /\ \A n \in Name : seen'[n] = seen[n] \/ Named(t, n)
  /\ inode'[LogFile] = inode[LogFile] \/ Extended(t)
       \/ (Log' = Log /\ inode'[LogFile].flushed = Len(Log))
  /\ written' = written \/ (pc[t] = "rename" /\ job[t].kind = "replace")
  /\ \A l \in {"document", "audit"} :
       lock'[l] = lock[l] \/ {lock[l], lock'[l]} \subseteq {t, NoFile}

\* A step that touches neither a file nor a lock.
LEMMA QuietMoves ==
  ASSUME NEW t \in Threads, TypeInv, power = "on",
         UNCHANGED <<job, power, inode, seen, kept, lock, written>>,
         NEW to, pc' = [pc EXCEPT ![t] = to], pc[t] \in Past => to \in Past,
         \A u \in Threads \ {t} : outcome'[u] = outcome[u] /\ scan'[u] = scan[u]
  PROVE  Moves(t)
<1>1. \A u \in Threads : pc'[u] = IF u = t THEN to ELSE pc[u]
  BY DEF TypeInv
<1> QED
  BY <1>1 DEF Moves

\* What an invariant says of one thread, while the power is on.
LEMMA Known ==
  ASSUME Inv, NEW t \in Threads
  PROVE  /\ TypeInv /\ FilesInv /\ LogInv /\ Placed(t) /\ Decided(t) /\ Synced(t, seen)
         /\ power = "on" => KeptIsSeen /\ Parents /\ LatestStays /\ Promised(t)
BY DEF Inv

\* Where the calls that differ by the kind of job may be.
LEMMA PlacedKind ==
  ASSUME TypeInv, NEW t \in Threads, Placed(t)
  PROVE  /\ pc[t] \in {"listed", "list", "mkdir", "sync_parent"} => job[t].kind \in {"list", "publish"}
         /\ pc[t] \in {"mkdir", "sync_parent"} => job[t].kind = "publish"
         /\ pc[t] \in {"temp", "write", "fsync", "cut_short", "sync"} =>
              job[t].kind \in {"publish", "create", "replace"}
         /\ pc[t] \in {"link", "unlink"} => job[t].kind \in {"publish", "create"}
         /\ pc[t] \in {"lock", "rename"} => job[t].kind = "replace"
         /\ pc[t] \in {"open", "lock_log", "read", "append", "flush", "close"} => job[t].kind = "append"
         /\ pc[t] = "unlock" => job[t].kind \in {"replace", "append"}
BY CallsOfKind DEF Placed, TypeInv

LEMMA StepMoves ==
  ASSUME Inv, NEW t \in Threads, Work(t) \/ Fail(t)
  PROVE  Moves(t)
<1>1. TypeInv /\ Placed(t) /\ LogInv /\ FilesInv /\ power = "on"
  BY Known DEF Work, Fail, List, Listed, Linking, MakeDirectory, SyncParent, CreateTemp, Write, Sync,
       Link, Unlink, SyncDirectory, CutShort, Replacing, TakeDocument, Rename, Appending, Open,
       TakeLog, ReadLog, AppendLine, Flush, Unlock, Close, At
<1>2. /\ t # NoFile /\ t # LogFile /\ Decisions \notin Versions \cup {Recording, Document}
  BY NamesDiffer
<1>3. /\ job[t].kind \in {"publish", "create", "replace"} => job[t].name \in Name \ {Decisions}
      /\ job[t].kind = "replace" => job[t].name = Document
  BY <1>1, JobOf, NamesDiffer DEF TypeInv
<1> USE DEF Step, Return, At, Files
<1>4. CASE List(t)
  BY <1>1, <1>4, QuietMoves DEF List, Past, TypeInv
<1>5. CASE Listed(t)
  <2>1. PICK to \in {"done", "mkdir"} : pc' = [pc EXCEPT ![t] = to]
    BY <1>1, <1>5 DEF Listed
  <2>2. \A u \in Threads \ {t} : outcome'[u] = outcome[u] /\ scan'[u] = scan[u]
    BY <1>1, <1>5 DEF Listed, TypeInv
  <2>3. UNCHANGED <<job, power, inode, seen, kept, lock, written>> /\ pc[t] \notin Past
    BY <1>5 DEF Listed, Past
  <2> QED
    BY <1>1, <2>1, <2>2, <2>3, QuietMoves
<1>6. CASE MakeDirectory(t)
  BY <1>1, <1>6, QuietMoves DEF MakeDirectory, Past
<1>7. CASE SyncParent(t)
  BY <1>1, <1>7, QuietMoves DEF SyncParent, Past
<1>8. CASE CreateTemp(t)
  BY <1>1, <1>8, QuietMoves DEF CreateTemp, Past
<1>9. CASE Write(t)
  BY <1>1, <1>2, <1>9 DEF Write, Past, Moves, TypeInv
<1>10. CASE Sync(t)
  BY <1>1, <1>2, <1>10 DEF Sync, Past, Moves, TypeInv
<1>11. CASE Link(t)
  BY <1>1, <1>2, <1>3, <1>11, PlacedKind DEF Link, Past, Moves, TypeInv, Named, Publish
<1>12. CASE Unlink(t)
  BY <1>1, <1>12, QuietMoves DEF Unlink, Past
<1>13. CASE SyncDirectory(t)
  BY <1>1, <1>13 DEF SyncDirectory, Past, Moves, TypeInv, KeptIn
<1>14. CASE CutShort(t)
  BY <1>1, <1>14, QuietMoves DEF CutShort, Past, TypeInv
<1>15. CASE TakeDocument(t)
  BY <1>1, <1>15 DEF TakeDocument, Past, Moves, TypeInv, Free
<1>16. CASE Rename(t)
  BY <1>1, <1>2, <1>3, <1>16, PlacedKind DEF Rename, Past, Moves, TypeInv, Named, Publish
<1>17. CASE Unlock(t, "document") \/ Unlock(t, "audit")
  <2>1. PICK to \in {"close", "done"} : pc' = [pc EXCEPT ![t] = to]
    BY <1>17 DEF Unlock
  <2>2. to \in Past
    BY <2>1 DEF Past
  <2> HIDE DEF Step
  <2>3. /\ UNCHANGED <<job, power, outcome, written, scan, inode, seen, kept, temp, folder>>
        /\ \A l \in {"document", "audit"} :
             lock'[l] = lock[l] \/ {lock[l], lock'[l]} \subseteq {t, NoFile}
    BY <1>1, <1>17 DEF Unlock, TypeInv, Step
  <2> QED
    BY <1>1, <2>1, <2>2, <2>3 DEF Moves, TypeInv
<1>18. CASE Open(t)
  BY <1>1, <1>18 DEF Open, Past, Moves, TypeInv, Named
<1>19. CASE TakeLog(t)
  BY <1>1, <1>19 DEF TakeLog, Past, Moves, TypeInv, Free
<1>20. CASE ReadLog(t)
  BY <1>1, <1>20, QuietMoves DEF ReadLog, Past, TypeInv
<1>21. CASE AppendLine(t) \/ Close(t)
  <2>1. /\ pc[t] \in {"append", "close"} /\ job[t].kind = "append"
        /\ pc[t] \in Past => pc'[t] \in Past
        /\ UNCHANGED <<job, power, seen, kept, temp, folder, lock, written, scan>>
        /\ \A u \in Threads \ {t} : pc'[u] = pc[u] /\ outcome'[u] = outcome[u]
    BY <1>1, <1>21, PlacedKind DEF AppendLine, Close, Past, TypeInv
  <2>2. ASSUME NEW ends \in BOOLEAN, Landed(t, ends),
               pc[t] = "append" /\ ends => pc'[t] = "flush" /\ outcome'[t] = outcome[t],
               pc[t] = "append" /\ ~ends => pc'[t] = "unlock" /\ outcome'[t] = "cut",
               pc[t] = "close" => pc'[t] = "done" /\ outcome'[t] = outcome[t]
        PROVE  Extended(t) /\ \A f \in Threads : inode'[f] = inode[f]
    <3>1. PICK length \in scan[t] :
            inode' = [inode EXCEPT ![LogFile] =
                        [lines |-> Append(Complete(Log), Piece(t, ends, length + 1)),
                         flushed |-> AtMost(inode[LogFile].flushed, Len(Complete(Log)))]]
      BY <2>2 DEF Landed
    <3>2. inode \in [Threads \cup {LogFile} -> File]
      BY <1>1 DEF TypeInv
    <3>3. /\ inode'[LogFile].lines = Append(Complete(Log), Piece(t, ends, length + 1))
          /\ inode'[LogFile].flushed = AtMost(inode[LogFile].flushed, Len(Complete(Log)))
      BY <3>1, <3>2
    <3>4. \A f \in Threads : inode'[f] = inode[f]
      BY <3>1, <3>2, NamesDiffer
    <3>5. /\ Log' = Append(Complete(Log), Piece(t, ends, length + 1))
          /\ inode'[LogFile].flushed = AtMost(inode[LogFile].flushed, Len(Complete(Log)))
      BY <3>3 DEF Log
    <3>6. Extended(t)
      BY <2>1, <2>2, <3>5 DEF Extended
    <3> QED
      BY <3>4, <3>6
  <2>3. \/ inode' = inode
        \/ Extended(t) /\ \A f \in Threads : inode'[f] = inode[f]
    <3>1. pc \in [Threads -> Calls] /\ outcome \in [Threads -> Outcomes]
      BY <1>1 DEF TypeInv
    <3>2. CASE AppendLine(t)
      <4>1. CASE Landed(t, TRUE) /\ Step(t, "flush") /\ UNCHANGED outcome
        <5>1. pc[t] = "append" /\ pc'[t] = "flush" /\ outcome'[t] = outcome[t]
          BY <3>1, <3>2, <4>1 DEF AppendLine
        <5> QED
          BY <2>2, <4>1, <5>1
      <4>2. CASE Landed(t, FALSE) /\ outcome' = [outcome EXCEPT ![t] = "cut"] /\ Step(t, "unlock")
        <5>1. pc[t] = "append" /\ pc'[t] = "unlock" /\ outcome'[t] = "cut"
          BY <3>1, <3>2, <4>2 DEF AppendLine
        <5> QED
          BY <2>2, <4>2, <5>1
      <4> QED
        BY <3>2, <4>1, <4>2 DEF AppendLine
    <3>3. CASE Close(t)
      <4>1. pc[t] = "close" /\ pc'[t] = "done" /\ outcome'[t] = outcome[t]
        BY <3>1, <3>3 DEF Close
      <4>2. CASE Landed(t, TRUE)
        BY <2>2, <4>1, <4>2
      <4>3. CASE Landed(t, FALSE)
        BY <2>2, <4>1, <4>3
      <4> QED
        BY <3>3, <4>2, <4>3 DEF Close
    <3> QED
      BY <1>21, <3>2, <3>3
  <2>4. /\ inode'[t] = inode[t] /\ \A u \in Threads \ {t} : inode'[u] = inode[u]
        /\ inode'[LogFile] = inode[LogFile] \/ Extended(t)
    BY <2>3
  <2>5. \A u \in Threads \ {t} : scan'[u] = scan[u]
    BY <2>1
  <2>6. /\ \A n \in Name : kept'[n] = kept[n] /\ seen'[n] = seen[n]
        /\ \A l \in {"document", "audit"} : lock'[l] = lock[l]
        /\ power' = "on" /\ job' = job /\ written' = written
    BY <1>1, <2>1
  <2> QED
    BY <1>1, <2>1, <2>4, <2>5, <2>6 DEF Moves
<1>22. CASE Flush(t)
  <2>1. \A f \in Threads : inode'[f] = inode[f]
    BY <1>1, NamesDiffer, <1>22 DEF Flush, TypeInv
  <2>2. Log' = Log /\ inode'[LogFile].flushed = Len(Log)
    BY <1>1, <1>22 DEF Flush, Flushed, Log, TypeInv, File
  <2>3. \A u \in Threads \ {t} : pc'[u] = pc[u] /\ outcome'[u] = outcome[u]
    BY <1>1, <1>22 DEF Flush, TypeInv
  <2>4. pc[t] = "flush" /\ UNCHANGED <<job, power, seen, kept, lock, written, scan>> /\ power = "on"
    BY <1>22 DEF Flush
  <2> QED
    BY <2>1, <2>2, <2>3, <2>4 DEF Past, Moves
<1>23. CASE Fail(t)
  BY <1>1, <1>23, QuietMoves DEF Fail, Past, TypeInv
<1> QED
  BY <1>4, <1>5, <1>6, <1>7, <1>8, <1>9, <1>10, <1>11, <1>12, <1>13, <1>14, <1>15, <1>16, <1>17,
     <1>18, <1>19, <1>20, <1>21, <1>22, <1>23 DEF Work, Linking, Replacing, Appending

-----------------------------------------------------------------------------
(* Steps keep types.                                                       *)

LEMMA FileTypes ==
  ASSUME NEW file \in File
  PROVE  /\ \A line \in LineOf : [file EXCEPT !.lines = <<line>>] \in File
         /\ \A line \in LineOf, n \in Nat :
              [lines |-> Append(Complete(file.lines), line),
               flushed |-> AtMost(file.flushed, n)] \in File
         /\ Flushed(file) \in File
<1>1. file.lines \in Seq(LineOf) /\ file.flushed \in Nat /\ DOMAIN file = {"lines", "flushed"}
      /\ file = [lines |-> file.lines, flushed |-> file.flushed]
  BY DEF File
<1>2. Len(file.lines) \in Nat
  BY <1>1
<1>3. Flushed(file) \in File
  BY <1>1, <1>2 DEF File, Flushed
<1>4. ASSUME NEW line \in LineOf
      PROVE  <<line>> \in Seq(LineOf) /\ Append(Complete(file.lines), line) \in Seq(LineOf)
  BY <1>1, CompleteLines
<1>5. \A n \in Nat : AtMost(file.flushed, n) \in Nat
  BY <1>1 DEF AtMost
<1> QED
  BY <1>1, <1>3, <1>4, <1>5 DEF File

LEMMA Numbers == Versions \subseteq Nat
<1>1. Cardinality(Versions) \in Nat
  BY StoresAssumption, FS_CardinalityType
<1> QED
  BY <1>1, StoresAssumption

\* A step's files, names and results have their types when what it changes does.
LEMMA TypeFrame ==
  ASSUME TypeInv, NEW t \in Threads, UNCHANGED <<job, power>>,
         NEW to \in Calls, pc' = [pc EXCEPT ![t] = to], outcome' \in [Threads -> Outcomes],
         inode' \in [Threads \cup {LogFile} -> File], 
         \A n \in Name : seen'[n] \in {seen[n], t, LogFile} /\ kept'[n] \in {kept[n], seen[n]},
         seen' = [n \in Name |-> seen'[n]], kept' = [n \in Name |-> kept'[n]],
         temp' \subseteq temp \cup {t}, folder' \in {folder, "seen", "kept"},
         lock' \in [{"document", "audit"} -> Threads \cup {NoFile}],
         written' \in Nat, scan' \in [Threads -> SUBSET Nat]
  PROVE  TypeInv'
<1>1. File' = File
  BY DEF File, LineOf
<1>2. seen' \in [Name -> Threads \cup {LogFile, NoFile}] /\ kept' \in [Name -> Threads \cup {LogFile, NoFile}]
  BY DEF TypeInv
<1>3. Name' = Name
  BY DEF Name
<1>4. pc' \in [Threads -> Calls]
  BY DEF TypeInv
<1> QED
  BY <1>1, <1>2, <1>3, <1>4 DEF TypeInv

LEMMA StepTypes ==
  ASSUME TypeInv, NEW t \in Threads, Work(t) \/ Fail(t)
  PROVE  TypeInv'
<1>1. /\ seen = [n \in Name |-> seen[n]] /\ kept = [n \in Name |-> kept[n]]
      /\ temp \subseteq Threads /\ folder \in {"none", "seen", "kept"} /\ written \in Nat
      /\ outcome \in [Threads -> Outcomes] /\ inode \in [Threads \cup {LogFile} -> File]
      /\ scan \in [Threads -> SUBSET Nat] /\ lock \in [{"document", "audit"} -> Threads \cup {NoFile}]
      /\ job[t].order \in Nat /\ job[t].name \in Name
      /\ Present \subseteq Nat
  BY Numbers, JobOf DEF TypeInv, Present
<1>2. \A result \in Outcomes : [outcome EXCEPT ![t] = result] \in [Threads -> Outcomes]
  BY <1>1
<1>3. \A found \in SUBSET Nat : [scan EXCEPT ![t] = found] \in [Threads -> SUBSET Nat]
  BY <1>1
<1>4. \A l \in {"document", "audit"}, holder \in {t, NoFile} :
        [lock EXCEPT ![l] = holder] \in [{"document", "audit"} -> Threads \cup {NoFile}]
  BY <1>1
<1>5. \A f \in {t, LogFile}, file \in File : [inode EXCEPT ![f] = file] \in [Threads \cup {LogFile} -> File]
  BY <1>1
<1>6. inode[t] \in File /\ inode[LogFile] \in File
  BY <1>1
<1> USE DEF Step, Return, At, Files
<1>7. CASE List(t)
  BY <1>1, <1>3, <1>7, TypeFrame DEF List, Calls
<1>8. CASE Listed(t)
  <2>1. PICK later \in SUBSET (Present \ scan[t]) : scan' = [scan EXCEPT ![t] = scan[t] \cup later]
    BY <1>8 DEF Listed
  <2>2. scan' \in [Threads -> SUBSET Nat]
    BY <1>1, <1>3, <2>1
  <2>3. PICK to \in {"done", "mkdir"} : pc' = [pc EXCEPT ![t] = to]
    BY <1>8 DEF Listed
  <2>4. outcome' \in [Threads -> Outcomes]
    BY <1>1, <1>2, <1>8 DEF Listed, Outcomes
  <2>5. UNCHANGED <<job, power, inode, seen, kept, temp, folder, lock, written>>
    BY <1>8 DEF Listed
  <2> QED
    BY <1>1, <2>2, <2>3, <2>4, <2>5, TypeFrame DEF Calls
<1>9. CASE MakeDirectory(t)
  BY <1>1, <1>9, TypeFrame DEF MakeDirectory, Calls
<1>10. CASE SyncParent(t)
  BY <1>1, <1>10, TypeFrame DEF SyncParent, Calls
<1>11. CASE CreateTemp(t)
  BY <1>1, <1>11, TypeFrame DEF CreateTemp, Calls
<1>12. CASE Write(t)
  <2>1. Line(t, 1) \in LineOf /\ Torn \in LineOf
    BY LineType
  <2>2. inode' \in [Threads \cup {LogFile} -> File]
    <3>1. PICK line \in LineOf : inode' = [inode EXCEPT ![t].lines = <<line>>]
      BY <1>12, <2>1 DEF Write
    <3>2. [inode[t] EXCEPT !.lines = <<line>>] \in File
      BY <1>6, FileTypes
    <3> QED
      BY <1>1, <1>5, <3>1, <3>2
  <2>3. PICK to \in {"fsync", "cut_short"} : pc' = [pc EXCEPT ![t] = to]
    BY <1>12 DEF Write
  <2> QED
    BY <1>1, <1>12, <2>2, <2>3, TypeFrame DEF Write, Calls
<1>13. CASE Sync(t)
  <2>1. inode' \in [Threads \cup {LogFile} -> File]
    BY <1>1, <1>5, <1>6, <1>13, FileTypes DEF Sync
  <2>2. PICK to \in {"rename", "link"} : pc' = [pc EXCEPT ![t] = to]
    BY <1>13 DEF Sync
  <2>3. UNCHANGED <<job, power, seen, kept, temp, folder, outcome, lock, written, scan>>
    BY <1>13 DEF Sync
  <2> QED
    BY <1>1, <2>1, <2>2, <2>3, TypeFrame DEF Calls
<1>14. CASE Link(t)
  <2>1. seen' = [n \in Name |-> seen'[n]] /\ \A n \in Name : seen'[n] \in {seen[n], t}
    BY <1>1, <1>14 DEF Link
  <2>2. outcome' \in [Threads -> Outcomes] /\ pc' = [pc EXCEPT ![t] = "unlink"]
    BY <1>1, <1>2, <1>14 DEF Link, Outcomes
  <2> QED
    BY <1>1, <1>14, <2>1, <2>2, TypeFrame DEF Link, Calls
<1>15. CASE Unlink(t)
  BY <1>1, <1>15, TypeFrame DEF Unlink, Calls
<1>16. CASE SyncDirectory(t)
  <2>1. kept' = [n \in Name |-> kept'[n]] /\ \A n \in Name : kept'[n] \in {kept[n], seen[n]}
    BY <1>16 DEF SyncDirectory, KeptIn
  <2>2. PICK to \in {"unlock", "done"} : pc' = [pc EXCEPT ![t] = to]
    BY <1>16 DEF SyncDirectory
  <2>3. outcome' \in [Threads -> Outcomes]
    BY <1>2, <1>16 DEF SyncDirectory, Outcomes
  <2> QED
    BY <1>1, <1>16, <2>1, <2>2, <2>3, TypeFrame DEF SyncDirectory, Calls
<1>17. CASE CutShort(t)
  <2>1. PICK to \in {"unlock", "done"} : pc' = [pc EXCEPT ![t] = to]
    BY <1>17 DEF CutShort
  <2>2. outcome' \in [Threads -> Outcomes]
    BY <1>2, <1>17 DEF CutShort, Outcomes
  <2> QED
    BY <1>1, <1>17, <2>1, <2>2, TypeFrame DEF CutShort, Calls
<1>18. CASE TakeDocument(t)
  <2>1. PICK to \in {"temp", "done"} : pc' = [pc EXCEPT ![t] = to]
    BY <1>18 DEF TakeDocument
  <2>2. outcome' \in [Threads -> Outcomes]
    BY <1>1, <1>2, <1>18 DEF TakeDocument, Outcomes
  <2>3. lock' \in [{"document", "audit"} -> Threads \cup {NoFile}]
    BY <1>1, <1>4, <1>18 DEF TakeDocument
  <2>4. UNCHANGED <<job, power, inode, seen, kept, temp, folder, written, scan>>
    BY <1>18 DEF TakeDocument
  <2> QED
    BY <1>1, <2>1, <2>2, <2>3, <2>4, TypeFrame DEF Calls
<1>19. CASE Rename(t)
  <2>1. seen' = [n \in Name |-> seen'[n]] /\ \A n \in Name : seen'[n] \in {seen[n], t}
    BY <1>1, <1>19 DEF Rename
  <2>2. PICK to \in {"unlock", "sync"} : pc' = [pc EXCEPT ![t] = to]
    BY <1>19 DEF Rename
  <2>3. outcome' \in [Threads -> Outcomes] /\ written' \in Nat
    BY <1>1, <1>2, <1>19 DEF Rename, Outcomes
  <2> QED
    BY <1>1, <1>19, <2>1, <2>2, <2>3, TypeFrame DEF Rename, Calls
<1>20. CASE Unlock(t, "document") \/ Unlock(t, "audit")
  <2>1. lock' \in [{"document", "audit"} -> Threads \cup {NoFile}]
    BY <1>1, <1>4, <1>20 DEF Unlock
  <2>2. PICK to \in {"close", "done"} : pc' = [pc EXCEPT ![t] = to]
    BY <1>20 DEF Unlock
  <2>3. UNCHANGED <<job, power, inode, seen, kept, temp, folder, outcome, written, scan>>
    BY <1>20 DEF Unlock
  <2> QED
    BY <1>1, <2>1, <2>2, <2>3, TypeFrame DEF Calls
<1>21. CASE Open(t)
  <2>1. seen' = [n \in Name |-> seen'[n]] /\ \A n \in Name : seen'[n] \in {seen[n], LogFile}
    BY <1>1, <1>21 DEF Open
  <2> QED
    BY <1>1, <1>21, <2>1, TypeFrame DEF Open, Calls
<1>22. CASE TakeLog(t)
  <2>1. lock' \in [{"document", "audit"} -> Threads \cup {NoFile}]
    BY <1>1, <1>4, <1>22 DEF TakeLog
  <2> QED
    BY <1>1, <1>22, <2>1, TypeFrame DEF TakeLog, Calls
<1>23. CASE ReadLog(t)
  <2>1. PICK to \in {"append", "unlock"} : pc' = [pc EXCEPT ![t] = to]
    BY <1>23 DEF ReadLog
  <2>2. outcome' \in [Threads -> Outcomes]
    BY <1>1, <1>2, <1>23 DEF ReadLog, Outcomes
  <2>3. Len(Log) \in Nat
    BY <1>6 DEF File, Log
  <2>4. scan' \in [Threads -> SUBSET Nat]
    BY <1>1, <1>3, <1>23, <2>3 DEF ReadLog
  <2> QED
    BY <1>1, <1>23, <2>1, <2>2, <2>4, TypeFrame DEF ReadLog, Calls
<1>24. CASE AppendLine(t) \/ Close(t)
  <2>1. ASSUME NEW ends \in BOOLEAN, Landed(t, ends)
        PROVE  inode' \in [Threads \cup {LogFile} -> File]
    <3>1. PICK length \in scan[t] :
            inode' = [inode EXCEPT ![LogFile] =
                        [lines |-> Append(Complete(Log), Piece(t, ends, length + 1)),
                         flushed |-> AtMost(inode[LogFile].flushed, Len(Complete(Log)))]]
      BY <2>1 DEF Landed
    <3>2. length + 1 \in Nat
      BY <1>1
    <3>3. Piece(t, ends, length + 1) \in LineOf
      BY <3>2, LineType DEF Piece
    <3>4. Log \in Seq(LineOf)
      BY <1>6 DEF Log, File
    <3>5. Len(Complete(Log)) \in Nat
      BY <3>4, CompleteLines
    <3>6. [lines |-> Append(Complete(Log), Piece(t, ends, length + 1)),
           flushed |-> AtMost(inode[LogFile].flushed, Len(Complete(Log)))] \in File
      BY <1>6, <3>3, <3>5, FileTypes DEF Log
    <3> QED
      BY <1>5, <3>1, <3>6
  <2>2. inode' \in [Threads \cup {LogFile} -> File]
    BY <1>1, <1>24, <2>1 DEF AppendLine, Close
  <2>3. PICK to \in {"flush", "unlock", "done"} : pc' = [pc EXCEPT ![t] = to]
    BY <1>24 DEF AppendLine, Close
  <2>4. outcome' \in [Threads -> Outcomes]
    BY <1>1, <1>2, <1>24 DEF AppendLine, Close, Outcomes
  <2>5. UNCHANGED <<job, power, seen, kept, temp, folder, lock, written, scan>>
    BY <1>24 DEF AppendLine, Close
  <2> QED
    BY <1>1, <2>2, <2>3, <2>4, <2>5, TypeFrame DEF Calls
<1>25. CASE Flush(t)
  <2>1. inode' \in [Threads \cup {LogFile} -> File]
    BY <1>1, <1>5, <1>6, <1>25, FileTypes DEF Flush
  <2>2. outcome' \in [Threads -> Outcomes]
    BY <1>2, <1>25 DEF Flush, Outcomes
  <2> QED
    BY <1>1, <1>25, <2>1, <2>2, TypeFrame DEF Flush, Calls
<1>26. CASE Fail(t)
  <2>1. PICK to \in {"cut_short", "unlock", "done"} : pc' = [pc EXCEPT ![t] = to]
    BY <1>26 DEF Fail
  <2>2. outcome' \in [Threads -> Outcomes]
    BY <1>1, <1>2, <1>26 DEF Fail, Outcomes
  <2> QED
    BY <1>1, <1>26, <2>1, <2>2, TypeFrame DEF Fail, Calls
<1> QED
  BY <1>7, <1>8, <1>9, <1>10, <1>11, <1>12, <1>13, <1>14, <1>15, <1>16, <1>17, <1>18, <1>19, <1>20,
     <1>21, <1>22, <1>23, <1>24, <1>25, <1>26 DEF Work, Linking, Replacing, Appending

-----------------------------------------------------------------------------
(* Steps keep threads at the calls of their jobs.                          *)

LEMMA Calling ==
  ASSUME job \in Workloads, NEW t \in Threads
  PROVE  /\ job[t].kind = "list" => CallsOf[job[t].kind] = {"list", "listed", "done"}
         /\ job[t].kind = "publish" => CallsOf[job[t].kind] =
              {"list", "listed", "mkdir", "sync_parent", "temp", "write", "fsync",
               "link", "unlink", "sync", "cut_short", "done"}
         /\ job[t].kind = "create" => CallsOf[job[t].kind] =
              {"temp", "write", "fsync", "link", "unlink", "sync", "cut_short", "done"}
         /\ job[t].kind = "replace" => CallsOf[job[t].kind] =
              {"lock", "temp", "write", "fsync", "rename", "sync", "cut_short", "unlock", "done"}
         /\ job[t].kind = "append" => CallsOf[job[t].kind] =
              {"open", "lock_log", "read", "append", "flush", "unlock", "close", "done"}
BY DEF CallsOf

\* A step to a call of the same job, under the same locks.
LEMMA PlacedAt ==
  ASSUME TypeInv, NEW t \in Threads, Placed(t), job' = job,
         pc'[t] \in CallsOf[job[t].kind],
         \A l \in {"document", "audit"} : lock'[l] = t <=> Holds(t, l)',
         pc'[t] \notin {"unlink", "unlock", "close", "done"} => outcome'[t] = "none",
         pc'[t] = "unlink" =>
           outcome'[t] \in {"none", "exists"} \/ (outcome'[t] = "ok" /\ job[t].kind = "publish"),
         outcome'[t] \in Buffered => job[t].kind = "append",
         pc'[t] = "close" => outcome'[t] \in Buffered
  PROVE  Placed(t)'
BY DEF Placed

\* Only a thread that appends leaves a line in the buffer, and it closes the file.
LEMMA StepBuffered ==
  ASSUME Inv, NEW t \in Threads, Work(t) \/ Fail(t)
  PROVE  /\ outcome'[t] \in Buffered => job[t].kind = "append"
         /\ pc'[t] = "close" => outcome'[t] \in Buffered
<1>1. TypeInv /\ Placed(t)
  BY Known
<1>2. /\ pc \in [Threads -> Calls] /\ outcome \in [Threads -> Outcomes]
      /\ pc[t] = "append" => job[t].kind = "append"
  BY <1>1, PlacedKind DEF TypeInv
<1>3. outcome[t] \in Buffered => job[t].kind = "append"
  BY <1>1 DEF Placed
<1>4. SUFFICES /\ pc'[t] = "close" => outcome'[t] \in Buffered
               /\ outcome'[t] = outcome[t] \/ outcome'[t] \notin Buffered \/ pc[t] = "append"
  BY <1>2, <1>3
<1> USE <1>2 DEF Step, Return, At, Files, Buffered
<1>5. CASE List(t)
  BY <1>5 DEF List
<1>6. CASE Listed(t)
  BY <1>6 DEF Listed
<1>7. CASE MakeDirectory(t) \/ SyncParent(t) \/ CreateTemp(t)
  BY <1>7 DEF MakeDirectory, SyncParent, CreateTemp
<1>8. CASE Write(t) \/ Sync(t)
  BY <1>8 DEF Write, Sync
<1>9. CASE Link(t)
  BY <1>9 DEF Link
<1>10. CASE Unlink(t)
  BY <1>10 DEF Unlink
<1>11. CASE SyncDirectory(t)
  BY <1>11 DEF SyncDirectory
<1>12. CASE CutShort(t)
  BY <1>12 DEF CutShort
<1>13. CASE TakeDocument(t)
  BY <1>13 DEF TakeDocument
<1>14. CASE Rename(t)
  BY <1>14 DEF Rename
<1>15. CASE Unlock(t, "document") \/ Unlock(t, "audit")
  <2>1. outcome' = outcome /\ pc'[t] = (IF outcome[t] \in Buffered THEN "close" ELSE "done")
    BY <1>15 DEF Unlock
  <2> QED
    BY <2>1
<1>16. CASE Open(t) \/ TakeLog(t)
  BY <1>16 DEF Open, TakeLog
<1>17. CASE ReadLog(t)
  BY <1>17 DEF ReadLog
<1>18. CASE AppendLine(t)
  <2>1. pc[t] = "append" /\ pc'[t] \in {"flush", "unlock"}
    BY <1>18 DEF AppendLine
  <2> QED
    BY <2>1
<1>19. CASE Flush(t) \/ Close(t)
  BY <1>19 DEF Flush, Close
<1>20. CASE Fail(t)
  <2>1. pc'[t] \in {"cut_short", "unlock", "done"} /\ outcome'[t] \in {outcome[t], "unavailable"}
    BY <1>20 DEF Fail
  <2> QED
    BY <2>1
<1> QED
  BY <1>5, <1>6, <1>7, <1>8, <1>9, <1>10, <1>11, <1>12, <1>13, <1>14, <1>15, <1>16, <1>17, <1>18,
     <1>19, <1>20 DEF Work, Linking, Replacing, Appending

LEMMA StepPlaced ==
  ASSUME Inv, NEW t \in Threads, Work(t) \/ Fail(t), NEW u \in Threads
  PROVE  Placed(u)'
<1>1. Moves(t) /\ TypeInv /\ Placed(t) /\ Placed(u) /\ power = "on"
  BY Known, StepMoves DEF Moves
<1>2. t # NoFile /\ u # NoFile
  BY NamesDiffer
<1>3. CASE u # t
  <2>1. \A l \in {"document", "audit"} : lock'[l] = u <=> lock[l] = u
    BY <1>1, <1>2, <1>3 DEF Moves
  <2>2. pc'[u] = pc[u] /\ outcome'[u] = outcome[u] /\ job' = job
    BY <1>1, <1>3 DEF Moves
  <2>3. \A l \in {"document", "audit"} : Holds(u, l)' <=> Holds(u, l)
    BY <2>2 DEF Holds
  <2> QED
    BY <1>1, <2>1, <2>2, <2>3 DEF Placed
<1>4. Placed(t)'
  <2>1. /\ pc \in [Threads -> Calls] /\ outcome \in [Threads -> Outcomes] /\ job \in Workloads
        /\ job' = job /\ lock \in [{"document", "audit"} -> Threads \cup {NoFile}]
    BY <1>1 DEF TypeInv, Moves
  <2>2. /\ job[t].kind = "list" => pc[t] \in {"list", "listed", "done"}
        /\ job[t].kind = "publish" =>
             pc[t] \in {"list", "listed", "mkdir", "sync_parent", "temp", "write", "fsync",
                        "link", "unlink", "sync", "cut_short", "done"}
        /\ job[t].kind = "create" =>
             pc[t] \in {"temp", "write", "fsync", "link", "unlink", "sync", "cut_short", "done"}
        /\ job[t].kind = "replace" =>
             pc[t] \in {"lock", "temp", "write", "fsync", "rename", "sync", "cut_short",
                        "unlock", "done"}
        /\ job[t].kind = "append" =>
             pc[t] \in {"open", "lock_log", "read", "append", "flush", "unlock", "close", "done"}
    BY <1>1, CallsOfKind DEF Placed, TypeInv
  <2>3. /\ lock["document"] = t <=> job[t].kind = "replace" /\ pc[t] \notin {"lock", "done"}
        /\ lock["audit"] = t <=> job[t].kind = "append" /\ pc[t] \in {"read", "append", "flush", "unlock"}
    BY <1>1 DEF Placed, Holds
  <2>4. /\ pc[t] \notin {"unlink", "unlock", "close", "done"} => outcome[t] = "none"
        /\ pc[t] = "unlink" =>
             outcome[t] \in {"none", "exists"} \/ (outcome[t] = "ok" /\ job[t].kind = "publish")
        /\ outcome[t] \in Buffered => job[t].kind = "append"
    BY <1>1 DEF Placed
  <2>5. job[t].kind \in {"list", "publish", "create", "replace", "append"}
    BY <2>1, JobOf
  <2>6. SUFFICES
          /\ job[t].kind = "list" => pc'[t] \in {"list", "listed", "done"}
          /\ job[t].kind = "publish" =>
               pc'[t] \in {"list", "listed", "mkdir", "sync_parent", "temp", "write", "fsync",
                          "link", "unlink", "sync", "cut_short", "done"}
          /\ job[t].kind = "create" =>
               pc'[t] \in {"temp", "write", "fsync", "link", "unlink", "sync", "cut_short", "done"}
          /\ job[t].kind = "replace" =>
               pc'[t] \in {"lock", "temp", "write", "fsync", "rename", "sync", "cut_short",
                          "unlock", "done"}
          /\ job[t].kind = "append" =>
               pc'[t] \in {"open", "lock_log", "read", "append", "flush", "unlock", "close",
                          "done"}
          /\ lock'["document"] = t <=> job[t].kind = "replace" /\ pc'[t] \notin {"lock", "done"}
          /\ lock'["audit"] = t <=> job[t].kind = "append" /\ pc'[t] \in {"read", "append", "flush", "unlock"}
          /\ pc'[t] \notin {"unlink", "unlock", "close", "done"} => outcome'[t] = "none"
          /\ pc'[t] = "unlink" =>
               outcome'[t] \in {"none", "exists"} \/ (outcome'[t] = "ok" /\ job[t].kind = "publish")
    <3>1. pc'[t] \in CallsOf[job[t].kind]
      BY <2>1, <2>5, <2>6, Calling
    <3> QED
      BY <2>1, <2>6, <3>1, <1>1, PlacedAt, StepBuffered DEF Holds
  <2> USE <1>2, <2>1, <2>2, <2>3, <2>4, <2>5 DEF Step, Return, At, Files
  <2>7. CASE List(t)
    BY <2>7 DEF List
  <2>8. CASE Listed(t)
    <3>1. lock' = lock /\ pc[t] = "listed" /\ (pc'[t] = "done" \/ (pc'[t] = "mkdir" /\ outcome'[t] = outcome[t]))
      BY <2>8 DEF Listed
    <3>2. pc'[t] = "mkdir" => job[t].kind # "list"
      BY <2>8 DEF Listed
    <3> QED
      BY <3>1, <3>2
  <2>9. CASE MakeDirectory(t) \/ SyncParent(t) \/ CreateTemp(t)
    <3>1. /\ lock' = lock /\ outcome' = outcome
          /\ \/ pc[t] = "mkdir" /\ pc'[t] \in {"sync_parent", "temp"}
             \/ pc[t] = "sync_parent" /\ pc'[t] = "temp"
             \/ pc[t] = "temp" /\ pc'[t] = "write"
      BY <2>9 DEF MakeDirectory, SyncParent, CreateTemp
    <3> QED
      BY <3>1
  <2>10. CASE Write(t)
    BY <2>10 DEF Write
  <2>11. CASE Sync(t)
    BY <2>11 DEF Sync
  <2>12. CASE Link(t)
    <3>1. /\ lock' = lock /\ pc[t] = "link" /\ pc'[t] = "unlink"
          /\ outcome'[t] \in {outcome[t], "exists"} \/ (outcome'[t] = "ok" /\ job[t].kind = "publish")
      BY <2>12 DEF Link
    <3> QED
      BY <3>1
  <2>13. CASE Unlink(t)
    BY <2>13 DEF Unlink
  <2>14. CASE SyncDirectory(t)
    BY <2>14 DEF SyncDirectory
  <2>15. CASE CutShort(t)
    BY <2>15 DEF CutShort
  <2>16. CASE TakeDocument(t)
    <3>1. pc[t] = "lock" /\ lock["document"] # t /\ lock["audit"] # t /\ job[t].kind = "replace"
      BY <2>16 DEF TakeDocument
    <3>2. CASE Overtaken(t)
      BY <2>16, <3>1, <3>2 DEF TakeDocument
    <3>3. CASE ~Overtaken(t)
      <4>1. lock'["document"] = t /\ lock'["audit"] = lock["audit"] /\ pc'[t] = "temp" /\ outcome' = outcome
        BY <2>16, <3>3 DEF TakeDocument
      <4> QED
        BY <3>1, <4>1
    <3> QED
      BY <3>2, <3>3
  <2>17. CASE Rename(t)
    BY <2>17 DEF Rename
  <2>18. CASE Unlock(t, "document")
    <3>1. /\ pc[t] = "unlock" /\ job[t].kind = "replace" /\ pc'[t] = "done" /\ outcome' = outcome
          /\ lock'["document"] = NoFile /\ lock'["audit"] = lock["audit"]
      BY <2>18 DEF Unlock
    <3> QED
      BY <3>1
  <2>19. CASE Unlock(t, "audit")
    <3>1. /\ pc[t] = "unlock" /\ job[t].kind = "append" /\ outcome' = outcome
          /\ lock'["audit"] = NoFile /\ lock'["document"] = lock["document"]
          /\ pc'[t] = (IF outcome[t] \in Buffered THEN "close" ELSE "done")
      BY <2>19 DEF Unlock
    <3> QED
      BY <3>1
  <2>20. CASE Open(t) \/ TakeLog(t)
    <3>1. CASE Open(t)
      BY <3>1 DEF Open
    <3>2. CASE TakeLog(t)
      <4>1. /\ pc[t] = "lock_log" /\ pc'[t] = "read" /\ outcome' = outcome
            /\ lock'["audit"] = t /\ lock'["document"] = lock["document"]
        BY <3>2 DEF TakeLog
      <4> QED
        BY <4>1
    <3> QED
      BY <2>20, <3>1, <3>2
  <2>21. CASE ReadLog(t)
    <3>1. /\ lock' = lock /\ pc[t] = "read"
          /\ pc'[t] = "unlock" \/ (pc'[t] = "append" /\ outcome' = outcome)
      BY <2>21 DEF ReadLog
    <3> QED
      BY <3>1
  <2>22. CASE AppendLine(t) \/ Flush(t) \/ Close(t)
    <3>1. /\ lock' = lock
          /\ \/ pc[t] = "append" /\ pc'[t] = "flush" /\ outcome' = outcome
             \/ pc[t] \in {"append", "flush"} /\ pc'[t] = "unlock"
             \/ pc[t] = "close" /\ pc'[t] = "done" /\ outcome' = outcome
      BY <2>22 DEF AppendLine, Flush, Close
    <3> QED
      BY <3>1
  <2>23. CASE Fail(t)
    <3>1. /\ lock' = lock
          /\ \/ pc[t] \in {"fsync", "rename", "link"} /\ pc'[t] = "cut_short" /\ outcome' = outcome
             \/ pc[t] \in {"flush", "sync", "temp"} /\ job[t].kind \in {"append", "replace"}
                /\ pc'[t] = "unlock"
             \/ /\ \/ pc[t] \in {"list", "mkdir", "sync_parent", "open", "unlink"}
                   \/ pc[t] \in {"temp", "sync"} /\ job[t].kind \in Publish
                /\ pc'[t] = "done"
      <4>1. CASE pc[t] \in {"fsync", "rename"} \/ (pc[t] = "link" /\ seen[job[t].name] = NoFile)
        BY <2>23, <4>1 DEF Fail
      <4>2. CASE pc[t] \in {"flush", "sync"} /\ job[t].kind \in {"append", "replace"}
        BY <2>23, <4>2 DEF Fail
      <4>3. CASE pc[t] = "temp" /\ job[t].kind = "replace"
        BY <2>23, <4>3 DEF Fail
      <4>4. CASE pc[t] \in {"list", "mkdir", "sync_parent", "open", "unlink"}
                 \/ (pc[t] \in {"temp", "sync"} /\ job[t].kind \in Publish)
        BY <2>23, <4>4 DEF Fail, Publish
      <4> QED
        BY <2>23, <4>1, <4>2, <4>3, <4>4 DEF Fail
    <3>2. CASE pc[t] \in {"fsync", "rename", "link"} /\ pc'[t] = "cut_short" /\ outcome' = outcome
      BY <3>1, <3>2
    <3>3. CASE pc[t] \in {"flush", "sync", "temp"} /\ job[t].kind \in {"append", "replace"} /\ pc'[t] = "unlock"
      BY <3>1, <3>3
    <3>4. CASE pc[t] \in {"list", "mkdir", "sync_parent", "open", "unlink"} /\ pc'[t] = "done"
      BY <3>1, <3>4
    <3>5. CASE pc[t] \in {"temp", "sync"} /\ job[t].kind \in Publish /\ pc'[t] = "done"
      BY <3>1, <3>5 DEF Publish
    <3> QED
      BY <3>1, <3>2, <3>3, <3>4, <3>5
  <2> QED
    BY <2>7, <2>8, <2>9, <2>10, <2>11, <2>12, <2>13, <2>14, <2>15, <2>16, <2>17, <2>18, <2>19,
       <2>20, <2>21, <2>22, <2>23 DEF Work, Linking, Replacing, Appending
<1> QED
  BY <1>3, <1>4

-----------------------------------------------------------------------------
(* Steps keep names on whole files.                                        *)

\* What NamesWhole says after a step, of a file that was named before it.
StaysWhole(n, f) ==
  f # NoFile =>
    /\ f \in Threads /\ job[f].kind \in Publish \cup {"replace"} /\ job[f].name = n
    /\ inode'[f] = [lines |-> <<Line(f, 1)>>, flushed |-> 1] /\ pc'[f] \in Past

LEMMA WholeStays ==
  ASSUME NEW t \in Threads, Moves(t), NEW n \in Name, NEW f, NamesWhole(n, f)
  PROVE  StaysWhole(n, f)
<1>1. SUFFICES ASSUME f # NoFile PROVE StaysWhole(n, f)
  BY DEF StaysWhole
<1>2. f \in Threads /\ pc[f] \in Past
  BY <1>1 DEF NamesWhole
<1>3. pc'[f] \in Past /\ inode'[f] = inode[f]
  BY <1>2 DEF Moves, Past
<1> QED
  BY <1>1, <1>2, <1>3 DEF NamesWhole, Whole, StaysWhole

LEMMA StepFiles ==
  ASSUME Inv, NEW t \in Threads, Moves(t)
  PROVE  FilesInv' /\ KeptIsSeen'
<1>1. FilesInv /\ KeptIsSeen /\ Written(t) /\ TypeInv
  BY Known DEF Moves, Promised
<1>2. Name' = Name /\ job' = job
  BY DEF Name, Moves
<1>3. ASSUME NEW n \in Name \ {Decisions}
      PROVE  NamesWhole(n, seen[n])' /\ NamesWhole(n, kept[n])'
  <2>1. NamesWhole(n, seen[n]) /\ NamesWhole(n, kept[n])
    BY <1>1 DEF FilesInv
  <2>2. kept'[n] = kept[n] \/ kept'[n] = seen[n]
    BY DEF Moves
  <2>3. StaysWhole(n, seen[n]) /\ StaysWhole(n, kept[n])
    BY <2>1, WholeStays
  <2>4. CASE seen'[n] = seen[n]
    BY <1>2, <2>2, <2>3, <2>4 DEF NamesWhole, Whole, StaysWhole, Line
  <2>5. CASE Named(t, n)
    <3>1. /\ seen'[n] = t /\ job[t].name = n /\ job[t].kind \in Publish \cup {"replace"}
          /\ pc[t] \in {"link", "rename"} /\ pc'[t] \in Past
      BY <2>5 DEF Named
    <3>2. Whole(t) /\ inode'[t] = inode[t]
      BY <1>1, <3>1 DEF Written, Moves
    <3>3. StaysWhole(n, t)
      BY <3>1, <3>2 DEF StaysWhole, Whole
    <3> QED
      BY <1>2, <2>2, <2>3, <3>1, <3>3 DEF NamesWhole, Whole, StaysWhole, Line
  <2> QED
    BY <2>4, <2>5 DEF Moves
<1>4. seen'[Decisions] \in {LogFile, NoFile} /\ kept'[Decisions] \in {LogFile, NoFile}
  <2>1. seen'[Decisions] = seen[Decisions] \/ seen'[Decisions] = LogFile
    BY NamesDiffer DEF Moves, Named
  <2>2. kept'[Decisions] = kept[Decisions] \/ kept'[Decisions] = seen[Decisions]
    BY NamesDiffer DEF Moves
  <2> QED
    BY <1>1, <2>1, <2>2 DEF FilesInv
<1>5. ASSUME NEW n \in Name, kept'[n] # NoFile
      PROVE  seen'[n] # NoFile
  <2>1. seen[n] # NoFile
    BY <1>1, <1>5 DEF KeptIsSeen, Moves
  <2> QED
    BY <2>1, NamesDiffer DEF Moves, Named
<1> QED
  BY <1>2, <1>3, <1>4, <1>5 DEF FilesInv, KeptIsSeen

\* A version or a recording that a step finds named keeps its file; so does a
\* document, unless the step is the turn of the thread that holds its lock.
LEMMA NamesStay ==
  ASSUME Inv, NEW t \in Threads, Moves(t), NEW n \in Name, seen[n] # NoFile
  PROVE  /\ seen'[n] # NoFile
         /\ n \in Versions \cup {Recording} => seen'[n] = seen[n]
         /\ n = Document =>
              \/ seen'[n] = seen[n]
              \/ seen'[n] = t /\ pc[t] = "rename" /\ lock["document"] = t /\ job[t].kind = "replace"
<1>1. n \in Versions \cup {Recording} => n # Document /\ n # Decisions
  BY NamesDiffer
<1>2. t # NoFile /\ LogFile # NoFile /\ Document # Decisions
  BY NamesDiffer
<1>3. seen'[n] = seen[n] \/ Named(t, n)
  BY DEF Moves
<1>4. TypeInv /\ Placed(t)
  BY Known
<1>5. job[t].kind = "replace" /\ pc[t] \in {"link", "rename"} => pc[t] = "rename" /\ lock["document"] = t
  BY <1>4, PlacedKind DEF Placed, Holds
<1> QED
  BY <1>1, <1>2, <1>3, <1>5 DEF Named

-----------------------------------------------------------------------------
(* Steps keep the audit log a chain.                                       *)

LEMMA LogType ==
  ASSUME TypeInv
  PROVE  /\ Log \in Seq(LineOf) /\ Len(Log) \in Nat /\ DOMAIN Log = 1..Len(Log)
         /\ inode[LogFile].flushed \in Nat /\ \A t \in Threads : Mine(t) \subseteq 1..Len(Log)
         /\ \A i \in 1..Len(Log) : Log[i].by \in Threads \cup {NoFile} /\ Log[i].seq \in Nat
<1>1. inode[LogFile] \in File
  BY DEF TypeInv
<1>2. Log \in Seq(LineOf) /\ inode[LogFile].flushed \in Nat
  BY <1>1 DEF File, Log
<1>3. Len(Log) \in Nat /\ DOMAIN Log = 1..Len(Log) /\ \A i \in 1..Len(Log) : Log[i] \in LineOf
  BY <1>2
<1>4. \A line \in LineOf : line.by \in Threads \cup {NoFile} /\ line.seq \in Nat
  BY DEF LineOf
<1> QED
  BY <1>2, <1>3, <1>4 DEF Mine

\* The log after a line was written at its end: what is complete stays, and only
\* a line that was torn gives way.
LEMMA AppendedLog ==
  ASSUME TypeInv, NEW line \in LineOf, Log' = Append(Complete(Log), line)
  PROVE  /\ Len(Complete(Log)) \in Nat /\ Len(Complete(Log)) <= Len(Log)
         /\ Log' \in Seq(LineOf) /\ Len(Log') = Len(Complete(Log)) + 1
         /\ DOMAIN Log' = 1..(Len(Complete(Log)) + 1)
         /\ Log'[Len(Complete(Log)) + 1] = line
         /\ \A i \in 1..Len(Complete(Log)) : i \in 1..Len(Log) /\ Log'[i] = Log[i]
         /\ \A i \in 1..Len(Log) : Log[i].seq # 0 \/ Log[i] = Garbled => i \in 1..Len(Complete(Log))
<1>1. Log \in Seq(LineOf) /\ Len(Log) \in Nat /\ DOMAIN Log = 1..Len(Log)
  BY LogType
<1>2. /\ Complete(Log) \in Seq(LineOf) /\ Len(Complete(Log)) \in Nat
      /\ Len(Complete(Log)) <= Len(Log)
      /\ \A i \in 1..Len(Complete(Log)) : Complete(Log)[i] = Log[i]
      /\ \A i \in 1..Len(Log) :
           i \in 1..Len(Complete(Log)) \/ (Log[i].seq = 0 /\ Log[i].data = "torn")
  BY <1>1, CompleteLines
<1>3. Garbled.data # "torn"
  BY DEF Garbled, Torn
<1>4. /\ Log' \in Seq(LineOf) /\ Len(Log') = Len(Complete(Log)) + 1
      /\ DOMAIN Log' = 1..(Len(Complete(Log)) + 1)
      /\ Log'[Len(Complete(Log)) + 1] = line
      /\ \A i \in 1..Len(Complete(Log)) : Log'[i] = Complete(Log)[i]
  BY <1>2
<1> QED
  BY <1>1, <1>2, <1>3, <1>4

\* Whose lines those are.
LEMMA AppendedMine ==
  ASSUME TypeInv, NEW line \in LineOf, Log' = Append(Complete(Log), line), NEW u \in Threads
  PROVE  /\ Mine(u)' \subseteq Mine(u) \cup {Len(Complete(Log)) + 1}
         /\ line.by # u => Mine(u)' \subseteq Mine(u)
         /\ line.by = u => Len(Complete(Log)) + 1 \in Mine(u)'
         /\ (\A i \in Mine(u) : Log[i].seq # 0) => Mine(u) \subseteq Mine(u)'
         /\ \A i \in Mine(u)' : i = Len(Complete(Log)) + 1 \/ (i \in Mine(u) /\ Log'[i] = Log[i])
<1>1. Log \in Seq(LineOf) /\ Len(Log) \in Nat /\ DOMAIN Log = 1..Len(Log)
  BY LogType
<1>2. /\ Len(Complete(Log)) \in Nat
      /\ DOMAIN Log' = 1..(Len(Complete(Log)) + 1) /\ Log'[Len(Complete(Log)) + 1] = line
      /\ \A i \in 1..Len(Complete(Log)) : i \in 1..Len(Log) /\ Log'[i] = Log[i]
      /\ \A i \in 1..Len(Log) : Log[i].seq # 0 => i \in 1..Len(Complete(Log))
  BY AppendedLog
<1>3. \A i : i \in 1..(Len(Complete(Log)) + 1) <=>
               i \in 1..Len(Complete(Log)) \/ i = Len(Complete(Log)) + 1
  BY <1>2
<1>4. Mine(u)' = {i \in DOMAIN Log' : Log'[i].by = u} /\ Mine(u) = {i \in DOMAIN Log : Log[i].by = u}
  BY DEF Mine
<1> QED
  BY <1>1, <1>2, <1>3, <1>4

\* The steps of an append: a thread that reaches a call has made the one before.
LEMMA AppendSteps ==
  ASSUME Inv, NEW t \in Threads, Work(t) \/ Fail(t), job[t].kind = "append"
  PROVE  /\ pc'[t] # "open"
         /\ pc'[t] = "lock_log" => pc[t] = "open"
         /\ pc'[t] = "read" => pc[t] = "lock_log"
         /\ pc'[t] = "append" => pc[t] = "read" /\ Chained(Log) /\ scan'[t] = {Len(Log)}
         /\ pc'[t] = "flush" => pc[t] = "append" /\ Extended(t)
         /\ outcome'[t] = "ok" =>
              outcome[t] = "ok" \/ (pc[t] = "flush" /\ inode'[LogFile] = Flushed(inode[LogFile]))
         /\ outcome'[t] = "none" => outcome[t] = "none"
<1>1. TypeInv /\ Placed(t) /\ Moves(t) /\ Promised(t)
  BY Known, StepMoves DEF Moves
<1>2. /\ pc[t] \in {"open", "lock_log", "read", "append", "flush", "unlock", "close", "done"}
      /\ job[t].kind \notin Publish
  BY <1>1, CallsOfKind DEF Placed, TypeInv, Publish
<1>3. pc \in [Threads -> Calls] /\ scan \in [Threads -> SUBSET Nat] /\ outcome \in [Threads -> Outcomes]
  BY <1>1 DEF TypeInv
<1> USE <1>2, <1>3 DEF Step, Return, At, Files
<1>4. ~(List(t) \/ Listed(t) \/ Linking(t) \/ TakeDocument(t) \/ Rename(t))
  BY DEF List, Listed, Linking, MakeDirectory, SyncParent, CreateTemp, Write, Sync, Link, Unlink,
         SyncDirectory, CutShort, TakeDocument, Rename
<1>5. CASE Open(t) \/ TakeLog(t)
  BY <1>5 DEF Open, TakeLog
<1>6. CASE ReadLog(t)
  BY <1>6 DEF ReadLog
<1>7. CASE AppendLine(t)
  <2>1. pc[t] = "append" /\ power = "on" /\ (pc'[t] = "unlock" \/ (pc'[t] = "flush" /\ Landed(t, TRUE)))
        /\ outcome'[t] \in {outcome[t], "unwritten", "cut"}
    BY <1>7 DEF AppendLine
  <2>2. ASSUME pc'[t] = "flush" PROVE Extended(t)
    <3>1. PICK length \in scan[t] :
            inode' = [inode EXCEPT ![LogFile] =
                        [lines |-> Append(Complete(Log), Piece(t, TRUE, length + 1)),
                         flushed |-> AtMost(inode[LogFile].flushed, Len(Complete(Log)))]]
      BY <2>1, <2>2 DEF Landed
    <3>2. inode \in [Threads \cup {LogFile} -> File]
      BY <1>1 DEF TypeInv
    <3>3. /\ inode'[LogFile].lines = Append(Complete(Log), Piece(t, TRUE, length + 1))
          /\ inode'[LogFile].flushed = AtMost(inode[LogFile].flushed, Len(Complete(Log)))
      BY <3>1, <3>2
    <3>4. outcome' = outcome
      BY <1>7, <2>2 DEF AppendLine
    <3> QED
      BY <2>1, <2>2, <3>3, <3>4 DEF Extended, Log
  <2> QED
    BY <2>1, <2>2
<1>8. CASE Flush(t)
  BY <1>1, <1>8 DEF Flush, TypeInv
<1>9. CASE Unlock(t, "document") \/ Unlock(t, "audit")
  <2>1. pc'[t] \in {"close", "done"} /\ outcome' = outcome
    BY <1>9 DEF Unlock
  <2> QED
    BY <2>1
<1>10. CASE Close(t)
  BY <1>10 DEF Close
<1>11. CASE Fail(t)
  BY <1>11 DEF Fail, Outcomes
<1> QED
  BY <1>4, <1>5, <1>6, <1>7, <1>8, <1>9, <1>10, <1>11 DEF Work, Replacing, Appending

\* What may be written at the end of the log: an entry, or what has no place.
LEMMA PieceType ==
  ASSUME NEW t \in Threads, NEW ends \in BOOLEAN, NEW seq \in Nat
  PROVE  /\ Piece(t, ends, seq) \in LineOf /\ Piece(t, ends, seq).by \in {t, NoFile}
         /\ ends => \/ Piece(t, ends, seq) = Line(t, seq)
                    \/ Piece(t, ends, seq) = Garbled /\ ~Continues(t)
         /\ ~ends => Piece(t, ends, seq).seq = 0 /\ Piece(t, ends, seq).data = "torn"
BY LineType DEF Piece

LEMMA ExtendedLine ==
  ASSUME Inv, NEW t \in Threads, Extended(t)
  PROVE  \E line \in LineOf, length \in Nat :
           /\ length \in scan[t] /\ line.by \in {t, NoFile}
           /\ Log' = Append(Complete(Log), line)
           /\ inode'[LogFile].flushed = AtMost(inode[LogFile].flushed, Len(Complete(Log)))
           /\ outcome[t] # "ok" /\ outcome'[t] # "ok"
           /\ \/ /\ pc[t] = "append" /\ pc'[t] = "flush"
                 /\ line = Line(t, length + 1) \/ (line = Garbled /\ Ragged(Log))
              \/ /\ pc[t] = "append" /\ pc'[t] = "unlock" /\ outcome'[t] = "cut"
                 /\ line.seq = 0 /\ line.data = "torn"
              \/ pc[t] = "close" /\ pc'[t] = "done" /\ outcome'[t] \in Buffered
<1>1. TypeInv /\ Placed(t)
  BY Known
<1>2. PICK length \in scan[t], ends \in BOOLEAN :
        /\ Log' = Append(Complete(Log), Piece(t, ends, length + 1))
        /\ inode'[LogFile].flushed = AtMost(inode[LogFile].flushed, Len(Complete(Log)))
        /\ pc[t] = "append" /\ ends => pc'[t] = "flush" /\ outcome'[t] = outcome[t]
        /\ pc[t] = "append" /\ ~ends => pc'[t] = "unlock" /\ outcome'[t] = "cut"
        /\ pc[t] = "close" => pc'[t] = "done" /\ outcome'[t] = outcome[t]
  BY DEF Extended
<1>3. length \in Nat /\ length + 1 \in Nat
  BY <1>1, <1>2 DEF TypeInv
<1>4. pc[t] \in {"append", "close"}
  BY DEF Extended
<1>5. pc[t] = "append" => outcome[t] = "none" /\ (Continues(t) <=> ~Ragged(Log))
  BY <1>1 DEF Placed, Continues
<1>6. pc[t] = "close" => outcome[t] \in Buffered /\ outcome[t] # "ok"
  BY <1>1 DEF Placed, Buffered
<1> DEFINE line == Piece(t, ends, length + 1)
<1>7. /\ line \in LineOf /\ line.by \in {t, NoFile}
      /\ ends => line = Line(t, length + 1) \/ (line = Garbled /\ ~Continues(t))
      /\ ~ends => line.seq = 0 /\ line.data = "torn"
  BY <1>3, PieceType
<1> HIDE DEF line
<1>8. /\ outcome[t] # "ok" /\ outcome'[t] # "ok"
      /\ \/ /\ pc[t] = "append" /\ pc'[t] = "flush"
            /\ line = Line(t, length + 1) \/ (line = Garbled /\ Ragged(Log))
         \/ /\ pc[t] = "append" /\ pc'[t] = "unlock" /\ outcome'[t] = "cut"
            /\ line.seq = 0 /\ line.data = "torn"
         \/ pc[t] = "close" /\ pc'[t] = "done" /\ outcome'[t] \in Buffered
  BY <1>2, <1>4, <1>5, <1>6, <1>7
<1>9. Log' = Append(Complete(Log), line)
  BY <1>2 DEF line
<1> QED
  BY <1>2, <1>3, <1>7, <1>8, <1>9

\* What is recorded: only a flush adds to it, and no line of it moves.
LEMMA RecordedStays ==
  ASSUME Inv, NEW t \in Threads, Work(t) \/ Fail(t), NEW i \in RecordedLines'
  PROVE  /\ i \in DOMAIN Log /\ Log'[i] = Log[i]
         /\ i \in RecordedLines \/ (pc[t] = "flush" /\ i \in Mine(t) /\ Log' = Log)
<1>1. TypeInv /\ Moves(t) /\ Placed(t)
  BY Known, StepMoves
<1>2. /\ Log \in Seq(LineOf) /\ Len(Log) \in Nat /\ DOMAIN Log = 1..Len(Log)
  BY <1>1, LogType
<1>3. /\ i \in DOMAIN Log' /\ Log'[i].by # NoFile
      /\ job'[Log'[i].by].kind = "append" /\ outcome'[Log'[i].by] = "ok"
  BY DEF RecordedLines, IsRecorded
<1>4. ASSUME i \in DOMAIN Log, Log'[i] = Log[i], Log'[i].by # t PROVE i \in RecordedLines
  <2>1. Log[i].by \in Threads \ {t}
    BY <1>1, <1>2, <1>3, <1>4, LogType
  <2>2. outcome'[Log[i].by] = outcome[Log[i].by] /\ job' = job
    BY <1>1, <2>1 DEF Moves
  <2> QED
    BY <1>3, <1>4, <2>2 DEF RecordedLines, IsRecorded
<1>5. CASE Log' = Log
  <2>1. CASE Log[i].by = t /\ outcome[t] # "ok"
    <3>1. outcome'[t] = "ok" /\ job[t].kind = "append"
      BY <1>1, <1>3, <1>5, <2>1 DEF Moves
    <3>2. pc[t] = "flush"
      BY <2>1, <3>1, AppendSteps
    <3> QED
      BY <1>3, <1>5, <2>1, <3>2 DEF Mine
  <2>2. CASE Log[i].by = t /\ outcome[t] = "ok"
    <3>1. job[t].kind = "append"
      BY <1>1, <1>3, <1>5, <2>2 DEF Moves
    <3> QED
      BY <1>3, <1>5, <2>2, <3>1 DEF RecordedLines, IsRecorded
  <2> QED
    BY <1>3, <1>4, <1>5, <2>1, <2>2
<1>6. CASE Extended(t)
  <2>1. PICK line \in LineOf : /\ line.by \in {t, NoFile} /\ Log' = Append(Complete(Log), line)
                               /\ outcome'[t] # "ok"
    BY <1>6, ExtendedLine
  <2>2. /\ Len(Complete(Log)) \in Nat
        /\ DOMAIN Log' = 1..(Len(Complete(Log)) + 1) /\ Log'[Len(Complete(Log)) + 1] = line
        /\ \A j \in 1..Len(Complete(Log)) : j \in 1..Len(Log) /\ Log'[j] = Log[j]
    BY <1>1, <2>1, AppendedLog
  <2>3. Log'[i].by # t
    BY <1>3, <2>1
  <2>4. i # Len(Complete(Log)) + 1
    BY <1>3, <2>1, <2>2, <2>3
  <2>5. i \in 1..Len(Complete(Log))
    BY <1>3, <2>2, <2>4
  <2> QED
    BY <1>2, <1>4, <2>2, <2>3, <2>5
<1> QED
  BY <1>1, <1>5, <1>6 DEF Moves, Log

\* A write that failed stays failed.
LEMMA LateStays ==
  ASSUME Inv, NEW t \in Threads, Work(t) \/ Fail(t), ClosedLate
  PROVE  ClosedLate'
<1>1. PICK u \in Threads : pc[u] = "done" /\ outcome[u] \in Buffered
  BY DEF ClosedLate
<1>2. pc[t] # "done"
  BY DEF Work, Fail, List, Listed, Linking, MakeDirectory, SyncParent, CreateTemp, Write, Sync,
       Link, Unlink, SyncDirectory, CutShort, Replacing, TakeDocument, Rename, Appending, Open,
       TakeLog, ReadLog, AppendLine, Flush, Unlock, Close, At
<1>3. Moves(t)
  BY StepMoves
<1>4. pc'[u] = pc[u] /\ outcome'[u] = outcome[u]
  BY <1>1, <1>2, <1>3 DEF Moves
<1> QED
  BY <1>1, <1>4 DEF ClosedLate

\* A chain stays one until a file is closed late.
LEMMA StepChained ==
  ASSUME Inv, NEW t \in Threads, Work(t) \/ Fail(t)
  PROVE  LogInv'
<1>1. TypeInv /\ Placed(t) /\ Moves(t) /\ LogInv /\ Deciding(t)
  BY Known, StepMoves DEF Moves, Promised
<1>2. /\ Log \in Seq(LineOf) /\ Len(Log) \in Nat /\ DOMAIN Log = 1..Len(Log)
      /\ inode[LogFile].flushed \in Nat
  BY <1>1, LogType
<1>3. inode[LogFile].flushed <= Len(Log) /\ DecisionsAreChained /\ PlacesAreInOrder
  BY <1>1 DEF LogInv
<1>4. PlacesAreInOrder'
  <2>1. SUFFICES ASSUME NEW i \in RecordedLines', NEW j \in RecordedLines', i < j
                 PROVE  Log[i].seq < Log[j].seq
    <3>1. \A i \in RecordedLines' : Log'[i] = Log[i]
      BY RecordedStays
    <3> QED
      BY <2>1, <3>1 DEF PlacesAreInOrder
  <2>2. /\ i \in 1..Len(Log) /\ (i \in RecordedLines \/ (pc[t] = "flush" /\ i \in Mine(t)))
        /\ j \in 1..Len(Log) /\ (j \in RecordedLines \/ (pc[t] = "flush" /\ j \in Mine(t)))
    BY <1>2, RecordedStays
  <2>3. CASE i \in RecordedLines /\ j \in RecordedLines
    BY <1>3, <2>1, <2>3 DEF PlacesAreInOrder
  <2>4. CASE pc[t] = "flush" /\ (i \in Mine(t) \/ j \in Mine(t))
    <3>1. job[t].kind = "append"
      BY <1>1, <2>4, PlacedKind
    <3>2. PICK k \in DOMAIN Log :
            Mine(t) = {k} /\ \A l \in RecordedLines : l < k /\ Log[l].seq < Log[k].seq
      BY <1>1, <2>4, <3>1 DEF Deciding
    <3>3. (i = k \/ i \in RecordedLines) /\ (j = k \/ j \in RecordedLines)
      BY <2>2, <3>2
    <3>4. CASE i = k
      <4>1. ~(j < i)
        BY <2>1, <2>2
      <4> QED
        BY <2>1, <2>2, <3>2, <3>3, <3>4, <4>1
    <3>5. CASE j = k
      BY <2>1, <2>2, <3>2, <3>3, <3>5
    <3> QED
      BY <2>4, <3>2, <3>4, <3>5
  <2> QED
    BY <2>2, <2>3, <2>4
<1>5. CASE ~Extended(t)
  <2>1. Log' = Log /\ inode'[LogFile].flushed \in {inode[LogFile].flushed, Len(Log)}
    BY <1>1, <1>5 DEF Moves, Log
  <2>2. DecisionsAreChained'
    BY <1>3, <2>1, LateStays DEF DecisionsAreChained
  <2> QED
    BY <1>2, <1>3, <1>4, <2>1, <2>2 DEF LogInv
<1>6. CASE Extended(t)
  <2>1. PICK line \in LineOf, length \in Nat :
           /\ length \in scan[t] /\ line.by \in {t, NoFile}
           /\ Log' = Append(Complete(Log), line)
           /\ inode'[LogFile].flushed = AtMost(inode[LogFile].flushed, Len(Complete(Log)))
           /\ \/ /\ pc[t] = "append" /\ pc'[t] = "flush"
                 /\ line = Line(t, length + 1) \/ (line = Garbled /\ Ragged(Log))
              \/ /\ pc[t] = "append" /\ pc'[t] = "unlock" /\ outcome'[t] = "cut"
                 /\ line.seq = 0 /\ line.data = "torn"
              \/ pc[t] = "close" /\ pc'[t] = "done" /\ outcome'[t] \in Buffered
    BY <1>6, ExtendedLine
  <2>2. /\ Len(Complete(Log)) \in Nat /\ Log' \in Seq(LineOf) /\ Len(Log') = Len(Complete(Log)) + 1
        /\ Log'[Len(Complete(Log)) + 1] = line
        /\ \A i \in 1..Len(Complete(Log)) : i \in 1..Len(Log) /\ Log'[i] = Log[i]
    BY <1>1, <2>1, AppendedLog
  <2>3. inode'[LogFile].flushed <= Len(Log')
    BY <1>2, <2>1, <2>2 DEF AtMost
  <2>4. ASSUME ~ClosedLate' PROVE Chained(Complete(Log'))
    <3>1. ~ClosedLate /\ pc[t] = "append"
      BY <2>1, <2>4, LateStays DEF ClosedLate
    <3>2. job[t].kind = "append"
      BY <1>6 DEF Extended
    <3>3. Chained(Log) /\ length = Len(Log)
      BY <1>1, <2>1, <3>1, <3>2 DEF Deciding
    <3>4. ~Ragged(Log) /\ Complete(Log) = Log
      BY <1>2, <3>3, ChainedLines, CompleteLines
    <3>5. line.seq = Len(Log') \/ (line.seq = 0 /\ line.data = "torn")
      BY <2>1, <2>2, <3>1, <3>3, <3>4, LineType
    <3>6. \A i \in 1..Len(Log') :
            \/ Log'[i].seq = i
            \/ i = Len(Log') /\ Log'[i].seq = 0 /\ Log'[i].data = "torn"
      BY <1>2, <2>2, <3>3, <3>4, <3>5 DEF Chained
    <3> QED
      BY <2>2, <3>6, ChainedLines
  <2>5. DecisionsAreChained'
    BY <2>4 DEF DecisionsAreChained
  <2> QED
    BY <1>4, <2>3, <2>5 DEF LogInv
<1> QED
  BY <1>5, <1>6

\* Of a thread that has not failed, the log keeps the entry it has.
LEMMA StepTidy ==
  ASSUME Inv, NEW t \in Threads, Work(t) \/ Fail(t), NEW u \in Threads
  PROVE  Tidy(u)'
<1>1. TypeInv /\ Moves(t) /\ Placed(t) /\ Tidy(u) /\ job' = job /\ u # NoFile
  BY Known, StepMoves, NamesDiffer DEF Moves, Promised
<1>2. SUFFICES ASSUME job[u].kind = "append", outcome'[u] \in {"none", "ok"}, NEW i \in Mine(u)'
               PROVE  Log'[i].seq # 0
  BY <1>1 DEF Tidy
<1>3. outcome[u] \in {"none", "ok"}
  <2>1. CASE u # t
    BY <1>1, <1>2, <2>1 DEF Moves
  <2>2. CASE u = t
    <3>1. pc[t] = "flush" => outcome[t] = "none"
      BY <1>1 DEF Placed
    <3> QED
      BY <1>2, <2>2, <3>1, AppendSteps
  <2> QED
    BY <2>1, <2>2
<1>4. \A j \in Mine(u) : Log[j].seq # 0
  BY <1>1, <1>2, <1>3 DEF Tidy
<1>5. CASE ~Extended(t)
  <2>1. Log' = Log /\ Mine(u)' = Mine(u)
    BY <1>1, <1>5 DEF Moves, Log, Mine
  <2> QED
    BY <1>4, <2>1
<1>6. CASE Extended(t)
  <2>1. PICK line \in LineOf, length \in Nat :
           /\ line.by \in {t, NoFile} /\ Log' = Append(Complete(Log), line)
           /\ \/ line = Line(t, length + 1) \/ line = Garbled
              \/ outcome'[t] \notin {"none", "ok"}
    BY <1>6, ExtendedLine DEF Buffered
  <2>2. i = Len(Complete(Log)) + 1 \/ (i \in Mine(u) /\ Log'[i] = Log[i])
    BY <1>1, <2>1, AppendedMine
  <2>3. CASE i = Len(Complete(Log)) + 1
    <3>1. Log'[i] = line /\ line.by = u
      BY <1>1, <2>1, <2>3, AppendedLog DEF Mine
    <3>2. line = Line(t, length + 1)
      BY <1>1, <1>2, <2>1, <3>1, LineType
    <3> QED
      BY <3>1, <3>2, LineType
  <2> QED
    BY <1>4, <2>2, <2>3
<1> QED
  BY <1>5, <1>6

\* What a thread may rely on while it decides, when it is another's turn.
LEMMA OtherDeciding ==
  ASSUME Inv, NEW t \in Threads, Work(t) \/ Fail(t), NEW u \in Threads \ {t}
  PROVE  Deciding(u)'
<1>1. /\ TypeInv /\ Moves(t) /\ Placed(t) /\ Placed(u) /\ Deciding(u) /\ Tidy(u) /\ job' = job
      /\ u # NoFile
  BY Known, StepMoves, NamesDiffer DEF Moves, Promised
<1>2. SUFFICES ASSUME job[u].kind = "append" PROVE Deciding(u)'
  BY <1>1 DEF Deciding
<1>3. pc'[u] = pc[u] /\ scan'[u] = scan[u]
  BY <1>1 DEF Moves
<1>4. pc[u] \in {"append", "flush"} => pc[t] \notin {"append", "flush"}
  <2>1. pc[t] \in {"append", "flush"} => lock["audit"] = t
    BY <1>1, PlacedKind DEF Placed, Holds
  <2>2. pc[u] \in {"append", "flush"} => lock["audit"] = u
    BY <1>1, <1>2 DEF Placed, Holds
  <2> QED
    BY <2>1, <2>2
<1>5. pc[u] \in {"append", "flush"} =>
        \A j \in RecordedLines' : j \in RecordedLines /\ Log'[j] = Log[j]
  BY <1>4, RecordedStays
<1>6. pc[u] \in {"open", "lock_log", "read", "append", "flush"} => Mine(u)' = Mine(u)
  <2>1. SUFFICES ASSUME pc[u] \in {"open", "lock_log", "read", "append", "flush"}
                 PROVE  Mine(u)' = Mine(u)
    OBVIOUS
  <2>2. \A j \in Mine(u) : Log[j].seq # 0
    BY <1>1, <1>2, <2>1 DEF Tidy, Placed
  <2>3. CASE ~Extended(t)
    BY <1>1, <2>3 DEF Moves, Log, Mine
  <2>4. CASE Extended(t)
    <3>1. PICK line \in LineOf : line.by \in {t, NoFile} /\ Log' = Append(Complete(Log), line)
      BY <2>4, ExtendedLine
    <3>2. line.by # u
      BY <1>1, <3>1
    <3> QED
      BY <1>1, <2>2, <3>1, <3>2, AppendedMine
  <2> QED
    BY <2>3, <2>4
<1>7. ASSUME pc[u] = "append", ~ClosedLate'
      PROVE  Log' = Log /\ ~ClosedLate
  <2>1. ~Extended(t)
    <3>1. SUFFICES ASSUME Extended(t) PROVE FALSE
      OBVIOUS
    <3>2. pc[t] = "close" /\ pc'[t] = "done" /\ outcome'[t] \in Buffered
      BY <1>4, <1>7, <3>1, ExtendedLine
    <3> QED
      BY <1>7, <3>2 DEF ClosedLate
  <2> QED
    BY <1>1, <1>7, <2>1, LateStays DEF Moves, Log
<1>8. ASSUME pc[u] = "append"
      PROVE  \E n \in Nat :
               /\ scan'[u] = {n} /\ \A j \in RecordedLines' : Log'[j].seq <= n
               /\ ~ClosedLate' => Chained(Log') /\ n = Len(Log')
  <2>1. PICK n \in Nat :
           /\ scan[u] = {n} /\ \A j \in RecordedLines : Log[j].seq <= n
           /\ ~ClosedLate => Chained(Log) /\ n = Len(Log)
    BY <1>1, <1>2, <1>8 DEF Deciding
  <2>2. \A j \in RecordedLines' : Log'[j].seq <= n
    BY <1>5, <1>8, <2>1
  <2>3. ~ClosedLate' => Chained(Log') /\ n = Len(Log')
    BY <1>7, <1>8, <2>1
  <2> QED
    BY <1>3, <2>1, <2>2, <2>3
<1>9. ASSUME pc[u] = "flush"
      PROVE  \/ Mine(u)' = {} /\ \E i \in DOMAIN Log' : Log'[i] = Garbled
             \/ \E i \in DOMAIN Log' :
                  Mine(u)' = {i} /\ \A j \in RecordedLines' : j < i /\ Log'[j].seq < Log'[i].seq
  <2>1. \A i \in DOMAIN Log :
          i \in Mine(u) \/ Log[i] = Garbled => i \in DOMAIN Log' /\ Log'[i] = Log[i]
    <3>1. \A j \in Mine(u) : Log[j].seq # 0
      BY <1>1, <1>2, <1>9 DEF Tidy, Placed
    <3>2. CASE ~Extended(t)
      BY <1>1, <3>2 DEF Moves, Log
    <3>3. CASE Extended(t)
      <4>1. PICK line \in LineOf : Log' = Append(Complete(Log), line)
        BY <3>3, ExtendedLine
      <4>2. /\ Len(Complete(Log)) \in Nat /\ DOMAIN Log' = 1..(Len(Complete(Log)) + 1)
            /\ \A i \in 1..Len(Complete(Log)) : Log'[i] = Log[i]
            /\ \A i \in 1..Len(Log) :
                 Log[i].seq # 0 \/ Log[i] = Garbled => i \in 1..Len(Complete(Log))
        BY <1>1, <4>1, AppendedLog
      <4>3. DOMAIN Log = 1..Len(Log)
        BY <1>1, LogType
      <4> QED
        BY <3>1, <4>2, <4>3
    <3> QED
      BY <3>2, <3>3
  <2>2. CASE Mine(u) = {} /\ \E i \in DOMAIN Log : Log[i] = Garbled
    BY <1>6, <1>9, <2>1, <2>2
  <2>3. CASE \E i \in DOMAIN Log :
               Mine(u) = {i} /\ \A j \in RecordedLines : j < i /\ Log[j].seq < Log[i].seq
    <3>1. PICK i \in DOMAIN Log :
            Mine(u) = {i} /\ \A j \in RecordedLines : j < i /\ Log[j].seq < Log[i].seq
      BY <2>3
    <3>2. i \in DOMAIN Log' /\ Log'[i] = Log[i] /\ Mine(u)' = {i}
      BY <1>6, <1>9, <2>1, <3>1
    <3> QED
      BY <1>5, <1>9, <3>1, <3>2
  <2> QED
    BY <1>1, <1>2, <1>9, <2>2, <2>3 DEF Deciding
<1> QED
  BY <1>1, <1>3, <1>6, <1>8, <1>9 DEF Deciding

\* And in its own turn.
LEMMA OwnDeciding ==
  ASSUME Inv, NEW t \in Threads, Work(t) \/ Fail(t)
  PROVE  Deciding(t)'
<1>1. TypeInv /\ Moves(t) /\ Placed(t) /\ Deciding(t) /\ job' = job
  BY Known, StepMoves DEF Moves, Promised
<1>2. SUFFICES ASSUME job[t].kind = "append" PROVE Deciding(t)'
  BY <1>1 DEF Deciding
<1>3. /\ Log \in Seq(LineOf) /\ Len(Log) \in Nat /\ DOMAIN Log = 1..Len(Log)
  BY <1>1, LogType
<1>4. ASSUME pc'[t] \in {"open", "lock_log", "read", "append"}
      PROVE  pc[t] \in {"open", "lock_log", "read"} /\ Log' = Log /\ Mine(t)' = {}
  <2>1. pc[t] \in {"open", "lock_log", "read"}
    BY <1>2, <1>4, AppendSteps
  <2>2. Log' = Log
    BY <1>1, <2>1 DEF Moves, Log, Extended
  <2> QED
    BY <1>1, <1>2, <2>1, <2>2 DEF Deciding, Mine
<1>5. ASSUME pc'[t] = "append"
      PROVE  \E n \in Nat :
               /\ scan'[t] = {n} /\ \A j \in RecordedLines' : Log'[j].seq <= n
               /\ ~ClosedLate' => Chained(Log') /\ n = Len(Log')
  <2>1. Chained(Log) /\ scan'[t] = {Len(Log)} /\ Log' = Log
    BY <1>2, <1>4, <1>5, AppendSteps
  <2>2. \A j \in RecordedLines' : j \in DOMAIN Log
    BY RecordedStays
  <2>3. \A j \in RecordedLines' : Log'[j].seq <= Len(Log)
    BY <1>3, <2>1, <2>2 DEF Chained
  <2> QED
    BY <1>3, <2>1, <2>3
<1>6. ASSUME pc'[t] = "flush"
      PROVE  \/ Mine(t)' = {} /\ \E i \in DOMAIN Log' : Log'[i] = Garbled
             \/ \E i \in DOMAIN Log' :
                  Mine(t)' = {i} /\ \A j \in RecordedLines' : j < i /\ Log'[j].seq < Log'[i].seq
  <2>1. pc[t] = "append" /\ Extended(t)
    BY <1>2, <1>6, AppendSteps
  <2>2. PICK line \in LineOf, length \in Nat :
           /\ length \in scan[t] /\ Log' = Append(Complete(Log), line) /\ line.by \in {t, NoFile}
           /\ line = Line(t, length + 1) \/ line = Garbled
    BY <1>6, <2>1, ExtendedLine
  <2>3. /\ Len(Complete(Log)) \in Nat
        /\ DOMAIN Log' = 1..(Len(Complete(Log)) + 1)
        /\ Log'[Len(Complete(Log)) + 1] = line
    BY <1>1, <2>2, AppendedLog
  <2>4. PICK n \in Nat : scan[t] = {n} /\ \A j \in RecordedLines : Log[j].seq <= n
    BY <1>1, <1>2, <2>1 DEF Deciding
  <2>5. n = length /\ Mine(t) = {}
    BY <1>1, <1>2, <2>1, <2>2, <2>4 DEF Deciding
  <2>6. t # NoFile
    BY NamesDiffer
  <2>7. CASE line = Garbled
    <3>1. line.by # t
      BY <2>6, <2>7 DEF Garbled, Torn
    <3>2. Mine(t)' = {}
      BY <1>1, <2>2, <2>5, <3>1, AppendedMine
    <3> QED
      BY <2>3, <2>7, <3>2
  <2>8. CASE line = Line(t, length + 1)
    <3>1. line.by = t /\ line.seq = n + 1
      BY <2>4, <2>5, <2>8, LineType
    <3>2. Mine(t)' = {Len(Complete(Log)) + 1}
      BY <1>1, <2>2, <2>5, <3>1, AppendedMine
    <3>3. ASSUME NEW j \in RecordedLines'
          PROVE  j < Len(Complete(Log)) + 1 /\ Log'[j].seq < n + 1
      <4>1. j \in RecordedLines /\ Log'[j] = Log[j]
        BY <2>1, RecordedStays
      <4>2. j \in DOMAIN Log' /\ Log[j].seq <= n
        BY <2>4, <4>1 DEF RecordedLines
      <4>3. j # Len(Complete(Log)) + 1 /\ j \in 1..(Len(Complete(Log)) + 1)
        BY <2>3, <2>4, <3>1, <4>1, <4>2
      <4>4. Log[j].seq \in Nat
        BY <1>1, <1>3, LogType, RecordedStays
      <4> QED
        BY <2>3, <2>4, <4>1, <4>2, <4>3, <4>4
    <3> QED
      BY <2>3, <3>1, <3>2, <3>3
  <2> QED
    BY <2>2, <2>7, <2>8
<1> QED
  BY <1>1, <1>4, <1>5, <1>6 DEF Deciding

LEMMA StepDecided ==
  ASSUME Inv, NEW t \in Threads, Work(t) \/ Fail(t), NEW u \in Threads
  PROVE  Decided(u)'
<1>1. /\ TypeInv /\ Moves(t) /\ Placed(t) /\ Decided(u) /\ Tidy(u) /\ Deciding(t) /\ job' = job
      /\ LogInv /\ t # NoFile /\ u # NoFile
  BY Known, StepMoves, NamesDiffer DEF Moves, Promised
<1>2. SUFFICES ASSUME job[u].kind = "append", outcome'[u] = "ok"
               PROVE  \/ (\E i \in 1..inode[LogFile].flushed : Mine(u) = {i})'
                      \/ (\E i \in 1..inode[LogFile].flushed : Log[i] = Garbled)'
  BY <1>1 DEF Decided, IsRecorded
<1>3. /\ Log \in Seq(LineOf) /\ Len(Log) \in Nat /\ DOMAIN Log = 1..Len(Log)
      /\ inode[LogFile].flushed \in Nat /\ inode[LogFile].flushed <= Len(Log)
  BY <1>1, LogType DEF LogInv
<1>4. CASE outcome[u] # "ok"
  <2>1. u = t
    BY <1>1, <1>2, <1>4 DEF Moves
  <2>2. pc[t] = "flush" /\ inode'[LogFile] = Flushed(inode[LogFile])
    BY <1>2, <1>4, <2>1, AppendSteps
  <2>3. inode'[LogFile].flushed = Len(Log) /\ Log' = Log
    BY <1>1, <2>2 DEF Flushed, Log, TypeInv, File
  <2>4. Mine(u)' = Mine(u)
    BY <2>3 DEF Mine
  <2>5. \/ \E i \in 1..Len(Log) : Log[i] = Garbled
        \/ \E i \in 1..Len(Log) : Mine(u) = {i}
    BY <1>1, <1>2, <1>3, <2>1, <2>2 DEF Deciding
  <2> QED
    BY <2>3, <2>4, <2>5
<1>5. CASE outcome[u] = "ok"
  <2>1. \/ \E i \in 1..inode[LogFile].flushed : Mine(u) = {i}
        \/ \E i \in 1..inode[LogFile].flushed : Log[i] = Garbled
    BY <1>1, <1>2, <1>5 DEF Decided, IsRecorded
  <2>2. CASE ~Extended(t)
    <3>1. Log' = Log /\ inode'[LogFile].flushed \in {inode[LogFile].flushed, Len(Log)}
      BY <1>1, <2>2 DEF Moves, Log
    <3>2. Mine(u)' = Mine(u)
      BY <3>1 DEF Mine
    <3>3. \A i \in 1..inode[LogFile].flushed : i \in 1..inode'[LogFile].flushed
      BY <1>3, <3>1
    <3> QED
      BY <2>1, <3>1, <3>2, <3>3
  <2>3. CASE Extended(t)
    <3>1. PICK line \in LineOf :
            /\ line.by \in {t, NoFile} /\ Log' = Append(Complete(Log), line)
            /\ inode'[LogFile].flushed = AtMost(inode[LogFile].flushed, Len(Complete(Log)))
            /\ outcome[t] # "ok"
      BY <2>3, ExtendedLine
    <3>2. /\ Len(Complete(Log)) \in Nat
          /\ \A i \in 1..Len(Complete(Log)) : Log'[i] = Log[i]
          /\ \A i \in 1..Len(Log) :
               Log[i].seq # 0 \/ Log[i] = Garbled => i \in 1..Len(Complete(Log))
      BY <1>1, <3>1, AppendedLog
    <3>3. \A j \in Mine(u) : Log[j].seq # 0
      BY <1>1, <1>2, <1>5 DEF Tidy
    <3>4. line.by # u
      BY <1>1, <1>5, <3>1
    <3>5. Mine(u)' = Mine(u)
      BY <1>1, <3>1, <3>3, <3>4, AppendedMine
    <3>6. \A i \in 1..inode[LogFile].flushed :
            i \in 1..Len(Log) /\ (i \in 1..Len(Complete(Log)) => i \in 1..inode'[LogFile].flushed)
      BY <1>3, <3>1, <3>2 DEF AtMost
    <3>7. CASE \E i \in 1..inode[LogFile].flushed : Mine(u) = {i}
      BY <3>2, <3>3, <3>5, <3>6, <3>7
    <3>8. CASE \E i \in 1..inode[LogFile].flushed : Log[i] = Garbled
      BY <3>2, <3>6, <3>8
    <3> QED
      BY <2>1, <3>7, <3>8
  <2> QED
    BY <2>2, <2>3
<1> QED
  BY <1>4, <1>5

LEMMA StepLog ==
  ASSUME Inv, NEW t \in Threads, Work(t) \/ Fail(t), NEW u \in Threads
  PROVE  LogInv' /\ Deciding(u)' /\ Decided(u)' /\ Tidy(u)'
BY StepChained, OtherDeciding, OwnDeciding, StepDecided, StepTidy

-----------------------------------------------------------------------------
(* Steps keep what jobs have stored.                                       *)

\* The steps of a write: what a thread has done when it reaches a call, and when
\* it may return that its file is stored.
LEMMA WriteSteps ==
  ASSUME Inv, NEW t \in Threads, Work(t) \/ Fail(t), job[t].kind # "append"
  PROVE  /\ pc'[t] = "fsync" => pc[t] = "write" /\ inode'[t].lines = <<Line(t, 1)>>
         /\ pc'[t] \in {"link", "rename"} => pc[t] = "fsync" /\ inode'[t] = Flushed(inode[t])
         /\ pc'[t] = "sync" => \/ pc[t] = "unlink" /\ outcome[t] = "none" /\ seen' = seen
                              \/ seen'[job[t].name] = t
         /\ pc'[t] = "unlink" /\ outcome'[t] = "none" => seen'[job[t].name] = t
         /\ outcome'[t] = "ok" =>
              \/ outcome[t] = "ok"
              \/ job[t].kind = "list"
              \/ /\ job[t].kind = "publish" /\ seen[job[t].name] # NoFile /\ SameBytes(t)
                 /\ seen' = seen
              \/ pc[t] = "sync" /\ seen' = seen /\ kept'[job[t].name] = seen[job[t].name]
              \/ job[t].kind = "replace" /\ job[t].order # 0
<1>1. TypeInv /\ Placed(t) /\ Moves(t)
  BY Known, StepMoves
<1>2. /\ pc \in [Threads -> Calls] /\ outcome \in [Threads -> Outcomes]
      /\ inode \in [Threads \cup {LogFile} -> File] /\ seen \in [Name -> Threads \cup {LogFile, NoFile}]
      /\ job[t].name \in Name
  BY <1>1, JobOf DEF TypeInv
<1>3. pc[t] \notin {"open", "lock_log", "read", "append", "flush", "close"}
  BY <1>1, PlacedKind
<1>4. pc[t] \in {"link", "unlink"} => job[t].kind \in {"publish", "create"}
  BY <1>1, PlacedKind
<1>5. pc[t] \notin {"unlink", "unlock", "done"} => outcome[t] = "none"
  BY <1>1 DEF Placed
<1> USE <1>2 DEF Step, Return, At, Files
<1>6. ~(Open(t) \/ TakeLog(t) \/ ReadLog(t) \/ AppendLine(t) \/ Flush(t) \/ Close(t))
  BY <1>3 DEF Open, TakeLog, ReadLog, AppendLine, Flush, Close
<1>7. CASE List(t)
  BY <1>7 DEF List
<1>8. CASE Listed(t)
  <2>1. pc'[t] \in {"done", "mkdir"} /\ (outcome'[t] = "ok" => outcome[t] = "ok" \/ job[t].kind = "list")
    BY <1>8 DEF Listed
  <2> QED
    BY <2>1
<1>9. CASE MakeDirectory(t) \/ SyncParent(t) \/ CreateTemp(t)
  <2>1. pc'[t] \in {"sync_parent", "temp", "write"} /\ outcome' = outcome
    BY <1>9 DEF MakeDirectory, SyncParent, CreateTemp
  <2> QED
    BY <2>1
<1>10. CASE Write(t)
  BY <1>10 DEF Write, File
<1>11. CASE Sync(t)
  BY <1>11 DEF Sync
<1>12. CASE Link(t)
  <2>1. CASE seen[job[t].name] = NoFile
    BY <1>12, <2>1 DEF Link
  <2>2. CASE seen[job[t].name] # NoFile
    <3>1. pc'[t] = "unlink" /\ seen' = seen /\ outcome'[t] # "none"
          /\ (outcome'[t] = "ok" => job[t].kind = "publish" /\ SameBytes(t))
      BY <1>12, <2>2 DEF Link
    <3> QED
      BY <2>2, <3>1
  <2> QED
    BY <2>1, <2>2
<1>13. CASE Unlink(t)
  BY <1>13 DEF Unlink
<1>14. CASE SyncDirectory(t)
  <2>1. pc[t] = "sync" /\ pc'[t] \in {"unlock", "done"} /\ seen' = seen /\ kept' = KeptIn(Dir(job[t].name))
    BY <1>14 DEF SyncDirectory
  <2>2. kept'[job[t].name] = seen[job[t].name]
    BY <2>1 DEF KeptIn
  <2> QED
    BY <2>1, <2>2
<1>15. CASE CutShort(t)
  <2>1. pc'[t] \in {"unlock", "done"} /\ outcome'[t] = "unavailable"
    BY <1>15 DEF CutShort
  <2> QED
    BY <2>1
<1>16. CASE TakeDocument(t)
  <2>1. pc'[t] \in {"temp", "done"} /\ outcome'[t] \in {outcome[t], "dropped"}
    BY <1>16 DEF TakeDocument
  <2> QED
    BY <2>1
<1>17. CASE Rename(t)
  <2>1. job[t].kind = "replace"
    BY <1>1, <1>17, PlacedKind DEF Rename
  <2>2. seen'[job[t].name] = t /\ pc'[t] \in {"unlock", "sync"} /\ (job[t].order # 0 \/ outcome' = outcome)
    BY <1>17 DEF Rename
  <2> QED
    BY <2>1, <2>2
<1>18. CASE Unlock(t, "document") \/ Unlock(t, "audit")
  <2>1. pc'[t] \in {"close", "done"} /\ outcome' = outcome
    BY <1>18 DEF Unlock
  <2> QED
    BY <2>1
<1>19. CASE Fail(t)
  <2>1. pc'[t] \in {"cut_short", "unlock", "done"} /\ outcome'[t] \in {outcome[t], "unavailable"}
    BY <1>19 DEF Fail
  <2> QED
    BY <2>1
<1> QED
  BY <1>6, <1>7, <1>8, <1>9, <1>10, <1>11, <1>12, <1>13, <1>14, <1>15, <1>16, <1>17, <1>18, <1>19
     DEF Work, Linking, Replacing, Appending

\* A name that a job is about, and what it names.
LEMMA NameOfJob ==
  ASSUME Inv, NEW t \in Threads
  PROVE  /\ job[t].kind \in Publish => job[t].name \in (Versions \cup {Recording}) /\ job[t].name \in Name \ {Decisions}
         /\ job[t].kind = "replace" => job[t].name = Document /\ Document \in Name \ {Decisions}
         /\ job[t].kind \in {"list", "publish", "create", "replace", "append"}
BY Known, JobOf, NamesDiffer DEF TypeInv, Publish, Name

LEMMA StepWritten ==
  ASSUME Inv, NEW t \in Threads, Work(t) \/ Fail(t), NEW u \in Threads
  PROVE  Written(u)'
<1>1. TypeInv /\ Placed(t) /\ Placed(u) /\ Moves(t) /\ Written(t) /\ Written(u)
  BY Known, StepMoves DEF Moves, Promised
<1>2. job' = job /\ u # NoFile /\ t # NoFile
  BY <1>1, NamesDiffer DEF Moves
<1>3. CASE u # t
  <2>1. pc'[u] = pc[u] /\ outcome'[u] = outcome[u] /\ inode'[u] = inode[u]
    BY <1>1, <1>3 DEF Moves
  <2>2. ASSUME pc[u] = "sync" \/ pc[u] = "unlink", seen[job[u].name] = u
        PROVE  seen'[job[u].name] = u
    <3>1. job[u].kind \in {"publish", "create", "replace"}
      BY <1>1, <2>2, PlacedKind
    <3>2. CASE job[u].kind \in Publish
      BY <1>1, <1>2, <2>2, <3>2, NameOfJob, NamesStay
    <3>3. CASE job[u].kind = "replace"
      <4>1. lock["document"] = u
        BY <1>1, <2>2, <3>3 DEF Placed, Holds
      <4> QED
        BY <1>1, <1>2, <1>3, <2>2, <3>3, <4>1, NameOfJob, NamesStay
    <3> QED
      BY <3>1, <3>2, <3>3 DEF Publish
  <2> QED
    BY <1>1, <1>2, <2>1, <2>2 DEF Written, Whole, Line
<1>4. CASE u = t /\ job[t].kind = "append"
  <2>1. pc'[t] \notin {"fsync", "link", "rename", "sync", "unlink"}
    <3>1. Placed(t)' /\ job[t].kind = "append"
      BY <1>4, StepPlaced
    <3>2. pc'[t] \in {"open", "lock_log", "read", "append", "flush", "unlock", "close", "done"}
      BY <1>1, <1>2, <3>1 DEF Placed, CallsOf
    <3> QED
      BY <3>2
  <2> QED
    BY <1>4, <2>1 DEF Written
<1>5. CASE u = t /\ job[t].kind # "append"
  <2>1. pc'[t] = "fsync" => inode'[t].lines = <<Line(t, 1)>>
    BY <1>5, WriteSteps
  <2>2. pc'[t] \in {"link", "rename"} => inode'[t] = [lines |-> <<Line(t, 1)>>, flushed |-> 1]
    <3>1. SUFFICES ASSUME pc'[t] \in {"link", "rename"} PROVE inode'[t] = [lines |-> <<Line(t, 1)>>, flushed |-> 1]
      OBVIOUS
    <3>2. inode'[t] = Flushed(inode[t]) /\ inode[t].lines = <<Line(t, 1)>>
      BY <1>1, <1>5, <3>1, WriteSteps DEF Written
    <3>3. inode[t] = [lines |-> <<Line(t, 1)>>, flushed |-> inode[t].flushed]
      BY <1>1, <3>2 DEF TypeInv, File
    <3> QED
      BY <3>2, <3>3 DEF Flushed
  <2>3. pc'[t] = "sync" => seen'[job[t].name] = t
    BY <1>1, <1>5, WriteSteps DEF Written
  <2>4. pc'[t] = "unlink" /\ outcome'[t] = "none" => seen'[job[t].name] = t
    BY <1>5, WriteSteps
  <2> QED
    BY <1>2, <1>5, <2>1, <2>2, <2>3, <2>4 DEF Written, Whole, Line
<1> QED
  BY <1>3, <1>4, <1>5

LEMMA StepStored ==
  ASSUME Inv, NEW t \in Threads, Work(t) \/ Fail(t), NEW u \in Threads
  PROVE  Stored(u)' /\ Synced(u, kept)' /\ Synced(u, seen)'
<1>1. /\ TypeInv /\ Placed(t) /\ Placed(u) /\ Moves(t) /\ FilesInv /\ KeptIsSeen
      /\ Written(t) /\ Stored(u) /\ Synced(u, kept)
  BY Known, StepMoves DEF Moves, Promised
<1>2. job' = job /\ t # NoFile /\ KeptIsSeen' /\ FilesInv'
  BY <1>1, NamesDiffer, StepFiles DEF Moves
<1>3. job[u].name \in Name
  BY <1>1, JobOf DEF TypeInv
<1>4. CASE outcome'[u] # "ok"
  BY <1>4 DEF Stored, Synced
<1>5. CASE outcome'[u] = "ok" /\ outcome[u] = "ok"
  <2>1. Stored(u)'
    BY <1>1, <1>2, <1>3, <1>5, NameOfJob, NamesStay DEF Stored
  <2>2. kept[job[u].name] # NoFile => kept'[job[u].name] # NoFile
    BY <1>1, <1>3 DEF Moves, KeptIsSeen
  <2>3. Synced(u, kept)'
    BY <1>1, <1>2, <1>5, <2>2 DEF Synced
  <2>4. Synced(u, seen)'
    BY <1>2, <1>3, <2>3 DEF Synced, KeptIsSeen, Name
  <2> QED
    BY <2>1, <2>3, <2>4
<1>6. CASE outcome'[u] = "ok" /\ outcome[u] # "ok"
  <2>1. u = t
    BY <1>1, <1>6 DEF Moves
  <2>2. CASE job[u].kind \in {"append", "list"}
    BY <1>2, <2>2 DEF Stored, Synced, Publish
  <2>3. CASE job[u].kind = "publish" /\ seen[job[u].name] # NoFile /\ SameBytes(u) /\ seen' = seen
    <3>1. seen[job[u].name] \in Threads /\ Whole(seen[job[u].name])
      BY <1>1, <2>3, NameOfJob DEF FilesInv, NamesWhole, Publish
    <3>2. job[seen[job[u].name]].data = job[u].data
      BY <2>3, <3>1 DEF SameBytes, Whole, Line
    <3> QED
      BY <1>2, <2>3, <3>2 DEF Stored, Synced
  <2>4. CASE pc[t] = "sync" /\ seen' = seen /\ kept'[job[t].name] = seen[job[t].name]
    <3>1. seen'[job[t].name] = t /\ kept'[job[t].name] = t
      BY <1>1, <2>4 DEF Written
    <3> QED
      BY <1>2, <2>1, <3>1 DEF Stored, Synced
  <2>5. CASE job[t].kind = "replace" /\ job[t].order # 0
    BY <1>2, <2>1, <2>5 DEF Stored, Synced, Publish
  <2>6. CASE job[t].kind \notin {"append", "list"}
    <3>1. \/ job[t].kind = "publish" /\ seen[job[t].name] # NoFile /\ SameBytes(t) /\ seen' = seen
          \/ pc[t] = "sync" /\ seen' = seen /\ kept'[job[t].name] = seen[job[t].name]
          \/ job[t].kind = "replace" /\ job[t].order # 0
      BY <1>6, <2>1, <2>6, WriteSteps
    <3> QED
      BY <2>1, <2>3, <2>4, <2>5, <3>1
  <2> QED
    BY <2>1, <2>2, <2>6
<1> QED
  BY <1>4, <1>5, <1>6

-----------------------------------------------------------------------------
(* Steps keep versions after their parents, and listings whole.            *)

\* The steps of a listing.
LEMMA ListSteps ==
  ASSUME Inv, NEW t \in Threads, Work(t) \/ Fail(t), job[t].kind \in {"list", "publish"}
  PROVE  /\ pc'[t] = "listed" => scan'[t] = Present
         /\ pc'[t] \in {"mkdir", "sync_parent", "temp", "write", "fsync", "link"} =>
              \/ pc[t] = "listed" /\ (job[t].name = 1 \/ job[t].name - 1 \in scan[t] \cup Present)
              \/ pc[t] \in {"mkdir", "sync_parent", "temp", "write", "fsync"}
         /\ job[t].kind = "list" /\ outcome'[t] = "ok" =>
              \/ outcome[t] = "ok" /\ scan'[t] = scan[t]
              \/ pc[t] = "listed" /\ Contiguous(scan'[t]) /\ scan'[t] \subseteq scan[t] \cup Present
<1>1. TypeInv /\ Placed(t) /\ Moves(t)
  BY Known, StepMoves
<1>2. /\ pc \in [Threads -> Calls] /\ outcome \in [Threads -> Outcomes]
      /\ scan \in [Threads -> SUBSET Nat]
  BY <1>1 DEF TypeInv
<1>3. pc[t] \notin {"open", "lock_log", "read", "append", "flush", "close", "lock", "rename",
                   "unlock"}
  BY <1>1, PlacedKind
<1>4. pc[t] \notin {"unlink", "unlock", "done"} => outcome[t] = "none"
  BY <1>1 DEF Placed
<1>5. job[t].kind = "list" => pc[t] \in {"list", "listed", "done"}
  BY <1>1, CallsOfKind DEF Placed, TypeInv
<1> USE <1>2 DEF Step, Return, At, Files
<1>6. ~(Appending(t) \/ Replacing(t))
  BY <1>3 DEF Appending, Replacing, Open, TakeLog, ReadLog, AppendLine, Flush, Close, TakeDocument,
     Rename, Unlock
<1>7. CASE List(t)
  <2>1. scan'[t] = Present /\ pc'[t] = "listed" /\ outcome'[t] = "none"
    BY <1>4, <1>7 DEF List
  <2> QED
    BY <2>1
<1>8. CASE Listed(t)
  <2>1. PICK later \in SUBSET (Present \ scan[t]) :
          LET found == scan[t] \cup later
              parentMissing == job[t].name # 1 /\ job[t].name - 1 \notin found
          IN /\ scan' = [scan EXCEPT ![t] = found]
             /\ CASE ~Contiguous(found) -> Return(t, "inconsistent")
                  [] Contiguous(found) /\ job[t].kind = "list" -> Return(t, "ok")
                  [] Contiguous(found) /\ job[t].kind = "publish" /\ parentMissing ->
                       Return(t, "parent_missing")
                  [] OTHER -> Step(t, "mkdir") /\ UNCHANGED outcome
    BY <1>8 DEF Listed
  <2> DEFINE found == scan[t] \cup later
             parentMissing == job[t].name # 1 /\ job[t].name - 1 \notin found
  <2>2. pc[t] = "listed" /\ scan'[t] = found /\ found \subseteq scan[t] \cup Present /\ outcome[t] = "none"
    BY <1>4, <1>8, <2>1 DEF Listed
  <2> HIDE DEF found
  <2>3. CASE ~Contiguous(found)
    BY <2>1, <2>2, <2>3 DEF found
  <2>4. CASE Contiguous(found) /\ job[t].kind = "list"
    <3>1. pc'[t] = "done"
      BY <2>1, <2>4 DEF found
    <3> QED
      BY <2>2, <2>4, <3>1
  <2>5. CASE Contiguous(found) /\ job[t].kind = "publish" /\ parentMissing
    <3>1. pc'[t] = "done"
      BY <2>1, <2>5 DEF found
    <3> QED
      BY <2>2, <2>5, <3>1
  <2>6. CASE Contiguous(found) /\ job[t].kind = "publish" /\ ~parentMissing
    <3>1. pc'[t] = "mkdir" /\ outcome' = outcome
      BY <2>1, <2>6 DEF found
    <3> QED
      BY <2>2, <2>6, <3>1
  <2> QED
    BY <2>3, <2>4, <2>5, <2>6
<1>9. CASE Linking(t)
  <2>1. scan' = scan /\ job[t].kind = "publish" /\ pc'[t] # "listed"
    BY <1>5, <1>9 DEF Linking, MakeDirectory, SyncParent, CreateTemp, Write, Sync, Link, Unlink,
                      SyncDirectory, CutShort
  <2>2. \/ pc[t] \in {"mkdir", "sync_parent", "temp", "write", "fsync"}
        \/ pc'[t] \notin {"mkdir", "sync_parent", "temp", "write", "fsync", "link"}
    BY <1>9 DEF Linking, MakeDirectory, SyncParent, CreateTemp, Write, Sync, Link, Unlink,
                SyncDirectory, CutShort
  <2> QED
    BY <2>1, <2>2
<1>10. CASE Fail(t)
  <2>1. pc'[t] \in {"cut_short", "unlock", "done"} /\ scan' = scan /\ outcome'[t] \in {outcome[t], "unavailable"}
    BY <1>10 DEF Fail
  <2> QED
    BY <2>1
<1> QED
  BY <1>6, <1>7, <1>8, <1>9, <1>10 DEF Work

LEMMA StepParents ==
  ASSUME Inv, NEW t \in Threads, Moves(t)
  PROVE  Present \subseteq Present' /\ Parents'
<1>1. TypeInv /\ Placed(t) /\ Parents /\ Lists(t) /\ job[t].kind \in {"list", "publish", "create", "replace", "append"}
  BY Known, NameOfJob DEF Moves, Promised
<1>2. Versions \subseteq Name /\ Decisions \notin Versions /\ Recording \notin Versions /\ Document \notin Versions
  BY NamesDiffer DEF Name
<1>3. Present \subseteq Present'
  BY <1>2, NamesStay DEF Present
<1>4. ASSUME NEW v \in Present'
      PROVE  1..v \subseteq Present'
  <2>1. v \in Versions /\ v \in Nat
    BY <1>4, Numbers DEF Present
  <2>2. CASE v \in Present
    BY <1>1, <1>3, <2>2 DEF Parents
  <2>3. CASE v \notin Present
    <3>1. Named(t, v)
      BY <1>2, <1>4, <2>1, <2>3 DEF Present, Moves
    <3>2. v = job[t].name /\ job[t].kind = "publish" /\ pc[t] = "link"
      BY <1>1, <1>2, <2>1, <3>1, NameOfJob, PlacedKind, JobOf DEF Named, Publish, TypeInv
    <3>3. v = 1 \/ v - 1 \in Present
      BY <1>1, <3>2 DEF Lists
    <3>4. ASSUME NEW i \in 1..v PROVE i \in Present'
      <4>1. CASE i = v
        BY <1>4, <4>1
      <4>2. CASE i # v
        <5>1. i \in 1..(v - 1) /\ v # 1
          BY <2>1, <3>4, <4>2
        <5> QED
          BY <1>1, <1>3, <3>3, <5>1 DEF Parents
      <4> QED
        BY <4>1, <4>2
    <3> QED
      BY <3>4
  <2> QED
    BY <2>2, <2>3
<1> QED
  BY <1>3, <1>4 DEF Parents

LEMMA StepLists ==
  ASSUME Inv, NEW t \in Threads, Work(t) \/ Fail(t), NEW u \in Threads
  PROVE  Lists(u)'
<1>1. TypeInv /\ Moves(t) /\ Lists(t) /\ Lists(u) /\ Present \subseteq Present' /\ job' = job
  BY Known, StepMoves, StepParents DEF Moves, Promised
<1>2. CASE job[u].kind \notin {"list", "publish"}
  BY <1>1, <1>2 DEF Lists
<1>3. CASE u # t
  BY <1>1, <1>3 DEF Lists, Moves
<1>4. CASE u = t /\ job[t].kind \in {"list", "publish"}
  <2>1. pc'[t] = "listed" => scan'[t] \subseteq Present'
    BY <1>1, <1>4, ListSteps
  <2>2. ASSUME job[t].kind = "publish",
               pc'[t] \in {"mkdir", "sync_parent", "temp", "write", "fsync", "link"}
        PROVE  job[t].name = 1 \/ job[t].name - 1 \in Present'
    <3>1. CASE pc[t] = "listed" /\ (job[t].name = 1 \/ job[t].name - 1 \in scan[t] \cup Present)
      BY <1>1, <2>2, <3>1 DEF Lists
    <3>2. CASE pc[t] \in {"mkdir", "sync_parent", "temp", "write", "fsync"}
      BY <1>1, <2>2, <3>2 DEF Lists
    <3> QED
      BY <1>4, <2>2, <3>1, <3>2, ListSteps
  <2>3. ASSUME job[t].kind = "list", outcome'[t] = "ok"
        PROVE  \A v \in scan'[t] : 1..v \subseteq scan'[t]
    <3>1. CASE outcome[t] = "ok" /\ scan'[t] = scan[t]
      BY <1>1, <2>3, <3>1 DEF Lists
    <3>2. CASE pc[t] = "listed" /\ Contiguous(scan'[t]) /\ scan'[t] \subseteq scan[t] \cup Present
      <4>1. scan[t] \subseteq Present
        BY <1>1, <1>4, <3>2 DEF Lists
      <4>2. scan'[t] \subseteq Versions /\ IsFiniteSet(Versions)
        BY <3>2, <4>1, StoresAssumption DEF Present
      <4>3. Cardinality(scan'[t]) \in Nat
        BY <4>2, FS_Subset, FS_CardinalityType
      <4> QED
        BY <3>2, <4>3 DEF Contiguous
    <3> QED
      BY <2>3, <3>1, <3>2, ListSteps
  <2> QED
    BY <1>1, <1>4, <2>1, <2>2, <2>3 DEF Lists
<1> QED
  BY <1>2, <1>3, <1>4

-----------------------------------------------------------------------------
(* Steps keep records in the order asked for.                              *)

LEMMA OrderSteps ==
  ASSUME Inv, NEW t \in Threads, Work(t) \/ Fail(t)
  PROVE  /\ pc'[t] \in {"temp", "write", "fsync", "rename"} /\ job[t].kind = "replace" /\ job[t].order # 0 =>
              written' = written /\ (~Overtaken(t) \/ pc[t] \in {"temp", "write", "fsync"})
         /\ written' = written \/ (seen'[Document] = t /\ written' = job[t].order)
         /\ seen'[Document] # seen[Document] =>
              /\ seen'[Document] = t /\ job[t].kind = "replace" /\ pc[t] = "rename"
              /\ written' = IF job[t].order # 0 THEN job[t].order ELSE written
<1>1. TypeInv /\ Placed(t) /\ Moves(t) /\ job[t].kind \in {"list", "publish", "create", "replace", "append"}
  BY Known, StepMoves, NameOfJob
<1>2. pc \in [Threads -> Calls]
  BY <1>1 DEF TypeInv
<1>3. ASSUME seen'[Document] # seen[Document]
      PROVE  seen'[Document] = t /\ job[t].kind = "replace" /\ pc[t] = "rename"
  <2>1. Named(t, Document)
    BY <1>1, <1>3, NamesDiffer DEF Moves
  <2> QED
    BY <1>1, <2>1, NamesDiffer, NameOfJob, PlacedKind DEF Named, Publish
<1>4. CASE Rename(t)
  <2>1. pc'[t] \notin {"temp", "write", "fsync", "rename"}
    BY <1>2, <1>4 DEF Rename, Step, At
  <2>2. job[t].name = Document /\ Document \in Name
    BY <1>1, <1>4, PlacedKind, NameOfJob DEF Rename, At
  <2>3. seen'[Document] = t /\ written' = IF job[t].order # 0 THEN job[t].order ELSE written
    BY <1>1, <1>4, <2>2 DEF Rename, TypeInv
  <2> QED
    BY <1>3, <2>1, <2>3
<1>5. CASE ~Rename(t)
  <2>1. written' = written
    BY <1>5 DEF Work, Fail, List, Listed, Linking, MakeDirectory, SyncParent, CreateTemp, Write, Sync,
       Link, Unlink, SyncDirectory, CutShort, Replacing, TakeDocument, Appending, Open,
       TakeLog, ReadLog, AppendLine, Flush, Close, Unlock
  <2>2. seen'[Document] = seen[Document]
    <3>1. SUFFICES ASSUME pc[t] = "rename" PROVE seen'[Document] = seen[Document]
      BY <1>3
    <3>2. seen' = seen
      BY <1>5, <3>1 DEF Work, Fail, List, Listed, Linking, MakeDirectory, SyncParent, CreateTemp, Write, Sync,
         Link, Unlink, SyncDirectory, CutShort, Replacing, TakeDocument, Appending, Open,
         TakeLog, ReadLog, AppendLine, Flush, Close, Unlock, At, Files
    <3> QED
      BY <3>2
  <2>3. ASSUME pc'[t] \in {"temp", "write", "fsync", "rename"}, job[t].kind = "replace"
        PROVE  ~Overtaken(t) \/ pc[t] \in {"temp", "write", "fsync"}
    <3>1. pc[t] \in {"lock", "temp", "write", "fsync", "rename", "sync", "cut_short", "unlock", "done"}
      BY <1>1, <2>3, CallsOfKind DEF Placed, TypeInv
    <3>2. ~(List(t) \/ Listed(t) \/ MakeDirectory(t) \/ SyncParent(t) \/ Appending(t)) \/ pc[t] = "unlock"
      BY <3>1 DEF List, Listed, MakeDirectory, SyncParent, Appending, Open, TakeLog, ReadLog,
         AppendLine, Flush, Close, Unlock, At
    <3>3. pc[t] # "unlock"
      <4>1. SUFFICES ASSUME pc[t] = "unlock" PROVE FALSE
        OBVIOUS
      <4>2. Unlock(t, "document") \/ Unlock(t, "audit")
        BY <4>1 DEF Work, Fail, List, Listed, Linking, MakeDirectory, SyncParent, CreateTemp, Write, Sync,
           Link, Unlink, SyncDirectory, CutShort, Replacing, TakeDocument, Rename, Appending, Open,
           TakeLog, ReadLog, AppendLine, Flush, Close, At
      <4> QED
        BY <1>2, <2>3, <4>2 DEF Unlock, Step
    <3>4. CASE TakeDocument(t)
      <4>1. Overtaken(t) => pc'[t] = "done"
        BY <1>2, <3>4 DEF TakeDocument, Return, Step
      <4> QED
        BY <2>3, <4>1
    <3>5. CASE Linking(t) \/ Fail(t)
      <4>1. pc[t] \in {"temp", "write", "fsync"} \/ pc'[t] \in {"unlock", "done", "cut_short", "unlink", "sync"}
        <5>1. CASE Linking(t)
          BY <1>2, <3>1, <5>1 DEF Linking, MakeDirectory, SyncParent, CreateTemp, Write, Sync,
             Link, Unlink, SyncDirectory, CutShort, At, Return, Step
        <5>2. CASE Fail(t)
          BY <1>2, <5>2 DEF Fail, Return, Step
        <5> QED
          BY <3>5, <5>1, <5>2
      <4> QED
        BY <2>3, <4>1
    <3> QED
      BY <1>5, <3>2, <3>3, <3>4, <3>5 DEF Work, Replacing, Appending, Unlock, At
  <2> QED
    BY <2>1, <2>2, <2>3
<1> QED
  BY <1>4, <1>5

LEMMA StepOrder ==
  ASSUME Inv, NEW t \in Threads, Work(t) \/ Fail(t), NEW u \in Threads
  PROVE  Ordered(u)' /\ LatestStays'
<1>1. /\ TypeInv /\ Moves(t) /\ Placed(t) /\ Placed(u) /\ Ordered(t) /\ Ordered(u) /\ LatestStays
      /\ job' = job /\ FilesInv /\ job[t].order \in Nat /\ written \in Nat
  BY Known, StepMoves, JobOf DEF Moves, Promised, TypeInv
<1>2. LatestStays'
  <2>1. CASE seen'[Document] # seen[Document]
    BY <1>1, <2>1, OrderSteps DEF LatestStays
  <2>2. CASE seen'[Document] = seen[Document]
    BY <1>1, <2>2, OrderSteps DEF LatestStays
  <2> QED
    BY <2>1, <2>2
<1>3. CASE u # t
  <2>1. CASE job[u].kind # "replace" \/ pc[u] \notin {"temp", "write", "fsync", "rename"}
    BY <1>1, <1>2, <1>3, <2>1 DEF Ordered, Moves
  <2>2. CASE job[u].kind = "replace" /\ pc[u] \in {"temp", "write", "fsync", "rename"}
    <3>1. lock["document"] = u
      BY <1>1, <2>2 DEF Placed, Holds
    <3>2. ~(pc[t] = "rename" /\ job[t].kind = "replace")
      BY <1>1, <1>3, <3>1 DEF Placed, Holds
    <3> QED
      BY <1>1, <1>2, <1>3, <3>2 DEF Moves, Ordered
  <2> QED
    BY <2>1, <2>2
<1>4. CASE u = t
  <2>1. SUFFICES ASSUME job[t].kind = "replace", job[t].order # 0,
                        pc'[t] \in {"temp", "write", "fsync", "rename"}
                 PROVE  written' <= job[t].order
    BY <1>1, <1>2, <1>4 DEF Ordered
  <2>2. written' = written /\ (~Overtaken(t) \/ pc[t] \in {"temp", "write", "fsync"})
    BY <2>1, OrderSteps
  <2>3. CASE ~Overtaken(t)
    BY <1>1, <2>1, <2>2, <2>3 DEF Overtaken
  <2>4. CASE pc[t] \in {"temp", "write", "fsync"}
    BY <1>1, <2>1, <2>2, <2>4 DEF Ordered
  <2> QED
    BY <2>2, <2>3, <2>4
<1> QED
  BY <1>2, <1>3, <1>4

-----------------------------------------------------------------------------
(* Every step keeps the invariant.                                         *)

LEMMA StepInv ==
  ASSUME Inv, NEW t \in Threads, Work(t) \/ Fail(t)
  PROVE  Inv'
<1>1. TypeInv /\ Moves(t)
  BY Known, StepMoves
<1>2. TypeInv'
  BY <1>1, StepTypes
<1>3. FilesInv' /\ KeptIsSeen' /\ Parents'
  BY <1>1, StepFiles, StepParents
<1>4. LogInv' /\ LatestStays'
  BY StepLog, StepOrder
<1>5. ASSUME NEW u \in Threads
      PROVE  (Placed(u) /\ Decided(u) /\ Synced(u, seen) /\ Promised(u))'
  BY StepPlaced, StepLog, StepStored, StepWritten, StepLists, StepOrder DEF Promised
<1> QED
  BY <1>2, <1>3, <1>4, <1>5 DEF Inv

\* A process that ends leaves every file, and lets go of its locks.
LEMMA KillInv ==
  ASSUME Inv, NEW process, Kill(process)
  PROVE  Inv'
<1> DEFINE ending == {t \in Threads : job[t].process = process /\ pc[t] # "done"}
<1>1. /\ UNCHANGED <<job, power, inode, seen, kept, temp, folder, written, scan>>
      /\ power = "on"
      /\ outcome' = [t \in Threads |-> IF t \in ending THEN "killed" ELSE outcome[t]]
      /\ pc' = [t \in Threads |-> IF t \in ending THEN "done" ELSE pc[t]]
      /\ lock' = [l \in DOMAIN lock |-> IF lock[l] \in ending THEN NoFile ELSE lock[l]]
  BY DEF Kill, Files
<1>2. TypeInv /\ FilesInv /\ LogInv /\ KeptIsSeen /\ Parents /\ LatestStays
  BY <1>1 DEF Inv
<1>3. ending \subseteq Threads /\ NoFile \notin Threads
  BY NamesDiffer
<1> HIDE DEF ending
<1>4. TypeInv'
  <2>1. File' = File /\ Name' = Name
    BY <1>1 DEF File, LineOf, Name
  <2>2. outcome' \in [Threads -> Outcomes] /\ pc' \in [Threads -> Calls]
    BY <1>1, <1>2 DEF TypeInv, Outcomes, Calls
  <2>3. lock' \in [{"document", "audit"} -> Threads \cup {NoFile}]
    BY <1>1, <1>2 DEF TypeInv
  <2> QED
    BY <1>1, <1>2, <2>1, <2>2, <2>3 DEF TypeInv
<1>5. \A f \in Threads : pc[f] \in Past => pc'[f] \in Past
  BY <1>1 DEF Past
<1>6. FilesInv'
  <2>1. ASSUME NEW n \in Name \ {Decisions} PROVE NamesWhole(n, seen[n])' /\ NamesWhole(n, kept[n])'
    <3>1. NamesWhole(n, seen[n]) /\ NamesWhole(n, kept[n])
      BY <1>2 DEF FilesInv
    <3> QED
      BY <1>1, <1>5, <3>1 DEF NamesWhole, Whole, Line
  <2>2. Name' = Name
    BY DEF Name
  <2> QED
    BY <1>1, <1>2, <2>1, <2>2 DEF FilesInv
<1>7. KeptIsSeen' /\ Parents' /\ LatestStays'
  BY <1>1, <1>2 DEF KeptIsSeen, Parents, Present, LatestStays, Name
<1>8. RecordedLines' \subseteq RecordedLines /\ (ClosedLate => ClosedLate') /\ Log' = Log
  <2>1. \A u \in Threads : outcome'[u] = "ok" => outcome[u] = "ok"
    BY <1>1
  <2>2. Log' = Log
    BY <1>1 DEF Log
  <2>3. \A i \in 1..Len(Log) : Log[i].by \in Threads \cup {NoFile}
    BY <1>2, LogType
  <2>4. DOMAIN Log = 1..Len(Log)
    BY <1>2, LogType
  <2>5. RecordedLines' \subseteq RecordedLines
    BY <1>1, <2>1, <2>2, <2>3, <2>4 DEF RecordedLines, IsRecorded
  <2>6. ASSUME NEW u \in Threads, pc[u] = "done", outcome[u] \in Buffered
        PROVE  pc'[u] = "done" /\ outcome'[u] \in Buffered
    BY <1>1, <2>6 DEF ending
  <2> QED
    BY <2>2, <2>5, <2>6 DEF ClosedLate
<1>9. LogInv'
  BY <1>1, <1>2, <1>8 DEF LogInv, DecisionsAreChained, PlacesAreInOrder
<1>10. ASSUME NEW u \in Threads
      PROVE  (Placed(u) /\ Decided(u) /\ Synced(u, seen) /\ Promised(u))'
  <2>1. Placed(u) /\ Decided(u) /\ Synced(u, seen) /\ Promised(u)
    BY <1>1 DEF Inv
  <2>2. \A l \in {"document", "audit"} :
          lock'[l] = u <=> lock[l] = u /\ u \notin ending
    BY <1>1, <1>2, <1>3 DEF TypeInv
  <2>3. CASE u \notin ending
    <3>1. pc'[u] = pc[u] /\ outcome'[u] = outcome[u]
      BY <1>1, <2>3
    <3>2. Placed(u)'
      BY <1>1, <2>1, <2>2, <2>3, <3>1 DEF Placed, Holds
    <3>3. Mine(u)' = Mine(u)
      BY <1>8 DEF Mine
    <3>4. Deciding(u)'
      BY <1>1, <1>8, <2>1, <3>1, <3>3 DEF Deciding, Promised
    <3>5. (Decided(u) /\ Tidy(u))'
      BY <1>1, <1>8, <2>1, <3>1, <3>3 DEF Decided, IsRecorded, Tidy, Promised
    <3> QED
      BY <1>1, <2>1, <3>1, <3>2, <3>4, <3>5 DEF Synced, Promised, Written, Whole, Line, Stored, Lists,
         Present, Ordered
  <2>4. CASE u \in ending
    <3>1. pc'[u] = "done" /\ outcome'[u] = "killed"
      BY <1>1, <2>4
    <3>2. Placed(u)'
      <4>1. pc[u] \in CallsOf[job[u].kind] /\ job[u].kind \in {"list", "publish", "create", "replace", "append"}
        BY <1>2, <2>1, JobOf DEF Placed, TypeInv
      <4>2. "done" \in CallsOf[job[u].kind]
        BY <4>1 DEF CallsOf
      <4> QED
        BY <1>1, <2>2, <2>4, <3>1, <4>2 DEF Placed, Holds, Buffered
    <3> QED
      BY <3>1, <3>2 DEF Decided, IsRecorded, Synced, Promised, Written, Stored, Lists, Ordered, Deciding,
         Tidy
  <2> QED
    BY <2>3, <2>4
<1> QED
  BY <1>4, <1>6, <1>7, <1>9, <1>10 DEF Inv

\* What the loss of power may leave of a file.
LEMMA SurvivedFile ==
  ASSUME NEW file \in File, NEW s \in Survived(file)
  PROVE  /\ s \in File /\ s.flushed = Len(s.lines) /\ Len(s.lines) <= Len(file.lines)
         /\ file.flushed <= s.flushed
         /\ \A i \in 1..Len(s.lines) :
              s.lines[i] = file.lines[i] \/ (i = Len(s.lines) /\ s.lines[i] = Torn)
         /\ \A i \in 1..file.flushed : s.lines[i] = file.lines[i]
         /\ file.flushed = Len(file.lines) => s = file
<1>1. file.lines \in Seq(LineOf) /\ file.flushed \in Nat /\ Len(file.lines) \in Nat
      /\ file = [lines |-> file.lines, flushed |-> file.flushed]
  BY DEF File
<1>2. PICK k \in file.flushed..Len(file.lines), tail \in {<<>>, <<Torn>>} :
        s = [lines |-> SubSeq(file.lines, 1, k) \o tail, flushed |-> k + Len(tail)]
  BY DEF Survived, Survivors
<1>3. k \in Nat /\ k <= Len(file.lines) /\ file.flushed <= k
  BY <1>1, <1>2
<1> DEFINE head == SubSeq(file.lines, 1, k)
<1>4. head \in Seq(LineOf) /\ Len(head) = k /\ \A i \in 1..k : head[i] = file.lines[i]
  BY <1>1, <1>3, SubSeqProperties
<1> HIDE DEF head
<1>5. Len(s.lines) <= Len(file.lines)
  BY DEF Survived
<1>6. CASE tail = <<>>
  <2>1. s = [lines |-> head, flushed |-> k]
    BY <1>2, <1>3, <1>4, <1>6 DEF head
  <2>2. k = Len(file.lines) => head = file.lines
    BY <1>1, <1>4
  <2> QED
    BY <1>1, <1>3, <1>4, <1>5, <2>1, <2>2 DEF File
<1>7. CASE tail = <<Torn>>
  <2>1. Torn \in LineOf
    BY DEF Torn, LineOf
  <2>2. /\ head \o tail \in Seq(LineOf) /\ Len(head \o tail) = k + 1 /\ Len(tail) = 1
        /\ \A i \in 1..k : (head \o tail)[i] = head[i] /\ (head \o tail)[k + 1] = Torn
    BY <1>3, <1>4, <1>7, <2>1
  <2>3. s = [lines |-> head \o tail, flushed |-> k + 1]
    BY <1>2, <2>2 DEF head
  <2>4. \A i \in 1..(k + 1) : i \in 1..k \/ i = k + 1
    BY <1>3
  <2> QED
    BY <1>1, <1>3, <1>4, <1>5, <2>2, <2>3, <2>4 DEF File
<1> QED
  BY <1>2, <1>6, <1>7

\* Names go back to what was kept, and files to what was flushed.
LEMMA PowerInv ==
  ASSUME Inv, LosePower
  PROVE  Inv'
<1>1. /\ power = "on" /\ power' = "lost"
      /\ UNCHANGED <<job, pc, outcome, kept, temp, lock, written, scan>>
      /\ folder' \in {folder, "none"}
  BY DEF LosePower
<1>2. TypeInv /\ FilesInv /\ LogInv
  BY DEF Inv
<1>3. /\ \A n \in Name : seen'[n] \in {seen[n], kept[n], NoFile}
      /\ \A n \in Name \ Versions : seen'[n] \in {seen[n], kept[n]}
      /\ seen' = [n \in Name |-> seen'[n]]
  BY DEF LosePower
<1>4. /\ DOMAIN inode = Threads \cup {LogFile} /\ inode' = [f \in Threads \cup {LogFile} |-> inode'[f]]
      /\ \A f \in Threads \cup {LogFile} : inode[f] \in File
      /\ \A f \in Threads \cup {LogFile} : inode'[f] \in Survived(inode[f]) \/ inode'[f] = inode[f]
  BY <1>2 DEF LosePower, TypeInv
<1>5. File' = File /\ Name' = Name
  BY <1>1 DEF File, LineOf, Name
<1>6. TypeInv'
  <2>1. \A f \in Threads \cup {LogFile} : inode'[f] \in File
    BY <1>4, SurvivedFile
  <2>2. inode' \in [Threads \cup {LogFile} -> File]
    BY <1>4, <2>1
  <2>3. seen' \in [Name -> Threads \cup {LogFile, NoFile}]
    BY <1>2, <1>3 DEF TypeInv
  <2> QED
    BY <1>1, <1>2, <1>5, <2>2, <2>3 DEF TypeInv
<1>7. ASSUME NEW f \in Threads, Whole(f)
      PROVE  inode'[f] = inode[f]
  <2>1. inode[f].flushed = Len(inode[f].lines)
    BY <1>7 DEF Whole
  <2> QED
    BY <1>4, <2>1, SurvivedFile
<1>8. FilesInv'
  <2>1. ASSUME NEW n \in Name \ {Decisions} PROVE NamesWhole(n, seen[n])' /\ NamesWhole(n, kept[n])'
    <3>1. NamesWhole(n, seen[n]) /\ NamesWhole(n, kept[n])
      BY <1>2 DEF FilesInv
    <3>2. StaysWhole(n, seen[n]) /\ StaysWhole(n, kept[n])
      BY <1>1, <1>7, <3>1 DEF NamesWhole, StaysWhole, Whole
    <3>3. seen'[n] = seen[n] \/ seen'[n] = kept[n] \/ seen'[n] = NoFile
      BY <1>3
    <3> QED
      BY <1>1, <3>2, <3>3 DEF NamesWhole, StaysWhole, Whole, Line
  <2>2. seen'[Decisions] \in {LogFile, NoFile} /\ kept'[Decisions] \in {LogFile, NoFile}
    BY <1>1, <1>2, <1>3, NamesDiffer DEF FilesInv
  <2> QED
    BY <1>5, <2>1, <2>2 DEF FilesInv
<1>9. /\ Log \in Seq(LineOf) /\ Len(Log) \in Nat /\ DOMAIN Log = 1..Len(Log) /\ inode[LogFile].flushed \in Nat
      /\ inode[LogFile].flushed <= Len(Log) /\ DecisionsAreChained /\ inode[LogFile] \in File
  BY <1>2, <1>4, LogType DEF LogInv
<1>10. /\ Log' \in Seq(LineOf) /\ Len(Log') \in Nat /\ DOMAIN Log' = 1..Len(Log')
       /\ inode'[LogFile].flushed \in Nat /\ inode[LogFile].flushed <= inode'[LogFile].flushed
       /\ inode'[LogFile].flushed <= Len(Log') /\ Len(Log') <= Len(Log)
       /\ \A i \in 1..Len(Log') : Log'[i] = Log[i] \/ (i = Len(Log') /\ Log'[i] = Torn)
       /\ \A i \in 1..inode[LogFile].flushed : Log'[i] = Log[i]
  <2>1. CASE inode'[LogFile] = inode[LogFile]
    BY <1>9, <2>1 DEF Log
  <2>2. CASE inode'[LogFile] \in Survived(inode[LogFile])
    <3>1. /\ inode'[LogFile] \in File /\ inode'[LogFile].flushed = Len(Log') /\ Len(Log') <= Len(Log)
          /\ inode[LogFile].flushed <= inode'[LogFile].flushed
          /\ \A i \in 1..Len(Log') : Log'[i] = Log[i] \/ (i = Len(Log') /\ Log'[i] = Torn)
          /\ \A i \in 1..inode[LogFile].flushed : Log'[i] = Log[i]
      BY <1>9, <2>2, SurvivedFile DEF Log
    <3>2. Log' \in Seq(LineOf) /\ Len(Log') \in Nat /\ DOMAIN Log' = 1..Len(Log') /\ inode'[LogFile].flushed \in Nat
      BY <3>1 DEF File, Log
    <3>3. inode'[LogFile].flushed <= Len(Log')
      <4>1. inode'[LogFile].flushed = Len(Log') /\ Len(Log') \in Nat
        BY <3>1, <3>2, Zenon
      <4> QED
        BY <4>1
    <3> QED
      BY <3>1, <3>2, <3>3, Zenon
  <2> QED
    BY <1>4, <2>1, <2>2
<1>11. /\ Len(Log) \in Nat /\ Len(Log') \in Nat /\ Len(Log') <= Len(Log)
       /\ inode[LogFile].flushed \in Nat /\ inode'[LogFile].flushed \in Nat
       /\ inode[LogFile].flushed <= inode'[LogFile].flushed
       /\ inode'[LogFile].flushed <= Len(Log')
  BY <1>9, <1>10, Zenon
<1>12. LogInv'
  <2>1. ASSUME NEW i \in RecordedLines'
        PROVE  i \in RecordedLines /\ Log'[i] = Log[i]
    <3>1. /\ i \in DOMAIN Log' /\ Log'[i].by # NoFile
          /\ job'[Log'[i].by].kind = "append" /\ outcome'[Log'[i].by] = "ok"
      BY DEF RecordedLines, IsRecorded
    <3>2. Log'[i] = Log[i] /\ i \in 1..Len(Log')
      <4>1. i \in 1..Len(Log')
        BY <1>10, <3>1, Zenon
      <4>2. Torn.by = NoFile
        BY DEF Torn
      <4> QED
        BY <1>10, <3>1, <4>1, <4>2, Zenon
    <3>3. i \in 1..Len(Log)
      BY <1>11, <3>2
    <3>4. IsRecorded(Log[i].by)
      BY <1>1, <3>1, <3>2 DEF IsRecorded
    <3> QED
      BY <1>9, <3>1, <3>2, <3>3, <3>4 DEF RecordedLines
  <2>2. PlacesAreInOrder'
    BY <1>2, <2>1 DEF LogInv, PlacesAreInOrder
  <2>3. ASSUME ~ClosedLate' PROVE Chained(Complete(Log'))
    <3>1. ~ClosedLate
      BY <1>1, <2>3 DEF ClosedLate
    <3>2. \A i \in 1..Len(Log) :
            \/ Log[i].seq = i
            \/ i = Len(Log) /\ Log[i].seq = 0 /\ Log[i].data = "torn"
      BY <1>9, <3>1, ChainedLines DEF DecisionsAreChained
    <3>3. \A i \in 1..Len(Log') : i \in 1..Len(Log) /\ (i = Len(Log) => i = Len(Log'))
      BY <1>11
    <3>4. Torn.seq = 0 /\ Torn.data = "torn"
      BY DEF Torn
    <3>5. \A i \in 1..Len(Log') :
            \/ Log'[i].seq = i
            \/ i = Len(Log') /\ Log'[i].seq = 0 /\ Log'[i].data = "torn"
      BY <1>10, <3>2, <3>3, <3>4
    <3> QED
      BY <1>10, <3>5, ChainedLines
  <2> QED
    BY <1>10, <2>2, <2>3, Zenon DEF LogInv, DecisionsAreChained
<1>13. ASSUME NEW u \in Threads
       PROVE  (Placed(u) /\ Decided(u) /\ Synced(u, seen))'
  <2>1. Placed(u) /\ Decided(u) /\ Synced(u, seen) /\ Synced(u, kept)
    BY <1>1 DEF Inv, Promised
  <2>2. Placed(u)'
    BY <1>1, <2>1 DEF Placed, Holds
  <2>3. Synced(u, seen)'
    <3>1. job[u].kind \in {"create", "replace"} => job[u].name \in Name \ Versions
      BY <1>2, JobOf, NamesDiffer DEF TypeInv
    <3> QED
      BY <1>1, <1>3, <2>1, <3>1 DEF Synced
  <2>4. Decided(u)'
    <3> SUFFICES ASSUME outcome[u] = "ok", job[u].kind = "append"
                 PROVE  \/ \E i \in 1..(inode[LogFile].flushed)' : Mine(u)' = {i}
                        \/ \E i \in 1..(inode[LogFile].flushed)' : Log'[i] = Garbled
      BY <1>1 DEF Decided, IsRecorded
    <3>1. CASE \E i \in 1..inode[LogFile].flushed : Log[i] = Garbled
      <4>1. PICK i \in 1..inode[LogFile].flushed : Log[i] = Garbled
        BY <3>1
      <4>2. i \in 1..(inode[LogFile].flushed)'
        BY <1>11
      <4>3. Log'[i] = Garbled
        BY <1>10, <4>1, Zenon
      <4> QED
        BY <4>2, <4>3
    <3>2. CASE \E i \in 1..inode[LogFile].flushed : Mine(u) = {i}
      <4>1. PICK i \in 1..inode[LogFile].flushed : Mine(u) = {i}
        BY <3>2
      <4>2. i \in 1..(inode[LogFile].flushed)' /\ i \in 1..Len(Log')
        BY <1>11
      <4>3. Log'[i] = Log[i]
        BY <1>10, Zenon
      <4>4. i \in Mine(u)'
        BY <1>10, <4>1, <4>2, <4>3 DEF Mine
      <4>5. ASSUME NEW j \in Mine(u)' PROVE j = i
        <5>1. j \in 1..Len(Log') /\ Log'[j].by = u
          BY <1>10, <4>5 DEF Mine
        <5>2. Torn.by # u
          BY NamesDiffer DEF Torn
        <5>3. j \in 1..Len(Log)
          BY <1>11, <5>1
        <5>4. Log'[j] = Log[j]
          BY <1>10, <5>1, <5>2, Zenon
        <5> QED
          BY <1>9, <4>1, <5>1, <5>3, <5>4 DEF Mine
      <4> QED
        BY <4>2, <4>4, <4>5
    <3> QED
      BY <2>1, <3>1, <3>2 DEF Decided, IsRecorded
  <2> QED
    BY <2>2, <2>3, <2>4
<1> QED
  BY <1>1, <1>6, <1>8, <1>12, <1>13 DEF Inv

LEMMA InvStep == Inv /\ [Next]_vars => Inv'
<1> SUFFICES ASSUME Inv, [Next]_vars PROVE Inv'
  OBVIOUS
<1>1. ASSUME NEW t \in Threads, Work(t) \/ Fail(t) PROVE Inv'
  BY <1>1, StepInv
<1>2. ASSUME NEW t \in Threads, Kill(job[t].process) PROVE Inv'
  <2>1. \A process : Kill(process) => Inv'
    BY KillInv
  <2> QED
    BY <1>2, <2>1
<1>3. CASE LosePower
  BY <1>3, PowerInv
<1>4. CASE UNCHANGED vars
  <2>1. /\ UNCHANGED <<job, pc, outcome, inode, seen, kept, temp, folder, lock, written, scan, power>>
        /\ Log' = Log /\ Present' = Present /\ RecordedLines' = RecordedLines
        /\ ClosedLate' = ClosedLate /\ File' = File
    BY <1>4 DEF vars, Log, Present, RecordedLines, IsRecorded, ClosedLate, File, LineOf
  <2>2. (TypeInv /\ FilesInv)' = (TypeInv /\ FilesInv)
    BY <2>1 DEF TypeInv, FilesInv, NamesWhole, Whole, Line
  <2>3. LogInv'
    BY <2>1 DEF Inv, LogInv, DecisionsAreChained, PlacesAreInOrder
  <2>4. (KeptIsSeen /\ Parents /\ LatestStays)' = (KeptIsSeen /\ Parents /\ LatestStays)
    BY <2>1 DEF KeptIsSeen, Parents, LatestStays
  <2>5. ASSUME NEW t \in Threads
        PROVE  /\ (Placed(t) /\ Decided(t) /\ Synced(t, seen))'
               /\ power = "on" => Promised(t)'
    <3>1. Mine(t)' = Mine(t)
      BY <2>1 DEF Mine
    <3>2. (Placed(t) /\ Synced(t, seen))'
      BY <2>1 DEF Inv, Placed, Holds, Synced
    <3>3. Decided(t)'
      BY <2>1, <3>1 DEF Inv, Decided, IsRecorded
    <3>4. power = "on" => (Written(t) /\ Stored(t) /\ Synced(t, kept) /\ Lists(t) /\ Ordered(t))'
      BY <2>1 DEF Inv, Promised, Written, Whole, Line, Stored, Synced, Lists, Ordered
    <3>5. power = "on" => (Deciding(t) /\ Tidy(t))'
      BY <2>1, <3>1 DEF Inv, Promised, Deciding, Tidy
    <3> QED
      BY <3>2, <3>3, <3>4, <3>5 DEF Promised
  <2> QED
    BY <2>1, <2>2, <2>3, <2>4, <2>5 DEF Inv
<1> QED
  BY <1>1, <1>2, <1>3, <1>4 DEF Next, Done

\* What is reached is in the invariant.
THEOREM FilesAreSound == Spec => []Inv
<1> QED
  BY InitInv, InvStep, PTL DEF Spec

-----------------------------------------------------------------------------
(* What readers may rely on.                                               *)

\* Whatever is killed, fails or races, and when the power is lost, a reader finds
\* whole files, every version up to the latest, what a publish returned as
\* stored, and what was synced.
THEOREM ReadersAreServed == Spec => []StoredIsRead
<1>1. ASSUME Inv PROVE StoredIsRead
  <2>1. TypeInv /\ FilesInv /\ \A t \in Threads : Placed(t) /\ Synced(t, seen)
    BY <1>1 DEF Inv
  <2>2. TypeOK
    <3>1. {seen[n] : n \in Name} \cup {kept[n] : n \in Name} \subseteq Threads \cup {LogFile, NoFile}
      BY <2>1 DEF TypeInv
    <3>2. ASSUME NEW l \in DOMAIN lock, lock[l] # NoFile PROVE pc[lock[l]] # "done"
      <4>1. l \in {"document", "audit"} /\ lock[l] \in Threads
        BY <2>1, <3>2 DEF TypeInv
      <4>2. Holds(lock[l], l)
        BY <2>1, <4>1 DEF Placed
      <4> QED
        BY <4>2 DEF Holds
    <3>3. {lock["document"], lock["audit"]} \subseteq Threads \cup {NoFile}
      BY <2>1 DEF TypeInv
    <3> QED
      BY <2>1, <3>1, <3>2, <3>3 DEF TypeInv, TypeOK
  <2>3. ReadersSeeWholeFiles
    <3>1. ASSUME NEW n \in Name \ {Decisions}, seen[n] # NoFile
          PROVE  inode[seen[n]].lines = <<Line(seen[n], 1)>>
      <4>1. NamesWhole(n, seen[n])
        BY <2>1 DEF FilesInv
      <4>2. inode[seen[n]] = [lines |-> <<Line(seen[n], 1)>>, flushed |-> 1]
        BY <3>1, <4>1 DEF NamesWhole, Whole
      <4> QED
        BY <4>2
    <3> QED
      BY <3>1 DEF ReadersSeeWholeFiles
  <2>4. PublishedIsStored
    BY <1>1 DEF Inv, Promised, Stored, PublishedIsStored
  <2>5. NoVersionIsSkipped
    BY <1>1 DEF Inv, Promised, Lists, Parents, NoVersionIsSkipped
  <2>6. SyncedSurvives
    BY <2>1 DEF Synced, SyncedSurvives
  <2> QED
    BY <2>2, <2>3, <2>4, <2>5, <2>6 DEF StoredIsRead
<1> QED
  BY <1>1, FilesAreSound, PTL

\* The audit log is a chain with at most its last line torn, until the file of a
\* write that failed is closed late; and for ever it holds each decision that was
\* returned as recorded once, on stable storage, at a place after the recorded
\* ones before it, unless a failed write's bytes ran into its line.
THEOREM DecisionsStay == Spec => []DecisionsAreKept
<1>1. ASSUME Inv PROVE DecisionsAreKept
  <2>1. /\ DOMAIN Log = 1..Len(Log) /\ Len(Log) \in Nat /\ inode[LogFile].flushed \in Nat
        /\ inode[LogFile].flushed <= Len(Log) /\ DecisionsAreChained /\ PlacesAreInOrder
    BY <1>1, LogType DEF Inv, LogInv
  <2> DEFINE onDisk == {i \in DOMAIN Log : i <= inode[LogFile].flushed}
  <2>2. onDisk = 1..inode[LogFile].flushed
    BY <2>1
  <2> HIDE DEF onDisk
  <2>3. ASSUME NEW t \in Threads, IsRecorded(t)
        PROVE  \/ Cardinality({i \in onDisk : Log[i].by = t}) = 1
               \/ \E i \in onDisk : Log[i] = Garbled
    <3>1. CASE \E i \in 1..inode[LogFile].flushed : Mine(t) = {i}
      <4>1. PICK i \in 1..inode[LogFile].flushed : Mine(t) = {i}
        BY <3>1
      <4>2. \A j \in onDisk : j \in DOMAIN Log
        BY DEF onDisk
      <4>3. {j \in onDisk : Log[j].by = t} = {i}
        BY <2>2, <4>1, <4>2 DEF Mine
      <4> QED
        BY <4>3, FS_Singleton
    <3> QED
      BY <1>1, <2>2, <2>3, <3>1 DEF Inv, Decided
  <2>4. DecisionIsRecorded
    BY <2>3 DEF DecisionIsRecorded, onDisk
  <2> QED
    BY <2>1, <2>4 DEF DecisionsAreKept
<1> QED
  BY <1>1, FilesAreSound, PTL

\* A version or a recording is never replaced under its name, and a run's record
\* never gives way to one that was asked for earlier.
THEOREM NothingIsOverwritten == Spec => NothingOverwritten
<1>1. ASSUME Inv, [Next]_vars, power' = "on"
      PROVE  /\ \A n \in Versions \cup {Recording} : seen[n] # NoFile => seen'[n] = seen[n]
             /\ seen[Document] # NoFile => job[seen'[Document]].order >= job[seen[Document]].order
  <2>1. TypeInv /\ FilesInv
    BY <1>1 DEF Inv
  <2>2. seen[Document] # NoFile =>
          /\ seen[Document] \in Threads /\ job[seen[Document]].kind = "replace"
          /\ job[seen[Document]].order \in Nat
    <3>1. SUFFICES ASSUME seen[Document] # NoFile
                   PROVE  /\ seen[Document] \in Threads /\ job[seen[Document]].kind = "replace"
                          /\ job[seen[Document]].order \in Nat
      OBVIOUS
    <3>2. /\ seen[Document] \in Threads /\ job[seen[Document]].kind \in Publish \cup {"replace"}
          /\ job[seen[Document]].name = Document
      BY <2>1, <3>1, NamesDiffer DEF FilesInv, NamesWhole
    <3>3. job[seen[Document]].kind \notin Publish
      BY <1>1, <3>2, NameOfJob, NamesDiffer
    <3> QED
      BY <2>1, <3>2, <3>3, JobOf DEF TypeInv
  <2>3. CASE seen' = seen
    BY <2>2, <2>3
  <2>4. ASSUME NEW t \in Threads, Work(t) \/ Fail(t)
        PROVE  /\ \A n \in Versions \cup {Recording} : seen[n] # NoFile => seen'[n] = seen[n]
               /\ seen[Document] # NoFile => job[seen'[Document]].order >= job[seen[Document]].order
    <3>1. Moves(t) /\ Placed(t) /\ LatestStays /\ Ordered(t)
      BY <1>1, <2>4, Known, StepMoves DEF Moves, Promised
    <3>2. \A n \in Versions \cup {Recording} : seen[n] # NoFile => seen'[n] = seen[n]
      BY <1>1, <3>1, NamesStay, NamesDiffer DEF Name
    <3>3. ASSUME seen[Document] # NoFile, seen'[Document] # seen[Document]
          PROVE  job[seen'[Document]].order >= job[seen[Document]].order
      <4>1. seen'[Document] = t /\ job[t].kind = "replace" /\ pc[t] = "rename"
        BY <1>1, <2>4, <3>3, OrderSteps
      <4> DEFINE f == seen[Document]
      <4>2. f \in Threads /\ job[f].kind = "replace" /\ job[f].order \in Nat
        BY <2>2, <3>3
      <4>3. \/ job[t].order = 0 /\ job[f].order = 0
            \/ job[t].order # 0 /\ job[f].order # 0
        BY <2>1, <4>1, <4>2, WorkloadsAssumption DEF TypeInv
      <4>4. job[f].order <= written /\ written \in Nat /\ job[t].order \in Nat
        BY <2>1, <3>1, <3>3, JobOf DEF LatestStays, TypeInv
      <4>5. job[t].order # 0 => written <= job[t].order
        BY <3>1, <4>1 DEF Ordered
      <4> QED
        BY <4>1, <4>2, <4>3, <4>4, <4>5
    <3> QED
      BY <2>2, <3>2, <3>3
  <2>5. CASE \E t \in Threads : Kill(job[t].process)
    BY <2>3, <2>5 DEF Kill, Files
  <2>6. CASE UNCHANGED vars
    BY <2>3, <2>6 DEF vars
  <2>7. ~LosePower
    BY <1>1 DEF LosePower
  <2> QED
    BY <1>1, <2>4, <2>5, <2>6, <2>7 DEF Next, Done
<1>2. ASSUME Inv, [Next]_vars
      PROVE  /\ power' = "on" =>
                  \A n \in Versions \cup {Recording} : seen[n] # NoFile => seen'[n] = seen[n]
             /\ seen[Document] # NoFile /\ power' = "on" =>
                  job[seen'[Document]].order >= job[seen[Document]].order
  BY <1>1, <1>2
<1> QED
  BY <1>2, FilesAreSound, PTL DEF Spec, NothingOverwritten, NeverReplaced, NewestWriteStays
=============================================================================
