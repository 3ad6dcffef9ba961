-------------------------- MODULE RunLifecycleProofs --------------------------
(***************************************************************************)
(* Theorems about one run's life, for every number of steps, processes and *)
(* irreversible steps.                                                     *)
(*                                                                         *)
(* The first part is about types, the claim and approvals.  The second is  *)
(* about what a run's record says of what really happened: irreversible    *)
(* actions are sent once and in order, the record on disk is true of them  *)
(* and of the audit log, and a final record stays as it is.                *)
(*                                                                         *)
(* The inductive invariant of the second part says of every record that    *)
(* exists, on disk, in a queue or in memory, that it is honest (true of    *)
(* the actions sent and of the log), and, of the one process that works on *)
(* the run, what its phase implies for its record, its progress and its    *)
(* writes.  A final record may be one that a command which ended left      *)
(* behind, and that landed over a newer one: such a record is still sound, *)
(* which is what `mendwork show` and the next command rely on.             *)
(*                                                                         *)
(* The last part adds how statuses on their way to disk follow from one    *)
(* another, and shows that every step keeps RunContract, and that a        *)
(* command which reads the run meanwhile shows what was decided.           *)
(***************************************************************************)
EXTENDS RunShow, SequenceTheorems, FiniteSetTheorems, WellFoundedInduction, TLAPS

-----------------------------------------------------------------------------
(* What the functions on a run's record preserve.                          *)

\* The record a run starts with is one.
LEMMA NewRunType == NewRun \in Run
BY DEF NewRun, Run, RunStatus, Terminal, StepResult, NotRun, StepStatus,
       Stopping, Via, Decision, Outcome

\* Finishing an interrupted run from its journal gives a record.
LEMMA EndedRunType ==
  ASSUME NEW r \in Run, NEW b \in BOOLEAN
  PROVE  EndedRun(r, b) \in Run
<1>1. MarkedSteps(r.steps) \in [Steps -> StepResult]
  <2>1. \A s \in Steps : r.steps[s] \in StepResult
    BY DEF Run
  <2>2. \A x \in StepResult :
          [x EXCEPT !.status = "cancelled", !.unknown = TRUE] \in StepResult
    BY DEF StepResult, StepStatus, Stopping
  <2> QED BY <2>1, <2>2 DEF MarkedSteps
<1>2. InterruptedStatus(r.dispatched) \in RunStatus
  BY DEF InterruptedStatus, RunStatus, Terminal
<1> QED BY <1>1, <1>2 DEF EndedRun, Run

\* What came of an approval is one of the outcomes, whatever the result.
LEMMA SettledType ==
  ASSUME NEW res PROVE Settled(res) \in Outcome
BY DEF Settled, Outcome

\* Settling an approval keeps the record a record.
LEMMA SettleType ==
  ASSUME NEW r \in Run, NEW i PROVE Settle(r, i) \in Run
BY SettledType DEF Settle, Run

\* A run that pauses with its proposal pending is a record.
LEMMA PausedType ==
  ASSUME NEW r \in Run PROVE Paused(r) \in Run
BY DEF Paused, Run, Decision

\* A decision that ends the run at its paused step keeps it a record.
LEMMA EndedAtType ==
  ASSUME NEW r \in Run, NEW i, NEW status \in {"failed", "cancelled"}
  PROVE  EndedAt(r, i, status) \in Run
<1>1. status \in RunStatus /\ status \in StepStatus
  BY DEF RunStatus, Terminal, StepStatus, Stopping
<1>2. [r.steps EXCEPT ![i].status = status] \in [Steps -> StepResult]
  BY <1>1 DEF Run, StepResult
<1>3. [[r.steps EXCEPT ![i].status = status] EXCEPT ![i].stale = FALSE]
        \in [Steps -> StepResult]
  BY <1>2 DEF StepResult
<1> QED BY <1>1, <1>3 DEF EndedAt, Run

\* A decided proposal keeps it a record.
LEMMA DecidedType ==
  ASSUME NEW r \in Run, NEW i, NEW kind \in {"approved", "rejected"}
  PROVE  Decided(r, i, kind) \in Run
BY DEF Decided, Run, Decision

\* A rejected run is a record.
LEMMA RejectedType ==
  ASSUME NEW r \in Run, NEW i PROVE Rejected(r, i) \in Run
BY DecidedType, EndedAtType DEF Rejected

\* A run cancelled before it resumed is a record.
LEMMA NotResumedType ==
  ASSUME NEW r \in Run, NEW i PROVE NotResumed(r, i) \in Run
<1>1. [r EXCEPT !.outcome[i] = "not_resumed"] \in Run
  BY DEF Run, Outcome
<1> QED BY <1>1, EndedAtType DEF NotResumed

\* A resumed run is a record.
LEMMA ResumedType ==
  ASSUME NEW r \in Run, NEW i PROVE Resumed(r, i) \in Run
<1>1. StepsSoFar(r.steps, i) \in [Steps -> StepResult]
  BY DEF StepsSoFar, Run, NotRun, StepResult, StepStatus, Stopping, Via
<1> QED BY <1>1 DEF Resumed, Run, RunStatus

\* The decisions the audit log holds and the record lacks keep it a record.
LEMMA WithDecisionsType ==
  ASSUME NEW r \in Run, NEW log PROVE WithDecisions(r, log) \in Run
<1> DEFINE new(s, kind) == r.decision[s] = "pending" /\ Logged(log, s, kind)
           status == IF \E s \in Steps : new(s, "rejected") THEN "failed" ELSE r.status
           d == [s \in Steps |-> IF new(s, "approved") THEN "approved"
                                 ELSE IF new(s, "rejected") THEN "rejected"
                                 ELSE r.decision[s]]
           ss == [s \in Steps |->
                    IF new(s, "rejected")
                    THEN [r.steps[s] EXCEPT !.status = "failed", !.stale = FALSE]
                    ELSE r.steps[s]]
<1>1. WithDecisions(r, log) =
        [r EXCEPT !.decision = d, !.status = status, !.steps = ss]
  BY DEF WithDecisions
<1> HIDE DEF new
<1>2. d \in [Steps -> Decision]
  BY DEF Run, Decision
<1>3. \A x \in StepResult :
        [x EXCEPT !.status = "failed", !.stale = FALSE] \in StepResult
  BY DEF StepResult, StepStatus, Stopping
<1>4. ss \in [Steps -> StepResult]
  BY <1>3 DEF Run
<1>5. status \in RunStatus
  BY DEF Run, RunStatus, Terminal
<1> HIDE DEF d, ss, status
<1> QED BY <1>1, <1>2, <1>4, <1>5 DEF Run

\* The outcomes of approvals nobody settled keep it a record.
LEMMA WithOutcomesType ==
  ASSUME NEW r \in Run PROVE WithOutcomes(r) \in Run
<1> DEFINE open == \A s \in Steps : ~Unsettled(r, s)
<1>1. CASE open
  BY <1>1 DEF WithOutcomes
<1>2. CASE ~open /\ r.status = "awaiting"
  <2>1. \A x \in StepResult :
          [x EXCEPT !.status = "cancelled", !.stale = FALSE] \in StepResult
    BY DEF StepResult, StepStatus, Stopping
  <2>2. [s \in Steps |-> IF Unsettled(r, s)
                         THEN [r.steps[s] EXCEPT !.status = "cancelled", !.stale = FALSE]
                         ELSE r.steps[s]] \in [Steps -> StepResult]
    BY <2>1 DEF Run
  <2>3. [s \in Steps |-> IF Unsettled(r, s) THEN "not_resumed" ELSE r.outcome[s]]
          \in [Steps -> Outcome]
    BY DEF Run, Outcome
  <2> QED BY <1>2, <2>2, <2>3 DEF WithOutcomes, Run, RunStatus, Terminal
<1>3. CASE ~open /\ r.status # "awaiting"
  <2>1. [s \in Steps |-> IF Unsettled(r, s) THEN Settled(r.steps[s]) ELSE r.outcome[s]]
          \in [Steps -> Outcome]
    BY SettledType DEF Run
  <2> QED BY <1>3, <2>1 DEF WithOutcomes, Run
<1> QED BY <1>1, <1>2, <1>3

\* A record nobody holds, read as its process left it, is a record.
LEMMA AsLeftType ==
  ASSUME NEW r \in Run, NEW log PROVE AsLeft(r, log) \in Run
BY EndedRunType, WithDecisionsType, WithOutcomesType DEF AsLeft

-----------------------------------------------------------------------------
(* Types.  A process that works on the run holds a record, not NoRecord.   *)

TypeInv == TypeOK /\ \A p \in Procs : pc[p] # "idle" => mem[p] \in Run

Busy == Location \ {"idle"}

\* A step made from a step's progress is a step's progress.
LEMMA FreshType == Fresh \in Progress
BY DEF Fresh, Progress, Via, StepStatus, Stopping

\* Beginning a step keeps the progress's type.
LEMMA StepBegunType ==
  ASSUME NEW c \in Progress, NEW s \in Nat PROVE StepBegun(c, s) \in Progress
BY FreshType DEF StepBegun, Progress

\* Counting actions keeps the counts natural numbers.
LEMMA ActedType ==
  ASSUME TypeOK, NEW S PROVE Acted(S) \in [Steps -> Nat]
BY DEF TypeOK, Acted

\* A result in a record keeps it a record.
LEMMA WithResultType ==
  ASSUME NEW r \in Run, NEW c \in Progress PROVE WithResult(r, c) \in Run
<1>1. ResultOf(c) \in StepResult
  BY DEF ResultOf, Result, StepResult, Progress
<1> QED BY <1>1 DEF WithResult, Run

\* Of the steps of a record, only one is the one the run stopped at.
LEMMA FailedStepUnique ==
  ASSUME NEW r, NEW s \in Steps, NEW t \in Steps, FailedStep(r, s), FailedStep(r, t)
  PROVE  s = t
<1>1. s \in Nat /\ t \in Nat BY DEF Steps
<1>2. CASE s < t BY <1>2 DEF FailedStep
<1>3. CASE t < s BY <1>3 DEF FailedStep
<1> QED BY <1>1, <1>2, <1>3

\* The status of the step a run stopped at is a status of the run.
LEMMA StopStatusType ==
  ASSUME NEW r \in Run PROVE StopStatus(r) \in RunStatus
<1>1. \E status \in RunStatus :
        \A s \in Steps : FailedStep(r, s) => status = r.steps[s].status
  <2>1. CASE \E s \in Steps : FailedStep(r, s)
    <3>1. PICK s \in Steps : FailedStep(r, s) BY <2>1
    <3>2. r.steps[s].status \in RunStatus
      BY <3>1 DEF FailedStep, Stopping, RunStatus, Terminal
    <3> QED BY <3>1, <3>2, FailedStepUnique
  <2>2. CASE ~ \E s \in Steps : FailedStep(r, s)
    BY <2>2 DEF RunStatus
  <2> QED BY <2>1, <2>2
<1> QED BY <1>1 DEF StopStatus

\* How a run's steps ended gives a status of the run.
LEMMA RunOutcomeType ==
  ASSUME NEW r \in Run, NEW error \in BOOLEAN PROVE RunOutcome(r, error) \in RunStatus
BY StopStatusType DEF RunOutcome, RunStatus, Terminal

\* A finished record is a record.
LEMMA FinishedType ==
  ASSUME NEW r \in Run, NEW approved, NEW status \in RunStatus
  PROVE  Finished(r, approved, status) \in Run
<1> DEFINE ended == [r EXCEPT !.status = status]
<1>1. ended \in Run BY DEF Run
<1> HIDE DEF ended
<1>2. Paused(ended) \in Run /\ Paused(Settle(ended, approved)) \in Run
  BY <1>1, PausedType, SettleType
<1> QED BY <1>2 DEF Finished, ended

\* Moving within a step keeps the types.
LEMMA StepKeepsTypes ==
  ASSUME TypeInv, NEW p \in Procs, NEW from \in Busy, NEW to \in Busy,
         NEW c \in Progress, Step(p, from, to, c)
  PROVE  TypeInv'
<1>1. pc' \in [Procs -> Location] /\ cur' \in [Procs -> Progress]
  BY DEF TypeInv, TypeOK, Step, Go, Progressed, Busy
<1>2. \A q \in Procs : pc'[q] # "idle" => mem'[q] \in Run
  BY DEF TypeInv, TypeOK, Step, Go, Busy
<1> QED BY <1>1, <1>2 DEF TypeInv, TypeOK, Step

\* Ending a step with an error keeps the types.
LEMMA RaiseKeepsTypes ==
  ASSUME TypeInv, NEW p \in Procs, NEW from \in Busy, NEW status \in StepStatus,
         NEW stale \in BOOLEAN, Raise(p, from, status, stale)
  PROVE  TypeInv'
<1>1. cur[p] \in Progress BY DEF TypeInv, TypeOK
<1>2. /\ [cur[p] EXCEPT !.end = status, !.stale = stale] \in Progress
      /\ [cur[p] EXCEPT !.end = "failed"] \in Progress
  BY <1>1 DEF Progress, StepStatus, Stopping
<1>3. "evidence" \in Busy BY DEF Busy, Location, Scope, InProgress
<1> QED BY <1>2, <1>3, StepKeepsTypes DEF Raise

\* Issuing a record keeps the types of the records and of the queues.
LEMMA IssueTypes ==
  ASSUME TypeInv, NEW p \in Procs, NEW r \in Run, Issue(p, r)
  PROVE  /\ mem' \in [Procs -> Run \cup {NoRecord}]
         /\ queue' \in [Procs -> Seq(Run)]
         /\ mem'[p] = r
         /\ \A q \in Procs \ {p} : mem'[q] = mem[q]
<1>1. Append(queue[p], r) \in Seq(Run) BY DEF TypeInv, TypeOK
<1> QED BY <1>1 DEF TypeInv, TypeOK, Issue

\* Leaving keeps the types of what it resets.
LEMMA LeaveTypes ==
  ASSUME TypeInv, NEW p \in Procs, Leave(p)
  PROVE  /\ pc' \in [Procs -> Location]
         /\ mem' \in [Procs -> Run \cup {NoRecord}]
         /\ cur' \in [Procs -> Progress]
         /\ intr' \in [Procs -> BOOLEAN]
         /\ claim' \in Procs \cup {NoProc}
         /\ \A q \in Procs : pc'[q] # "idle" => mem'[q] \in Run
BY FreshType DEF TypeInv, TypeOK, Leave, Location

\* A write that moves the process keeps the types.
LEMMA GoIssueKeepsTypes ==
  ASSUME TypeInv, NEW p \in Procs, NEW from, NEW to \in Busy, NEW r \in Run,
         Go(p, from, to), Issue(p, r), UNCHANGED <<disk, audit, cur, acts>>,
         claim' \in Procs \cup {NoProc}, intr' \in [Procs -> BOOLEAN]
  PROVE  TypeInv'
<1>1. /\ mem' \in [Procs -> Run \cup {NoRecord}]
      /\ queue' \in [Procs -> Seq(Run)]
      /\ mem'[p] = r
      /\ \A q \in Procs \ {p} : mem'[q] = mem[q]
  BY IssueTypes
<1>2. /\ pc' \in [Procs -> Location]
      /\ \A q \in Procs \ {p} : pc'[q] = pc[q]
  BY DEF TypeInv, TypeOK, Go, Busy
<1>3. \A q \in Procs : pc'[q] # "idle" => mem'[q] \in Run
  BY <1>1, <1>2 DEF TypeInv
<1> QED BY <1>1, <1>2, <1>3 DEF TypeInv, TypeOK

\* A process that moves while everything it writes keeps its type.
LEMMA GoKeepsTypes ==
  ASSUME TypeInv, NEW p \in Procs, NEW from, NEW to \in Busy, Go(p, from, to),
         mem' \in [Procs -> Run \cup {NoRecord}], mem'[p] \in Run,
         \A q \in Procs \ {p} : mem'[q] = mem[q],
         audit' \in Seq(Entry), claim' \in Procs \cup {NoProc},
         cur' \in [Procs -> Progress], intr' \in [Procs -> BOOLEAN],
         queue' \in [Procs -> Seq(Run)], acts' \in [Steps -> Nat], UNCHANGED disk
  PROVE  TypeInv'
<1>1. /\ pc' \in [Procs -> Location]
      /\ \A q \in Procs \ {p} : pc'[q] = pc[q]
  BY DEF TypeInv, TypeOK, Go, Busy
<1>2. \A q \in Procs : pc'[q] # "idle" => mem'[q] \in Run
  BY <1>1 DEF TypeInv
<1> QED BY <1>1, <1>2 DEF TypeInv, TypeOK

\* A step of a process to another await, with its record replaced in memory only.
LEMMA MemKeepsTypes ==
  ASSUME TypeInv, NEW p \in Procs, NEW from, NEW to \in Busy, NEW r \in Run,
         Go(p, from, to), mem' = [mem EXCEPT ![p] = r],
         intr' \in [Procs -> BOOLEAN], UNCHANGED <<disk, audit, claim, cur, queue, acts>>
  PROVE  TypeInv'
<1>1. /\ mem' \in [Procs -> Run \cup {NoRecord}]
      /\ mem'[p] \in Run
      /\ \A q \in Procs \ {p} : mem'[q] = mem[q]
  BY DEF TypeInv, TypeOK
<1> QED BY <1>1, GoKeepsTypes DEF TypeInv, TypeOK

\* A step of a process to another await while only its progress, the log or
\* the counts of actions change.
LEMMA MoveKeepsTypes ==
  ASSUME TypeInv, NEW p \in Procs, NEW from \in Busy, NEW to \in Busy,
         Go(p, from, to), audit' \in Seq(Entry), cur' \in [Procs -> Progress],
         acts' \in [Steps -> Nat], UNCHANGED <<disk, claim, mem, intr, queue>>
  PROVE  TypeInv'
<1>1. pc[p] # "idle" BY DEF Go, Busy
<1>2. mem[p] \in Run BY <1>1 DEF TypeInv
<1> QED BY <1>2, GoKeepsTypes DEF TypeInv, TypeOK

-----------------------------------------------------------------------------
(* One step of a process, action by action.                                *)

\* The awaits are the model's own names.
LEMMA Awaits ==
  /\ InProgress \subseteq Scope /\ Scope \subseteq Busy
  /\ {"begin", "tries", "session", "late", "close", "promote", "final", "desk",
      "approving", "approved", "rejecting", "rejected", "results", "rebuild",
      "release"} \subseteq Busy
  /\ {"resolve", "heal", "acting", "journal", "dispatch", "reached", "verify",
      "restore", "evidence", "unrebuilt"} \subseteq Busy
BY DEF InProgress, Scope, Busy, Location

\* What a process holds while it is in an await.
LEMMA HoldsRecord ==
  ASSUME TypeInv, NEW p \in Procs, pc[p] \in Busy
  PROVE  mem[p] \in Run /\ cur[p] \in Progress
BY DEF TypeInv, TypeOK, Busy

\* A write that lands is a record.
LEMMA LandTypes ==
  ASSUME TypeInv, NEW p \in Procs, Land(p) PROVE TypeInv'
<1>1. PICK k \in DOMAIN queue[p] :
        /\ disk' = queue[p][k]
        /\ queue' = [queue EXCEPT ![p] = SubSeq(@, k + 1, Len(@))]
        /\ UNCHANGED <<audit, claim, pc, mem, cur, intr, acts>>
  BY DEF Land
<1>2. queue[p] \in Seq(Run) BY DEF TypeInv, TypeOK
<1>3. disk' \in Run BY <1>1, <1>2
<1>4. SubSeq(queue[p], k + 1, Len(queue[p])) \in Seq(Run)
  <2>1. k \in 1..Len(queue[p]) BY <1>2
  <2> QED BY <1>2, <2>1, SubSeqProperties
<1> QED BY <1>1, <1>3, <1>4 DEF TypeInv, TypeOK

\* Starting a run, and reaching its first step, keeps the types.
LEMMA StartTypes ==
  ASSUME TypeInv, NEW p \in Procs,
         StartRun(p) \/ Begun(p) \/ TriesRead(p) \/ SessionOpened(p)
  PROVE  TypeInv'
<1>1. CASE StartRun(p)
  BY <1>1, GoIssueKeepsTypes, NewRunType, Awaits DEF StartRun, TypeInv, TypeOK
<1>2. CASE Begun(p)
  BY <1>2, MoveKeepsTypes, Awaits DEF Begun, TypeInv, TypeOK
<1>3. CASE TriesRead(p)
  BY <1>3, MoveKeepsTypes, Awaits DEF TriesRead, TypeInv, TypeOK
<1>4. CASE SessionOpened(p)
  BY <1>4, MoveKeepsTypes, Awaits DEF SessionOpened, TypeInv, TypeOK
<1> QED BY <1>1, <1>2, <1>3, <1>4

\* Choosing what a step acts on keeps its progress.
LEMMA ViaType ==
  ASSUME NEW c \in Progress, NEW via \in Via
  PROVE  [c EXCEPT !.via = via] \in Progress
BY DEF Progress

\* Counting a heal keeps its progress.
LEMMA TriesType ==
  ASSUME NEW c \in Progress
  PROVE  [c EXCEPT !.tries = @ + 1] \in Progress
BY DEF Progress

\* Resolving, healing and proposing keep the types.
LEMMA ResolveTypes ==
  ASSUME TypeInv, NEW p \in Procs,
         \/ RecordedResolves(p) \/ PatchResolves(p) \/ Unresolved(p)
         \/ ResolveFails(p) \/ Abstain(p) \/ Propose(p) \/ AcceptHeal(p)
  PROVE  TypeInv'
<1>1. cur[p] \in Progress BY DEF TypeInv, TypeOK
<1>2. \A via \in Via : [cur[p] EXCEPT !.via = via] \in Progress
  BY <1>1, ViaType
<1>11. [cur[p] EXCEPT !.via = "healed", !.tries = @ + 1] \in Progress
  <2> DEFINE healed == [cur[p] EXCEPT !.via = "healed"]
  <2>1. healed \in Progress BY <1>2 DEF Via
  <2>2. healed.tries = cur[p].tries BY <1>1 DEF Progress
  <2> HIDE DEF healed
  <2>3. [healed EXCEPT !.tries = @ + 1] \in Progress BY <2>1, TriesType
  <2> QED BY <2>2, <2>3 DEF healed
<1>3. "failed" \in StepStatus /\ "awaiting" \in StepStatus
  BY DEF StepStatus, Stopping
<1>4. CASE RecordedResolves(p)
  BY <1>2, <1>4, StepKeepsTypes, Awaits DEF RecordedResolves, Via
<1>5. CASE PatchResolves(p)
  BY <1>2, <1>5, StepKeepsTypes, Awaits DEF PatchResolves, Via
<1>6. CASE Unresolved(p)
  BY <1>1, <1>6, StepKeepsTypes, Awaits DEF Unresolved
<1>7. CASE ResolveFails(p)
  BY <1>3, <1>7, RaiseKeepsTypes, Awaits DEF ResolveFails
<1>8. CASE Abstain(p)
  <2>1. PICK stale \in {FALSE, OnApproved(cur[p])} : Raise(p, "heal", "failed", stale)
    BY <1>8 DEF Abstain
  <2>2. stale \in BOOLEAN BY DEF OnApproved
  <2>3. "heal" \in Busy BY Awaits
  <2> QED BY <1>3, <2>1, <2>2, <2>3, RaiseKeepsTypes
<1>9. CASE Propose(p)
  BY <1>3, <1>9, RaiseKeepsTypes, Awaits DEF Propose
<1>10. CASE AcceptHeal(p)
  BY <1>10, <1>11, StepKeepsTypes, Awaits DEF AcceptHeal
<1> QED BY <1>4, <1>5, <1>6, <1>7, <1>8, <1>9, <1>10

\* Counting an action keeps the counts natural numbers, whatever else changes.
LEMMA ActsType ==
  ASSUME TypeInv, NEW S, acts' = Acted(S) PROVE acts' \in [Steps -> Nat]
BY ActedType DEF TypeInv

\* Acting and checking keep the types.
LEMMA ActTypes ==
  ASSUME TypeInv, NEW p \in Procs,
         \/ BeforeActionError(p) \/ ActFails(p) \/ JournalDispatch(p) \/ Dispatch(p)
         \/ Reach(p) \/ ActionReturns(p)
         \/ ChecksPass(p) \/ ChecksFail(p) \/ PageProblem(p)
  PROVE  TypeInv'
<1>1. cur[p] \in Progress BY DEF TypeInv, TypeOK
<1>2. /\ [cur[p] EXCEPT !.via = "none"] \in Progress
      /\ [cur[p] EXCEPT !.performed = TRUE] \in Progress
      /\ [cur[p] EXCEPT !.end = "succeeded"] \in Progress
  BY <1>1 DEF Progress, Via, StepStatus
<1>3. "failed" \in StepStatus /\ "needs_review" \in StepStatus
  BY DEF StepStatus, Stopping
<1>4. CASE BeforeActionError(p)
  <2>1. PICK from \in {"acting", "dispatch"} :
          \/ Raise(p, from, "failed", FALSE)
          \/ Step(p, from, "heal", [cur[p] EXCEPT !.via = "none"])
    BY <1>4 DEF BeforeActionError
  <2>2. from \in Busy /\ "heal" \in Busy BY Awaits
  <2>3. CASE Raise(p, from, "failed", FALSE)
    BY <1>3, <2>2, <2>3, RaiseKeepsTypes
  <2>4. CASE Step(p, from, "heal", [cur[p] EXCEPT !.via = "none"])
    BY <1>2, <2>2, <2>4, StepKeepsTypes
  <2> QED BY <2>1, <2>3, <2>4
<1>5. CASE ActFails(p)
  <2>1. PICK from \in {"acting", "dispatch", "reached"} : Raise(p, from, "failed", FALSE)
    BY <1>5 DEF ActFails
  <2>2. from \in Busy BY Awaits
  <2> QED BY <1>3, <2>1, <2>2, RaiseKeepsTypes
<1>6. CASE JournalDispatch(p)
  <2>1. /\ Go(p, "acting", "journal")
        /\ Issue(p, Journaled(mem[p], cur[p].step))
        /\ UNCHANGED <<disk, audit, claim, cur, intr, acts>>
        /\ cur[p].step \in Steps
    BY <1>6, StepsAssumption DEF JournalDispatch
  <2>2. mem[p] \in Run BY <2>1, Awaits, HoldsRecord DEF Go
  <2>3. Journaled(mem[p], cur[p].step) \in Run
    BY <2>1, <2>2 DEF Journaled, Run
  <2> QED BY <2>1, <2>3, Awaits, GoIssueKeepsTypes DEF TypeInv, TypeOK
<1>7. CASE Dispatch(p)
  <2>1. PICK from \in {"journal", "acting"} : Step(p, from, "dispatch", cur[p])
    BY <1>7 DEF Dispatch
  <2>2. from \in Busy /\ "dispatch" \in Busy BY Awaits
  <2> QED BY <1>1, <2>1, <2>2, StepKeepsTypes
<1>8. CASE Reach(p)
  <2>1. acts' \in [Steps -> Nat] BY <1>8, ActsType DEF Reach
  <2> QED BY <1>8, <2>1, Awaits, MoveKeepsTypes DEF Reach, TypeInv, TypeOK
<1>9. CASE ActionReturns(p)
  BY <1>2, <1>9, Awaits, StepKeepsTypes DEF ActionReturns
<1>10. CASE ChecksPass(p)
  BY <1>2, <1>10, Awaits, StepKeepsTypes DEF ChecksPass
<1>11. CASE ChecksFail(p)
  <2>1. "verify" \in Busy /\ "restore" \in Busy BY Awaits
  <2>2. CASE Step(p, "verify", "restore", cur[p])
    BY <1>1, <2>1, <2>2, StepKeepsTypes
  <2>3. CASE \E status \in {"failed", "needs_review"} : Raise(p, "verify", status, FALSE)
    BY <1>3, <2>1, <2>3, RaiseKeepsTypes
  <2> QED BY <1>11, <2>2, <2>3 DEF ChecksFail
<1>12. CASE PageProblem(p)
  BY <1>3, <1>12, Awaits, RaiseKeepsTypes DEF PageProblem
<1> QED BY <1>4, <1>5, <1>6, <1>7, <1>8, <1>9, <1>10, <1>11, <1>12

\* Restoring the page, and taking a step's evidence, keep the types.
LEMMA RestoreTypes ==
  ASSUME TypeInv, NEW p \in Procs,
         \/ Restored(p) \/ RestoreFails(p) \/ EvidenceTaken(p)
         \/ ScreenshotFails(p) \/ RecordResult(p)
  PROVE  TypeInv'
<1>1. cur[p] \in Progress BY DEF TypeInv, TypeOK
<1>2. "failed" \in StepStatus BY DEF StepStatus, Stopping
<1>3. CASE Restored(p)
  <2>1. acts' \in [Steps -> Nat] BY <1>3, ActsType DEF Restored
  <2>2. PICK to \in {"acting", "heal"}, via \in Via :
          Go(p, "restore", to) /\ Progressed(p, [cur[p] EXCEPT !.via = via, !.performed = FALSE])
    BY <1>3 DEF Restored, Via
  <2>3. [cur[p] EXCEPT !.via = via, !.performed = FALSE] \in Progress
    BY <1>1 DEF Progress
  <2>4. cur' \in [Procs -> Progress]
    BY <2>2, <2>3 DEF Progressed, TypeInv, TypeOK
  <2>5. to \in Busy BY Awaits
  <2> QED BY <1>3, <2>1, <2>2, <2>4, <2>5, Awaits, MoveKeepsTypes
          DEF Restored, TypeInv, TypeOK
<1>4. CASE RestoreFails(p)
  BY <1>2, <1>4, Awaits, RaiseKeepsTypes DEF RestoreFails
<1>5. CASE EvidenceTaken(p)
  BY <1>1, <1>5, Awaits, StepKeepsTypes DEF EvidenceTaken
<1>6. CASE ScreenshotFails(p)
  BY <1>2, <1>6, Awaits, RaiseKeepsTypes DEF ScreenshotFails
<1>7. CASE RecordResult(p)
  <2>1. PICK from \in {"release", "unrebuilt"} : Go(p, from, "results")
    BY <1>7 DEF RecordResult
  <2>2. mem[p] \in Run BY <2>1, Awaits, HoldsRecord DEF Go
  <2>3. WithResult(mem[p], cur[p]) \in Run BY <1>1, <2>2, WithResultType
  <2> QED BY <1>7, <2>1, <2>3, Awaits, GoIssueKeepsTypes DEF RecordResult, TypeInv, TypeOK
<1> QED BY <1>3, <1>4, <1>5, <1>6, <1>7

\* Going from step to step, and rebuilding the page, keep the types.
LEMMA NextStepTypes ==
  ASSUME TypeInv, NEW p \in Procs,
         \/ NextStep(p) \/ StepsDone(p) \/ Rebuild(p) \/ Rebuilt(p) \/ RebuildFails(p)
  PROVE  TypeInv'
<1>1. cur[p] \in Progress BY DEF TypeInv, TypeOK
<1>2. cur[p].step + 1 \in Nat /\ cur[p].approved \in Nat BY <1>1 DEF Progress
<1>3. /\ StepBegun(cur[p], cur[p].step + 1) \in Progress
      /\ StepBegun(cur[p], cur[p].approved) \in Progress
  BY <1>1, <1>2, StepBegunType
<1>4. CASE NextStep(p)
  <2>1. [cur[p] EXCEPT !.error = TRUE] \in Progress BY <1>1 DEF Progress
  <2> QED BY <1>3, <1>4, <2>1, Awaits, StepKeepsTypes DEF NextStep
<1>5. CASE StepsDone(p)
  BY <1>1, <1>5, Awaits, StepKeepsTypes DEF StepsDone
<1>6. CASE Rebuild(p)
  <2>1. acts' \in [Steps -> Nat] BY <1>6, ActsType DEF Rebuild
  <2>2. [cur[p] EXCEPT !.step = @ + 1] \in Progress BY <1>1 DEF Progress
  <2>3. cur' \in [Procs -> Progress]
    BY <1>6, <2>2 DEF Rebuild, Progressed, TypeInv, TypeOK
  <2> QED BY <1>6, <2>1, <2>3, Awaits, MoveKeepsTypes DEF Rebuild, TypeInv, TypeOK
<1>7. CASE Rebuilt(p)
  BY <1>3, <1>7, Awaits, StepKeepsTypes DEF Rebuilt
<1>8. CASE RebuildFails(p)
  <2> DEFINE begun == StepBegun(cur[p], cur[p].approved)
  <2>1. begun \in Progress BY <1>3
  <2> HIDE DEF begun
  <2>2. [begun EXCEPT !.end = "failed", !.stale = TRUE] \in Progress
    BY <2>1 DEF Progress, StepStatus, Stopping
  <2>3. Step(p, "rebuild", "unrebuilt", [begun EXCEPT !.end = "failed", !.stale = TRUE])
    BY <1>8 DEF RebuildFails, begun
  <2> QED BY <2>2, <2>3, Awaits, StepKeepsTypes
<1> QED BY <1>4, <1>5, <1>6, <1>7, <1>8

\* The run's time limit, and the end of an execution, keep the types.
LEMMA EndTypes ==
  ASSUME TypeInv, NEW p \in Procs,
         \/ ScopeExpires(p) \/ LateResult(p) \/ SessionFails(p) \/ Close(p) \/ Promoted(p)
  PROVE  TypeInv'
<1>1. cur[p] \in Progress BY DEF TypeInv, TypeOK
<1>2. CASE ScopeExpires(p)
  <2>1. CASE \E from \in InProgress :
               Step(p, from, "late",
                    [cur[p] EXCEPT !.end = "failed", !.stale = FALSE,
                                   !.unknown = from \in {"dispatch", "reached"}])
    <3>1. PICK from \in InProgress :
            Step(p, from, "late",
                 [cur[p] EXCEPT !.end = "failed", !.stale = FALSE,
                                !.unknown = from \in {"dispatch", "reached"}])
      BY <2>1
    <3>2. \A unknown \in BOOLEAN :
            [cur[p] EXCEPT !.end = "failed", !.stale = FALSE, !.unknown = unknown] \in Progress
      BY <1>1 DEF Progress, StepStatus, Stopping
    <3>3. from \in Busy /\ "late" \in Busy BY Awaits
    <3>4. (from \in {"dispatch", "reached"}) \in BOOLEAN OBVIOUS
    <3> QED BY <3>1, <3>2, <3>3, <3>4, StepKeepsTypes
  <2>2. CASE \E from \in Scope \ InProgress : Step(p, from, "close", cur[p])
    BY <1>1, <2>2, Awaits, StepKeepsTypes
  <2> QED BY <1>2, <2>1, <2>2 DEF ScopeExpires
<1>3. CASE LateResult(p)
  <2>1. mem[p] \in Run BY <1>3, Awaits, HoldsRecord DEF LateResult, Go
  <2>2. WithResult(mem[p], cur[p]) \in Run BY <1>1, <2>1, WithResultType
  <2> QED BY <1>3, <2>2, Awaits, MemKeepsTypes DEF LateResult, TypeInv, TypeOK
<1>4. CASE SessionFails(p)
  <2>1. mem[p] \in Run BY <1>4, Awaits, HoldsRecord DEF SessionFails, Go
  <2>2. "failed" \in RunStatus BY DEF RunStatus, Terminal
  <2>3. Finished(mem[p], cur[p].approved, "failed") \in Run BY <2>1, <2>2, FinishedType
  <2> QED BY <1>4, <2>3, Awaits, MemKeepsTypes DEF SessionFails, TypeInv, TypeOK
<1>5. CASE Close(p)
  <2>1. mem[p] \in Run BY <1>5, Awaits, HoldsRecord DEF Close, Go
  <2>2. RunOutcome(mem[p], cur[p].error) \in RunStatus
    BY <1>1, <2>1, RunOutcomeType DEF Progress
  <2>3. Finished(mem[p], cur[p].approved, RunOutcome(mem[p], cur[p].error)) \in Run
    BY <2>1, <2>2, FinishedType
  <2> QED BY <1>5, <2>3, Awaits, MemKeepsTypes DEF Close, TypeInv, TypeOK
<1>6. CASE Promoted(p)
  <2>1. mem[p] \in Run BY <1>6, Awaits, HoldsRecord DEF Promoted, Go
  <2> QED BY <1>6, <2>1, Awaits, GoIssueKeepsTypes DEF Promoted, TypeInv, TypeOK
<1> QED BY <1>2, <1>3, <1>4, <1>5, <1>6

\* A command that ends keeps the types, whatever becomes of the record on disk
\* and of its own writes.
LEMMA EndOfCommandTypes ==
  ASSUME TypeInv, NEW p \in Procs, Leave(p), disk' \in Run \cup {NoRecord},
         queue' \in [Procs -> Seq(Run)], UNCHANGED <<audit, acts>>
  PROVE  TypeInv'
BY LeaveTypes DEF TypeInv, TypeOK

\* Deciding a proposal, and resuming the run, keep the types.
LEMMA DecisionTypes ==
  ASSUME TypeInv, NEW p \in Procs,
         \/ StartDesk(p) \/ Refuse(p) \/ Approve(p) \/ Reject(p)
         \/ RecordApproval(p) \/ RecordRejection(p) \/ Resume(p)
  PROVE  TypeInv'
<1>1. cur[p] \in Progress BY DEF TypeInv, TypeOK
<1>2. CASE StartDesk(p)
  <2> DEFINE left == AsLeft(disk, audit)
  <2>1. left \in Run BY <1>2, AsLeftType DEF StartDesk, TypeInv, TypeOK
  <2> HIDE DEF left
  <2>2. /\ Go(p, "idle", "desk")
        /\ claim' = p
        /\ mem' = [mem EXCEPT ![p] = left]
        /\ queue' = IF left = disk THEN queue
                    ELSE [queue EXCEPT ![p] = Append(@, left)]
        /\ UNCHANGED <<disk, audit, cur, intr, acts>>
    BY <1>2 DEF StartDesk, left
  <2>3. Append(queue[p], left) \in Seq(Run) BY <2>1 DEF TypeInv, TypeOK
  <2>4. queue' \in [Procs -> Seq(Run)] BY <2>2, <2>3 DEF TypeInv, TypeOK
  <2>5. /\ mem' \in [Procs -> Run \cup {NoRecord}]
        /\ mem'[p] \in Run
        /\ \A q \in Procs \ {p} : mem'[q] = mem[q]
    BY <2>1, <2>2 DEF TypeInv, TypeOK
  <2> QED BY <2>2, <2>4, <2>5, Awaits, GoKeepsTypes DEF TypeInv, TypeOK
<1>3. CASE Refuse(p)
  BY <1>3, EndOfCommandTypes DEF Refuse, TypeInv, TypeOK
<1>4. CASE Approve(p) \/ Reject(p)
  <2>1. PICK i \in Steps, kind \in {"approved", "rejected"}, to \in {"approving", "rejecting"} :
          Decide(p, i, kind, to)
    BY <1>4 DEF Approve, Reject
  <2>2. [step |-> i, kind |-> kind] \in Entry BY DEF Entry
  <2>3. audit' \in Seq(Entry) BY <2>1, <2>2 DEF Decide, TypeInv, TypeOK
  <2>4. [cur[p] EXCEPT !.approved = i] \in Progress BY <1>1 DEF Progress, Steps
  <2>5. cur' \in [Procs -> Progress]
    BY <2>1, <2>4 DEF Decide, Progressed, TypeInv, TypeOK
  <2>6. to \in Busy /\ "desk" \in Busy BY Awaits
  <2>7. Go(p, "desk", to) /\ UNCHANGED <<disk, claim, mem, intr, queue, acts>>
    BY <2>1 DEF Decide
  <2> QED BY <2>3, <2>5, <2>6, <2>7, MoveKeepsTypes DEF TypeInv, TypeOK
<1>5. CASE RecordApproval(p)
  <2>1. mem[p] \in Run BY <1>5, Awaits, HoldsRecord DEF RecordApproval, Go
  <2>2. Decided(mem[p], cur[p].approved, "approved") \in Run BY <2>1, DecidedType
  <2> QED BY <1>5, <2>2, Awaits, GoIssueKeepsTypes DEF RecordApproval, TypeInv, TypeOK
<1>6. CASE RecordRejection(p)
  <2>1. mem[p] \in Run BY <1>6, Awaits, HoldsRecord DEF RecordRejection, Go
  <2>2. Rejected(mem[p], cur[p].approved) \in Run BY <2>1, RejectedType
  <2> QED BY <1>6, <2>2, Awaits, GoIssueKeepsTypes DEF RecordRejection, TypeInv, TypeOK
<1>7. CASE Resume(p)
  <2>1. mem[p] \in Run BY <1>7, Awaits, HoldsRecord DEF Resume, Go
  <2>2. PICK r \in {NotResumed(mem[p], cur[p].approved), Resumed(mem[p], cur[p].approved)},
             to \in {"final", "begin"} :
          Go(p, "approved", to) /\ Issue(p, r)
    BY <1>7 DEF Resume
  <2>3. r \in Run BY <2>1, <2>2, NotResumedType, ResumedType
  <2>4. to \in Busy BY Awaits
  <2> QED BY <1>7, <2>2, <2>3, <2>4, GoIssueKeepsTypes DEF Resume, TypeInv, TypeOK
<1> QED BY <1>2, <1>3, <1>4, <1>5, <1>6, <1>7

\* Interrupts, aborts, crashes and the end of a command keep the types.
LEMMA InterruptTypes ==
  ASSUME TypeInv, NEW p \in Procs, Interrupt(p) \/ Crash(p) \/ Done(p)
  PROVE  TypeInv'
<1>1. cur[p] \in Progress BY DEF TypeInv, TypeOK
<1>2. ASSUME Interrupted(p) PROVE intr' \in [Procs -> BOOLEAN]
  BY <1>2 DEF Interrupted, TypeInv, TypeOK
<1>3. CASE InterruptBegin(p)
  <2>1. mem[p] \in Run BY <1>3, Awaits, HoldsRecord DEF InterruptBegin, Go
  <2>2. EndedRun(mem[p], FALSE) \in Run BY <2>1, EndedRunType
  <2>3. PICK r \in Run : Issue(p, r)
    BY <1>3, <2>2, SettleType DEF InterruptBegin
  <2> QED BY <1>2, <1>3, <2>3, Awaits, GoIssueKeepsTypes DEF InterruptBegin, TypeInv, TypeOK
<1>4. CASE InterruptLeaves(p) \/ Done(p)
  BY <1>4, EndOfCommandTypes DEF InterruptLeaves, Done, TypeInv, TypeOK
<1>5. CASE InterruptRun(p)
  <2>1. PICK from \in Scope \cup {"late", "session", "close"} : Go(p, from, "promote")
    BY <1>5 DEF InterruptRun
  <2>2. from \in Busy BY Awaits
  <2>3. mem[p] \in Run BY <2>1, <2>2, HoldsRecord DEF Go
  <2> DEFINE result == CancelledResult(cur[p], pc[p])
             stopped == IF pc[p] \in InProgress \cup {"late"}
                        THEN [mem[p] EXCEPT !.steps[cur[p].step] = result]
                        ELSE mem[p]
  <2>4. result \in StepResult
    BY <1>1 DEF CancelledResult, Result, StepResult, Progress, StepStatus, Stopping
  <2>5. stopped \in Run BY <2>3, <2>4 DEF Run
  <2>6. InterruptedStatus(mem[p].dispatched) \in RunStatus
    BY DEF InterruptedStatus, RunStatus, Terminal
  <2>7. RunOutcome(mem[p], cur[p].error) \in RunStatus
    BY <1>1, <2>3, RunOutcomeType DEF Progress
  <2> HIDE DEF result
  <2>8. mem' = [mem EXCEPT ![p] =
          IF Stopped(mem[p]) \/ Complete(mem[p])
          THEN Finished(mem[p], cur[p].approved, RunOutcome(mem[p], cur[p].error))
          ELSE Finished(stopped, cur[p].approved, InterruptedStatus(mem[p].dispatched))]
    BY <1>5 DEF InterruptRun, result
  <2> HIDE DEF stopped
  <2>9. /\ Finished(mem[p], cur[p].approved, RunOutcome(mem[p], cur[p].error)) \in Run
        /\ Finished(stopped, cur[p].approved, InterruptedStatus(mem[p].dispatched)) \in Run
    BY <2>3, <2>5, <2>6, <2>7, FinishedType
  <2>10. PICK r \in Run : mem' = [mem EXCEPT ![p] = r] BY <2>8, <2>9
  <2>11. "promote" \in Busy BY Awaits
  <2>12. /\ Interrupted(p)
         /\ UNCHANGED <<disk, audit, claim, cur, queue, acts>>
    BY <1>5 DEF InterruptRun
  <2>13. intr' \in [Procs -> BOOLEAN] BY <1>2, <2>12
  <2> QED BY <2>1, <2>10, <2>11, <2>12, <2>13, MemKeepsTypes
<1>6. CASE InterruptWaits(p)
  BY <1>2, <1>6 DEF InterruptWaits, TypeInv, TypeOK
<1>7. CASE Abort(p)
  <2>1. disk' \in Run BY <1>7, EndedRunType DEF Abort, TypeInv, TypeOK
  <2>2. queue' \in [Procs -> Seq(Run)] BY <1>7 DEF Abort, TypeInv, TypeOK
  <2> QED BY <1>7, <2>1, <2>2, EndOfCommandTypes DEF Abort
<1>8. CASE Crash(p)
  <2>1. queue' \in [Procs -> Seq(Run)] BY <1>8 DEF Crash, TypeInv, TypeOK
  <2> QED BY <1>8, <2>1, EndOfCommandTypes DEF Crash, TypeInv, TypeOK
<1> QED BY <1>3, <1>4, <1>5, <1>6, <1>7, <1>8 DEF Interrupt

-----------------------------------------------------------------------------
(* Type correctness.                                                       *)

\* The types are an inductive invariant.
LEMMA TypeInduction == TypeInv /\ [Next]_vars => TypeInv'
<1> SUFFICES ASSUME TypeInv, [Next]_vars PROVE TypeInv'
  OBVIOUS
<1>1. CASE UNCHANGED vars
  BY <1>1 DEF vars, TypeInv, TypeOK
<1>2. CASE Next
  <2>1. PICK p \in Procs : Work(p) \/ Ask(p) \/ Interrupt(p) \/ Crash(p)
    BY <1>2 DEF Next
  <2>2. CASE Work(p)
    BY <2>2, LandTypes, StartTypes, ResolveTypes, ActTypes, RestoreTypes,
       NextStepTypes, EndTypes, DecisionTypes, InterruptTypes DEF Work
  <2>3. CASE Ask(p)
    BY <2>3, StartTypes, DecisionTypes DEF Ask
  <2>4. CASE Interrupt(p) \/ Crash(p)
    BY <2>4, InterruptTypes
  <2> QED BY <2>1, <2>2, <2>3, <2>4
<1> QED BY <1>1, <1>2

\* Every reachable state is typed: whatever is interrupted, aborted or killed,
\* run.json holds a whole record and a working process holds one in memory.
THEOREM TypeCorrect == Spec => []TypeOK
<1>1. Init => TypeInv
  BY FreshType, LifecycleAssumption DEF Init, TypeInv, TypeOK, Location
<1>2. TypeInv => TypeOK BY DEF TypeInv
<1> QED BY <1>1, <1>2, TypeInduction, PTL DEF Spec

-----------------------------------------------------------------------------
(* One worker.  A process enters the run only when nobody holds the claim, *)
(* moves within it without touching the claim, and leaves it by giving up  *)
(* its own claim and no other's.                                           *)

Enters(p) ==
  /\ claim = NoProc /\ claim' = p
  /\ \E to \in Busy : Go(p, "idle", to)

Moves(p) ==
  /\ claim' = claim
  /\ pc' = pc \/ \E from, to \in Busy : Go(p, from, to)

\* Moving within a step leaves the claim alone.
LEMMA StepMoves ==
  ASSUME NEW p, NEW from \in Busy, NEW to \in Busy, NEW c, Step(p, from, to, c)
  PROVE  Moves(p)
BY DEF Step, Moves

\* Ending a step with an error leaves the claim alone.
LEMMA RaiseMoves ==
  ASSUME NEW p, NEW from \in Busy, NEW status, NEW stale, Raise(p, from, status, stale)
  PROVE  Moves(p)
<1>1. "evidence" \in Busy BY Awaits
<1> QED BY <1>1, StepMoves DEF Raise

\* What a process does on its own moves it within the run, or ends its command.
LEMMA WorkMoves ==
  ASSUME NEW p \in Procs, Work(p) PROVE Moves(p) \/ Leave(p)
<1>1. CASE Land(p)
  BY <1>1 DEF Land, Moves
<1>2. CASE Begun(p) \/ TriesRead(p) \/ SessionOpened(p) \/ SessionFails(p)
  BY <1>2, Awaits DEF Begun, TriesRead, SessionOpened, SessionFails, Moves
<1>3. CASE Rebuild(p) \/ Rebuilt(p) \/ RebuildFails(p)
  BY <1>3, Awaits DEF Rebuild, Rebuilt, RebuildFails, Step, Moves
<1>4. CASE NextStep(p) \/ StepsDone(p)
  BY <1>4, Awaits DEF NextStep, StepsDone, Step, Moves
<1>5. CASE RecordedResolves(p) \/ PatchResolves(p) \/ Unresolved(p) \/ ResolveFails(p)
  BY <1>5, Awaits, RaiseMoves
  DEF RecordedResolves, PatchResolves, Unresolved, ResolveFails, Step, Moves
<1>6. CASE Abstain(p) \/ Propose(p) \/ AcceptHeal(p)
  BY <1>6, Awaits, RaiseMoves DEF Abstain, Propose, AcceptHeal, Step, Moves
<1>7. CASE BeforeActionError(p) \/ ActFails(p)
  <2>1. PICK from \in {"acting", "dispatch", "reached"} :
          \/ Raise(p, from, "failed", FALSE)
          \/ Step(p, from, "heal", [cur[p] EXCEPT !.via = "none"])
    BY <1>7 DEF BeforeActionError, ActFails
  <2>2. from \in Busy /\ "heal" \in Busy BY Awaits
  <2> QED BY <2>1, <2>2, StepMoves, RaiseMoves
<1>8. CASE JournalDispatch(p) \/ Dispatch(p) \/ Reach(p) \/ ActionReturns(p)
  BY <1>8, Awaits DEF JournalDispatch, Dispatch, Reach, ActionReturns, Step, Moves
<1>9. CASE ChecksPass(p) \/ ChecksFail(p) \/ PageProblem(p)
  <2>1. \/ Step(p, "verify", "evidence", [cur[p] EXCEPT !.end = "succeeded"])
        \/ Step(p, "verify", "restore", cur[p])
        \/ \E status : Raise(p, "verify", status, FALSE)
    BY <1>9 DEF ChecksPass, ChecksFail, PageProblem
  <2> QED BY <2>1, Awaits, StepMoves, RaiseMoves
<1>10. CASE Restored(p) \/ RestoreFails(p)
  BY <1>10, Awaits, RaiseMoves DEF Restored, RestoreFails, Moves
<1>11. CASE EvidenceTaken(p) \/ ScreenshotFails(p) \/ RecordResult(p)
  BY <1>11, Awaits, RaiseMoves DEF EvidenceTaken, ScreenshotFails, RecordResult, Step, Moves
<1>12. CASE ScopeExpires(p) \/ LateResult(p)
  BY <1>12, Awaits DEF ScopeExpires, LateResult, Step, Moves
<1>13. CASE Close(p) \/ Promoted(p) \/ Done(p)
  BY <1>13, Awaits DEF Close, Promoted, Done, Moves
<1>14. CASE Refuse(p) \/ RecordApproval(p) \/ RecordRejection(p) \/ Resume(p)
  BY <1>14, Awaits DEF Refuse, RecordApproval, RecordRejection, Resume, Moves
<1> QED BY <1>1, <1>2, <1>3, <1>4, <1>5, <1>6, <1>7, <1>8, <1>9, <1>10, <1>11,
           <1>12, <1>13, <1>14 DEF Work

\* Whatever a process does enters, moves within or leaves the run.
LEMMA EveryStepMoves ==
  ASSUME NEW p \in Procs, Work(p) \/ Ask(p) \/ Interrupt(p) \/ Crash(p)
  PROVE  Enters(p) \/ Moves(p) \/ Leave(p)
<1>1. CASE StartRun(p) \/ StartDesk(p)
  BY <1>1, Awaits DEF StartRun, StartDesk, Unclaimed, Enters
<1>2. CASE Approve(p) \/ Reject(p)
  BY <1>2, Awaits DEF Approve, Reject, Decide, Moves
<1>3. CASE InterruptBegin(p) \/ InterruptRun(p) \/ InterruptWaits(p)
  BY <1>3, Awaits DEF InterruptBegin, InterruptRun, InterruptWaits, Moves
<1>4. CASE InterruptLeaves(p) \/ Abort(p) \/ Crash(p)
  BY <1>4 DEF InterruptLeaves, Abort, Crash
<1> QED BY <1>1, <1>2, <1>3, <1>4, WorkMoves DEF Ask, Interrupt

\* One worker, with the types it needs, is inductive.
LEMMA WorkerInduction ==
  TypeInv /\ OneWorker /\ [Next]_vars => OneWorker'
<1> SUFFICES ASSUME TypeInv, OneWorker, [Next]_vars PROVE OneWorker'
  OBVIOUS
<1>1. CASE UNCHANGED vars
  BY <1>1 DEF vars, OneWorker
<1>2. ASSUME NEW p \in Procs, Enters(p) \/ Moves(p) \/ Leave(p) PROVE OneWorker'
  <2>1. pc \in [Procs -> Location] BY DEF TypeInv, TypeOK
  <2>2. CASE Enters(p)
    BY <2>1, <2>2, LifecycleAssumption DEF Enters, Go, OneWorker
  <2>3. CASE Moves(p)
    BY <2>1, <2>3 DEF Moves, Go, Busy, OneWorker
  <2>4. CASE Leave(p)
    BY <2>1, <2>4 DEF Leave, OneWorker
  <2> QED BY <1>2, <2>2, <2>3, <2>4
<1> QED BY <1>1, <1>2, EveryStepMoves DEF Next

\* For any number of commands: only one at a time works on the run, and it
\* holds the claim, whatever is interrupted, aborted or killed.
THEOREM OnlyOneWorker == Spec => []OneWorker
<1>1. Init => TypeInv /\ OneWorker
  BY FreshType, LifecycleAssumption DEF Init, TypeInv, TypeOK, Location, OneWorker
<1> QED BY <1>1, TypeInduction, WorkerInduction, PTL DEF Spec

-----------------------------------------------------------------------------
(* A healed action is approved.  HealedActIsApproved alone is not inductive: *)
(* what is sent was decided several awaits before, so the step a process is  *)
(* resuming must be in the log from the decision on, and a heal must still   *)
(* be the one that was allowed when its action is sent.                      *)

Undecided == {"idle", "desk"}
Declined == {"rejecting", "rejected"}
WithTarget == {"acting", "journal", "dispatch", "reached"}

ApprovedIsLogged(p) ==
  /\ pc[p] \in Undecided => cur[p].approved = 0
  /\ pc[p] \notin Declined /\ cur[p].approved # 0 => Approvals(cur[p].approved) # {}

HealIsAllowed(p) ==
  pc[p] \in WithTarget /\ cur[p].via = "healed" => HealMayAct(cur[p])

ApprovalInv == \A p \in Procs : ApprovedIsLogged(p) /\ HealIsAllowed(p)

\* The process keeps what it is resuming, in an await of the same part of its
\* command, and if it comes by a healed target it was allowed to.
Executes(p) ==
  /\ audit' = audit
  /\ \E c \in Progress : cur' = [cur EXCEPT ![p] = c] /\ c.approved = cur[p].approved
  /\ pc'[p] \in Undecided => pc[p] \in Undecided
  /\ pc[p] \in Declined => pc'[p] \in Declined
  /\ \/ pc'[p] \notin WithTarget
     \/ cur'[p].via # "healed"
     \/ HealMayAct(cur'[p])
     \/ cur'[p] = cur[p] /\ pc[p] \in WithTarget

\* The entries of the log stay where they are.
LEMMA LogGrows ==
  ASSUME TypeInv, NEW e \in Entry, audit' = Append(audit, e), NEW i
  PROVE  Approvals(i) \subseteq Approvals(i)'
BY DEF TypeInv, TypeOK, Approvals

\* The part of a step that only moves from one await to another.
LEMMA GoExecutes ==
  ASSUME TypeInv, NEW p \in Procs, NEW from \in Location, NEW to \in Busy, Go(p, from, to),
         UNCHANGED <<audit, cur>>,
         to = "desk" => from \in Undecided, from \notin Declined \/ to \in Declined,
         to \notin WithTarget \/ from \in WithTarget
  PROVE  Executes(p)
BY DEF TypeInv, TypeOK, Go, Executes, Busy, Undecided, Declined, WithTarget
\* The part of a step that only moves within it.
LEMMA StepExecutes ==
  ASSUME TypeInv, NEW p \in Procs, NEW from \in Scope, NEW to \in Scope \cup {"late", "close"},
         NEW c \in Progress, c.approved = cur[p].approved, Step(p, from, to, c),
         \/ to \notin WithTarget
         \/ c.via # "healed" \/ HealMayAct(c)
         \/ c = cur[p] /\ from \in WithTarget
  PROVE  Executes(p)
<1>1. pc[p] = from /\ pc'[p] = to /\ cur'[p] = c /\ audit' = audit
  BY DEF TypeInv, TypeOK, Step, Go, Progressed, Scope, InProgress
<1>2. /\ from \notin Undecided \cup Declined
      /\ to \notin Undecided \cup Declined
  BY DEF Scope, InProgress, Undecided, Declined
<1> QED BY <1>1, <1>2 DEF Step, Progressed, Executes

\* Ending a step with an error leads to no action.
LEMMA RaiseExecutes ==
  ASSUME TypeInv, NEW p \in Procs, NEW from \in Scope, NEW status \in StepStatus,
         NEW stale \in BOOLEAN, Raise(p, from, status, stale)
  PROVE  Executes(p)
<1>1. cur[p] \in Progress BY DEF TypeInv, TypeOK
<1>2. PICK c \in {[cur[p] EXCEPT !.end = status, !.stale = stale],
                  [cur[p] EXCEPT !.end = "failed"]} :
        Step(p, from, "evidence", c)
  BY DEF Raise
<1>3. c \in Progress /\ c.approved = cur[p].approved
  BY <1>1, <1>2 DEF Progress, StepStatus, Stopping
<1>4. "evidence" \in Scope /\ "evidence" \notin WithTarget
  BY DEF Scope, InProgress, WithTarget
<1> QED BY <1>2, <1>3, <1>4, StepExecutes

\* A step begun keeps the approval that is resumed, and no healed target.
LEMMA StepBegunKeeps ==
  ASSUME NEW c \in Progress, NEW s \in Nat
  PROVE  StepBegun(c, s).approved = c.approved /\ StepBegun(c, s).via = "none"
BY DEF StepBegun, Fresh, Progress

\* Resolving and healing act only where they may.
LEMMA ResolveExecutes ==
  ASSUME TypeInv, NEW p \in Procs,
         \/ RecordedResolves(p) \/ PatchResolves(p) \/ Unresolved(p)
         \/ ResolveFails(p) \/ Abstain(p) \/ Propose(p) \/ AcceptHeal(p)
  PROVE  Executes(p)
<1>1. cur[p] \in Progress BY DEF TypeInv, TypeOK
<1>2. {"resolve", "heal", "acting"} \subseteq Scope /\ "heal" \notin WithTarget
  BY DEF Scope, InProgress, WithTarget
<1>3. "failed" \in StepStatus /\ "awaiting" \in StepStatus
  BY DEF StepStatus, Stopping
<1>4. CASE RecordedResolves(p) \/ PatchResolves(p)
  <2>1. PICK via \in {"recorded", "patch"} :
          Step(p, "resolve", "acting", [cur[p] EXCEPT !.via = via])
    BY <1>4 DEF RecordedResolves, PatchResolves
  <2> DEFINE c == [cur[p] EXCEPT !.via = via]
  <2>2. c \in Progress BY <1>1, ViaType DEF Via
  <2>3. c.approved = cur[p].approved /\ c.via # "healed" BY <1>1 DEF Progress
  <2>4. Step(p, "resolve", "acting", c) BY <2>1
  <2> HIDE DEF c
  <2> QED BY <1>2, <2>2, <2>3, <2>4, StepExecutes
<1>5. CASE Unresolved(p)
  BY <1>1, <1>2, <1>5, StepExecutes DEF Unresolved
<1>6. CASE ResolveFails(p) \/ Propose(p)
  BY <1>2, <1>3, <1>6, RaiseExecutes DEF ResolveFails, Propose
<1>7. CASE Abstain(p)
  <2>1. PICK stale \in {FALSE, OnApproved(cur[p])} : Raise(p, "heal", "failed", stale)
    BY <1>7 DEF Abstain
  <2>2. stale \in BOOLEAN BY DEF OnApproved
  <2> QED BY <1>2, <1>3, <2>1, <2>2, RaiseExecutes
<1>8. CASE AcceptHeal(p)
  <2> DEFINE healed == [cur[p] EXCEPT !.via = "healed"]
             c == [healed EXCEPT !.tries = @ + 1]
  <2>1. healed \in Progress BY <1>1, ViaType DEF Via
  <2>2. /\ healed.approved = cur[p].approved /\ healed.step = cur[p].step
        /\ healed.tries = cur[p].tries
    BY <1>1 DEF Progress
  <2>3. Step(p, "heal", "acting", c) /\ HealMayAct(cur[p])
    BY <1>8, <2>2 DEF AcceptHeal
  <2> HIDE DEF healed
  <2>4. c \in Progress BY <2>1, TriesType
  <2>5. c.approved = healed.approved /\ c.step = healed.step
    BY <2>1 DEF Progress
  <2> HIDE DEF c
  <2>6. HealMayAct(c) BY <2>2, <2>3, <2>5 DEF HealMayAct, OnApproved
  <2> QED BY <1>2, <2>2, <2>3, <2>4, <2>5, <2>6, StepExecutes
<1> QED BY <1>4, <1>5, <1>6, <1>7, <1>8

\* Acting and checking send only what was resolved or allowed.
LEMMA ActExecutes ==
  ASSUME TypeInv, NEW p \in Procs,
         \/ BeforeActionError(p) \/ ActFails(p) \/ JournalDispatch(p) \/ Dispatch(p)
         \/ Reach(p) \/ ActionReturns(p)
         \/ ChecksPass(p) \/ ChecksFail(p) \/ PageProblem(p)
  PROVE  Executes(p)
<1>1. cur[p] \in Progress BY DEF TypeInv, TypeOK
<1>2. /\ {"acting", "journal", "dispatch", "reached", "heal", "verify", "restore",
          "evidence"} \subseteq Scope
      /\ {"heal", "verify", "restore", "evidence"} \cap WithTarget = {}
      /\ {"acting", "journal", "dispatch", "reached"} \subseteq WithTarget
  BY DEF Scope, InProgress, WithTarget
<1>3. "failed" \in StepStatus /\ "needs_review" \in StepStatus
  BY DEF StepStatus, Stopping
<1>4. CASE BeforeActionError(p) \/ ActFails(p)
  <2>1. PICK from \in {"acting", "dispatch", "reached"} :
          \/ Raise(p, from, "failed", FALSE)
          \/ Step(p, from, "heal", [cur[p] EXCEPT !.via = "none"])
    BY <1>4 DEF BeforeActionError, ActFails
  <2> DEFINE c == [cur[p] EXCEPT !.via = "none"]
  <2>2. c \in Progress /\ c.approved = cur[p].approved BY <1>1 DEF Progress, Via
  <2>3. from \in Scope /\ "heal" \in Scope /\ "heal" \notin WithTarget BY <1>2
  <2>4. CASE Raise(p, from, "failed", FALSE)
    BY <1>3, <2>3, <2>4, RaiseExecutes
  <2>5. CASE Step(p, from, "heal", c)
    <3> HIDE DEF c
    <3> QED BY <2>2, <2>3, <2>5, StepExecutes
  <2> QED BY <2>1, <2>4, <2>5
<1>5. CASE JournalDispatch(p)
  BY <1>2, <1>5, GoExecutes
  DEF JournalDispatch, Busy, Location, Scope, InProgress, Declined
<1>6. CASE Dispatch(p)
  <2>1. PICK from \in {"journal", "acting"} : Step(p, from, "dispatch", cur[p])
    BY <1>6 DEF Dispatch
  <2> QED BY <1>1, <1>2, <2>1, StepExecutes
<1>7. CASE Reach(p)
  BY <1>2, <1>7, GoExecutes DEF Reach, Busy, Location, Scope, InProgress, Declined
<1>8. CASE ActionReturns(p) \/ ChecksPass(p)
  <2>1. PICK from \in {"reached", "verify"}, to \in {"verify", "evidence"},
             c \in {[cur[p] EXCEPT !.performed = TRUE], [cur[p] EXCEPT !.end = "succeeded"]} :
          Step(p, from, to, c)
    BY <1>8 DEF ActionReturns, ChecksPass
  <2>2. c \in Progress /\ c.approved = cur[p].approved
    BY <1>1, <2>1 DEF Progress, StepStatus
  <2>3. from \in Scope /\ to \in Scope /\ to \notin WithTarget BY <1>2
  <2> QED BY <2>1, <2>2, <2>3, StepExecutes
<1>9. CASE ChecksFail(p) \/ PageProblem(p)
  <2>1. \/ Step(p, "verify", "restore", cur[p])
        \/ \E status \in {"failed", "needs_review"} : Raise(p, "verify", status, FALSE)
    BY <1>9 DEF ChecksFail, PageProblem
  <2>2. CASE Step(p, "verify", "restore", cur[p])
    BY <1>1, <1>2, <2>2, StepExecutes
  <2>3. CASE \E status \in {"failed", "needs_review"} : Raise(p, "verify", status, FALSE)
    BY <1>2, <1>3, <2>3, RaiseExecutes
  <2> QED BY <2>1, <2>2, <2>3
<1> QED BY <1>4, <1>5, <1>6, <1>7, <1>8, <1>9
\* Restoring the page and recording a result send nothing healed.
LEMMA RestoreExecutes ==
  ASSUME TypeInv, NEW p \in Procs,
         \/ Restored(p) \/ RestoreFails(p) \/ EvidenceTaken(p)
         \/ ScreenshotFails(p) \/ RecordResult(p)
  PROVE  Executes(p)
<1>1. cur[p] \in Progress BY DEF TypeInv, TypeOK
<1>2. /\ {"restore", "evidence", "release", "unrebuilt", "results"} \subseteq Scope
      /\ "release" \notin WithTarget /\ "results" \notin WithTarget
  BY DEF Scope, InProgress, WithTarget
<1>3. "failed" \in StepStatus BY DEF StepStatus, Stopping
<1>4. CASE Restored(p)
  <2>1. PICK to \in {"acting", "heal"}, via \in {"recorded", "none"} :
          /\ Go(p, "restore", to)
          /\ Progressed(p, [cur[p] EXCEPT !.via = via, !.performed = FALSE])
    BY <1>4 DEF Restored
  <2> DEFINE c == [cur[p] EXCEPT !.via = via, !.performed = FALSE]
  <2>2. c \in Progress /\ c.approved = cur[p].approved /\ c.via # "healed"
    BY <1>1 DEF Progress, Via
  <2>3. audit' = audit /\ cur' = [cur EXCEPT ![p] = c] BY <1>4, <2>1 DEF Restored, Progressed
  <2> HIDE DEF c
  <2>4. cur'[p] = c BY <2>3 DEF TypeInv, TypeOK
  <2>5. pc'[p] \notin Undecided /\ pc[p] \notin Declined
    BY <2>1 DEF Go, TypeInv, TypeOK, Undecided, Declined
  <2> QED BY <2>2, <2>3, <2>4, <2>5 DEF Executes
<1>5. CASE RestoreFails(p) \/ ScreenshotFails(p)
  BY <1>2, <1>3, <1>5, RaiseExecutes DEF RestoreFails, ScreenshotFails
<1>6. CASE EvidenceTaken(p)
  BY <1>1, <1>2, <1>6, StepExecutes DEF EvidenceTaken
<1>7. CASE RecordResult(p)
  BY <1>2, <1>7, GoExecutes
  DEF RecordResult, Busy, Location, Scope, InProgress, Declined, WithTarget
<1> QED BY <1>4, <1>5, <1>6, <1>7

\* The next step begins with nothing to act on.
LEMMA NextStepExecutes ==
  ASSUME TypeInv, NEW p \in Procs,
         \/ NextStep(p) \/ StepsDone(p) \/ Rebuild(p) \/ Rebuilt(p) \/ RebuildFails(p)
  PROVE  Executes(p)
<1>1. cur[p] \in Progress BY DEF TypeInv, TypeOK
<1>2. /\ {"results", "resolve", "rebuild", "unrebuilt"} \subseteq Scope
      /\ {"close", "resolve", "unrebuilt", "rebuild"} \cap WithTarget = {}
  BY DEF Scope, InProgress, WithTarget
<1>3. cur[p].step + 1 \in Nat /\ cur[p].approved \in Nat BY <1>1 DEF Progress
<1>4. CASE NextStep(p)
  <2> DEFINE begun == StepBegun(cur[p], cur[p].step + 1)
             raised == [cur[p] EXCEPT !.error = TRUE]
  <2>1. begun \in Progress /\ begun.approved = cur[p].approved
    BY <1>1, <1>3, StepBegunType, StepBegunKeeps
  <2>2. raised \in Progress /\ raised.approved = cur[p].approved
    BY <1>1 DEF Progress
  <2>3. Step(p, "results", "resolve", begun) \/ Step(p, "results", "close", raised)
    BY <1>4 DEF NextStep
  <2> HIDE DEF begun, raised
  <2> QED BY <1>2, <2>1, <2>2, <2>3, StepExecutes
<1>5. CASE StepsDone(p)
  BY <1>1, <1>2, <1>5, StepExecutes DEF StepsDone
<1>6. CASE Rebuild(p)
  <2> DEFINE c == [cur[p] EXCEPT !.step = @ + 1]
  <2>1. c \in Progress /\ c.approved = cur[p].approved BY <1>1 DEF Progress
  <2>2. audit' = audit /\ cur' = [cur EXCEPT ![p] = c] /\ Go(p, "rebuild", "rebuild")
    BY <1>6 DEF Rebuild, Progressed
  <2> HIDE DEF c
  <2>3. pc[p] = "rebuild" /\ pc'[p] = "rebuild" BY <2>2 DEF Go, TypeInv, TypeOK
  <2> QED BY <2>1, <2>2, <2>3 DEF Executes, Undecided, Declined, WithTarget
<1>7. CASE Rebuilt(p)
  BY <1>1, <1>2, <1>3, <1>7, StepBegunType, StepBegunKeeps, StepExecutes DEF Rebuilt
<1>8. CASE RebuildFails(p)
  <2> DEFINE begun == StepBegun(cur[p], cur[p].approved)
             c == [begun EXCEPT !.end = "failed", !.stale = TRUE]
  <2>1. begun \in Progress /\ begun.approved = cur[p].approved
    BY <1>1, <1>3, StepBegunType, StepBegunKeeps
  <2>2. Step(p, "rebuild", "unrebuilt", c) BY <1>8 DEF RebuildFails
  <2> HIDE DEF begun
  <2>3. c \in Progress /\ c.approved = begun.approved
    BY <2>1 DEF Progress, StepStatus, Stopping
  <2> HIDE DEF c
  <2> QED BY <1>2, <2>1, <2>2, <2>3, StepExecutes
<1> QED BY <1>4, <1>5, <1>6, <1>7, <1>8

\* The end of an execution keeps what it was resuming.
LEMMA EndExecutes ==
  ASSUME TypeInv, NEW p \in Procs,
         \/ ScopeExpires(p) \/ LateResult(p) \/ SessionFails(p) \/ Close(p) \/ Promoted(p)
  PROVE  Executes(p)
<1>1. cur[p] \in Progress BY DEF TypeInv, TypeOK
<1>2. "late" \notin WithTarget /\ "close" \notin WithTarget BY DEF WithTarget
<1>3. CASE ScopeExpires(p)
  <2>1. CASE \E from \in Scope \ InProgress : Step(p, from, "close", cur[p])
    BY <1>1, <1>2, <2>1, StepExecutes
  <2>2. CASE \E from \in InProgress :
               Step(p, from, "late",
                    [cur[p] EXCEPT !.end = "failed", !.stale = FALSE,
                                   !.unknown = from \in {"dispatch", "reached"}])
    <3>1. PICK from \in InProgress :
            Step(p, from, "late",
                 [cur[p] EXCEPT !.end = "failed", !.stale = FALSE,
                                !.unknown = from \in {"dispatch", "reached"}])
      BY <2>2
    <3> DEFINE unknown == from \in {"dispatch", "reached"}
               c == [cur[p] EXCEPT !.end = "failed", !.stale = FALSE, !.unknown = unknown]
    <3>2. Step(p, from, "late", c) BY <3>1
    <3>3. from \in Scope /\ unknown \in BOOLEAN BY DEF Scope
    <3> HIDE DEF unknown
    <3>4. c \in Progress /\ c.approved = cur[p].approved
      BY <1>1, <3>3 DEF Progress, StepStatus, Stopping
    <3> HIDE DEF c
    <3> QED BY <1>2, <3>2, <3>3, <3>4, StepExecutes
  <2> QED BY <1>3, <2>1, <2>2 DEF ScopeExpires
<1>4. CASE LateResult(p) \/ SessionFails(p) \/ Close(p) \/ Promoted(p)
  <2>1. PICK from \in {"late", "session", "close", "promote"}, to \in {"close", "promote", "final"} :
          Go(p, from, to) /\ UNCHANGED <<audit, cur>>
    BY <1>4 DEF LateResult, SessionFails, Close, Promoted
  <2>2. from \in Location /\ from \notin Declined /\ to \in Busy /\ to # "desk" /\ to \notin WithTarget
    BY DEF Busy, Location, Declined, WithTarget
  <2> QED BY <2>1, <2>2, GoExecutes
<1> QED BY <1>3, <1>4

\* Starting, claiming, recording a decision, resuming and being interrupted
\* keep what is resumed and send nothing.
LEMMA CommandExecutes ==
  ASSUME TypeInv, NEW p \in Procs,
         \/ StartRun(p) \/ Begun(p) \/ TriesRead(p) \/ SessionOpened(p) \/ StartDesk(p)
         \/ RecordApproval(p) \/ RecordRejection(p) \/ Resume(p)
         \/ InterruptBegin(p) \/ InterruptRun(p)
  PROVE  Executes(p)
<1>1. \A from \in Location, to \in Busy :
        /\ Go(p, from, to) /\ UNCHANGED <<audit, cur>>
        /\ to = "desk" => from = "idle"
        /\ from \notin Declined \/ to \in Declined
        /\ to \notin WithTarget
        => Executes(p)
  BY GoExecutes DEF Undecided
<1>2. CASE StartRun(p) \/ Begun(p) \/ TriesRead(p) \/ SessionOpened(p) \/ StartDesk(p)
  <2>1. PICK from \in {"idle", "begin", "tries", "session"},
             to \in {"begin", "tries", "session", "results", "rebuild", "desk"} :
          Go(p, from, to) /\ UNCHANGED <<audit, cur>> /\ (to = "desk" => from = "idle")
    BY <1>2 DEF StartRun, Begun, TriesRead, SessionOpened, StartDesk
  <2>2. from \in Location /\ to \in Busy /\ from \notin Declined /\ to \notin WithTarget
    BY DEF Busy, Location, Scope, Declined, WithTarget
  <2> QED BY <1>1, <2>1, <2>2
<1>3. CASE RecordApproval(p) \/ RecordRejection(p) \/ Resume(p)
  <2>1. PICK from \in {"approving", "rejecting", "approved"},
             to \in {"approved", "rejected", "final", "begin"} :
          /\ Go(p, from, to) /\ UNCHANGED <<audit, cur>>
          /\ from = "rejecting" => to = "rejected"
    BY <1>3 DEF RecordApproval, RecordRejection, Resume
  <2>2. /\ from \in Location /\ to \in Busy /\ to # "desk" /\ to \notin WithTarget
        /\ from \notin Declined \/ to \in Declined
    BY <2>1 DEF Busy, Location, Declined, WithTarget
  <2> QED BY <1>1, <2>1, <2>2
<1>4. CASE InterruptBegin(p)
  <2>1. Go(p, "begin", "final") /\ UNCHANGED <<audit, cur>>
    BY <1>4 DEF InterruptBegin
  <2>2. "begin" \in Location /\ "final" \in Busy /\ "begin" \notin Declined /\ "final" \notin WithTarget
    BY DEF Busy, Location, Declined, WithTarget
  <2> QED BY <1>1, <2>1, <2>2
<1>5. CASE InterruptRun(p)
  <2>1. PICK from \in Scope \cup {"late", "session", "close"} :
          Go(p, from, "promote") /\ UNCHANGED <<audit, cur>>
    BY <1>5 DEF InterruptRun
  <2>2. from \in Location /\ "promote" \in Busy /\ from \notin Declined /\ "promote" \notin WithTarget
    BY DEF Busy, Location, Scope, InProgress, Declined, WithTarget
  <2> QED BY <1>1, <2>1, <2>2
<1> QED BY <1>2, <1>3, <1>4, <1>5

\* What a process executes keeps the invariant.
LEMMA ExecutesKeeps ==
  ASSUME TypeInv, ApprovalInv, NEW p \in Procs, Executes(p),
         \A q \in Procs \ {p} : pc'[q] = pc[q]
  PROVE  ApprovalInv'
<1>1. \A i : Approvals(i)' = Approvals(i) BY DEF Executes, Approvals
<1>2. PICK c \in Progress : cur' = [cur EXCEPT ![p] = c] /\ c.approved = cur[p].approved
  BY DEF Executes
<1>3. cur'[p].approved = cur[p].approved /\ \A q \in Procs \ {p} : cur'[q] = cur[q]
  BY <1>2 DEF TypeInv, TypeOK
<1>4. ASSUME NEW q \in Procs \ {p} PROVE ApprovedIsLogged(q)' /\ HealIsAllowed(q)'
  BY <1>1, <1>3 DEF ApprovalInv, ApprovedIsLogged, HealIsAllowed, HealMayAct, OnApproved
<1>5. ApprovedIsLogged(p)'
  BY <1>1, <1>3 DEF ApprovalInv, ApprovedIsLogged, Executes
<1>6. HealIsAllowed(p)'
  BY DEF ApprovalInv, HealIsAllowed, Executes, HealMayAct, OnApproved
<1> QED BY <1>4, <1>5, <1>6 DEF ApprovalInv

\* A command that ends forgets what it was resuming.
LEMMA LeaveKeeps ==
  ASSUME TypeInv, ApprovalInv, NEW p \in Procs, Leave(p), audit' = audit
  PROVE  ApprovalInv'
<1>1. /\ pc'[p] = "idle" /\ cur'[p] = Fresh
      /\ \A q \in Procs \ {p} : pc'[q] = pc[q] /\ cur'[q] = cur[q]
  BY DEF Leave, TypeInv, TypeOK
<1>2. \A i : Approvals(i)' = Approvals(i) BY DEF Approvals
<1>3. ApprovedIsLogged(p)' /\ HealIsAllowed(p)'
  BY <1>1 DEF ApprovedIsLogged, HealIsAllowed, Fresh, WithTarget
<1>4. ASSUME NEW q \in Procs \ {p} PROVE ApprovedIsLogged(q)' /\ HealIsAllowed(q)'
  BY <1>1, <1>2 DEF ApprovalInv, ApprovedIsLogged, HealIsAllowed, HealMayAct, OnApproved
<1> QED BY <1>3, <1>4 DEF ApprovalInv

\* A decision is in the log before anything is resumed from it.
LEMMA DecideKeeps ==
  ASSUME TypeInv, ApprovalInv, NEW p \in Procs, Approve(p) \/ Reject(p)
  PROVE  ApprovalInv'
<1>1. PICK i \in Steps, kind \in {"approved", "rejected"}, to \in {"approving", "rejecting"} :
        /\ Decide(p, i, kind, to)
        /\ to = "approving" => kind = "approved"
  BY DEF Approve, Reject
<1>2. [step |-> i, kind |-> kind] \in Entry BY DEF Entry
<1>3. \A j : Approvals(j) \subseteq Approvals(j)'
  BY <1>1, <1>2, LogGrows DEF Decide
<1>4. to = "approving" => Approvals(i)' # {}
  <2> SUFFICES ASSUME to = "approving" PROVE Approvals(i)' # {} OBVIOUS
  <2>1. audit' = Append(audit, [step |-> i, kind |-> "approved"]) BY <1>1 DEF Decide
  <2>2. Len(audit) + 1 \in DOMAIN audit' /\ audit'[Len(audit) + 1] = [step |-> i, kind |-> "approved"]
    BY <1>2, <2>1 DEF TypeInv, TypeOK
  <2> QED BY <2>2 DEF Approvals
<1>5. /\ pc'[p] = to /\ cur'[p] = [cur[p] EXCEPT !.approved = i]
      /\ \A q \in Procs \ {p} : pc'[q] = pc[q] /\ cur'[q] = cur[q]
  BY <1>1 DEF Decide, Go, Progressed, TypeInv, TypeOK
<1>6. cur'[p].approved = i BY <1>5 DEF TypeInv, TypeOK, Progress
<1>7. ApprovedIsLogged(p)' /\ HealIsAllowed(p)'
  BY <1>4, <1>5, <1>6 DEF ApprovedIsLogged, HealIsAllowed, Undecided, Declined, WithTarget
<1>8. ASSUME NEW q \in Procs \ {p} PROVE ApprovedIsLogged(q)' /\ HealIsAllowed(q)'
  BY <1>3, <1>5 DEF ApprovalInv, ApprovedIsLogged, HealIsAllowed, HealMayAct, OnApproved
<1> QED BY <1>7, <1>8 DEF ApprovalInv

\* The invariant, with the types it needs, is inductive.
LEMMA ApprovalInduction ==
  TypeInv /\ ApprovalInv /\ [Next]_vars => ApprovalInv'
<1> SUFFICES ASSUME TypeInv, ApprovalInv, [Next]_vars PROVE ApprovalInv'
  OBVIOUS
<1>1. CASE UNCHANGED vars
  BY <1>1 DEF vars, ApprovalInv, ApprovedIsLogged, HealIsAllowed, HealMayAct,
              OnApproved, Approvals
<1>2. CASE Next
  <2>1. PICK p \in Procs : Work(p) \/ Ask(p) \/ Interrupt(p) \/ Crash(p)
    BY <1>2 DEF Next
  <2>2. \A q \in Procs \ {p} : pc'[q] = pc[q]
    <3>1. Enters(p) \/ Moves(p) \/ Leave(p) BY <2>1, EveryStepMoves
    <3>2. pc \in [Procs -> Location] BY DEF TypeInv, TypeOK
    <3> QED BY <3>1, <3>2 DEF Enters, Moves, Leave, Go
  <2>3. CASE Executes(p)
    BY <2>2, <2>3, ExecutesKeeps
  <2>4. CASE Approve(p) \/ Reject(p)
    BY <2>4, DecideKeeps
  <2>5. CASE Done(p) \/ Refuse(p) \/ InterruptLeaves(p) \/ Abort(p) \/ Crash(p)
    BY <2>5, LeaveKeeps DEF Done, Refuse, InterruptLeaves, Abort, Crash
  <2>6. CASE Land(p) \/ InterruptWaits(p)
    BY <2>6 DEF Land, InterruptWaits, ApprovalInv, ApprovedIsLogged, HealIsAllowed,
                HealMayAct, OnApproved, Approvals
  <2>7. \/ Executes(p) \/ Approve(p) \/ Reject(p) \/ Land(p) \/ InterruptWaits(p)
        \/ Done(p) \/ Refuse(p) \/ InterruptLeaves(p) \/ Abort(p) \/ Crash(p)
    BY <2>1, ResolveExecutes, ActExecutes, RestoreExecutes, NextStepExecutes,
       EndExecutes, CommandExecutes DEF Work, Ask, Interrupt
  <2> QED BY <2>3, <2>4, <2>5, <2>6, <2>7
<1> QED BY <1>1, <1>2

\* For every workflow and any number of commands: an irreversible action on a
\* healed target is sent only once the audit log holds its approval.
THEOREM HealedActsAreApproved == Spec => []HealedActIsApproved
<1>1. Init => TypeInv /\ ApprovalInv
  BY FreshType, LifecycleAssumption
  DEF Init, TypeInv, TypeOK, Location, ApprovalInv, ApprovedIsLogged, HealIsAllowed,
      Fresh, Undecided, Declined, WithTarget
<1>2. TypeInv /\ ApprovalInv => HealedActIsApproved
  <2> SUFFICES ASSUME TypeInv, ApprovalInv, NEW p \in Procs, Sending(p), cur[p].via = "healed"
               PROVE  Approvals(cur[p].step) # {}
    BY DEF HealedActIsApproved
  <2>1. cur[p].step = cur[p].approved
    BY DEF ApprovalInv, HealIsAllowed, Sending, WithTarget, HealMayAct, OnApproved
  <2>2. cur[p].step # 0 BY StepsAssumption DEF Sending, Steps
  <2> QED BY <2>1, <2>2 DEF ApprovalInv, ApprovedIsLogged, Sending, Declined
<1> QED BY <1>1, <1>2, TypeInduction, ApprovalInduction, PTL DEF Spec

-----------------------------------------------------------------------------
(* What the record says of what really happened.                           *)

\* Commands wait for the writes an earlier one left behind, or there is only one
\* process.  The theorems that need this say so.
NoOvertaking == ~Overtakes \/ \A p, q \in Procs : p = q

-----------------------------------------------------------------------------
(* Honest records.                                                         *)

\* A record a process may still add results to.
Live == {"running", "awaiting"}

LogHas(log, i, kind) == \E n \in DOMAIN log : log[n] = [step |-> i, kind |-> kind]

Unlogged(log, i) == \A n \in DOMAIN log : log[n].step # i

DecidedOnce(log) == \A i \in Steps : \A m, n \in DOMAIN log :
  log[m].step = i /\ log[n].step = i => m = n

Unsent(sent) == \A s \in Steps : sent[s] = 0

\* Irreversible actions are sent at most once, and only those are counted.
SentOnce(sent) == \A s \in Steps : sent[s] <= 1 /\ (s \notin Irreversible => sent[s] = 0)

\* A live record's results are those of successive steps, of which only the
\* last may not have succeeded.
Orderly(r) ==
  r.status \in Live =>
    /\ \A s, t \in Steps :
         s < t /\ r.steps[t].status # "not_run" => r.steps[s].status = "succeeded"
    /\ \A s \in Steps : r.steps[s].status # "cancelled"

\* Proposals and outcomes are those of irreversible steps, and a pending one is
\* the last, of a run that awaits its approval.
Proposed(r) ==
  /\ \A i \in Steps : r.decision[i] = "pending" =>
       /\ r.status = "awaiting" /\ r.steps[i].status = "awaiting"
       /\ \A t \in Steps : (t > i => r.decision[t] = "none") /\ ~Unsettled(r, t)
  /\ \A i \in Steps : r.decision[i] # "none" => i \in Irreversible
  /\ \A i \in Steps : r.outcome[i] # "none" => r.decision[i] = "approved"
  /\ r.status = "awaiting" =>
       \E i \in Steps : /\ r.steps[i].status = "awaiting"
                        /\ r.decision[i] = "pending" \/ Unsettled(r, i)

\* What the record's results say of the actions that were sent.
ResultsTrue(r, sent) ==
  /\ \A s \in Irreversible :
       r.steps[s].status = "succeeded" \/ r.steps[s].performed => sent[s] = 1
  /\ \A s \in Steps : r.steps[s].status = "needs_review" => sent[s] = 1
  /\ \A s \in Steps : r.steps[s].status = "awaiting" =>
       s \in Irreversible /\ \A t \in Steps : t >= s => sent[t] = 0

\* What the record as a whole says of the actions that were sent.
StatusTrue(r, sent) ==
  /\ \A s \in Steps : sent[s] > 0 => s \in r.dispatched
  /\ r.status = "cancelled" => Unsent(sent)
  /\ r.status = "awaiting" /\ (\E i \in Steps : Unsettled(r, i)) => Unsent(sent)
  /\ r.status = "succeeded" => \A s \in Steps : r.steps[s].status = "succeeded"

\* What its outcomes say of the approvals that were settled.
OutcomesTrue(r, sent) ==
  \A i \in Steps :
    /\ r.outcome[i] \in {"acted_verified", "acted_unverified"} => sent[i] = 1
    /\ r.outcome[i] = "acted_verified" => r.steps[i].status = "succeeded"
    /\ r.outcome[i] = "not_resumed" => r.status = "cancelled"

\* What its decisions say of the audit log, which may be one entry ahead.
DecisionsTrue(r, sent, log) ==
  \A i \in Steps :
    /\ r.decision[i] = "approved" => LogHas(log, i, "approved")
    /\ r.decision[i] = "rejected" => LogHas(log, i, "rejected")
    /\ r.decision[i] = "none" => Unlogged(log, i)
    /\ r.decision[i] = "pending" /\ LogHas(log, i, "approved") => Unsent(sent)

Honest(r, sent, log) ==
  /\ Orderly(r) /\ Proposed(r)
  /\ ResultsTrue(r, sent) /\ StatusTrue(r, sent) /\ OutcomesTrue(r, sent)
  /\ DecisionsTrue(r, sent, log)

-----------------------------------------------------------------------------
(* The invariant: what a process's await implies.                          *)

\* The awaits before the first step, those of a step, and all of them.
Early == {"begin", "tries", "session", "rebuild"}
Stepping == InProgress \cup {"release", "late"}
Executing == Early \cup Stepping \cup {"results", "close"}

\* The awaits in which the record in memory is the last one issued.
Mirrored == (Executing \ {"close"}) \cup
            {"final", "desk", "approving", "approved", "rejecting", "rejected"}

\* The awaits in which the record may be final already.
Ending == {"idle", "desk", "final", "rejected"}

\* The record that will be on disk once the writes in w have landed.
Latest(d, w) == IF w = <<>> THEN d ELSE w[Len(w)]

\* Only the approval that is resumed, if any, was ever decided.
OneApproval(r, c) ==
  /\ \A t \in Steps : (t # c.approved => r.decision[t] = "none") /\ r.outcome[t] = "none"
  /\ c.approved # 0 => c.approved \in Irreversible

\* Nothing has been sent: what precedes the approval is done and reversible.
Resumable(r, c, sent) ==
  /\ Unsent(sent)
  /\ \A t \in Steps : t < c.approved => r.steps[t].status = "succeeded" /\ t \notin Irreversible

AtDesk(r, log) ==
  \A i \in Steps : ~Unsettled(r, i) /\ (r.decision[i] = "pending" => Unlogged(log, i))

\* A decision is in the log and not yet in the record.
BeingDecided(r, c, w, log, kind) ==
  /\ c.approved \in Steps /\ r.status = "awaiting" /\ r.decision[c.approved] = "pending"
  /\ w = <<>> /\ LogHas(log, c.approved, kind)

BeingResumed(r, c) ==
  /\ c.approved \in Steps /\ r.status = "awaiting"
  /\ r.decision[c.approved] = "approved" /\ r.steps[c.approved].status = "awaiting"

BeingExecuted(r, c) ==
  /\ r.status = "running" /\ OneApproval(r, c)
  /\ c.approved # 0 => r.decision[c.approved] = "approved"
  /\ \A s \in Steps : r.steps[s].status = "awaiting" => s > c.approved

\* Nothing is known of the steps after the current one, and none was sent.
NothingAhead(r, c, sent) ==
  /\ c.step >= c.approved /\ c.step <= NumSteps
  /\ \A s \in Steps : s > c.step => sent[s] = 0 /\ r.steps[s].status = "not_run"

\* The steps before the current one succeeded, and it has no result yet.
UpToStep(r, c, sent) ==
  /\ c.step \in Steps
  /\ \A s \in Steps : s < c.step => r.steps[s].status = "succeeded"
  /\ r.steps[c.step].status = "not_run"
  /\ c.performed /\ c.step \in Irreversible => sent[c.step] = 1

\* How the step ended is true of the action.
EndTrue(c, sent) ==
  /\ c.end \notin {"not_run", "cancelled"}
  /\ c.end = "succeeded" /\ c.step \in Irreversible => sent[c.step] = 1
  /\ c.end = "needs_review" => sent[c.step] = 1
  /\ c.end = "awaiting" =>
       c.step \in Irreversible /\ c.step > c.approved /\ sent[c.step] = 0

\* What has to be so for an irreversible step's action to be on its way.
ActsTrue(at, r, c, w, sent) ==
  /\ at \in {"resolve", "heal", "acting", "journal", "dispatch"} => sent[c.step] = 0
  /\ at \in {"reached", "verify"} /\ c.step \in Irreversible => sent[c.step] = 1
  /\ at = "journal" => c.step \in Irreversible
  /\ at = "restore" => c.step \notin Irreversible
  /\ c.step \in Irreversible =>
       /\ at \in {"journal", "dispatch", "reached"} => c.step \in r.dispatched
       /\ at \in {"dispatch", "reached"} => w = <<>>

Phase(at, r, c, w, sent, log) ==
  /\ at \in {"idle", "desk"} => c = Fresh
  /\ at \in {"approving", "approved", "rejecting", "rejected", "begin", "tries",
             "session"} => c.step = 0
  /\ at = "desk" => AtDesk(r, log)
  /\ at = "approving" => BeingDecided(r, c, w, log, "approved")
  /\ at = "rejecting" => BeingDecided(r, c, w, log, "rejected")
  /\ at = "approved" => BeingResumed(r, c)
  /\ at \in {"approving", "approved"} => OneApproval(r, c)
  /\ at \in {"approving", "approved"} \cup Early => Resumable(r, c, sent)
  /\ at \in Executing => BeingExecuted(r, c)
  /\ at \in Early => \A t \in Steps : t >= c.approved => r.steps[t] = NotRun
  /\ at \in Stepping \cup {"results"} => NothingAhead(r, c, sent)
  /\ at = "results" => \A s \in Steps : s <= c.step => r.steps[s].status # "not_run"
  /\ at \in Stepping => UpToStep(r, c, sent)
  /\ at \in {"evidence", "release", "late", "unrebuilt"} => EndTrue(c, sent)
  /\ ActsTrue(at, r, c, w, sent)

\* b is the final record a, with outcomes filled in.
Kept(a, b) ==
  /\ b = [a EXCEPT !.outcome = b.outcome]
  /\ \A s \in Steps : a.outcome[s] \in {"none", b.outcome[s]}

\* A final record is the last that is issued.
Queued(at, d, w) ==
  /\ \A k \in DOMAIN w : k < Len(w) => w[k].status \notin Terminal
  /\ d.status \in Terminal => \A k \in DOMAIN w : Kept(d, w[k])
  /\ at \notin Ending =>
       d.status \notin Terminal /\ \A k \in DOMAIN w : w[k].status \notin Terminal

\* A record's decisions are in the log.
Told(r, log) ==
  \A i \in Steps :
    /\ r.decision[i] = "approved" => LogHas(log, i, "approved")
    /\ r.decision[i] = "rejected" => LogHas(log, i, "rejected")

\* Its results are true of the actions that were sent, whatever else was sent.
Performed(r, sent) ==
  /\ \A s \in Irreversible :
       r.steps[s].status = "succeeded" \/ r.steps[s].performed => sent[s] = 1
  /\ \A s \in Steps : r.steps[s].status = "needs_review" => sent[s] = 1

\* No approval in the record was settled.
Untold(r) == \A i \in Steps : r.outcome[i] = "none"

\* What stays so of any record, even of one that the run has left behind.
Sound(r, sent, log) ==
  /\ Orderly(r) /\ Proposed(r) /\ Told(r, log)
  /\ Performed(r, sent) /\ OutcomesTrue(r, sent)
  /\ (\E i \in Steps : r.outcome[i] = "not_resumed") => Unsent(sent)

\* A final record may be one the run has left behind: a write of a command that
\* ended, which lands while the next one already works on.
Trusted(r, sent, log) ==
  /\ Sound(r, sent, log)
  /\ NoOvertaking \/ r.status \notin Terminal => Honest(r, sent, log)

AllFinal(w) == \A k \in DOMAIN w : w[k].status \in Terminal

\* The awaits of an execution whose first write has landed, those in which no
\* approval is settled, and those in which the process takes the run further.
Running == (Executing \ {"begin"}) \cup {"promote"}
Opening == Executing \cup {"approving", "approved"}
Advancing == Opening \cup {"promote"}

\* The record in memory is the last one issued, unless a final record that was
\* on its way has landed on top of it.
Follows(at, r, d, w) ==
  at \in Mirrored =>
    \/ r = Latest(d, w)
    \/ /\ ~NoOvertaking
       /\ \/ at \in {"final", "rejected"} \/ r.status \in Terminal
          \/ w = <<>> /\ d.status \in Terminal

\* The order of a process's writes: what it issues last is final, or awaits.
Lined(at, d, w) ==
  /\ \A k \in DOMAIN w :
       /\ k < Len(w) => w[k].status \notin Terminal \cup {"awaiting"}
       /\ at \notin Ending => w[k].status \notin Terminal
  /\ at \in Executing \cup {"promote"} => \A k \in DOMAIN w : w[k].status # "awaiting"
  /\ at \in Running => d.status # "awaiting"
  /\ at \in Opening => Untold(d) /\ \A k \in DOMAIN w : Untold(w[k])
  /\ NoOvertaking => Queued(at, d, w)

\* What is so of one process, given what is on disk, sent and logged.
Fits(at, r, c, w, d, sent, log) ==
  /\ at \in Advancing \/ (at # "idle" /\ (NoOvertaking \/ r.status \notin Terminal)) =>
       Honest(r, sent, log)
  /\ \A k \in DOMAIN w : Trusted(w[k], sent, log)
  /\ Phase(at, r, c, w, sent, log)
  /\ Follows(at, r, d, w)
  /\ Lined(at, d, w)
  /\ at = "desk" => r.status \in Terminal \/ w = <<>>

\* The process may still take the run further than its record on disk.
Leads(at, r) ==
  at \in Advancing \cup {"rejecting"} \/ (at = "desk" /\ r.status \notin Terminal)

\* What is so of any two processes: only one has anything but final records on
\* their way, and while one leads, all the others' are final and settle nothing.
Together ==
  /\ NoOvertaking =>
       \A p, q \in Procs : queue[p] # <<>> /\ q # p => claim # q /\ queue[q] = <<>>
  /\ \A p \in Procs : pc[p] = "idle" => claim # p /\ ~intr[p]
  /\ disk = NoRecord => \A q \in Procs :
       \/ pc[q] = "idle" /\ queue[q] = <<>>
       \/ pc[q] = "begin"
       \/ pc[q] = "final" /\ intr[q]
  /\ \A p, q \in Procs : p # q => AllFinal(queue[p]) \/ AllFinal(queue[q])
  /\ \A p, q \in Procs : p # q /\ Leads(pc[p], mem[p]) => AllFinal(queue[q])
  /\ \A p, q \in Procs : p # q /\ pc[p] \in Opening =>
       \A k \in DOMAIN queue[q] : Untold(queue[q][k])
  /\ disk.status = "awaiting" => \A p \in Procs :
       pc[p] \in {"idle", "desk"} \/ (pc[p] = "final" /\ ~intr[p]) => AllFinal(queue[p])

RunInv ==
  /\ Trusted(disk, acts, audit) /\ SentOnce(acts) /\ DecidedOnce(audit)
  /\ Together
  /\ \A p \in Procs : Fits(pc[p], mem[p], cur[p], queue[p], disk, acts, audit)

-----------------------------------------------------------------------------
(* What the functions on records do to an honest record.                   *)

\* A set of numbers has a least: the initial segments up to its members, ordered
\* by inclusion, are finite sets.
LEMMA LeastNatural ==
  ASSUME NEW T \in SUBSET Nat, T # {}
  PROVE  \E n \in T : \A m \in T : n <= m
<1> DEFINE below == {0..n : n \in T}
           R == StrictSubsetOrdering(Nat)
<1>1. \A n \in T : IsFiniteSet(0..n)
  <2> TAKE n \in T
  <2>1. 0 \in Int /\ n \in Int OBVIOUS
  <2> QED BY <2>1, FS_Interval
<1>2. below \subseteq FiniteSubsetsOf(Nat) /\ below # {}
  <2>1. \A n \in T : 0..n \in SUBSET Nat OBVIOUS
  <2>2. \A n \in T : 0..n \in FiniteSubsetsOf(Nat)
    BY <1>1, <2>1 DEF FiniteSubsetsOf
  <2> QED BY <2>2
<1>3. PICK U \in below : \A V \in below : ~(<<V, U>> \in R)
  <2>1. IsWellFoundedOn(R, FiniteSubsetsOf(Nat))
    BY FS_StrictSubsetOrderingWellFounded
  <2> HIDE DEF below, R
  <2> QED BY <1>2, <2>1, WFMin
<1>4. PICK n \in T : U = 0..n BY <1>3
<1>5. ASSUME NEW m \in T, m < n PROVE FALSE
  <2>1. 0..m \in below /\ 0..m \subseteq 0..n /\ 0..m # 0..n
    <3>1. n \in 0..n /\ n \notin 0..m BY <1>5
    <3> QED BY <1>5, <3>1
  <2>2. <<0..m, U>> \in R
    <3>1. 0..m \in SUBSET Nat /\ 0..n \in SUBSET Nat OBVIOUS
    <3> QED BY <1>4, <2>1, <3>1 DEF StrictSubsetOrdering
  <2> HIDE DEF below, R
  <2> QED BY <1>3, <2>1, <2>2
<1> QED BY <1>5

\* A run that stopped stopped at one of its steps.
LEMMA StoppedSomewhere ==
  ASSUME NEW r, Stopped(r) PROVE \E s \in Steps : FailedStep(r, s)
<1> DEFINE stops == {s \in Steps : r.steps[s].status \in Stopping}
<1>1. stops \in SUBSET Nat /\ stops # {} BY DEF Stopped, Steps
<1>2. PICK s \in stops : \A t \in stops : s <= t
  <2> HIDE DEF stops
  <2> QED BY <1>1, LeastNatural
<1>3. \A t \in Steps : t < s => t \notin stops BY <1>1, <1>2 DEF Steps
<1> QED BY <1>3 DEF FailedStep

\* The log's first entry about a step is there if any is.
LEMMA SomeEntryIsFirst ==
  ASSUME NEW log \in Seq(Entry), NEW s \in Steps, ~Unlogged(log, s)
  PROVE  Logged(log, s, "approved") \/ Logged(log, s, "rejected")
<1> DEFINE found == {n \in DOMAIN log : log[n].step = s}
<1>1. found \in SUBSET Nat /\ found # {} BY DEF Unlogged
<1>2. PICK n \in found : \A m \in found : n <= m
  <2> HIDE DEF found
  <2> QED BY <1>1, LeastNatural
<1>3. \A m \in DOMAIN log : m < n => log[m].step # s
  <2>1. \A m \in DOMAIN log : m \in Nat OBVIOUS
  <2> QED BY <1>1, <1>2, <2>1
<1>4. log[n] \in Entry OBVIOUS
<1>5. \E kind \in {"approved", "rejected"} : log[n] = [step |-> s, kind |-> kind]
  BY <1>2, <1>4 DEF Entry
<1> QED BY <1>3, <1>5 DEF Logged

\* A step is proposed for approval at most once in a record.
LEMMA OnePending ==
  ASSUME NEW r, Proposed(r), NEW i \in Steps, NEW j \in Steps,
         r.decision[i] = "pending", r.decision[j] = "pending"
  PROVE  i = j
<1>1. i \in Nat /\ j \in Nat BY DEF Steps
<1>2. ~ (i < j) /\ ~ (j < i) BY <1>1 DEF Proposed
<1> QED BY <1>1, <1>2

\* A record that is not awaiting approval has no pending proposal.
LEMMA NoPending ==
  ASSUME NEW r, Proposed(r), r.status # "awaiting", NEW i \in Steps
  PROVE  r.decision[i] # "pending"
BY DEF Proposed

\* A new run's record is honest before anything is sent or decided.
LEMMA NewRunHonest ==
  ASSUME NEW sent, NEW log, Unsent(sent), \A i \in Steps : Unlogged(log, i)
  PROVE  Honest(NewRun, sent, log)
<1>1. Orderly(NewRun) BY DEF Orderly, NewRun, NotRun
<1>2. Proposed(NewRun) BY DEF Proposed, NewRun, NotRun, Unsettled
<1>3. ResultsTrue(NewRun, sent) BY StepsAssumption DEF ResultsTrue, NewRun, NotRun
<1>4. StatusTrue(NewRun, sent) BY DEF StatusTrue, NewRun, Unsent
<1>5. OutcomesTrue(NewRun, sent) BY DEF OutcomesTrue, NewRun
<1>6. DecisionsTrue(NewRun, sent, log) BY DEF DecisionsTrue, NewRun
<1> QED BY <1>1, <1>2, <1>3, <1>4, <1>5, <1>6 DEF Honest

\* The marked result of a step in progress has the cancelled step's effects.
LEMMA MarkedStep ==
  ASSUME NEW r \in Run, NEW s \in Steps
  PROVE  /\ MarkedSteps(r.steps)[s].performed = r.steps[s].performed
         /\ \/ MarkedSteps(r.steps)[s] = r.steps[s]
            \/ r.steps[s].status = "not_run" /\ MarkedSteps(r.steps)[s].status = "cancelled"
<1>1. r.steps[s] \in StepResult BY DEF Run
<1> QED BY <1>1 DEF MarkedSteps, StepResult

\* Finishing a record as its process left it keeps it honest.
LEMMA EndedRunHonest ==
  ASSUME NEW r \in Run, NEW sent \in [Steps -> Nat], NEW log, NEW b \in BOOLEAN,
         Honest(r, sent, log)
  PROVE  Honest(EndedRun(r, b), sent, log)
<1> DEFINE e == EndedRun(r, b)
<1> SUFFICES ASSUME r.status = "running" PROVE Honest(e, sent, log)
  BY DEF EndedRun
<1>1. /\ e.status = InterruptedStatus(r.dispatched) /\ e.dispatched = r.dispatched
      /\ e.decision = r.decision /\ e.outcome = r.outcome
      /\ e.steps = IF b THEN MarkedSteps(r.steps) ELSE r.steps
  BY DEF EndedRun, Run
<1>2. e.status \in {"needs_review", "cancelled"} /\ e.status \notin Live
  BY <1>1 DEF InterruptedStatus, Live
<1>3. \A s \in Steps : /\ e.steps[s].performed = r.steps[s].performed
                       /\ \/ e.steps[s] = r.steps[s]
                          \/ r.steps[s].status = "not_run" /\ e.steps[s].status = "cancelled"
  BY <1>1, MarkedStep
<1>4. \A i \in Steps : r.decision[i] # "pending" BY NoPending DEF Honest
<1> HIDE DEF e
<1>5. Orderly(e) BY <1>2 DEF Orderly
<1>6. Proposed(e) BY <1>1, <1>2, <1>4 DEF Honest, Proposed
<1>7. ResultsTrue(e, sent) BY <1>3, StepsAssumption DEF Honest, ResultsTrue
<1>8. StatusTrue(e, sent)
  <2>1. r.dispatched = {} => Unsent(sent) BY DEF Honest, StatusTrue, Unsent
  <2> QED BY <1>1, <1>2, <2>1 DEF Honest, StatusTrue, InterruptedStatus
<1>9. OutcomesTrue(e, sent) BY <1>1, <1>3 DEF Honest, OutcomesTrue
<1>10. DecisionsTrue(e, sent, log) BY <1>1, <1>4 DEF Honest, DecisionsTrue
<1> QED BY <1>5, <1>6, <1>7, <1>8, <1>9, <1>10 DEF Honest

\* A step's first entry in the log is of one kind.
LEMMA LoggedOnce ==
  ASSUME NEW log \in Seq(Entry), NEW s \in Steps,
         Logged(log, s, "approved"), Logged(log, s, "rejected")
  PROVE  FALSE
<1>1. PICK n \in DOMAIN log : /\ log[n] = [step |-> s, kind |-> "approved"]
                              /\ \A m \in DOMAIN log : m < n => log[m].step # s
  BY DEF Logged
<1>2. PICK k \in DOMAIN log : /\ log[k] = [step |-> s, kind |-> "rejected"]
                              /\ \A m \in DOMAIN log : m < k => log[m].step # s
  BY DEF Logged
<1>3. n \in Nat /\ k \in Nat OBVIOUS
<1>4. log[n].step = s /\ log[k].step = s BY <1>1, <1>2
<1>5. n = k BY <1>1, <1>2, <1>3, <1>4
<1> QED BY <1>1, <1>2, <1>5

\* Taking the decisions that the log holds, and the record lacks, keeps the
\* record honest, and leaves pending only what the log does not decide.
LEMMA WithDecisionsHonest ==
  ASSUME NEW r \in Run, NEW sent \in [Steps -> Nat], NEW log \in Seq(Entry),
         Honest(r, sent, log)
  PROVE  /\ Honest(WithDecisions(r, log), sent, log)
         /\ \A i \in Steps :
              WithDecisions(r, log).decision[i] = "pending" => Unlogged(log, i)
<1> DEFINE new(s, kind) == r.decision[s] = "pending" /\ Logged(log, s, kind)
           w == WithDecisions(r, log)
<1>1. /\ w.decision = [s \in Steps |-> IF new(s, "approved") THEN "approved"
                                       ELSE IF new(s, "rejected") THEN "rejected"
                                       ELSE r.decision[s]]
      /\ w.status = IF \E s \in Steps : new(s, "rejected") THEN "failed" ELSE r.status
      /\ w.steps = [s \in Steps |->
                      IF new(s, "rejected")
                      THEN [r.steps[s] EXCEPT !.status = "failed", !.stale = FALSE]
                      ELSE r.steps[s]]
      /\ w.outcome = r.outcome /\ w.dispatched = r.dispatched
  BY DEF WithDecisions, Run
<1>2. \A i \in Steps : w.decision[i] = "pending" => Unlogged(log, i)
  BY <1>1, SomeEntryIsFirst
<1>8. \A s \in Steps : w.outcome[s] = r.outcome[s] BY <1>1
<1>9. w.dispatched = r.dispatched BY <1>1
<1>3. \A s \in Steps : \A kind : new(s, kind) => LogHas(log, s, kind) BY DEF Logged, LogHas
<1>4. \A s \in Steps : ~(new(s, "approved") /\ new(s, "rejected")) BY LoggedOnce
<1>5. ASSUME \A s \in Steps : ~new(s, "approved") /\ ~new(s, "rejected")
      PROVE  Honest(w, sent, log)
  <2>1. /\ w.status = r.status /\ \A s \in Steps : w.steps[s] = r.steps[s]
        /\ \A s \in Steps : w.decision[s] = r.decision[s]
    BY <1>1, <1>5
  <2> HIDE DEF w, new
  <2>2. \A s \in Steps : Unsettled(w, s) <=> Unsettled(r, s)
    BY <1>8, <2>1 DEF Unsettled
  <2>3. Orderly(w) BY <2>1 DEF Honest, Orderly
  <2>4. Proposed(w) BY <1>8, <2>1, <2>2 DEF Honest, Proposed
  <2>5. ResultsTrue(w, sent) BY <2>1, StepsAssumption DEF Honest, ResultsTrue
  <2>6. StatusTrue(w, sent) BY <1>9, <2>1, <2>2 DEF Honest, StatusTrue
  <2>7. OutcomesTrue(w, sent) BY <1>8, <2>1 DEF Honest, OutcomesTrue
  <2>8. DecisionsTrue(w, sent, log) BY <2>1 DEF Honest, DecisionsTrue
  <2> QED BY <2>3, <2>4, <2>5, <2>6, <2>7, <2>8 DEF Honest
<1>6. ASSUME NEW i \in Steps, new(i, "approved") PROVE Honest(w, sent, log)
  <2>1. r.status = "awaiting" /\ r.decision[i] = "pending" /\ r.steps[i].status = "awaiting"
    BY <1>6 DEF Honest, Proposed
  <2>2. \A s \in Steps : s # i => r.decision[s] # "pending"
    BY <2>1, OnePending DEF Honest
  <2>3. /\ w.decision[i] = "approved"
        /\ \A s \in Steps : s # i => w.decision[s] = r.decision[s]
        /\ w.status = r.status /\ \A s \in Steps : w.steps[s] = r.steps[s]
    BY <1>1, <1>4, <1>6, <2>2
  <2>4. LogHas(log, i, "approved") BY <1>3, <1>6
  <2> HIDE DEF w, new
  <2>5. Unsent(sent) BY <2>1, <2>4 DEF Honest, DecisionsTrue
  <2>6. Orderly(w) BY <2>3 DEF Honest, Orderly
  <2>7. Proposed(w)
    <3>1. r.outcome[i] = "none" BY <2>1 DEF Honest, Proposed
    <3>2. Unsettled(w, i) BY <1>8, <2>3, <3>1 DEF Unsettled
    <3>3. \A s \in Steps : w.decision[s] # "pending" BY <2>2, <2>3
    <3>4. \A s \in Steps : w.decision[s] # "none" => s \in Irreversible
      BY <2>1, <2>3 DEF Honest, Proposed
    <3>5. \A s \in Steps : w.outcome[s] # "none" => w.decision[s] = "approved"
      BY <1>8, <2>1, <2>3 DEF Honest, Proposed
    <3> QED BY <2>1, <2>3, <3>2, <3>3, <3>4, <3>5 DEF Proposed
  <2>8. ResultsTrue(w, sent) BY <2>3, StepsAssumption DEF Honest, ResultsTrue
  <2>9. StatusTrue(w, sent) BY <1>9, <2>1, <2>3, <2>5 DEF Honest, StatusTrue
  <2>10. OutcomesTrue(w, sent) BY <1>8, <2>3 DEF Honest, OutcomesTrue
  <2>11. DecisionsTrue(w, sent, log) BY <2>2, <2>3, <2>4 DEF Honest, DecisionsTrue
  <2> QED BY <2>6, <2>7, <2>8, <2>9, <2>10, <2>11 DEF Honest
<1>7. ASSUME NEW i \in Steps, new(i, "rejected") PROVE Honest(w, sent, log)
  <2>1. r.decision[i] = "pending" BY <1>7
  <2>2. \A s \in Steps : s # i => r.decision[s] # "pending"
    BY <2>1, OnePending DEF Honest
  <2>3. r.steps[i] \in StepResult BY DEF Run
  <2>4. /\ w.decision[i] = "rejected" /\ w.status = "failed"
        /\ \A s \in Steps : s # i => w.decision[s] = r.decision[s] /\ w.steps[s] = r.steps[s]
        /\ w.steps[i].status = "failed" /\ w.steps[i].performed = r.steps[i].performed
    BY <1>1, <1>4, <1>7, <2>2, <2>3 DEF StepResult
  <2>5. LogHas(log, i, "rejected") BY <1>3, <1>7
  <2>12. r.status = "awaiting" /\ r.outcome[i] = "none"
    BY <2>1 DEF Honest, Proposed
  <2> HIDE DEF w, new
  <2>6. Orderly(w) BY <2>4 DEF Orderly, Live
  <2>7. Proposed(w)
    <3>1. \A s \in Steps : w.decision[s] # "pending" BY <2>2, <2>4
    <3>2. \A s \in Steps : w.decision[s] # "none" => s \in Irreversible
      BY <2>1, <2>4 DEF Honest, Proposed
    <3>3. \A s \in Steps : w.outcome[s] # "none" => w.decision[s] = "approved"
      BY <1>8, <2>4, <2>12 DEF Honest, Proposed
    <3> QED BY <2>4, <3>1, <3>2, <3>3 DEF Proposed
  <2>8. ResultsTrue(w, sent)
    <3>1. \A s \in Steps : w.steps[s].performed = r.steps[s].performed BY <2>4
    <3>2. \A s \in Steps : w.steps[s].status # "failed" => w.steps[s] = r.steps[s] BY <2>4
    <3> QED BY <3>1, <3>2, StepsAssumption DEF Honest, ResultsTrue
  <2>9. StatusTrue(w, sent) BY <1>9, <2>4 DEF Honest, StatusTrue
  <2>10. OutcomesTrue(w, sent) BY <1>8, <2>4, <2>12 DEF Honest, OutcomesTrue
  <2>11. DecisionsTrue(w, sent, log) BY <2>2, <2>4, <2>5 DEF Honest, DecisionsTrue
  <2> QED BY <2>6, <2>7, <2>8, <2>9, <2>10, <2>11 DEF Honest
<1> QED BY <1>2, <1>5, <1>6, <1>7

\* Settling the approvals nobody settled keeps the record honest.
LEMMA WithOutcomesHonest ==
  ASSUME NEW r \in Run, NEW sent \in [Steps -> Nat], NEW log \in Seq(Entry),
         Honest(r, sent, log)
  PROVE  /\ Honest(WithOutcomes(r), sent, log)
         /\ WithOutcomes(r).decision = r.decision
         /\ \A i \in Steps : ~Unsettled(WithOutcomes(r), i)
<1> DEFINE open == \A s \in Steps : ~Unsettled(r, s)
           w == WithOutcomes(r)
<1>1. CASE open BY <1>1 DEF WithOutcomes
<1>2. CASE ~open /\ r.status = "awaiting"
  <2>1. /\ w.status = "cancelled" /\ w.decision = r.decision /\ w.dispatched = r.dispatched
        /\ w.outcome = [s \in Steps |-> IF Unsettled(r, s) THEN "not_resumed" ELSE r.outcome[s]]
        /\ w.steps = [s \in Steps |-> IF Unsettled(r, s)
                        THEN [r.steps[s] EXCEPT !.status = "cancelled", !.stale = FALSE]
                        ELSE r.steps[s]]
    BY <1>2 DEF WithOutcomes, Run
  <2> HIDE DEF w
  <2>2. Unsent(sent) BY <1>2 DEF Honest, StatusTrue
  <2>3. \A s \in Steps : r.decision[s] # "pending" BY <1>2 DEF Honest, Proposed
  <2>4. \A s \in Steps : r.steps[s] \in StepResult BY DEF Run
  <2>5. \A s \in Steps :
          /\ w.steps[s].performed = r.steps[s].performed
          /\ w.steps[s] = r.steps[s] \/ w.steps[s].status = "cancelled"
          /\ \/ Unsettled(r, s) /\ w.outcome[s] = "not_resumed"
             \/ /\ ~Unsettled(r, s)
                /\ w.steps[s] = r.steps[s] /\ w.outcome[s] = r.outcome[s]
    <3> TAKE s \in Steps
    <3>1. CASE Unsettled(r, s) BY <2>1, <2>4, <3>1 DEF StepResult
    <3>2. CASE ~Unsettled(r, s) BY <2>1, <3>2
    <3> QED BY <3>1, <3>2
  <2>13. \A s \in Steps : Unsettled(r, s) => r.decision[s] = "approved" BY DEF Unsettled
  <2>14. w.status = "cancelled" /\ \A s \in Steps : w.decision[s] = r.decision[s] BY <2>1
  <2>6. Orderly(w) BY <2>1 DEF Orderly, Live
  <2>7. Proposed(w) BY <2>3, <2>5, <2>13, <2>14 DEF Honest, Proposed
  <2>8. ResultsTrue(w, sent) BY <2>5, StepsAssumption DEF Honest, ResultsTrue
  <2>9. StatusTrue(w, sent) BY <2>1, <2>2 DEF Honest, StatusTrue
  <2>10. OutcomesTrue(w, sent) BY <1>2, <2>5, <2>14 DEF Honest, OutcomesTrue
  <2>11. DecisionsTrue(w, sent, log) BY <2>1 DEF Honest, DecisionsTrue
  <2>12. \A i \in Steps : ~Unsettled(w, i) BY <2>1, <2>5 DEF Unsettled
  <2> QED BY <2>1, <2>6, <2>7, <2>8, <2>9, <2>10, <2>11, <2>12 DEF Honest, w
<1>3. CASE ~open /\ r.status # "awaiting"
  <2>1. /\ w.status = r.status /\ w.decision = r.decision /\ w.dispatched = r.dispatched
        /\ w.steps = r.steps
        /\ w.outcome = [s \in Steps |-> IF Unsettled(r, s) THEN Settled(r.steps[s])
                                        ELSE r.outcome[s]]
    BY <1>3 DEF WithOutcomes, Run
  <2> HIDE DEF w
  <2>2. \A s \in Steps : r.decision[s] # "pending" BY <1>3, NoPending DEF Honest
  <2>3. \A s \in Steps : Unsettled(r, s) =>
          /\ r.decision[s] = "approved" /\ s \in Irreversible
          /\ w.outcome[s] \notin {"none", "not_resumed"}
          /\ w.outcome[s] = "acted_verified" => r.steps[s].status = "succeeded"
          /\ w.outcome[s] = "acted_unverified" =>
               r.steps[s].status = "needs_review" \/ r.steps[s].performed
    BY <2>1 DEF Unsettled, Settled, Honest, Proposed
  <2>4. \A s \in Steps : ~Unsettled(r, s) => w.outcome[s] = r.outcome[s] BY <2>1
  <2>6. Orderly(w) BY <2>1 DEF Honest, Orderly
  <2>7. Proposed(w) BY <1>3, <2>1, <2>2, <2>3, <2>4 DEF Honest, Proposed
  <2>8. ResultsTrue(w, sent) BY <2>1, StepsAssumption DEF Honest, ResultsTrue
  <2>9. StatusTrue(w, sent) BY <1>3, <2>1 DEF Honest, StatusTrue
  <2>10. OutcomesTrue(w, sent)
    BY <2>1, <2>3, <2>4 DEF Honest, OutcomesTrue, ResultsTrue
  <2>11. DecisionsTrue(w, sent, log) BY <2>1 DEF Honest, DecisionsTrue
  <2>12. \A i \in Steps : ~Unsettled(w, i) BY <2>1, <2>3, <2>4 DEF Unsettled
  <2> QED BY <2>1, <2>6, <2>7, <2>8, <2>9, <2>10, <2>11, <2>12 DEF Honest, w
<1> QED BY <1>1, <1>2, <1>3

\* A record read as its process left it is honest and waits for no decision
\* that the log already holds.
LEMMA AsLeftHonest ==
  ASSUME NEW r \in Run, NEW sent \in [Steps -> Nat], NEW log \in Seq(Entry),
         Honest(r, sent, log)
  PROVE  Honest(AsLeft(r, log), sent, log) /\ AtDesk(AsLeft(r, log), log)
<1> DEFINE ended == EndedRun(r, TRUE)
           decided == WithDecisions(ended, log)
<1>1. ended \in Run /\ Honest(ended, sent, log) BY EndedRunType, EndedRunHonest
<1> HIDE DEF ended
<1>2. /\ decided \in Run /\ Honest(decided, sent, log)
      /\ \A i \in Steps : decided.decision[i] = "pending" => Unlogged(log, i)
  BY <1>1, WithDecisionsType, WithDecisionsHonest
<1> HIDE DEF decided
<1>3. /\ Honest(WithOutcomes(decided), sent, log)
      /\ WithOutcomes(decided).decision = decided.decision
      /\ \A i \in Steps : ~Unsettled(WithOutcomes(decided), i)
  BY <1>2, WithOutcomesHonest
<1>4. AtDesk(WithOutcomes(decided), log) BY <1>2, <1>3 DEF AtDesk
<1> QED BY <1>3, <1>4 DEF AsLeft, decided, ended

\* Reading a final record as it was left only fills in outcomes.
LEMMA AsLeftKeeps ==
  ASSUME NEW r \in Run, Proposed(r), r.status \in Terminal, NEW log
  PROVE  Kept(r, AsLeft(r, log))
<1>1. EndedRun(r, TRUE) = r BY DEF EndedRun, Terminal
<1>2. \A s \in Steps : r.decision[s] # "pending" BY NoPending DEF Terminal
<1>3. WithDecisions(r, log) = r BY <1>2 DEF WithDecisions, Run
<1>4. Kept(r, WithOutcomes(r))
  <2>1. CASE \A s \in Steps : ~Unsettled(r, s)
    BY <2>1 DEF WithOutcomes, Kept, Run
  <2>2. CASE ~ \A s \in Steps : ~Unsettled(r, s)
    <3>1. WithOutcomes(r) = [r EXCEPT !.outcome = [s \in Steps |->
            IF Unsettled(r, s) THEN Settled(r.steps[s]) ELSE r.outcome[s]]]
      BY <2>2 DEF WithOutcomes, Terminal
    <3> QED BY <3>1 DEF Kept, Unsettled, Run
  <2> QED BY <2>1, <2>2
<1> QED BY <1>1, <1>3, <1>4 DEF AsLeft

\* Journaling a dispatch keeps the record honest.
LEMMA JournaledHonest ==
  ASSUME NEW r \in Run, NEW sent, NEW log, NEW s \in Steps, Honest(r, sent, log)
  PROVE  Honest(Journaled(r, s), sent, log)
<1> DEFINE j == Journaled(r, s)
<1>1. /\ j.status = r.status /\ j.steps = r.steps /\ j.decision = r.decision
      /\ j.outcome = r.outcome /\ j.dispatched = r.dispatched \cup {s}
  BY DEF Journaled, Run
<1> HIDE DEF j
<1>2. \A t \in Steps : Unsettled(j, t) <=> Unsettled(r, t) BY <1>1 DEF Unsettled
<1>3. Orderly(j) BY <1>1 DEF Honest, Orderly
<1>4. Proposed(j) BY <1>1, <1>2 DEF Honest, Proposed
<1>5. ResultsTrue(j, sent) BY <1>1 DEF Honest, ResultsTrue
<1>6. StatusTrue(j, sent) BY <1>1, <1>2 DEF Honest, StatusTrue
<1>7. OutcomesTrue(j, sent) BY <1>1 DEF Honest, OutcomesTrue
<1>8. DecisionsTrue(j, sent, log) BY <1>1 DEF Honest, DecisionsTrue
<1> QED BY <1>3, <1>4, <1>5, <1>6, <1>7, <1>8 DEF Honest, j

\* Recording how a step ended keeps the record honest, and being executed.
LEMMA ResultHonest ==
  ASSUME NEW r \in Run, NEW c \in Progress, NEW sent, NEW log, Honest(r, sent, log),
         BeingExecuted(r, c), NothingAhead(r, c, sent), UpToStep(r, c, sent),
         EndTrue(c, sent)
  PROVE  /\ Honest(WithResult(r, c), sent, log)
         /\ BeingExecuted(WithResult(r, c), c)
         /\ NothingAhead(WithResult(r, c), c, sent)
         /\ \A s \in Steps : s <= c.step => WithResult(r, c).steps[s].status # "not_run"
<1> DEFINE w == WithResult(r, c)
<1>1. c.step \in Steps /\ Steps \subseteq Nat /\ c.approved \in Nat
  BY DEF UpToStep, Steps, Progress
<1>2. /\ w.status = "running" /\ w.decision = r.decision /\ w.outcome = r.outcome
      /\ w.dispatched = r.dispatched
      /\ w.steps[c.step].status = c.end /\ w.steps[c.step].performed = c.performed
      /\ \A s \in Steps : s # c.step => w.steps[s] = r.steps[s]
  BY <1>1 DEF BeingExecuted, WithResult, ResultOf, Result, Run
<1> HIDE DEF w
<1>3. \A s \in Steps : /\ s < c.step => w.steps[s].status = "succeeded"
                       /\ s > c.step => w.steps[s].status = "not_run"
  BY <1>1, <1>2 DEF UpToStep, NothingAhead
<1>13. \A s \in Steps : s < c.step \/ s = c.step \/ s > c.step
  BY <1>1 DEF Steps
<1>14. c.end \notin {"not_run", "cancelled"} BY DEF EndTrue
<1>4. \A s \in Steps : s <= c.step => w.steps[s].status # "not_run"
  <2> TAKE s \in Steps
  <2> HAVE s <= c.step
  <2>1. s < c.step \/ s = c.step BY <1>1 DEF Steps
  <2> QED BY <1>2, <1>3, <1>14, <2>1
<1>5. Orderly(w)
  <2>1. ASSUME NEW s \in Steps, NEW t \in Steps, s < t, w.steps[t].status # "not_run"
        PROVE  w.steps[s].status = "succeeded"
    <3>1. ~(t > c.step) BY <1>3, <2>1
    <3>2. s < c.step
      <4>1. s \in Nat /\ t \in Nat /\ c.step \in Nat BY <1>1
      <4> HIDE DEF w
      <4> QED BY <2>1, <3>1, <4>1
    <3> QED BY <1>3, <3>2
  <2>2. \A s \in Steps : w.steps[s].status # "cancelled"
    BY <1>2, <1>3, <1>13, <1>14
  <2> QED BY <2>1, <2>2 DEF Orderly
<1>6. Proposed(w)
  <2>1. \A i \in Steps : r.decision[i] # "pending"
    BY NoPending DEF Honest, BeingExecuted
  <2> QED BY <1>2, <2>1 DEF Honest, Proposed
<1>7. ResultsTrue(w, sent)
  <2>1. \A s \in Irreversible : w.steps[s].status = "succeeded" \/ w.steps[s].performed => sent[s] = 1
    BY <1>2, StepsAssumption DEF Honest, ResultsTrue, EndTrue, UpToStep
  <2>2. \A s \in Steps : w.steps[s].status = "needs_review" => sent[s] = 1
    BY <1>2 DEF Honest, ResultsTrue, EndTrue
  <2>3. ASSUME NEW s \in Steps, w.steps[s].status = "awaiting"
        PROVE  s \in Irreversible /\ \A t \in Steps : t >= s => sent[t] = 0
    <3>1. s = c.step BY <1>1, <1>3, <2>3
    <3> QED BY <1>1, <1>2, <2>3, <3>1 DEF EndTrue, NothingAhead
  <2> QED BY <2>1, <2>2, <2>3 DEF ResultsTrue
<1>8. StatusTrue(w, sent) BY <1>2 DEF Honest, StatusTrue
<1>9. OutcomesTrue(w, sent) BY <1>2 DEF BeingExecuted, OneApproval, OutcomesTrue
<1>10. DecisionsTrue(w, sent, log) BY <1>2 DEF Honest, DecisionsTrue
<1>11. BeingExecuted(w, c)
  <2>1. ASSUME NEW s \in Steps, w.steps[s].status = "awaiting" PROVE s > c.approved
    BY <1>2, <1>3, <1>13, <2>1 DEF EndTrue
  <2> QED BY <1>2, <2>1 DEF BeingExecuted, OneApproval
<1>12. NothingAhead(w, c, sent) BY <1>3 DEF NothingAhead
<1> QED BY <1>4, <1>5, <1>6, <1>7, <1>8, <1>9, <1>10, <1>11, <1>12 DEF Honest, w

\* The status of a run whose steps are over follows from their results.
LEMMA OutcomeAllowed ==
  ASSUME NEW r \in Run, NEW sent, NEW log, Honest(r, sent, log), r.status = "running",
         NEW error \in BOOLEAN
  PROVE  /\ RunOutcome(r, error) \in {"succeeded", "failed", "needs_review", "awaiting"}
         /\ RunOutcome(r, error) = "awaiting" =>
              \E s \in Steps : FailedStep(r, s) /\ r.steps[s].status = "awaiting"
         /\ RunOutcome(r, error) = "succeeded" =>
              \A s \in Steps : r.steps[s].status = "succeeded"
<1>1. \A s \in Steps : r.steps[s].status \in StepStatus \ {"cancelled"}
  BY DEF Honest, Orderly, Live, Run, StepResult
<1>2. ASSUME Stopped(r)
      PROVE  \E s \in Steps : FailedStep(r, s) /\ StopStatus(r) = r.steps[s].status
  <2>1. PICK s \in Steps : FailedStep(r, s) BY <1>2, StoppedSomewhere
  <2>2. r.steps[s].status \in RunStatus
    BY <2>1 DEF FailedStep, Stopping, RunStatus, Terminal
  <2>3. \A t \in Steps : FailedStep(r, t) => t = s BY <2>1, FailedStepUnique
  <2>4. \E status \in RunStatus :
          \A t \in Steps : FailedStep(r, t) => status = r.steps[t].status
    BY <2>2, <2>3
  <2> QED BY <2>1, <2>4 DEF StopStatus
<1>3. CASE error
  BY <1>3 DEF RunOutcome
<1>4. CASE ~error /\ Stopped(r)
  BY <1>1, <1>2, <1>4 DEF RunOutcome, FailedStep, Stopping
<1>5. CASE ~error /\ ~Stopped(r)
  BY <1>1, <1>5 DEF RunOutcome, Stopped, Complete, StepStatus
<1> QED BY <1>3, <1>4, <1>5

\* What came of an approval is true of its step's result.
LEMMA SettledTrue ==
  ASSUME NEW r, NEW sent, NEW i \in Irreversible, Performed(r, sent)
  PROVE  /\ Settled(r.steps[i]) \notin {"none", "not_resumed"}
         /\ Settled(r.steps[i]) \in {"acted_verified", "acted_unverified"} => sent[i] = 1
         /\ Settled(r.steps[i]) = "acted_verified" => r.steps[i].status = "succeeded"
BY StepsAssumption DEF Settled, Performed

\* Finishing an execution with a status its record allows gives an honest record.
LEMMA FinishedHonest ==
  ASSUME NEW r \in Run, NEW c \in Progress, NEW sent \in [Steps -> Nat], NEW log,
         BeingExecuted(r, c), Proposed(r), ResultsTrue(r, sent), StatusTrue(r, sent),
         DecisionsTrue(r, sent, log),
         NEW status \in Terminal \cup {"awaiting"},
         status = "awaiting" =>
           Orderly(r) /\ \E s \in Steps : FailedStep(r, s) /\ r.steps[s].status = "awaiting",
         status = "cancelled" => r.dispatched = {},
         status = "succeeded" => \A s \in Steps : r.steps[s].status = "succeeded"
  PROVE  Honest(Finished(r, c.approved, status), sent, log)
<1> DEFINE i == c.approved
           f == Finished(r, i, status)
<1>1. /\ f.status = status /\ f.steps = r.steps /\ f.dispatched = r.dispatched
      /\ \A s \in Steps : f.outcome[s] = IF i # 0 /\ s = i THEN Settled(r.steps[s]) ELSE r.outcome[s]
      /\ \A s \in Steps : f.decision[s] = IF status = "awaiting" /\ FailedStep(r, s)
                                          THEN "pending" ELSE r.decision[s]
  BY DEF Finished, Paused, Settle, Run, FailedStep
<1>2. \A s \in Steps : /\ s # i => r.decision[s] = "none"
                       /\ r.outcome[s] = "none" /\ r.decision[s] # "pending"
  BY NoPending DEF BeingExecuted, OneApproval
<1>3. i # 0 => i \in Irreversible /\ r.decision[i] = "approved"
  BY DEF BeingExecuted, OneApproval
<1>4. \A s \in Steps : status = "awaiting" /\ FailedStep(r, s) =>
        /\ r.steps[s].status = "awaiting" /\ s > i /\ s \in Irreversible
        /\ \A t \in Steps : FailedStep(r, t) => t = s
  <2> SUFFICES ASSUME NEW s \in Steps, status = "awaiting", FailedStep(r, s)
               PROVE  /\ r.steps[s].status = "awaiting" /\ s > i /\ s \in Irreversible
                      /\ \A t \in Steps : FailedStep(r, t) => t = s
    OBVIOUS
  <2>1. \A t \in Steps : FailedStep(r, t) => t = s BY FailedStepUnique
  <2>2. r.steps[s].status = "awaiting" BY <2>1
  <2> QED BY <2>1, <2>2 DEF BeingExecuted, ResultsTrue
<1>5. i \in Nat /\ Steps \subseteq Nat BY DEF Progress, Steps
<1> HIDE DEF f, i
<1>15. Performed(r, sent) BY DEF ResultsTrue, Performed
<1>6. \A s \in Steps : s = i /\ i # 0 =>
        /\ f.outcome[s] \notin {"none", "not_resumed"} /\ f.decision[s] = "approved"
        /\ f.outcome[s] \in {"acted_verified", "acted_unverified"} => sent[s] = 1
        /\ f.outcome[s] = "acted_verified" => r.steps[s].status = "succeeded"
  BY <1>1, <1>3, <1>4, <1>5, <1>15, SettledTrue
<1>7. \A s \in Steps : s # i \/ i = 0 => f.outcome[s] = "none" BY <1>1, <1>2
<1>8. \A s \in Steps : ~Unsettled(f, s)
  <2> TAKE s \in Steps
  <2>1. CASE s = i /\ i # 0 BY <1>6, <2>1 DEF Unsettled
  <2>2. CASE i = 0 \/ s # i
    <3>1. s # i BY <1>5, <2>2 DEF Steps
    <3>2. r.decision[s] = "none" BY <1>2, <3>1
    <3> QED BY <1>1, <3>2 DEF Unsettled
  <2> QED BY <2>1, <2>2
<1>9. Orderly(f) BY <1>1 DEF Orderly, Live, Terminal, BeingExecuted
<1>10. Proposed(f)
  <2>1. ASSUME NEW s \in Steps, f.decision[s] = "pending"
        PROVE  /\ f.status = "awaiting" /\ f.steps[s].status = "awaiting"
               /\ \A t \in Steps : t > s => f.decision[t] = "none"
    <3>1. status = "awaiting" /\ FailedStep(r, s) BY <1>1, <1>2, <2>1
    <3>2. \A t \in Steps : t > s => ~FailedStep(r, t) /\ t # i
      BY <1>4, <1>5, <3>1
    <3> QED BY <1>1, <1>2, <1>4, <3>1, <3>2
  <2>2. \A s \in Steps : f.decision[s] # "none" => s \in Irreversible
    BY <1>1, <1>2, <1>3, <1>4, <1>5 DEF Steps
  <2>3. \A s \in Steps : f.outcome[s] # "none" => f.decision[s] = "approved"
    BY <1>6, <1>7
  <2>4. f.status = "awaiting" => \E s \in Steps : f.steps[s].status = "awaiting" /\ f.decision[s] = "pending"
    BY <1>1, <1>4
  <2> QED BY <1>8, <2>1, <2>2, <2>3, <2>4 DEF Proposed
<1>11. ResultsTrue(f, sent) BY <1>1 DEF ResultsTrue
<1>12. StatusTrue(f, sent)
  <2>1. r.dispatched = {} => Unsent(sent) BY DEF StatusTrue, Unsent
  <2>2. \A s \in Steps : sent[s] > 0 => s \in f.dispatched BY <1>1 DEF StatusTrue
  <2> QED BY <1>1, <1>8, <2>1, <2>2 DEF StatusTrue
<1>13. OutcomesTrue(f, sent) BY <1>1, <1>6, <1>7 DEF OutcomesTrue
<1>14. DecisionsTrue(f, sent, log)
  <2> SUFFICES ASSUME NEW s \in Steps
               PROVE  /\ f.decision[s] = "approved" => LogHas(log, s, "approved")
                      /\ f.decision[s] = "rejected" => LogHas(log, s, "rejected")
                      /\ f.decision[s] = "none" => Unlogged(log, s)
                      /\ f.decision[s] = "pending" /\ LogHas(log, s, "approved") => Unsent(sent)
    BY DEF DecisionsTrue
  <2>1. CASE status = "awaiting" /\ FailedStep(r, s)
    <3>1. r.decision[s] = "none" BY <1>2, <1>4, <1>5, <2>1
    <3>2. Unlogged(log, s) BY <3>1 DEF DecisionsTrue
    <3>3. ~LogHas(log, s, "approved") BY <3>2 DEF Unlogged, LogHas
    <3> QED BY <1>1, <2>1, <3>3
  <2>2. CASE ~(status = "awaiting" /\ FailedStep(r, s))
    BY <1>1, <2>2 DEF DecisionsTrue
  <2> QED BY <2>1, <2>2
<1> QED BY <1>9, <1>10, <1>11, <1>12, <1>13, <1>14 DEF Honest, f, i

\* A run the interrupt stopped in a step keeps what its record says of actions.
LEMMA CancelledTrue ==
  ASSUME NEW r \in Run, NEW c \in Progress, NEW sent, NEW log, NEW at,
         Honest(r, sent, log), BeingExecuted(r, c), UpToStep(r, c, sent),
         NEW x, x = [r EXCEPT !.steps[c.step] = CancelledResult(c, at)]
  PROVE  /\ x \in Run /\ x.dispatched = r.dispatched
         /\ BeingExecuted(x, c) /\ Proposed(x) /\ ResultsTrue(x, sent)
         /\ StatusTrue(x, sent) /\ DecisionsTrue(x, sent, log)
<1>1. CancelledResult(c, at) \in StepResult
  BY DEF CancelledResult, Result, StepResult, StepStatus, Stopping, Progress
<1>2. /\ x \in Run /\ x.status = "running" /\ x.decision = r.decision /\ x.outcome = r.outcome
      /\ x.dispatched = r.dispatched
      /\ x.steps[c.step].status = "cancelled" /\ x.steps[c.step].performed = c.performed
      /\ \A s \in Steps : s # c.step => x.steps[s] = r.steps[s]
  BY <1>1 DEF BeingExecuted, UpToStep, CancelledResult, Result, Run
<1>3. BeingExecuted(x, c) BY <1>2 DEF BeingExecuted, OneApproval
<1>4. Proposed(x)
  <2>1. \A i \in Steps : r.decision[i] # "pending"
    BY NoPending DEF Honest, BeingExecuted
  <2> QED BY <1>2, <2>1 DEF Honest, Proposed
<1>5. ResultsTrue(x, sent)
  BY <1>2, StepsAssumption DEF Honest, ResultsTrue, UpToStep
<1>6. StatusTrue(x, sent) BY <1>2 DEF Honest, StatusTrue
<1>7. DecisionsTrue(x, sent, log) BY <1>2 DEF Honest, DecisionsTrue
<1> QED BY <1>2, <1>3, <1>4, <1>5, <1>6, <1>7

\* Recording an approval that the log holds.
LEMMA ApprovedHonest ==
  ASSUME NEW r \in Run, NEW c \in Progress, NEW w, NEW sent, NEW log,
         Honest(r, sent, log), BeingDecided(r, c, w, log, "approved"),
         OneApproval(r, c), Resumable(r, c, sent)
  PROVE  LET d == Decided(r, c.approved, "approved")
         IN /\ Honest(d, sent, log) /\ BeingResumed(d, c)
            /\ OneApproval(d, c) /\ Resumable(d, c, sent)
<1> DEFINE i == c.approved
           d == Decided(r, i, "approved")
<1>1. i \in Steps /\ r.status = "awaiting" /\ r.decision[i] = "pending" /\ r.steps[i].status = "awaiting"
  BY DEF BeingDecided, Honest, Proposed
<1>2. /\ d.status = r.status /\ d.steps = r.steps /\ d.dispatched = r.dispatched
      /\ \A s \in Steps : d.outcome[s] = "none"
      /\ d.decision[i] = "approved"
      /\ \A s \in Steps : s # i => d.decision[s] = "none"
  BY <1>1 DEF Decided, Run, OneApproval
<1> HIDE DEF d
<1>3. Unsent(sent) BY DEF Resumable
<1>4. Unsettled(d, i) BY <1>1, <1>2 DEF Unsettled
<1>5. Orderly(d) BY <1>2 DEF Honest, Orderly
<1>6. Proposed(d)
  <2>1. i \in Irreversible BY <1>1 DEF Honest, Proposed
  <2>2. \A s \in Steps : d.decision[s] # "pending" /\ (d.decision[s] # "none" => s = i)
    BY <1>2
  <2> QED BY <1>1, <1>2, <1>4, <2>1, <2>2 DEF Proposed
<1>7. ResultsTrue(d, sent) BY <1>2 DEF Honest, ResultsTrue
<1>8. StatusTrue(d, sent) BY <1>2, <1>3, <1>1 DEF Honest, StatusTrue
<1>9. OutcomesTrue(d, sent) BY <1>2 DEF OutcomesTrue
<1>10. DecisionsTrue(d, sent, log)
  <2>1. LogHas(log, i, "approved") BY DEF BeingDecided
  <2>2. \A s \in Steps : s # i => r.decision[s] = "none" BY DEF OneApproval
  <2> QED BY <1>2, <2>1, <2>2 DEF Honest, DecisionsTrue
<1>11. BeingResumed(d, c) BY <1>1, <1>2 DEF BeingResumed
<1>12. OneApproval(d, c) /\ Resumable(d, c, sent) BY <1>2 DEF OneApproval, Resumable
<1> QED BY <1>5, <1>6, <1>7, <1>8, <1>9, <1>10, <1>11, <1>12 DEF Honest, d

\* Recording a rejection that the log holds.
LEMMA RejectedHonest ==
  ASSUME NEW r \in Run, NEW c \in Progress, NEW w, NEW sent, NEW log,
         Honest(r, sent, log), BeingDecided(r, c, w, log, "rejected")
  PROVE  Honest(Rejected(r, c.approved), sent, log)
<1> DEFINE i == c.approved
           x == Rejected(r, i)
<1>1. /\ i \in Steps /\ r.status = "awaiting" /\ r.decision[i] = "pending"
      /\ LogHas(log, i, "rejected") /\ i \in Irreversible /\ r.outcome[i] = "none"
  BY DEF BeingDecided, Honest, Proposed
<1>2. r.steps[i] \in StepResult BY <1>1 DEF Run
<1>3. /\ x.status = "failed" /\ x.outcome = r.outcome /\ x.dispatched = r.dispatched
      /\ x.decision[i] = "rejected"
      /\ \A s \in Steps : s # i => x.decision[s] = r.decision[s] /\ x.steps[s] = r.steps[s]
      /\ x.steps[i].status = "failed" /\ x.steps[i].performed = r.steps[i].performed
  BY <1>1, <1>2 DEF Rejected, EndedAt, Decided, Run, StepResult
<1> HIDE DEF x
<1>4. \A s \in Steps : x.decision[s] # "pending"
  BY <1>1, <1>3, OnePending DEF Honest
<1>5. Orderly(x) BY <1>3 DEF Orderly, Live
<1>6. Proposed(x) BY <1>1, <1>3, <1>4 DEF Honest, Proposed
<1>7. ResultsTrue(x, sent)
  <2>1. \A s \in Steps : x.steps[s].performed = r.steps[s].performed BY <1>3
  <2>2. \A s \in Steps : x.steps[s].status # "failed" => x.steps[s] = r.steps[s] BY <1>3
  <2> QED BY <2>1, <2>2, StepsAssumption DEF Honest, ResultsTrue
<1>8. StatusTrue(x, sent) BY <1>3 DEF Honest, StatusTrue
<1>9. OutcomesTrue(x, sent) BY <1>1, <1>3 DEF Honest, OutcomesTrue
<1>10. DecisionsTrue(x, sent, log) BY <1>1, <1>3, <1>4 DEF Honest, DecisionsTrue
<1> QED BY <1>5, <1>6, <1>7, <1>8, <1>9, <1>10 DEF Honest, x

\* A run cancelled before it resumed says so, and nothing was sent.
LEMMA NotResumedHonest ==
  ASSUME NEW r \in Run, NEW c \in Progress, NEW sent, NEW log,
         Honest(r, sent, log), BeingResumed(r, c), OneApproval(r, c), Resumable(r, c, sent)
  PROVE  Honest(NotResumed(r, c.approved), sent, log)
<1> DEFINE i == c.approved
           x == NotResumed(r, i)
<1>1. i \in Steps /\ r.decision[i] = "approved" /\ i \in Irreversible
  BY DEF BeingResumed, Honest, Proposed
<1>2. r.steps[i] \in StepResult BY <1>1 DEF Run
<1>3. /\ x.status = "cancelled" /\ x.decision = r.decision /\ x.dispatched = r.dispatched
      /\ x.outcome[i] = "not_resumed"
      /\ \A s \in Steps : s # i => x.outcome[s] = "none" /\ x.steps[s] = r.steps[s]
      /\ x.steps[i].status = "cancelled" /\ x.steps[i].performed = r.steps[i].performed
  BY <1>1, <1>2 DEF NotResumed, EndedAt, Run, StepResult, OneApproval
<1> HIDE DEF x
<1>4. \A s \in Steps : /\ s # i => r.decision[s] = "none"
                       /\ x.decision[s] # "pending"
  BY <1>1, <1>3 DEF OneApproval
<1>5. Unsent(sent) BY DEF Resumable
<1>6. Orderly(x) BY <1>3 DEF Orderly, Live
<1>7. Proposed(x) BY <1>1, <1>3, <1>4 DEF Honest, Proposed
<1>8. ResultsTrue(x, sent)
  <2>1. \A s \in Steps : x.steps[s].performed = r.steps[s].performed BY <1>3
  <2>2. \A s \in Steps : x.steps[s].status # "cancelled" => x.steps[s] = r.steps[s] BY <1>3
  <2> QED BY <2>1, <2>2, StepsAssumption DEF Honest, ResultsTrue
<1>9. StatusTrue(x, sent) BY <1>3, <1>5 DEF Honest, StatusTrue
<1>10. OutcomesTrue(x, sent) BY <1>1, <1>3 DEF OutcomesTrue
<1>11. DecisionsTrue(x, sent, log) BY <1>3, <1>4 DEF Honest, DecisionsTrue
<1> QED BY <1>6, <1>7, <1>8, <1>9, <1>10, <1>11 DEF Honest, x

\* A run resumes from the results before the step that was approved.
LEMMA ResumedHonest ==
  ASSUME NEW r \in Run, NEW c \in Progress, NEW sent, NEW log,
         Honest(r, sent, log), BeingResumed(r, c), OneApproval(r, c), Resumable(r, c, sent)
  PROVE  LET x == Resumed(r, c.approved)
         IN /\ Honest(x, sent, log) /\ BeingExecuted(x, c) /\ Resumable(x, c, sent)
            /\ \A t \in Steps : t >= c.approved => x.steps[t] = NotRun
<1> DEFINE i == c.approved
           x == Resumed(r, i)
<1>1. i \in Steps /\ r.decision[i] = "approved" /\ i \in Irreversible /\ Steps \subseteq Nat
  BY DEF BeingResumed, Honest, Proposed, Steps
<1>2. /\ x.status = "running" /\ x.decision = r.decision /\ x.dispatched = r.dispatched
      /\ x.outcome = r.outcome
      /\ \A s \in Steps : x.steps[s] = IF s < i THEN r.steps[s] ELSE NotRun
  BY DEF Resumed, StepsSoFar, Run
<1> HIDE DEF x
<1>3. \A s \in Steps : s >= i => x.steps[s] = NotRun BY <1>1, <1>2 DEF Steps
<1>4. \A s \in Steps : s < i => x.steps[s] = r.steps[s] /\ x.steps[s].status = "succeeded"
  BY <1>2 DEF Resumable
<1>5. \A s \in Steps : s < i \/ s >= i BY <1>1 DEF Steps
<1>6. \A s \in Steps : /\ s # i => r.decision[s] = "none"
                       /\ x.decision[s] # "pending" /\ x.outcome[s] = "none"
  BY <1>1, <1>2 DEF OneApproval
<1>7. Unsent(sent) BY DEF Resumable
<1>8. Orderly(x)
  <2>1. \A s \in Steps : x.steps[s].status # "not_run" => s < i
    BY <1>3, <1>5 DEF NotRun
  <2>2. \A s, t \in Steps : s < t /\ t < i => s < i BY <1>1 DEF Steps
  <2>3. \A s \in Steps : x.steps[s].status # "cancelled"
    BY <1>3, <1>4, <1>5 DEF NotRun
  <2> QED BY <1>4, <2>1, <2>2, <2>3 DEF Orderly
<1>9. Proposed(x) BY <1>1, <1>2, <1>6 DEF Proposed
<1>10. ResultsTrue(x, sent)
  <2>1. \A s \in Steps : \/ x.steps[s] = r.steps[s] /\ x.steps[s].status = "succeeded"
                         \/ x.steps[s] = NotRun
    BY <1>3, <1>4, <1>5
  <2> QED BY <2>1, StepsAssumption DEF Honest, ResultsTrue, NotRun
<1>11. StatusTrue(x, sent) BY <1>2, <1>7 DEF Honest, StatusTrue
<1>12. OutcomesTrue(x, sent) BY <1>6 DEF OutcomesTrue
<1>13. DecisionsTrue(x, sent, log) BY <1>2, <1>6 DEF Honest, DecisionsTrue
<1>14. BeingExecuted(x, c)
  <2>1. \A s \in Steps : x.steps[s].status # "awaiting"
    BY <1>3, <1>4, <1>5 DEF NotRun
  <2> QED BY <1>1, <1>2, <1>6, <2>1 DEF BeingExecuted, OneApproval
<1>15. Resumable(x, c, sent) BY <1>4, <1>7 DEF Resumable
<1> QED BY <1>3, <1>8, <1>9, <1>10, <1>11, <1>12, <1>13, <1>14, <1>15 DEF Honest, x

\* The action of the step in progress reaches a page: its record stays honest.
LEMMA ReachedHonest ==
  ASSUME NEW r \in Run, NEW c \in Progress, NEW sent \in [Steps -> Nat], NEW log,
         Honest(r, sent, log), BeingExecuted(r, c), NothingAhead(r, c, sent),
         UpToStep(r, c, sent), sent[c.step] = 0,
         c.step \in Irreversible => c.step \in r.dispatched,
         NEW now, now = [s \in Steps |-> sent[s] + IF s \in {c.step} \cap Irreversible
                                                    THEN 1 ELSE 0]
  PROVE  Honest(r, now, log)
<1>1. c.step \in Steps /\ Steps \subseteq Nat BY DEF UpToStep, Steps
<1>2. \A s \in Steps : s # c.step => now[s] = sent[s] OBVIOUS
<1>3. \A s \in Steps : /\ s < c.step \/ s >= c.step
                       /\ s >= c.step => s = c.step \/ s > c.step
                       /\ s < c.step => s # c.step
  BY <1>1 DEF Steps
<1>4. \A s \in Steps : /\ s < c.step => r.steps[s].status = "succeeded" /\ s # c.step
                       /\ s >= c.step => r.steps[s].status = "not_run"
  BY <1>3 DEF UpToStep, NothingAhead
<1>5. ResultsTrue(r, now)
  <2>1. \A s \in Irreversible : r.steps[s].status = "succeeded" \/ r.steps[s].performed => sent[s] = 1
    BY DEF Honest, ResultsTrue
  <2>2. \A s \in Steps : r.steps[s].status \notin {"needs_review", "awaiting"}
    BY <1>1, <1>3, <1>4 DEF Steps
  <2>3. \A s \in Irreversible : sent[s] = 1 => now[s] = 1 BY <1>2, StepsAssumption
  <2> QED BY <2>1, <2>2, <2>3 DEF ResultsTrue
<1>6. StatusTrue(r, now) BY <1>2 DEF Honest, StatusTrue, BeingExecuted
<1>7. OutcomesTrue(r, now) BY DEF OutcomesTrue, BeingExecuted, OneApproval
<1>8. DecisionsTrue(r, now, log)
  <2>1. \A s \in Steps : r.decision[s] # "pending" BY NoPending DEF Honest, BeingExecuted
  <2> QED BY <2>1 DEF Honest, DecisionsTrue
<1> QED BY <1>5, <1>6, <1>7, <1>8 DEF Honest

\* A decision enters the log before it enters the record.
LEMMA LoggedHonest ==
  ASSUME NEW r \in Run, NEW sent, NEW log \in Seq(Entry), Honest(r, sent, log),
         NEW i \in Steps, NEW kind \in {"approved", "rejected"},
         r.decision[i] = "pending", kind = "approved" => Unsent(sent),
         NEW now, now = Append(log, [step |-> i, kind |-> kind])
  PROVE  Honest(r, sent, now) /\ LogHas(now, i, kind)
<1>1. [step |-> i, kind |-> kind] \in Entry BY DEF Entry
<1>2. /\ DOMAIN now = DOMAIN log \cup {Len(log) + 1}
      /\ now[Len(log) + 1] = [step |-> i, kind |-> kind]
      /\ \A n \in DOMAIN log : now[n] = log[n]
  BY <1>1
<1>3. \A j, k : LogHas(log, j, k) => LogHas(now, j, k) BY <1>2 DEF LogHas
<1>4. LogHas(now, i, kind) BY <1>2 DEF LogHas
<1>5. \A j \in Steps : j # i /\ Unlogged(log, j) => Unlogged(now, j)
  BY <1>2 DEF Unlogged
<1>6. \A j \in Steps : LogHas(now, j, "approved") =>
        LogHas(log, j, "approved") \/ (j = i /\ kind = "approved")
  BY <1>2 DEF LogHas
<1>7. DecisionsTrue(r, sent, now)
  BY <1>3, <1>5, <1>6 DEF Honest, DecisionsTrue
<1> QED BY <1>4, <1>7 DEF Honest

-----------------------------------------------------------------------------
(* Sound records.                                                          *)

\* An honest record is sound.
LEMMA HonestIsSound ==
  ASSUME NEW r, NEW sent, NEW log, Honest(r, sent, log)
  PROVE  Sound(r, sent, log) /\ Trusted(r, sent, log)
<1>1. Told(r, log) BY DEF Honest, DecisionsTrue, Told
<1>2. Performed(r, sent) BY DEF Honest, ResultsTrue, Performed
<1>3. (\E i \in Steps : r.outcome[i] = "not_resumed") => Unsent(sent)
  BY DEF Honest, OutcomesTrue, StatusTrue
<1> QED BY <1>1, <1>2, <1>3 DEF Honest, Sound, Trusted

\* A sound record is sound once more was decided.
LEMMA SoundOnceLogged ==
  ASSUME NEW r, NEW sent, NEW log \in Seq(Entry), NEW e \in Entry, Sound(r, sent, log)
  PROVE  Sound(r, sent, Append(log, e))
<1> DEFINE now == Append(log, e)
<1>1. DOMAIN log \subseteq DOMAIN now /\ \A n \in DOMAIN log : now[n] = log[n] OBVIOUS
<1> HIDE DEF now
<1>2. \A i, kind : LogHas(log, i, kind) => LogHas(now, i, kind) BY <1>1 DEF LogHas
<1>3. Told(r, now) BY <1>2 DEF Sound, Told
<1> QED BY <1>3 DEF Sound, now

\* A sound record that settles nothing is sound once another action was sent.
LEMMA SoundOnceSent ==
  ASSUME NEW r, NEW sent, NEW log, NEW now, NEW s \in Steps,
         Sound(r, sent, log), Untold(r), sent[s] = 0,
         \A t \in Steps : t # s => now[t] = sent[t]
  PROVE  Sound(r, now, log)
<1>1. \A t \in Steps : sent[t] = 1 => now[t] = 1 OBVIOUS
<1>2. Performed(r, now) BY <1>1, StepsAssumption DEF Sound, Performed
<1>3. OutcomesTrue(r, now) BY DEF Untold, OutcomesTrue
<1>4. \A i \in Steps : r.outcome[i] # "not_resumed" BY DEF Untold
<1> QED BY <1>2, <1>3, <1>4 DEF Sound

\* When the log holds nothing, no sound record settles an approval.
LEMMA NothingSettled ==
  ASSUME NEW r, NEW sent, NEW log, Sound(r, sent, log), \A i \in Steps : Unlogged(log, i)
  PROVE  Untold(r)
<1>1. \A i \in Steps : ~LogHas(log, i, "approved") BY DEF Unlogged, LogHas
<1> QED BY <1>1 DEF Sound, Told, Proposed, Untold

\* A final sound record, read as it was left, is one too.
LEMMA AsLeftSound ==
  ASSUME NEW r \in Run, NEW sent, NEW log, Sound(r, sent, log), r.status \in Terminal
  PROVE  LET left == AsLeft(r, log)
         IN Sound(left, sent, log) /\ left.status \in Terminal /\ AtDesk(left, log)
<1> DEFINE left == AsLeft(r, log)
<1>1. EndedRun(r, TRUE) = r BY DEF EndedRun, Terminal
<1>2. \A s \in Steps : r.decision[s] # "pending" BY NoPending DEF Sound, Terminal
<1>3. WithDecisions(r, log) = r BY <1>2 DEF WithDecisions, Run
<1>4. left = WithOutcomes(r) BY <1>1, <1>3 DEF AsLeft
<1>5. CASE \A s \in Steps : ~Unsettled(r, s)
  <2>1. left = r BY <1>4, <1>5 DEF WithOutcomes
  <2> QED BY <1>2, <1>5, <2>1 DEF AtDesk
<1>6. CASE ~ \A s \in Steps : ~Unsettled(r, s)
  <2>1. left = [r EXCEPT !.outcome = [s \in Steps |->
                  IF Unsettled(r, s) THEN Settled(r.steps[s]) ELSE r.outcome[s]]]
    BY <1>4, <1>6 DEF WithOutcomes, Terminal
  <2>2. /\ left.status = r.status /\ left.steps = r.steps /\ left.decision = r.decision
        /\ \A s \in Steps : left.outcome[s] =
             IF Unsettled(r, s) THEN Settled(r.steps[s]) ELSE r.outcome[s]
    BY <2>1 DEF Run
  <2>3. \A s \in Steps : Unsettled(r, s) =>
          /\ r.decision[s] = "approved"
          /\ Settled(r.steps[s]) \notin {"none", "not_resumed"}
          /\ Settled(r.steps[s]) \in {"acted_verified", "acted_unverified"} => sent[s] = 1
          /\ Settled(r.steps[s]) = "acted_verified" => r.steps[s].status = "succeeded"
    <3> SUFFICES ASSUME NEW s \in Steps, Unsettled(r, s)
                 PROVE  /\ r.decision[s] = "approved"
                        /\ Settled(r.steps[s]) \notin {"none", "not_resumed"}
                        /\ Settled(r.steps[s]) \in {"acted_verified", "acted_unverified"} => sent[s] = 1
                        /\ Settled(r.steps[s]) = "acted_verified" => r.steps[s].status = "succeeded"
      OBVIOUS
    <3>1. r.decision[s] = "approved" BY DEF Unsettled
    <3>2. s \in Irreversible BY <3>1 DEF Sound, Proposed
    <3>3. Performed(r, sent) BY DEF Sound
    <3> QED BY <3>1, <3>2, <3>3, SettledTrue
  <2> HIDE DEF left
  <2>4. Orderly(left) BY <2>2 DEF Orderly, Live, Terminal
  <2>5. \A s \in Steps : left.outcome[s] # "none" => left.decision[s] = "approved"
    BY <2>2, <2>3 DEF Sound, Proposed
  <2>6. Proposed(left) BY <1>2, <2>2, <2>5 DEF Sound, Proposed, Terminal
  <2>7. Told(left, log) BY <2>2 DEF Sound, Told
  <2>8. Performed(left, sent) BY <2>2 DEF Sound, Performed
  <2>9. OutcomesTrue(left, sent) BY <2>2, <2>3 DEF Sound, OutcomesTrue
  <2>10. (\E i \in Steps : left.outcome[i] = "not_resumed") => Unsent(sent)
    BY <2>2, <2>3 DEF Sound
  <2>11. AtDesk(left, log) BY <1>2, <2>2, <2>3 DEF AtDesk, Unsettled
  <2>12. Sound(left, sent, log) BY <2>4, <2>6, <2>7, <2>8, <2>9, <2>10 DEF Sound
  <2> QED BY <2>2, <2>11, <2>12 DEF left
<1> QED BY <1>5, <1>6

\* A record that reads as one that may go on is read as it is: it awaits.
LEMMA AsLeftStays ==
  ASSUME NEW r \in Run, Proposed(r), NEW log, AsLeft(r, log).status \notin Terminal
  PROVE  AsLeft(r, log) = r /\ r.status = "awaiting"
<1> DEFINE ended == EndedRun(r, TRUE)
           decided == WithDecisions(ended, log)
           left == WithOutcomes(decided)
<1>1. left = AsLeft(r, log) BY DEF AsLeft
<1>2. ended \in Run /\ ended.status # "running" /\ (ended = r \/ ended.status \in Terminal)
  <2>1. ended \in Run BY EndedRunType
  <2>2. r.status = "running" => ended.status = InterruptedStatus(r.dispatched)
    BY DEF EndedRun, Run
  <2>3. r.status # "running" => ended = r BY DEF EndedRun
  <2> QED BY <2>1, <2>2, <2>3 DEF InterruptedStatus, Terminal
<1> HIDE DEF ended
<1>3. decided \in Run BY <1>2, WithDecisionsType
<1>4. /\ decided.status \in {ended.status, "failed"}
      /\ \A s \in Steps : ended.decision[s] = "pending" =>
           /\ Logged(log, s, "rejected") => decided.status = "failed"
           /\ Logged(log, s, "approved") => decided.decision[s] = "approved"
      /\ decided.outcome = ended.outcome
  BY <1>2 DEF WithDecisions, Run
<1>5. (\A s \in Steps : ended.decision[s] = "pending" =>
         ~Logged(log, s, "rejected") /\ ~Logged(log, s, "approved")) => decided = ended
  BY <1>2 DEF WithDecisions, Run
<1> HIDE DEF decided
<1>6. /\ (\A s \in Steps : ~Unsettled(decided, s)) => left = decided
      /\ (~ \A s \in Steps : ~Unsettled(decided, s)) /\ decided.status = "awaiting" =>
           left.status = "cancelled"
      /\ decided.status # "awaiting" => left.status = decided.status
  BY <1>3 DEF WithOutcomes, Run
<1> HIDE DEF left
<1>7. decided.status \in {"awaiting", "running"} /\ decided.status \notin Terminal
  BY <1>1, <1>3, <1>6 DEF Run, RunStatus, Terminal
<1>8. ended.status = "awaiting" /\ decided.status = "awaiting" /\ ended = r
  BY <1>2, <1>4, <1>7 DEF Terminal
<1>9. left = decided /\ \A s \in Steps : ~Unsettled(decided, s)
  BY <1>1, <1>6, <1>8 DEF Terminal
<1>10. \A s \in Steps : ended.decision[s] = "pending" => decided.outcome[s] = "none"
  BY <1>4, <1>8 DEF Proposed
<1>11. \A s \in Steps : ended.decision[s] = "pending" =>
         ~Logged(log, s, "rejected") /\ ~Logged(log, s, "approved")
  BY <1>4, <1>8, <1>9, <1>10 DEF Unsettled
<1> QED BY <1>1, <1>5, <1>8, <1>9, <1>11
-----------------------------------------------------------------------------
(* What the one process that works on the run does to the invariant.       *)

\* Whoever works on the run is the only one that does, and holds its claim.
LEMMA OthersIdle ==
  ASSUME TypeInv, OneWorker, RunInv, NEW p \in Procs, pc[p] # "idle"
  PROVE  /\ claim = p
         /\ \A q \in Procs \ {p} : pc[q] = "idle" /\ cur[q] = Fresh
<1>1. claim = p BY DEF OneWorker
<1>2. \A q \in Procs \ {p} : pc[q] = "idle" BY <1>1 DEF OneWorker
<1>3. \A q \in Procs \ {p} : cur[q] = Fresh BY <1>2 DEF RunInv, Fits, Phase
<1> QED BY <1>1, <1>2, <1>3

\* Nobody else has a write on its way, unless commands overtake writes.
LEMMA OthersWrote ==
  ASSUME TypeInv, OneWorker, RunInv, NoOvertaking, NEW p \in Procs,
         pc[p] # "idle" \/ queue[p] # <<>>
  PROVE  \A q \in Procs \ {p} : queue[q] = <<>>
<1>1. CASE pc[p] # "idle" BY <1>1, OthersIdle DEF RunInv, Together
<1>2. CASE queue[p] # <<>> BY <1>2 DEF RunInv, Together
<1> QED BY <1>1, <1>2

\* A process that leads leaves the others only final records to write.
LEMMA OthersFinal ==
  ASSUME RunInv, NEW p \in Procs, Leads(pc[p], mem[p])
  PROVE  \A q \in Procs \ {p} : AllFinal(queue[q])
BY DEF RunInv, Together

\* The awaits of the invariant's parts, and how they lie.
LEMMA AwaitSets ==
  /\ Executing \subseteq Opening /\ Opening \subseteq Advancing
  /\ Opening \cap Ending = {} /\ Advancing \cap Ending = {}
  /\ Executing \cup {"promote"} \subseteq Advancing
  /\ Running \subseteq Executing \cup {"promote"} /\ Executing \ {"begin"} \subseteq Running
  /\ Busy \ Ending = Advancing \cup {"rejecting"}
  /\ "idle" \notin Mirrored \cup Advancing \cup Running \cup Executing
  /\ {"begin", "close"} \subseteq Executing /\ "promote" \notin Opening
BY DEF Opening, Advancing, Running, Executing, Early, Stepping, InProgress, Ending,
       Mirrored, Busy, Location, Scope

\* An idle process has its writes on their way, and nothing else.
LEMMA IdleFits ==
  ASSUME NEW r, NEW d, NEW w, NEW sent, NEW log,
         \A k \in DOMAIN w : Trusted(w[k], sent, log),
         \A k \in DOMAIN w : k < Len(w) => w[k].status \notin Terminal \cup {"awaiting"},
         NoOvertaking => Queued("idle", d, w)
  PROVE  Fits("idle", r, Fresh, w, d, sent, log)
<1>1. Phase("idle", r, Fresh, w, sent, log)
  BY DEF Phase, Early, Stepping, Executing, InProgress, ActsTrue
<1>2. Lined("idle", d, w)
  <2>1. "idle" \in Ending BY DEF Ending
  <2>2. "idle" \notin Executing \cup {"promote"} \cup Running \cup Opening
    BY DEF Opening, Running, Executing, Early, Stepping, InProgress
  <2> QED BY <2>1, <2>2 DEF Lined
<1>3. Follows("idle", r, d, w) BY AwaitSets DEF Follows
<1>4. "idle" \notin Advancing BY AwaitSets
<1> QED BY <1>1, <1>2, <1>3, <1>4 DEF Fits

\* Nothing on its way is in order, whatever is on disk.
LEMMA NothingFits ==
  ASSUME NEW r, NEW d, NEW sent, NEW log
  PROVE  Fits("idle", r, Fresh, <<>>, d, sent, log)
<1>1. Queued("idle", d, <<>>) BY DEF Queued, Ending
<1> QED BY <1>1, IdleFits

\* Only process p does anything.
OnlyMoves(p) ==
  \A q \in Procs \ {p} : /\ pc'[q] = pc[q] /\ mem'[q] = mem[q] /\ cur'[q] = cur[q]
                         /\ intr'[q] = intr[q] /\ queue'[q] = queue[q]

\* A move of the worker keeps the invariant if what it leaves is good for it,
\* and goes with what the others have on their way.
LEMMA WorkerMoves ==
  ASSUME TypeInv, OneWorker, RunInv, NEW p \in Procs, pc[p] # "idle", pc'[p] # "idle",
         OnlyMoves(p), disk' = disk, claim' = claim,
         Trusted(disk, acts', audit'), SentOnce(acts'), DecidedOnce(audit'),
         Fits(pc'[p], mem'[p], cur'[p], queue'[p], disk, acts', audit'),
         \A q \in Procs \ {p} : \A k \in DOMAIN queue[q] : Trusted(queue[q][k], acts', audit'),
         AllFinal(queue'[p]) \/ \A q \in Procs \ {p} : AllFinal(queue[q]),
         Leads(pc'[p], mem'[p]) => \A q \in Procs \ {p} : AllFinal(queue[q]),
         pc'[p] \in Opening =>
           \A q \in Procs \ {p} : \A k \in DOMAIN queue[q] : Untold(queue[q][k]),
         disk.status = "awaiting" /\ (pc'[p] = "desk" \/ (pc'[p] = "final" /\ ~intr'[p])) =>
           AllFinal(queue'[p]),
         disk = NoRecord => pc'[p] = "begin" \/ (pc'[p] = "final" /\ intr'[p])
  PROVE  RunInv'
<1>1. claim = p /\ \A q \in Procs \ {p} : pc[q] = "idle" /\ cur[q] = Fresh
  BY OthersIdle
<1>2. \A q \in Procs \ {p} : /\ pc'[q] = "idle" /\ queue'[q] = queue[q]
                             /\ mem'[q] = mem[q] /\ cur'[q] = Fresh /\ intr'[q] = intr[q]
  BY <1>1 DEF OnlyMoves
<1>3. \A q \in Procs \ {p} :
        Fits(pc'[q], mem'[q], cur'[q], queue'[q], disk', acts', audit')
  <2> TAKE q \in Procs \ {p}
  <2>1. Fits("idle", mem[q], Fresh, queue[q], disk, acts, audit) BY <1>1 DEF RunInv
  <2>2. /\ \A k \in DOMAIN queue[q] :
             k < Len(queue[q]) => queue[q][k].status \notin Terminal \cup {"awaiting"}
        /\ NoOvertaking => Queued("idle", disk, queue[q])
    BY <2>1 DEF Fits, Lined
  <2>3. Fits("idle", mem[q], Fresh, queue[q], disk, acts', audit') BY <2>2, IdleFits
  <2> QED BY <1>2, <2>3
<1>4. \A q \in Procs : Fits(pc'[q], mem'[q], cur'[q], queue'[q], disk', acts', audit')
  BY <1>2, <1>3
<1>5. \A x : ~Leads("idle", x) BY AwaitSets DEF Leads
<1>6. Together'
  <2>1. NoOvertaking => \A q, t \in Procs : queue'[q] # <<>> /\ t # q =>
          claim' # t /\ queue'[t] = <<>>
    BY <1>1, <1>2, OthersWrote
  <2>2. \A q \in Procs : pc'[q] = "idle" => claim' # q /\ ~intr'[q]
    <3>1. \A q \in Procs \ {p} : ~intr[q] BY <1>1 DEF RunInv, Together
    <3> QED BY <1>1, <1>2, <3>1
  <2>3. disk' = NoRecord => \A q \in Procs :
          \/ pc'[q] = "idle" /\ queue'[q] = <<>>
          \/ pc'[q] = "begin"
          \/ pc'[q] = "final" /\ intr'[q]
    <3>1. disk = NoRecord => \A q \in Procs \ {p} : queue[q] = <<>>
      BY <1>1 DEF RunInv, Together
    <3> QED BY <1>2, <3>1
  <2>4. \A q, t \in Procs : q # t => AllFinal(queue'[q]) \/ AllFinal(queue'[t])
    <3>1. \A q, t \in Procs : q # t => AllFinal(queue[q]) \/ AllFinal(queue[t])
      BY DEF RunInv, Together
    <3> QED BY <1>2, <3>1
  <2>5. \A q, t \in Procs : q # t /\ Leads(pc'[q], mem'[q]) => AllFinal(queue'[t])
    BY <1>2, <1>5
  <2>6. \A q, t \in Procs : q # t /\ pc'[q] \in Opening =>
          \A k \in DOMAIN queue'[t] : Untold(queue'[t][k])
    <3>1. "idle" \notin Opening BY AwaitSets
    <3> QED BY <1>2, <3>1
  <2>7. disk'.status = "awaiting" => \A q \in Procs :
          pc'[q] \in {"idle", "desk"} \/ (pc'[q] = "final" /\ ~intr'[q]) => AllFinal(queue'[q])
    <3>1. disk.status = "awaiting" => \A q \in Procs \ {p} : AllFinal(queue[q])
      BY <1>1 DEF RunInv, Together
    <3> QED BY <1>2, <3>1
  <2> QED BY <2>1, <2>2, <2>3, <2>4, <2>5, <2>6, <2>7 DEF Together
<1> QED BY <1>4, <1>6 DEF RunInv

\* A process that executes the run has a record on disk.
LEMMA RecordOnDisk ==
  ASSUME RunInv, NEW p \in Procs, pc[p] \notin {"idle", "begin", "final"}
  PROVE  disk # NoRecord
BY DEF RunInv, Together

\* What others have on their way while a process goes on, if nothing is sent.
LEMMA OthersStay ==
  ASSUME RunInv, NEW p \in Procs
  PROVE  /\ Trusted(disk, acts, audit) /\ SentOnce(acts) /\ DecidedOnce(audit)
         /\ \A q \in Procs : \A k \in DOMAIN queue[q] : Trusted(queue[q][k], acts, audit)
         /\ AllFinal(queue[p]) \/ \A q \in Procs \ {p} : AllFinal(queue[q])
         /\ pc[p] \in Opening =>
              \A q \in Procs \ {p} : \A k \in DOMAIN queue[q] : Untold(queue[q][k])
         /\ pc[p] \in Advancing \cup {"rejecting"} =>
              \A q \in Procs \ {p} : AllFinal(queue[q])
<1>1. \A q \in Procs : \A k \in DOMAIN queue[q] : Trusted(queue[q][k], acts, audit)
  BY DEF RunInv, Fits
<1>2. pc[p] \in Advancing \cup {"rejecting"} => Leads(pc[p], mem[p]) BY DEF Leads
<1> QED BY <1>1, <1>2 DEF RunInv, Together

\* A move of a process that leads, and neither sends nor decides anything.
LEMMA LeaderMoves ==
  ASSUME TypeInv, OneWorker, RunInv, NEW p \in Procs,
         pc[p] \in Advancing \cup {"rejecting"}, pc'[p] \notin {"idle", "desk"},
         OnlyMoves(p), UNCHANGED <<disk, claim, audit, acts>>,
         Fits(pc'[p], mem'[p], cur'[p], queue'[p], disk, acts, audit),
         pc'[p] \in Opening => pc[p] \in Opening,
         disk.status = "awaiting" /\ pc'[p] = "final" => intr'[p],
         disk = NoRecord => pc'[p] = "begin" \/ (pc'[p] = "final" /\ intr'[p])
  PROVE  RunInv'
<1>1. pc[p] # "idle" BY AwaitSets
<1>2. acts' = acts /\ audit' = audit /\ disk' = disk /\ claim' = claim OBVIOUS
<1>3. Trusted(disk, acts', audit') /\ SentOnce(acts') /\ DecidedOnce(audit')
  BY <1>2, OthersStay
<1>4. \A q \in Procs \ {p} : \A k \in DOMAIN queue[q] : Trusted(queue[q][k], acts', audit')
  BY <1>2, OthersStay
<1>5. Fits(pc'[p], mem'[p], cur'[p], queue'[p], disk, acts', audit') BY <1>2
<1>6. \A q \in Procs \ {p} : AllFinal(queue[q]) BY OthersStay
<1>7. pc'[p] \in Opening =>
        \A q \in Procs \ {p} : \A k \in DOMAIN queue[q] : Untold(queue[q][k])
  BY OthersStay
<1> QED BY <1>1, <1>2, <1>3, <1>4, <1>5, <1>6, <1>7, WorkerMoves

\* A move that issues and sends nothing has to be good for the process only.
LEMMA MoveFits ==
  ASSUME TypeInv, OneWorker, RunInv, NEW p \in Procs, disk # NoRecord,
         NEW from \in Executing, NEW to \in Executing, NEW c,
         from # "close" \/ to = "close", from = "begin" => disk.status # "awaiting",
         Go(p, from, to), cur' = [cur EXCEPT ![p] = c], acts' = acts,
         UNCHANGED <<disk, audit, claim, mem, intr, queue>>,
         Phase(to, mem[p], c, queue[p], acts, audit)
  PROVE  RunInv'
<1>1. /\ pc[p] = from /\ from \notin Ending /\ to \notin Ending /\ from # "idle" /\ to \in Busy
      /\ to \notin {"final", "desk", "rejected"} /\ from \notin {"final", "desk", "rejected"}
  BY DEF Go, Executing, Early, Stepping, InProgress, Ending, Busy, Location, Scope
<1>2. Fits(from, mem[p], cur[p], queue[p], disk, acts, audit) BY <1>1 DEF RunInv
<1>3. to \in Mirrored => from \in Mirrored
  BY DEF Mirrored, Executing, Early, Stepping, InProgress
<1>4. from \in Opening /\ to \in Opening /\ from \in Advancing /\ to \in Advancing
  BY AwaitSets
<1>5. Honest(mem[p], acts, audit) BY <1>2, <1>4 DEF Fits
<1>6. Follows(to, mem[p], disk, queue[p]) BY <1>1, <1>2, <1>3 DEF Fits, Follows
<1>7. Lined(to, disk, queue[p])
  <2>1. disk.status # "awaiting" BY <1>2, AwaitSets DEF Fits, Lined
  <2>2. NoOvertaking => Queued(to, disk, queue[p]) BY <1>1, <1>2 DEF Fits, Lined, Queued
  <2> HIDE DEF Executing
  <2> QED BY <1>1, <1>2, <1>4, <2>1, <2>2 DEF Fits, Lined
<1>8. Fits(to, mem[p], c, queue[p], disk, acts, audit)
  BY <1>1, <1>2, <1>5, <1>6, <1>7 DEF Fits
<1>9. /\ pc'[p] = to /\ mem'[p] = mem[p] /\ cur'[p] = c /\ queue'[p] = queue[p]
      /\ OnlyMoves(p)
  BY DEF TypeInv, TypeOK, Go, OnlyMoves
<1>10. Fits(pc'[p], mem'[p], cur'[p], queue'[p], disk, acts, audit) BY <1>8, <1>9
<1>11. UNCHANGED <<disk, claim, audit, acts>> BY DEF Go
<1>12. /\ pc[p] \in Advancing \cup {"rejecting"} /\ pc[p] \in Opening
       /\ pc'[p] \notin {"idle", "desk", "final"}
  BY <1>1, <1>4, <1>9, AwaitSets DEF Advancing, Opening
<1> HIDE DEF Executing
<1> QED BY <1>9, <1>10, <1>11, <1>12, LeaderMoves

\* A move that issues a record.
LEMMA IssueFits ==
  ASSUME TypeInv, OneWorker, RunInv, NEW p \in Procs,
         NEW from \in Busy \ Ending, NEW to \in Busy \ {"idle", "desk"}, NEW r \in Run,
         Go(p, from, to), Issue(p, r), UNCHANGED <<disk, audit, claim, cur, acts>>,
         \A q \in Procs \ {p} : intr'[q] = intr[q],
         from \in Executing \cup {"promote"} \/ queue[p] = <<>>,
         to = "final" => intr'[p] \/ from = "promote",
         to \in Running => from \in Running, to \in Opening => from \in Opening,
         to # "promote", from = "begin" => to = "final",
         Honest(r, acts, audit), to \notin Ending => r.status \notin Terminal,
         Phase(to, r, cur[p], Append(queue[p], r), acts, audit)
  PROVE  RunInv'
<1> DEFINE w == Append(queue[p], r)
<1>1. pc[p] = from /\ from # "idle" BY DEF Go, Busy
<1>2. Fits(from, mem[p], cur[p], queue[p], disk, acts, audit) BY <1>1 DEF RunInv
<1>3. queue[p] \in Seq(Run) BY DEF TypeInv, TypeOK
<1>4. /\ w # <<>> /\ Len(w) = Len(queue[p]) + 1 /\ w[Len(w)] = r
      /\ DOMAIN w = DOMAIN queue[p] \cup {Len(w)}
      /\ \A k \in DOMAIN queue[p] : w[k] = queue[p][k]
      /\ \A k \in DOMAIN w : k < Len(w) => k \in DOMAIN queue[p]
  BY <1>3
<1>5. from \in Advancing \cup {"rejecting"} /\ from \notin Ending BY AwaitSets
<1> HIDE DEF w
<1>6. Trusted(r, acts, audit) BY HonestIsSound
<1>7. \A k \in DOMAIN w : Trusted(w[k], acts, audit) BY <1>2, <1>4, <1>6 DEF Fits
<1>8. to \in Executing => r.status = "running"
  <2> HIDE DEF Executing
  <2> QED BY DEF Phase, BeingExecuted
<1>9. to \in Opening => Untold(r)
  <2>1. to \in Opening => OneApproval(r, cur[p])
    <3> HIDE DEF Executing
    <3> QED BY DEF Phase, BeingExecuted, Opening
  <2> QED BY <2>1 DEF OneApproval, Untold
<1>10. Queued(to, disk, w) \/ ~NoOvertaking
  <2>1. NoOvertaking => /\ disk.status \notin Terminal
                        /\ \A k \in DOMAIN queue[p] : queue[p][k].status \notin Terminal
    BY <1>2, <1>5 DEF Fits, Lined, Queued
  <2> QED BY <1>4, <2>1 DEF Queued
<1>11. Lined(to, disk, w)
  <2>1. \A k \in DOMAIN queue[p] : queue[p][k].status \notin Terminal
    BY <1>2, <1>5 DEF Fits, Lined
  <2>2. \A k \in DOMAIN queue[p] : queue[p][k].status # "awaiting"
    <3>1. CASE queue[p] = <<>> BY <3>1
    <3>2. CASE from \in Executing \cup {"promote"} BY <1>2, <3>2 DEF Fits, Lined
    <3> QED BY <3>1, <3>2
  <2>3. \A k \in DOMAIN w : /\ k < Len(w) => w[k].status \notin Terminal \cup {"awaiting"}
                            /\ to \notin Ending => w[k].status \notin Terminal
    BY <1>4, <2>1, <2>2
  <2>4. to \in Executing \cup {"promote"} => \A k \in DOMAIN w : w[k].status # "awaiting"
    BY <1>4, <1>8, <2>2
  <2>5. to \in Running => disk.status # "awaiting" BY <1>2 DEF Fits, Lined
  <2>6. to \in Opening => Untold(disk) /\ \A k \in DOMAIN w : Untold(w[k])
    <3>1. to \in Opening => Untold(disk) /\ \A k \in DOMAIN queue[p] : Untold(queue[p][k])
      BY <1>2 DEF Fits, Lined
    <3> QED BY <1>4, <1>9, <3>1
  <2> QED BY <1>10, <2>3, <2>4, <2>5, <2>6 DEF Lined
<1>12. Latest(disk, w) = r BY <1>4 DEF Latest
<1>13. Fits(to, r, cur[p], w, disk, acts, audit)
  BY <1>7, <1>11, <1>12 DEF Fits, Follows, w
<1>14. /\ pc'[p] = to /\ mem'[p] = r /\ cur'[p] = cur[p] /\ queue'[p] = w
       /\ OnlyMoves(p)
  BY DEF TypeInv, TypeOK, Go, Issue, OnlyMoves, w
<1>15. disk = NoRecord => to = "final" /\ intr'[p]
  <2>1. disk = NoRecord => from = "begin" BY <1>1, <1>5, AwaitSets DEF RunInv, Together, Ending
  <2> QED BY <2>1
<1>16. disk.status = "awaiting" /\ to = "final" => intr'[p]
  <2>1. from = "promote" => disk.status # "awaiting" BY <1>2 DEF Fits, Lined, Running
  <2> QED BY <2>1
<1>17. Fits(pc'[p], mem'[p], cur'[p], queue'[p], disk, acts, audit) BY <1>13, <1>14
<1>18. UNCHANGED <<disk, claim, audit, acts>> OBVIOUS
<1> QED BY <1>1, <1>5, <1>14, <1>15, <1>16, <1>17, <1>18, LeaderMoves

\* A move that changes the record in memory only, at the end of an execution.
LEMMA MemFits ==
  ASSUME TypeInv, OneWorker, RunInv, NEW p \in Procs,
         NEW from \in Executing \ {"begin"}, NEW to \in {"close", "promote"}, NEW r \in Run,
         Go(p, from, to), mem' = [mem EXCEPT ![p] = r],
         UNCHANGED <<disk, audit, claim, cur, queue, acts>>,
         \A q \in Procs \ {p} : intr'[q] = intr[q],
         Honest(r, acts, audit), Phase(to, r, cur[p], queue[p], acts, audit)
  PROVE  RunInv'
<1>1. /\ pc[p] = from /\ from \notin Ending /\ to \notin Ending /\ to \notin Mirrored
      /\ from \notin {"idle", "begin", "final"} /\ to \in Busy
  BY DEF Go, Executing, Early, Stepping, InProgress, Ending, Mirrored, Busy, Location, Scope
<1>2. Fits(from, mem[p], cur[p], queue[p], disk, acts, audit) BY <1>1 DEF RunInv
<1>3. from \in Running /\ from \in Opening /\ from \in Executing /\ from \in Advancing
  BY AwaitSets
<1>4. Lined(to, disk, queue[p])
  <2>1. NoOvertaking => Queued(to, disk, queue[p]) BY <1>1, <1>2 DEF Fits, Lined, Queued
  <2> HIDE DEF Executing
  <2> QED BY <1>1, <1>2, <1>3, <2>1 DEF Fits, Lined
<1>5. Fits(to, r, cur[p], queue[p], disk, acts, audit)
  BY <1>1, <1>2, <1>4 DEF Fits, Follows
<1>6. /\ pc'[p] = to /\ mem'[p] = r /\ cur'[p] = cur[p] /\ queue'[p] = queue[p]
      /\ OnlyMoves(p)
  BY DEF TypeInv, TypeOK, Go, OnlyMoves
<1>7. disk # NoRecord BY <1>1, RecordOnDisk
<1>8. Fits(pc'[p], mem'[p], cur'[p], queue'[p], disk, acts, audit) BY <1>5, <1>6
<1>9. UNCHANGED <<disk, claim, audit, acts>> /\ to \notin {"desk", "final", "idle"} OBVIOUS
<1> QED BY <1>1, <1>3, <1>6, <1>7, <1>8, <1>9, LeaderMoves

-----------------------------------------------------------------------------
(* One step of the workflow.                                               *)

\* What the invariant says of a process inside a step.
LEMMA InStep ==
  ASSUME TypeInv, OneWorker, RunInv, NEW p \in Procs, pc[p] \in Stepping
  PROVE  /\ mem[p] \in Run /\ cur[p] \in Progress /\ pc[p] \in Executing
         /\ disk # NoRecord
         /\ Honest(mem[p], acts, audit)
         /\ BeingExecuted(mem[p], cur[p])
         /\ NothingAhead(mem[p], cur[p], acts) /\ UpToStep(mem[p], cur[p], acts)
         /\ ActsTrue(pc[p], mem[p], cur[p], queue[p], acts)
         /\ pc[p] \in {"evidence", "release", "late", "unrebuilt"} => EndTrue(cur[p], acts)
<1>1. pc[p] \in Executing /\ pc[p] \notin {"idle", "begin", "final"}
  BY DEF Executing, Stepping, InProgress
<1>2. mem[p] \in Run /\ cur[p] \in Progress BY <1>1 DEF TypeInv, TypeOK
<1>3. disk # NoRecord BY <1>1, RecordOnDisk
<1>4. Fits(pc[p], mem[p], cur[p], queue[p], disk, acts, audit) BY DEF RunInv
<1>5. Honest(mem[p], acts, audit) BY <1>1, <1>4, AwaitSets DEF Fits
<1> HIDE DEF Stepping, Executing
<1> QED BY <1>1, <1>2, <1>3, <1>4, <1>5 DEF Fits, Phase

\* A move within a step, to an await that the progress is true of.
LEMMA WithinStep ==
  ASSUME TypeInv, OneWorker, RunInv, NEW p \in Procs,
         NEW from \in Stepping, NEW to \in Stepping, NEW c,
         Go(p, from, to), cur' = [cur EXCEPT ![p] = c], acts' = acts,
         UNCHANGED <<disk, audit, claim, mem, intr, queue>>,
         c.step = cur[p].step, c.approved = cur[p].approved,
         c.performed /\ c.step \in Irreversible => acts[c.step] = 1,
         to \in {"evidence", "release", "late", "unrebuilt"} => EndTrue(c, acts),
         ActsTrue(to, mem[p], c, queue[p], acts)
  PROVE  RunInv'
<1>1. pc[p] = from BY DEF Go
<1>2. /\ disk # NoRecord
      /\ BeingExecuted(mem[p], cur[p])
      /\ NothingAhead(mem[p], cur[p], acts) /\ UpToStep(mem[p], cur[p], acts)
  BY <1>1, InStep
<1>3. from \in Executing /\ to \in Executing /\ from \notin {"close", "begin"}
  BY DEF Executing, Stepping, InProgress
<1>4. BeingExecuted(mem[p], c) BY <1>2 DEF BeingExecuted, OneApproval
<1>5. NothingAhead(mem[p], c, acts) /\ UpToStep(mem[p], c, acts)
  BY <1>2 DEF NothingAhead, UpToStep
<1>6. to \notin Early \cup {"idle", "desk", "approving", "approved", "rejecting",
                           "rejected", "begin", "tries", "session", "results"}
  BY DEF Early, Stepping, InProgress
<1>7. Phase(to, mem[p], c, queue[p], acts, audit)
  BY <1>4, <1>5, <1>6 DEF Phase
<1> QED BY <1>2, <1>3, <1>7, MoveFits

\* A step that ends with an error, whether or not anything was sent.
LEMMA RaiseTrue ==
  ASSUME TypeInv, OneWorker, RunInv, NEW p \in Procs, NEW from \in Stepping,
         NEW status \in {"failed", "needs_review", "awaiting"}, NEW stale,
         Raise(p, from, status, stale),
         status = "needs_review" => acts[cur[p].step] = 1,
         status = "awaiting" =>
           /\ cur[p].step \in Irreversible /\ cur[p].step > cur[p].approved
           /\ acts[cur[p].step] = 0
  PROVE  RunInv'
<1>1. pc[p] = from BY DEF Raise, Step, Go
<1>2. cur[p] \in Progress /\ UpToStep(mem[p], cur[p], acts) BY <1>1, InStep
<1>3. PICK c : /\ c \in {[cur[p] EXCEPT !.end = status, !.stale = stale],
                         [cur[p] EXCEPT !.end = "failed"]}
               /\ Step(p, from, "evidence", c)
  BY DEF Raise
<1>4. /\ c.step = cur[p].step /\ c.approved = cur[p].approved
      /\ c.performed = cur[p].performed /\ c.end \in {status, "failed"}
  BY <1>2, <1>3 DEF Progress
<1>5. EndTrue(c, acts) BY <1>4 DEF EndTrue
<1>6. ActsTrue("evidence", mem[p], c, queue[p], acts) BY DEF ActsTrue
<1>7. "evidence" \in Stepping BY DEF Stepping, InProgress
<1>8. c.performed /\ c.step \in Irreversible => acts[c.step] = 1
  BY <1>2, <1>4 DEF UpToStep
<1> HIDE DEF Stepping
<1> QED BY <1>3, <1>4, <1>5, <1>6, <1>7, <1>8, WithinStep DEF Step, Progressed

\* The awaits of a step, by name.
LEMMA StepAwaits ==
  /\ {"resolve", "heal", "acting", "journal", "dispatch", "reached", "verify",
      "restore", "evidence", "unrebuilt", "release", "late"} \subseteq Stepping
  /\ InProgress \subseteq Stepping
BY DEF Stepping, InProgress

\* Resolving, healing and proposing.
LEMMA ResolveTrue ==
  ASSUME TypeInv, OneWorker, RunInv, NEW p \in Procs,
         \/ RecordedResolves(p) \/ PatchResolves(p) \/ Unresolved(p)
         \/ ResolveFails(p) \/ Abstain(p) \/ Propose(p) \/ AcceptHeal(p)
  PROVE  RunInv'
<1>1. ASSUME NEW from \in {"resolve", "heal"}, NEW to \in {"acting", "heal"}, NEW c,
             Step(p, from, to, c), c.step = cur[p].step, c.approved = cur[p].approved,
             c.performed = cur[p].performed
      PROVE  RunInv'
  <2>1. from \in Stepping /\ to \in Stepping BY StepAwaits
  <2>2. pc[p] = from BY <1>1 DEF Step, Go
  <2>3. UpToStep(mem[p], cur[p], acts) /\ ActsTrue(pc[p], mem[p], cur[p], queue[p], acts)
    BY <2>1, <2>2, InStep
  <2>4. ActsTrue(to, mem[p], c, queue[p], acts) BY <1>1, <2>2, <2>3 DEF ActsTrue
  <2>5. c.performed /\ c.step \in Irreversible => acts[c.step] = 1
    BY <1>1, <2>3 DEF UpToStep
  <2>6. to \notin {"evidence", "release", "late", "unrebuilt"} OBVIOUS
  <2> QED BY <1>1, <2>1, <2>4, <2>5, <2>6, WithinStep DEF Step, Progressed
<1>2. cur[p] \in Progress BY DEF TypeInv, TypeOK
<1>3. ASSUME NEW via PROVE LET c == [cur[p] EXCEPT !.via = via] IN
        c.step = cur[p].step /\ c.approved = cur[p].approved /\ c.performed = cur[p].performed
  BY <1>2 DEF Progress
<1>4. CASE RecordedResolves(p) BY <1>1, <1>3, <1>4 DEF RecordedResolves
<1>5. CASE PatchResolves(p) BY <1>1, <1>3, <1>5 DEF PatchResolves
<1>6. CASE Unresolved(p) BY <1>1, <1>6 DEF Unresolved
<1>7. CASE ResolveFails(p) BY <1>7, RaiseTrue, StepAwaits DEF ResolveFails
<1>8. CASE Abstain(p)
  <2>1. PICK stale \in {FALSE, OnApproved(cur[p])} : Raise(p, "heal", "failed", stale)
    BY <1>8 DEF Abstain
  <2> QED BY <2>1, RaiseTrue, StepAwaits
<1>9. CASE Propose(p)
  <2>1. pc[p] = "heal" /\ Raise(p, "heal", "awaiting", FALSE)
    BY <1>9 DEF Propose, Raise, Step, Go
  <2>2. /\ NothingAhead(mem[p], cur[p], acts)
        /\ ActsTrue(pc[p], mem[p], cur[p], queue[p], acts)
    BY <2>1, InStep, StepAwaits
  <2>3. cur[p].step \in Irreversible /\ cur[p].step # cur[p].approved
    BY <1>9 DEF Propose, HealMayAct, OnApproved
  <2>4. cur[p].step > cur[p].approved BY <1>2, <2>2, <2>3 DEF NothingAhead, Progress
  <2>5. acts[cur[p].step] = 0 BY <2>1, <2>2 DEF ActsTrue
  <2>6. "heal" \in Stepping BY StepAwaits
  <2> QED BY <2>1, <2>3, <2>4, <2>5, <2>6, RaiseTrue
<1>10. CASE AcceptHeal(p)
  <2>1. [cur[p] EXCEPT !.via = "healed", !.tries = @ + 1].step = cur[p].step
    BY <1>2 DEF Progress
  <2>2. [cur[p] EXCEPT !.via = "healed", !.tries = @ + 1].approved = cur[p].approved
    BY <1>2 DEF Progress
  <2>3. [cur[p] EXCEPT !.via = "healed", !.tries = @ + 1].performed = cur[p].performed
    BY <1>2 DEF Progress
  <2> QED BY <1>1, <1>10, <2>1, <2>2, <2>3 DEF AcceptHeal
<1> QED BY <1>4, <1>5, <1>6, <1>7, <1>8, <1>9, <1>10

\* Counting an action of a step that may not act twice.
LEMMA ActedOnce ==
  ASSUME TypeInv, SentOnce(acts), NEW s \in Steps,
         s \in Irreversible => acts[s] = 0
  PROVE  /\ SentOnce(Acted({s}))
         /\ s \in Irreversible => Acted({s})[s] = 1
         /\ \A t \in Steps : t # s => Acted({s})[t] = acts[t]
<1>1. acts \in [Steps -> Nat] BY DEF TypeInv, TypeOK
<1>2. \A t \in Steps : Acted({s})[t] = acts[t] + IF t \in {s} \cap Irreversible THEN 1 ELSE 0
  BY DEF Acted
<1>3. \A t \in Steps : t # s => Acted({s})[t] = acts[t] BY <1>1, <1>2
<1>4. s \in Irreversible => Acted({s})[s] = 1 BY <1>1, <1>2
<1>5. s \notin Irreversible => Acted({s})[s] = acts[s]
  <2> HAVE s \notin Irreversible
  <2>1. Acted({s})[s] = acts[s] + 0 BY <1>2
  <2> QED BY <1>1, <2>1
<1> QED BY <1>3, <1>4, <1>5 DEF SentOnce

\* Replaying steps that are all reversible sends nothing that counts.
LEMMA ActedNothing ==
  ASSUME TypeInv, NEW S, S \cap Irreversible = {}
  PROVE  Acted(S) = acts
BY DEF TypeInv, TypeOK, Acted

\* Acting: what is not sent fails or goes back to the ladder, and what is sent
\* is an action whose dispatch the record on disk holds.
LEMMA DispatchTrue ==
  ASSUME TypeInv, OneWorker, RunInv, NEW p \in Procs,
         BeforeActionError(p) \/ ActFails(p) \/ Dispatch(p) \/ ActionReturns(p)
  PROVE  RunInv'
<1>1. cur[p] \in Progress BY DEF TypeInv, TypeOK
<1>2. CASE BeforeActionError(p)
  <2>1. PICK from \in {"acting", "dispatch"} :
          \/ Raise(p, from, "failed", FALSE)
          \/ Step(p, from, "heal", [cur[p] EXCEPT !.via = "none"])
    BY <1>2 DEF BeforeActionError
  <2>2. from \in Stepping /\ "heal" \in Stepping BY StepAwaits
  <2>3. CASE Raise(p, from, "failed", FALSE) BY <2>2, <2>3, RaiseTrue
  <2>4. CASE Step(p, from, "heal", [cur[p] EXCEPT !.via = "none"])
    <3> DEFINE c == [cur[p] EXCEPT !.via = "none"]
    <3>1. c.step = cur[p].step /\ c.approved = cur[p].approved /\ c.performed = cur[p].performed
      BY <1>1 DEF Progress
    <3>2. pc[p] = from BY <2>4 DEF Step, Go
    <3>3. UpToStep(mem[p], cur[p], acts) /\ ActsTrue(pc[p], mem[p], cur[p], queue[p], acts)
      BY <2>2, <3>2, InStep
    <3>4. Step(p, from, "heal", c) BY <2>4
    <3> HIDE DEF c
    <3>5. ActsTrue("heal", mem[p], c, queue[p], acts) BY <3>1, <3>2, <3>3 DEF ActsTrue
    <3>6. c.performed /\ c.step \in Irreversible => acts[c.step] = 1
      BY <3>1, <3>3 DEF UpToStep
    <3> QED BY <2>2, <3>1, <3>4, <3>5, <3>6, WithinStep DEF Step, Progressed
  <2> QED BY <2>1, <2>3, <2>4
<1>3. CASE ActFails(p)
  <2>1. PICK from \in {"acting", "dispatch", "reached"} : Raise(p, from, "failed", FALSE)
    BY <1>3 DEF ActFails
  <2>2. from \in Stepping BY StepAwaits
  <2> QED BY <2>1, <2>2, RaiseTrue
<1>4. CASE Dispatch(p)
  <2>1. PICK from \in {"journal", "acting"} :
          /\ Step(p, from, "dispatch", cur[p])
          /\ Written(p) \/ cur[p].step \notin Irreversible
          /\ from = "journal" \/ cur[p].step \notin Irreversible
    BY <1>4 DEF Dispatch
  <2>2. from \in Stepping /\ "dispatch" \in Stepping /\ pc[p] = from
    BY <2>1, StepAwaits DEF Step, Go
  <2>3. UpToStep(mem[p], cur[p], acts) /\ ActsTrue(pc[p], mem[p], cur[p], queue[p], acts)
    BY <2>2, InStep
  <2>4. ActsTrue("dispatch", mem[p], cur[p], queue[p], acts)
    BY <2>1, <2>2, <2>3 DEF ActsTrue, Written
  <2> QED BY <2>1, <2>2, <2>3, <2>4, WithinStep DEF Step, Progressed, UpToStep
<1>5. CASE ActionReturns(p)
  <2> DEFINE c == [cur[p] EXCEPT !.performed = TRUE]
  <2>1. c.step = cur[p].step /\ c.approved = cur[p].approved BY <1>1 DEF Progress
  <2>2. "reached" \in Stepping /\ "verify" \in Stepping BY StepAwaits
  <2>3. pc[p] = "reached" BY <1>5 DEF ActionReturns, Step, Go
  <2>4. ActsTrue(pc[p], mem[p], cur[p], queue[p], acts) BY <2>2, <2>3, InStep
  <2>5. Step(p, "reached", "verify", c) BY <1>5 DEF ActionReturns
  <2> HIDE DEF c
  <2>6. /\ ActsTrue("verify", mem[p], c, queue[p], acts)
        /\ c.step \in Irreversible => acts[c.step] = 1
    BY <2>1, <2>3, <2>4 DEF ActsTrue
  <2> QED BY <2>1, <2>2, <2>5, <2>6, WithinStep DEF Step, Progressed
<1> QED BY <1>2, <1>3, <1>4, <1>5

\* The dispatch of an irreversible action is written down first.
LEMMA JournalTrue ==
  ASSUME TypeInv, OneWorker, RunInv, NEW p \in Procs, JournalDispatch(p)
  PROVE  RunInv'
<1> DEFINE r == mem[p]
           c == cur[p]
           j == Journaled(r, c.step)
<1>1. pc[p] = "acting" /\ "acting" \in Stepping /\ c.step \in Irreversible
  BY StepAwaits DEF JournalDispatch, Go
<1>2. /\ r \in Run /\ Honest(r, acts, audit) /\ BeingExecuted(r, c)
      /\ NothingAhead(r, c, acts) /\ UpToStep(r, c, acts)
      /\ ActsTrue("acting", r, c, queue[p], acts)
  BY <1>1, InStep
<1>3. /\ j.status = r.status /\ j.steps = r.steps /\ j.decision = r.decision
      /\ j.outcome = r.outcome /\ c.step \in j.dispatched
  BY <1>2 DEF Journaled, Run
<1>4. j \in Run /\ Honest(j, acts, audit)
  BY <1>2, JournaledHonest DEF UpToStep, Journaled, Run
<1>5. Issue(p, j) /\ Go(p, "acting", "journal") /\ UNCHANGED <<disk, audit, claim, cur, intr, acts>>
  BY DEF JournalDispatch
<1> HIDE DEF j, r, c
<1>6. BeingExecuted(j, c) BY <1>2, <1>3 DEF BeingExecuted, OneApproval
<1>7. NothingAhead(j, c, acts) /\ UpToStep(j, c, acts)
  BY <1>2, <1>3 DEF NothingAhead, UpToStep
<1>8. \A w : ActsTrue("journal", j, c, w, acts) BY <1>1, <1>2, <1>3 DEF ActsTrue
<1>9. Phase("journal", j, c, Append(queue[p], j), acts, audit)
  <2>1. "journal" \notin Early \cup {"results"} BY DEF Early
  <2> QED BY <1>6, <1>7, <1>8, <2>1 DEF Phase
<1>10. j.status \notin Terminal BY <1>3, <1>2 DEF BeingExecuted, Terminal
<1>11. /\ "acting" \in Busy \ Ending /\ "journal" \in Busy \ {"idle", "desk"}
       /\ "acting" \in Executing /\ "acting" \in Running /\ "acting" \in Opening
  BY DEF Busy, Location, Scope, InProgress, Ending, Executing, Stepping, Running, Opening
<1>12. "journal" \notin {"final", "promote"} /\ "acting" # "begin" OBVIOUS
<1> HIDE DEF Executing
<1> QED BY <1>4, <1>5, <1>9, <1>10, <1>11, <1>12, IssueFits DEF c

\* An action that reaches a page is the first of its step, and journaled.
LEMMA ReachTrue ==
  ASSUME TypeInv, OneWorker, RunInv, NEW p \in Procs, Reach(p)
  PROVE  RunInv'
<1> DEFINE r == mem[p]
           c == cur[p]
<1>1. /\ pc[p] = "dispatch" /\ {"dispatch", "reached"} \subseteq Stepping
      /\ Go(p, "dispatch", "reached") /\ acts' = Acted({c.step})
      /\ UNCHANGED <<disk, audit, claim, mem, cur, intr, queue>>
  BY StepAwaits DEF Reach, Go
<1>2. /\ r \in Run /\ c \in Progress /\ disk # NoRecord
      /\ Honest(r, acts, audit) /\ BeingExecuted(r, c)
      /\ NothingAhead(r, c, acts) /\ UpToStep(r, c, acts)
      /\ ActsTrue("dispatch", r, c, queue[p], acts)
  BY <1>1, InStep
<1>3. cur' = [cur EXCEPT ![p] = c] BY <1>1 DEF TypeInv, TypeOK
<1>4. CASE c.step \notin Irreversible
  <2>1. acts' = acts BY <1>1, <1>4, ActedNothing
  <2>2. ActsTrue("reached", r, c, queue[p], acts) BY <1>4 DEF ActsTrue
  <2> HIDE DEF c
  <2> QED BY <1>1, <1>2, <1>3, <1>4, <2>1, <2>2, WithinStep DEF UpToStep, c
<1>5. CASE c.step \in Irreversible
  <2>1. queue[p] = <<>> /\ c.step \in r.dispatched /\ acts[c.step] = 0 /\ c.step \in Steps
    BY <1>2, <1>5 DEF ActsTrue, UpToStep
  <2>2. /\ Fits("dispatch", r, c, <<>>, disk, acts, audit)
        /\ Follows("dispatch", r, disk, <<>>) /\ Lined("dispatch", disk, <<>>)
    BY <1>1, <2>1 DEF RunInv, Fits
  <2>3. /\ {"dispatch", "reached"} \subseteq Mirrored /\ "reached" \in Opening
        /\ "dispatch" \in Opening /\ "dispatch" \in Advancing
        /\ {"dispatch", "reached"} \cap (Ending \cup {"final", "rejected"}) = {}
        /\ {"dispatch", "reached"} \subseteq Executing \cap Running \cap Opening
    BY DEF Mirrored, Executing, Stepping, InProgress, Opening, Advancing, Ending, Running
  <2>4. disk = r \/ (~NoOvertaking /\ disk.status \in Terminal)
    <3>1. r.status \notin Terminal BY <1>2 DEF BeingExecuted, Terminal
    <3> QED BY <2>2, <2>3, <3>1 DEF Follows, Latest
  <2>5. SentOnce(acts') /\ acts'[c.step] = 1 /\ \A t \in Steps : t # c.step => acts'[t] = acts[t]
    BY <1>1, <1>5, <2>1, ActedOnce DEF RunInv
  <2>6. Honest(r, acts', audit)
    <3>1. acts \in [Steps -> Nat] BY DEF TypeInv, TypeOK
    <3>2. acts' = [s \in Steps |-> acts[s] + IF s \in {c.step} \cap Irreversible THEN 1 ELSE 0]
      BY <1>1 DEF Acted
    <3> HIDE DEF r, c
    <3> QED BY <1>2, <2>1, <3>1, <3>2, ReachedHonest
  <2>7. Trusted(disk, acts', audit)
    <3>1. CASE disk = r BY <2>6, <3>1, HonestIsSound
    <3>2. CASE ~NoOvertaking /\ disk.status \in Terminal
      <4>1. Sound(disk, acts, audit) BY DEF RunInv, Trusted
      <4>2. Untold(disk) BY <2>2, <2>3 DEF Lined
      <4> HIDE DEF c, r
      <4>3. Sound(disk, acts', audit) BY <2>1, <2>5, <4>1, <4>2, SoundOnceSent
      <4> QED BY <3>2, <4>3 DEF Trusted
    <3> QED BY <2>4, <3>1, <3>2
  <2>8. \A q \in Procs \ {p} : /\ AllFinal(queue[q])
                               /\ \A k \in DOMAIN queue[q] : Untold(queue[q][k])
    <3>1. pc[p] \in Opening /\ pc[p] \in Advancing \cup {"rejecting"} BY <1>1, <2>3
    <3> QED BY <3>1, OthersStay
  <2>9. \A q \in Procs \ {p} : \A k \in DOMAIN queue[q] : Trusted(queue[q][k], acts', audit)
    <3> SUFFICES ASSUME NEW q \in Procs \ {p}, NEW k \in DOMAIN queue[q]
                 PROVE  Trusted(queue[q][k], acts', audit)
      OBVIOUS
    <3>1. Sound(queue[q][k], acts, audit) BY OthersStay DEF Trusted
    <3>2. Untold(queue[q][k]) /\ queue[q][k].status \in Terminal BY <2>8 DEF AllFinal
    <3>3. NoOvertaking => queue[q] = <<>> BY <1>1, OthersWrote
    <3>4. ~NoOvertaking BY <3>3
    <3> HIDE DEF c, r
    <3>5. Sound(queue[q][k], acts', audit) BY <2>1, <2>5, <3>1, <3>2, SoundOnceSent
    <3> QED BY <3>2, <3>4, <3>5 DEF Trusted
  <2>10. NothingAhead(r, c, acts') /\ UpToStep(r, c, acts')
    <3>1. \A s \in Steps : s > c.step => s # c.step BY <2>1 DEF Steps
    <3> QED BY <1>2, <2>5, <3>1 DEF NothingAhead, UpToStep
  <2>11. ActsTrue("reached", r, c, <<>>, acts') BY <2>1, <2>5 DEF ActsTrue
  <2>12. Phase("reached", r, c, <<>>, acts', audit)
    <3>1. "reached" \notin Early \cup {"results"} BY DEF Early
    <3> QED BY <1>2, <2>10, <2>11, <3>1 DEF Phase
  <2>13. Lined("reached", disk, <<>>)
    <3>1. NoOvertaking => Queued("reached", disk, <<>>) BY <2>2, <2>3 DEF Lined, Queued
    <3> HIDE DEF Executing
    <3> QED BY <2>2, <2>3, <3>1 DEF Lined
  <2>14. Follows("reached", r, disk, <<>>) BY <2>4 DEF Follows, Latest
  <2>15. Fits("reached", r, c, <<>>, disk, acts', audit)
    BY <2>6, <2>12, <2>13, <2>14 DEF Fits
  <2>16. /\ pc'[p] = "reached" /\ mem'[p] = r /\ cur'[p] = c /\ queue'[p] = <<>>
         /\ OnlyMoves(p) /\ disk' = disk /\ claim' = claim /\ audit' = audit
    BY <1>1, <1>3, <2>1 DEF TypeInv, TypeOK, Go, OnlyMoves
  <2>17. pc[p] # "idle" /\ pc'[p] # "idle" /\ pc'[p] \notin {"desk", "final"} BY <1>1, <2>16
  <2>18. DecidedOnce(audit') BY <2>16 DEF RunInv
  <2>19. disk # NoRecord BY <1>2
  <2>20. Trusted(disk, acts', audit') BY <2>7, <2>16
  <2>21. Fits(pc'[p], mem'[p], cur'[p], queue'[p], disk, acts', audit') BY <2>15, <2>16
  <2>22. \A q \in Procs \ {p} : \A k \in DOMAIN queue[q] : Trusted(queue[q][k], acts', audit')
    BY <2>9, <2>16
  <2> HIDE DEF r, c
  <2> QED BY <2>5, <2>8, <2>16, <2>17, <2>18, <2>19, <2>20, <2>21, <2>22, WorkerMoves
<1> QED BY <1>4, <1>5

\* Checking the action, and taking the step's evidence.
LEMMA CheckTrue ==
  ASSUME TypeInv, OneWorker, RunInv, NEW p \in Procs,
         \/ ChecksPass(p) \/ ChecksFail(p) \/ PageProblem(p) \/ RestoreFails(p)
         \/ EvidenceTaken(p) \/ ScreenshotFails(p)
  PROVE  RunInv'
<1>1. cur[p] \in Progress BY DEF TypeInv, TypeOK
<1>2. CASE ChecksPass(p)
  <2> DEFINE c == [cur[p] EXCEPT !.end = "succeeded"]
  <2>1. /\ c.step = cur[p].step /\ c.approved = cur[p].approved
        /\ c.performed = cur[p].performed /\ c.end = "succeeded"
    BY <1>1 DEF Progress
  <2>2. "verify" \in Stepping /\ "evidence" \in Stepping BY StepAwaits
  <2>3. pc[p] = "verify" BY <1>2 DEF ChecksPass, Step, Go
  <2>4. UpToStep(mem[p], cur[p], acts) /\ ActsTrue(pc[p], mem[p], cur[p], queue[p], acts)
    BY <2>2, <2>3, InStep
  <2>5. Step(p, "verify", "evidence", c) BY <1>2 DEF ChecksPass
  <2> HIDE DEF c
  <2>6. ActsTrue("evidence", mem[p], c, queue[p], acts) BY DEF ActsTrue
  <2>7. EndTrue(c, acts) BY <2>1, <2>3, <2>4 DEF EndTrue, ActsTrue
  <2>8. c.performed /\ c.step \in Irreversible => acts[c.step] = 1
    BY <2>1, <2>4 DEF UpToStep
  <2> QED BY <2>1, <2>2, <2>5, <2>6, <2>7, <2>8, WithinStep DEF Step, Progressed
<1>3. CASE ChecksFail(p)
  <2>1. "verify" \in Stepping /\ "restore" \in Stepping BY StepAwaits
  <2>2. pc[p] = "verify" BY <1>3 DEF ChecksFail, Raise, Step, Go
  <2>3. UpToStep(mem[p], cur[p], acts) /\ ActsTrue(pc[p], mem[p], cur[p], queue[p], acts)
    BY <2>1, <2>2, InStep
  <2>4. CASE cur[p].step \in Irreversible
    <3>1. acts[cur[p].step] = 1 BY <2>2, <2>3, <2>4 DEF ActsTrue
    <3>2. PICK status \in {"failed", "needs_review"} : Raise(p, "verify", status, FALSE)
      BY <1>3, <2>4 DEF ChecksFail
    <3> QED BY <2>1, <3>1, <3>2, RaiseTrue
  <2>5. CASE cur[p].step \notin Irreversible
    <3>1. CASE Raise(p, "verify", "failed", FALSE) BY <2>1, <3>1, RaiseTrue
    <3>2. CASE Step(p, "verify", "restore", cur[p])
      <4>1. ActsTrue("restore", mem[p], cur[p], queue[p], acts) BY <2>5 DEF ActsTrue
      <4> QED BY <2>1, <2>3, <2>5, <3>2, <4>1, WithinStep DEF Step, Progressed, UpToStep
    <3> QED BY <1>3, <2>5, <3>1, <3>2 DEF ChecksFail
  <2> QED BY <2>4, <2>5
<1>4. CASE PageProblem(p) BY <1>4, RaiseTrue, StepAwaits DEF PageProblem
<1>5. CASE RestoreFails(p) BY <1>5, RaiseTrue, StepAwaits DEF RestoreFails
<1>6. CASE EvidenceTaken(p)
  <2>1. "evidence" \in Stepping /\ "release" \in Stepping BY StepAwaits
  <2>2. pc[p] = "evidence" BY <1>6 DEF EvidenceTaken, Step, Go
  <2>3. UpToStep(mem[p], cur[p], acts) /\ EndTrue(cur[p], acts)
    BY <2>1, <2>2, InStep
  <2>4. ActsTrue("release", mem[p], cur[p], queue[p], acts) BY DEF ActsTrue
  <2> QED BY <1>6, <2>1, <2>3, <2>4, WithinStep DEF EvidenceTaken, Step, Progressed, UpToStep
<1>7. CASE ScreenshotFails(p) BY <1>7, RaiseTrue, StepAwaits DEF ScreenshotFails
<1> QED BY <1>2, <1>3, <1>4, <1>5, <1>6, <1>7

\* Restoring the page replays reversible steps only.
LEMMA RestoredTrue ==
  ASSUME TypeInv, OneWorker, RunInv, NEW p \in Procs, Restored(p)
  PROVE  RunInv'
<1>1. cur[p] \in Progress BY DEF TypeInv, TypeOK
<1>2. PICK first \in 1..cur[p].step :
        /\ MayReplay(first, cur[p].step)
        /\ acts' = Acted(first..(cur[p].step - 1))
  BY DEF Restored
<1>3. acts' = acts BY <1>2, ActedNothing DEF MayReplay
<1>4. PICK to \in {"acting", "heal"}, via \in {"recorded", "none"} :
        /\ Go(p, "restore", to)
        /\ Progressed(p, [cur[p] EXCEPT !.via = via, !.performed = FALSE])
        /\ UNCHANGED <<disk, audit, claim, mem, intr, queue>>
  BY DEF Restored
<1> DEFINE c == [cur[p] EXCEPT !.via = via, !.performed = FALSE]
<1>5. c.step = cur[p].step /\ c.approved = cur[p].approved /\ c.performed = FALSE
  BY <1>1 DEF Progress
<1>6. "restore" \in Stepping /\ to \in Stepping BY StepAwaits
<1>7. pc[p] = "restore" BY <1>4 DEF Go
<1>8. UpToStep(mem[p], cur[p], acts) /\ ActsTrue(pc[p], mem[p], cur[p], queue[p], acts)
  BY <1>6, <1>7, InStep
<1>9. cur' = [cur EXCEPT ![p] = c] BY <1>4 DEF Progressed
<1> HIDE DEF c
<1>10. c.step \notin Irreversible /\ acts[c.step] = 0
  <2>1. SentOnce(acts) BY DEF RunInv
  <2> QED BY <1>5, <1>7, <1>8, <2>1 DEF ActsTrue, UpToStep, SentOnce
<1>11. ActsTrue(to, mem[p], c, queue[p], acts) BY <1>10 DEF ActsTrue
<1>12. to \notin {"evidence", "release", "late", "unrebuilt"} OBVIOUS
<1> QED BY <1>3, <1>4, <1>5, <1>6, <1>9, <1>11, <1>12, WithinStep

\* The step's result is recorded, and says how it ended.
LEMMA ResultTrue ==
  ASSUME TypeInv, OneWorker, RunInv, NEW p \in Procs, RecordResult(p)
  PROVE  RunInv'
<1> DEFINE c == cur[p]
           r == WithResult(mem[p], c)
<1>1. PICK from \in {"release", "unrebuilt"} :
        /\ Go(p, from, "results") /\ Issue(p, r)
        /\ UNCHANGED <<disk, audit, claim, cur, intr, acts>>
  BY DEF RecordResult
<1>2. from \in Stepping /\ pc[p] = from BY <1>1, StepAwaits DEF Go
<1>3. /\ mem[p] \in Run /\ c \in Progress
      /\ Honest(mem[p], acts, audit) /\ BeingExecuted(mem[p], c)
      /\ NothingAhead(mem[p], c, acts) /\ UpToStep(mem[p], c, acts) /\ EndTrue(c, acts)
  BY <1>2, InStep
<1>4. r \in Run BY <1>3, WithResultType
<1>5. /\ Honest(r, acts, audit) /\ BeingExecuted(r, c) /\ NothingAhead(r, c, acts)
      /\ \A s \in Steps : s <= c.step => r.steps[s].status # "not_run"
  BY <1>3, ResultHonest
<1> HIDE DEF r
<1>6. \A w : ActsTrue("results", r, c, w, acts) BY DEF ActsTrue
<1> HIDE DEF c
<1>7. Phase("results", r, c, Append(queue[p], r), acts, audit)
  <2>1. "results" \notin Early \cup Stepping BY DEF Early, Stepping, InProgress
  <2> QED BY <1>5, <1>6, <2>1 DEF Phase
<1>8. r.status \notin Terminal BY <1>5 DEF BeingExecuted, Terminal
<1>9. /\ from \in Busy \ Ending /\ from # "begin" /\ "results" \in Busy \ {"idle", "desk"}
      /\ from \in Executing /\ from \in Running /\ from \in Opening
  BY DEF Busy, Location, Scope, InProgress, Ending, Executing, Stepping, Running, Opening
<1>10. "results" \notin {"final", "promote"} OBVIOUS
<1> HIDE DEF Executing
<1> QED BY <1>1, <1>4, <1>5, <1>7, <1>8, <1>9, <1>10, IssueFits DEF c

\* An execution that is over keeps its record.
LEMMA ToClose ==
  ASSUME TypeInv, OneWorker, RunInv, NEW p \in Procs,
         NEW from \in Executing \ {"begin", "close"}, NEW c,
         Step(p, from, "close", c), c.approved = cur[p].approved
  PROVE  RunInv'
<1>1. pc[p] = from /\ from \notin {"idle", "begin", "final"}
  BY DEF Step, Go, Executing, Early, Stepping, InProgress
<1>2. BeingExecuted(mem[p], cur[p])
  <2>1. Phase(from, mem[p], cur[p], queue[p], acts, audit) BY <1>1 DEF RunInv, Fits
  <2> HIDE DEF Executing
  <2> QED BY <2>1 DEF Phase
<1>3. BeingExecuted(mem[p], c) BY <1>2 DEF BeingExecuted, OneApproval
<1>4. ActsTrue("close", mem[p], c, queue[p], acts) BY DEF ActsTrue
<1>5. Phase("close", mem[p], c, queue[p], acts, audit)
  <2>1. "close" \notin Early \cup Stepping BY DEF Early, Stepping, InProgress
  <2> QED BY <1>3, <1>4, <2>1 DEF Phase
<1>6. "close" \in Executing BY DEF Executing
<1>7. disk # NoRecord BY <1>1, RecordOnDisk
<1> HIDE DEF Executing
<1> QED BY <1>5, <1>6, <1>7, MoveFits DEF Step, Progressed

-----------------------------------------------------------------------------
(* From one step to the next, and an execution's beginning and end.        *)

\* What the invariant says of a process that is executing the run.
LEMMA InExecution ==
  ASSUME TypeInv, RunInv, NEW p \in Procs, pc[p] \in Executing
  PROVE  /\ mem[p] \in Run /\ cur[p] \in Progress /\ cur[p].step \in Nat
         /\ cur[p].approved \in Nat
         /\ Honest(mem[p], acts, audit) /\ BeingExecuted(mem[p], cur[p])
         /\ Phase(pc[p], mem[p], cur[p], queue[p], acts, audit)
<1>1. pc[p] # "idle" BY DEF Executing, Early, Stepping, InProgress
<1>2. mem[p] \in Run /\ cur[p] \in Progress BY <1>1 DEF TypeInv, TypeOK
<1>3. Honest(mem[p], acts, audit) /\ Phase(pc[p], mem[p], cur[p], queue[p], acts, audit)
  BY AwaitSets DEF RunInv, Fits
<1>4. BeingExecuted(mem[p], cur[p])
  <2> HIDE DEF Executing
  <2> QED BY <1>3 DEF Phase
<1> QED BY <1>2, <1>3, <1>4 DEF Progress

\* A step begins once the one before it has succeeded.
LEMMA NextStepTrue ==
  ASSUME TypeInv, OneWorker, RunInv, NEW p \in Procs, NextStep(p) \/ StepsDone(p)
  PROVE  RunInv'
<1> DEFINE c == cur[p]
           r == mem[p]
<1>1. pc[p] = "results" /\ "results" \in Executing /\ "resolve" \in Executing
  BY DEF NextStep, StepsDone, Step, Go, Executing, Stepping, InProgress
<1>2. /\ r \in Run /\ c \in Progress /\ c.step \in Nat /\ c.approved \in Nat
      /\ BeingExecuted(r, c) /\ Phase("results", r, c, queue[p], acts, audit)
  BY <1>1, InExecution
<1>3. CASE \E x : Step(p, "results", "close", x) /\ x.approved = c.approved
  <2>1. "results" \in Executing \ {"begin", "close"} BY <1>1
  <2> QED BY <1>3, <2>1, ToClose
<1>4. CASE NextStep(p) /\ Step(p, "results", "resolve", StepBegun(c, c.step + 1))
  <2> DEFINE x == StepBegun(c, c.step + 1)
  <2>1. /\ x.step = c.step + 1 /\ x.approved = c.approved /\ x.performed = FALSE
    BY DEF StepBegun, Fresh
  <2>2. ~Stopped(r) /\ c.step < NumSteps BY <1>4 DEF NextStep
  <2>3. /\ NothingAhead(r, c, acts)
        /\ \A s \in Steps : s <= c.step => r.steps[s].status # "not_run"
    BY <1>2 DEF Phase
  <2>4. x.step \in Steps /\ NumSteps \in Nat
    BY <1>2, <2>1, <2>2, StepsAssumption DEF Steps
  <2>5. \A s \in Steps : /\ s < x.step => s <= c.step
                         /\ s > x.step => s > c.step
    BY <1>2, <2>1 DEF Steps
  <2>6. \A s \in Steps : s <= c.step => r.steps[s].status = "succeeded"
    <3>1. \A s \in Steps : r.steps[s].status \in StepStatus \ Stopping
      BY <1>2, <2>2 DEF Stopped, Run, StepResult
    <3> QED BY <2>3, <3>1 DEF StepStatus
  <2>7. x.step > c.step /\ x.step >= c.approved /\ x.step <= NumSteps
    BY <1>2, <2>1, <2>2, <2>3, <2>4 DEF NothingAhead
  <2>8. Step(p, "results", "resolve", x) BY <1>4
  <2> HIDE DEF x, c, r
  <2>9. BeingExecuted(r, x) BY <1>2, <2>1 DEF BeingExecuted, OneApproval
  <2>10. NothingAhead(r, x, acts) BY <2>1, <2>3, <2>5, <2>7 DEF NothingAhead
  <2>11. UpToStep(r, x, acts) BY <2>1, <2>3, <2>4, <2>5, <2>6, <2>7 DEF UpToStep, NothingAhead
  <2>12. ActsTrue("resolve", r, x, queue[p], acts)
    BY <2>3, <2>4, <2>7 DEF ActsTrue, NothingAhead
  <2>13. Phase("resolve", r, x, queue[p], acts, audit)
    <3>1. "resolve" \notin Early BY DEF Early
    <3> QED BY <2>9, <2>10, <2>11, <2>12, <3>1 DEF Phase
  <2>14. disk # NoRecord BY <1>1, RecordOnDisk
  <2> QED BY <1>1, <2>8, <2>13, <2>14, MoveFits DEF Step, Progressed, r
<1>5. [c EXCEPT !.error = TRUE].approved = c.approved BY <1>2 DEF Progress
<1>6. \/ \E x : Step(p, "results", "close", x) /\ x.approved = c.approved
      \/ NextStep(p) /\ Step(p, "results", "resolve", StepBegun(c, c.step + 1))
  BY <1>5 DEF NextStep, StepsDone
<1> QED BY <1>3, <1>4, <1>6

\* The time limit ends a step as failed, or the run where it is.
LEMMA ExpiryTrue ==
  ASSUME TypeInv, OneWorker, RunInv, NEW p \in Procs, ScopeExpires(p)
  PROVE  RunInv'
<1>1. cur[p] \in Progress BY DEF TypeInv, TypeOK
<1>2. ASSUME NEW from \in InProgress,
             Step(p, from, "late", [cur[p] EXCEPT !.end = "failed", !.stale = FALSE,
                                      !.unknown = from \in {"dispatch", "reached"}])
      PROVE  RunInv'
  <2> DEFINE c == [cur[p] EXCEPT !.end = "failed", !.stale = FALSE,
                                 !.unknown = from \in {"dispatch", "reached"}]
  <2>1. /\ c.step = cur[p].step /\ c.approved = cur[p].approved
        /\ c.performed = cur[p].performed /\ c.end = "failed"
    BY <1>1 DEF Progress
  <2>2. from \in Stepping /\ "late" \in Stepping BY StepAwaits
  <2>3. UpToStep(mem[p], cur[p], acts) BY <1>2, <2>2, InStep DEF Step, Go
  <2>4. Step(p, from, "late", c) BY <1>2
  <2> HIDE DEF c
  <2>5. EndTrue(c, acts) BY <2>1 DEF EndTrue
  <2>6. ActsTrue("late", mem[p], c, queue[p], acts) BY DEF ActsTrue
  <2>7. c.performed /\ c.step \in Irreversible => acts[c.step] = 1
    BY <2>1, <2>3 DEF UpToStep
  <2> QED BY <2>1, <2>2, <2>4, <2>5, <2>6, <2>7, WithinStep DEF Step, Progressed
<1>3. ASSUME NEW from \in Scope \ InProgress, Step(p, from, "close", cur[p])
      PROVE  RunInv'
  <2>1. from \in Executing \ {"begin", "close"}
    BY DEF Scope, Executing, Early, Stepping
  <2> QED BY <1>3, <2>1, ToClose
<1> QED BY <1>2, <1>3 DEF ScopeExpires

\* The run begins, opens its session, and comes to its first step.
LEMMA BeginTrue ==
  ASSUME TypeInv, OneWorker, RunInv, NEW p \in Procs,
         Begun(p) \/ TriesRead(p) \/ SessionOpened(p)
  PROVE  RunInv'
<1> DEFINE c == cur[p]
           r == mem[p]
<1>1. PICK from \in {"begin", "tries", "session"},
           to \in {"tries", "session", "results", "rebuild"} :
        /\ Go(p, from, to) /\ UNCHANGED <<disk, audit, claim, mem, cur, intr, queue, acts>>
        /\ from = "begin" => Written(p)
        /\ to = "results" => c.approved = 0
  BY DEF Begun, TriesRead, SessionOpened
<1>2. pc[p] = from /\ from \in Executing /\ to \in Executing /\ from \in Early
  BY <1>1 DEF Go, Executing, Early
<1>3. /\ r \in Run /\ c \in Progress /\ c.step \in Nat /\ c.approved \in Nat
      /\ BeingExecuted(r, c) /\ Phase(from, r, c, queue[p], acts, audit)
  BY <1>2, InExecution
<1>4. disk # NoRecord /\ (from = "begin" => disk.status # "awaiting")
  <2>1. CASE from = "begin"
    <3>1. "begin" \in Mirrored /\ "begin" \notin {"final", "rejected"}
      BY DEF Mirrored, Executing, Early
    <3>2. queue[p] = <<>> /\ Follows("begin", r, disk, queue[p])
      BY <1>1, <1>2, <2>1 DEF RunInv, Fits, Written
    <3>3. r.status = "running" BY <1>3 DEF BeingExecuted
    <3>4. disk = r \/ disk.status \in Terminal
      BY <3>1, <3>2, <3>3 DEF Follows, Latest, Terminal
    <3>5. NoRecord.status = "absent" BY DEF NoRecord, NewRun
    <3> QED BY <3>3, <3>4, <3>5 DEF Terminal
  <2>2. CASE from # "begin" BY <1>2, <2>2, RecordOnDisk
  <2> QED BY <2>1, <2>2
<1>5. /\ c.step = 0 /\ Resumable(r, c, acts)
      /\ \A t \in Steps : t >= c.approved => r.steps[t] = NotRun
  BY <1>2, <1>3 DEF Phase
<1>6. ActsTrue(to, r, c, queue[p], acts) BY DEF ActsTrue
<1>7. Phase(to, r, c, queue[p], acts, audit)
  <2>1. CASE to = "results"
    <3>1. c.approved = 0 BY <1>1, <2>1
    <3>2. \A s \in Steps : s >= c.approved /\ ~(s <= c.step)
      BY <1>5, <3>1 DEF Steps
    <3>3. NothingAhead(r, c, acts)
      <4>1. \A s \in Steps : acts[s] = 0 BY <1>5 DEF Resumable, Unsent
      <4>2. \A s \in Steps : r.steps[s].status = "not_run" BY <1>5, <3>2 DEF NotRun
      <4> QED BY <1>5, <3>1, <4>1, <4>2, StepsAssumption DEF NothingAhead
    <3>4. "results" \notin Early \cup Stepping BY DEF Early, Stepping, InProgress
    <3> HIDE DEF r, c
    <3> QED BY <1>3, <1>6, <2>1, <3>2, <3>3, <3>4 DEF Phase
  <2>2. CASE to # "results"
    <3>1. to \notin Stepping \cup {"results"} BY <2>2 DEF Stepping, InProgress
    <3> HIDE DEF r, c
    <3> QED BY <1>3, <1>5, <1>6, <3>1 DEF Phase
  <2> QED BY <2>1, <2>2
<1>8. cur' = [cur EXCEPT ![p] = c] BY <1>1 DEF TypeInv, TypeOK
<1>9. from # "close" OBVIOUS
<1> HIDE DEF Executing
<1> QED BY <1>1, <1>2, <1>4, <1>7, <1>8, <1>9, MoveFits

\* Rebuilding the page for an approved step sends nothing irreversible.
LEMMA RebuildTrue ==
  ASSUME TypeInv, OneWorker, RunInv, NEW p \in Procs,
         Rebuild(p) \/ Rebuilt(p) \/ RebuildFails(p)
  PROVE  RunInv'
<1> DEFINE c == cur[p]
           r == mem[p]
<1>1. pc[p] = "rebuild" /\ "rebuild" \in Executing /\ "rebuild" \in Early
  BY DEF Rebuild, Rebuilt, RebuildFails, Step, Go, Executing, Early
<1>2. /\ r \in Run /\ c \in Progress /\ c.step \in Nat /\ c.approved \in Nat
      /\ BeingExecuted(r, c) /\ Phase("rebuild", r, c, queue[p], acts, audit)
  BY <1>1, InExecution
<1>3. /\ Resumable(r, c, acts)
      /\ \A t \in Steps : t >= c.approved => r.steps[t] = NotRun
  BY <1>1, <1>2 DEF Phase
<1>4. c.approved # 0 /\ c.approved \in Irreversible /\ c.approved \in Steps
  <2>1. c.approved # 0 BY <1>2 DEF Rebuild, Rebuilt, RebuildFails
  <2> QED BY <1>2, <2>1, StepsAssumption DEF BeingExecuted, OneApproval
<1>5. disk # NoRecord BY <1>1, RecordOnDisk
<1>6. CASE Rebuild(p)
  <2> DEFINE x == [c EXCEPT !.step = @ + 1]
  <2>1. x.step = c.step + 1 /\ x.approved = c.approved BY <1>2 DEF Progress
  <2>2. c.step + 1 \in Steps /\ c.step + 1 < c.approved
    BY <1>2, <1>4, <1>6, StepsAssumption DEF Rebuild, Steps
  <2>3. c.step + 1 \notin Irreversible BY <1>3, <2>2 DEF Resumable
  <2>4. acts' = acts
    <3>1. {c.step + 1} \cap Irreversible = {} BY <2>3
    <3> QED BY <1>6, <3>1, ActedNothing DEF Rebuild
  <2>5. /\ Go(p, "rebuild", "rebuild") /\ cur' = [cur EXCEPT ![p] = x]
        /\ UNCHANGED <<disk, audit, claim, mem, intr, queue>>
    BY <1>6 DEF Rebuild, Progressed
  <2> HIDE DEF x, c, r
  <2>6. BeingExecuted(r, x) BY <1>2, <2>1 DEF BeingExecuted, OneApproval
  <2>7. Resumable(r, x, acts) BY <1>3, <2>1 DEF Resumable
  <2>8. ActsTrue("rebuild", r, x, queue[p], acts) BY DEF ActsTrue
  <2>9. Phase("rebuild", r, x, queue[p], acts, audit)
    <3>1. "rebuild" \notin Stepping BY DEF Stepping, InProgress
    <3> QED BY <1>3, <2>1, <2>6, <2>7, <2>8, <3>1 DEF Phase
  <2> QED BY <1>1, <1>5, <2>4, <2>5, <2>9, MoveFits DEF r
<1>7. ASSUME NEW to \in {"resolve", "unrebuilt"}, NEW x, Step(p, "rebuild", to, x),
             x.step = c.approved, x.approved = c.approved, x.performed = FALSE,
             to = "unrebuilt" => x.end = "failed"
      PROVE  RunInv'
  <2>1. \A s \in Steps : acts[s] = 0 BY <1>3 DEF Resumable, Unsent
  <2>2. \A s \in Steps : s > c.approved => s >= c.approved BY <1>2 DEF Steps
  <2>3. c.approved >= c.approved /\ c.approved <= NumSteps BY <1>2, <1>4 DEF Steps
  <2> HIDE DEF c, r
  <2>4. BeingExecuted(r, x) BY <1>2, <1>7 DEF BeingExecuted, OneApproval
  <2>5. NothingAhead(r, x, acts)
    BY <1>3, <1>7, <2>1, <2>2, <2>3 DEF NothingAhead, NotRun
  <2>6. UpToStep(r, x, acts)
    BY <1>3, <1>4, <1>7, <2>3 DEF UpToStep, Resumable, NotRun
  <2>7. ActsTrue(to, r, x, queue[p], acts) BY <1>4, <1>7, <2>1 DEF ActsTrue
  <2>8. to = "unrebuilt" => EndTrue(x, acts) BY <1>7 DEF EndTrue
  <2>9. Phase(to, r, x, queue[p], acts, audit)
    <3>1. to \notin Early BY DEF Early
    <3> QED BY <2>4, <2>5, <2>6, <2>7, <2>8, <3>1 DEF Phase
  <2>10. to \in Executing BY DEF Executing, Stepping, InProgress
  <2> QED BY <1>1, <1>5, <1>7, <2>9, <2>10, MoveFits DEF Step, Progressed, r
<1>8. CASE Rebuilt(p)
  <2> DEFINE x == StepBegun(c, c.approved)
  <2>1. x.step = c.approved /\ x.approved = c.approved /\ x.performed = FALSE
    BY DEF StepBegun, Fresh
  <2>2. Step(p, "rebuild", "resolve", x) BY <1>8 DEF Rebuilt
  <2> HIDE DEF x
  <2> QED BY <1>7, <2>1, <2>2
<1>9. CASE RebuildFails(p)
  <2> DEFINE x == [StepBegun(c, c.approved) EXCEPT !.end = "failed", !.stale = TRUE]
  <2>1. /\ x.step = c.approved /\ x.approved = c.approved /\ x.performed = FALSE
        /\ x.end = "failed"
    BY DEF StepBegun, Fresh
  <2> QED BY <1>7, <1>9, <2>1 DEF RebuildFails
<1> QED BY <1>6, <1>8, <1>9

\* An execution that ends puts together an honest final or paused record.
LEMMA CloseTrue ==
  ASSUME TypeInv, OneWorker, RunInv, NEW p \in Procs,
         LateResult(p) \/ SessionFails(p) \/ Close(p) \/ InterruptRun(p)
  PROVE  RunInv'
<1> DEFINE c == cur[p]
           r == mem[p]
<1>1. acts \in [Steps -> Nat] BY DEF TypeInv, TypeOK
<1>2. ASSUME pc[p] \in Executing
      PROVE  /\ r \in Run /\ c \in Progress /\ Honest(r, acts, audit) /\ BeingExecuted(r, c)
             /\ Proposed(r) /\ ResultsTrue(r, acts) /\ StatusTrue(r, acts)
             /\ DecisionsTrue(r, acts, audit) /\ Orderly(r) /\ r.status = "running"
    BY <1>2, InExecution DEF Honest, BeingExecuted
<1>3. ASSUME NEW from \in Executing \ {"begin"}, NEW x \in Run, Go(p, from, "promote"),
             mem' = [mem EXCEPT ![p] = x], Honest(x, acts, audit),
             UNCHANGED <<disk, audit, claim, cur, queue, acts>>,
             \A q \in Procs \ {p} : intr'[q] = intr[q]
      PROVE  RunInv'
  <2>1. ActsTrue("promote", x, c, queue[p], acts) BY DEF ActsTrue
  <2>2. "promote" \notin Early \cup Stepping \cup Executing
    BY DEF Early, Stepping, InProgress, Executing
  <2>3. Phase("promote", x, c, queue[p], acts, audit) BY <2>1, <2>2 DEF Phase
  <2> HIDE DEF Executing
  <2> QED BY <1>3, <2>3, MemFits
<1>4. CASE LateResult(p)
  <2> DEFINE x == WithResult(r, c)
  <2>1. pc[p] = "late" /\ Go(p, "late", "close") /\ mem' = [mem EXCEPT ![p] = x]
    BY <1>4 DEF LateResult, Go
  <2>2. /\ r \in Run /\ c \in Progress /\ Honest(r, acts, audit) /\ BeingExecuted(r, c)
        /\ NothingAhead(r, c, acts) /\ UpToStep(r, c, acts) /\ EndTrue(c, acts)
    BY <2>1, InStep, StepAwaits
  <2>3. x \in Run /\ Honest(x, acts, audit) /\ BeingExecuted(x, c)
    BY <2>2, WithResultType, ResultHonest
  <2> HIDE DEF x, c, r
  <2>4. ActsTrue("close", x, c, queue[p], acts) BY DEF ActsTrue
  <2>5. Phase("close", x, c, queue[p], acts, audit)
    <3>1. "close" \notin Early \cup Stepping BY DEF Early, Stepping, InProgress
    <3> QED BY <2>3, <2>4, <3>1 DEF Phase
  <2>6. "late" \in Executing \ {"begin"} BY DEF Executing, Stepping
  <2> QED BY <1>4, <2>1, <2>3, <2>5, <2>6, MemFits DEF LateResult, c
<1>5. CASE SessionFails(p)
  <2>1. pc[p] = "session" /\ "session" \in Executing \ {"begin"}
    BY <1>5 DEF SessionFails, Go, Executing, Early
  <2> DEFINE x == Finished(r, c.approved, "failed")
  <2>2. Honest(x, acts, audit)
    <3> HIDE DEF r, c
    <3> QED BY <1>1, <1>2, <2>1, FinishedHonest DEF Terminal
  <2>3. x \in Run BY <1>2, <2>1, FinishedType DEF RunStatus, Terminal
  <2> HIDE DEF x
  <2> QED BY <1>3, <1>5, <2>1, <2>2, <2>3 DEF SessionFails, x
<1>6. ASSUME pc[p] \in Executing
      PROVE  LET x == Finished(r, c.approved, RunOutcome(r, c.error))
             IN x \in Run /\ Honest(x, acts, audit)
  <2> DEFINE status == RunOutcome(r, c.error)
  <2>1. c.error \in BOOLEAN BY <1>2, <1>6 DEF Progress
  <2>2. /\ status \in {"succeeded", "failed", "needs_review", "awaiting"}
        /\ status = "awaiting" => \E s \in Steps : FailedStep(r, s) /\ r.steps[s].status = "awaiting"
        /\ status = "succeeded" => \A s \in Steps : r.steps[s].status = "succeeded"
    BY <1>2, <1>6, <2>1, OutcomeAllowed
  <2> HIDE DEF status, r, c
  <2>3. status \in Terminal \cup {"awaiting"} /\ status \in RunStatus /\ status # "cancelled"
    BY <2>2 DEF Terminal, RunStatus
  <2>4. Honest(Finished(r, c.approved, status), acts, audit)
    BY <1>1, <1>2, <1>6, <2>2, <2>3, FinishedHonest
  <2>5. Finished(r, c.approved, status) \in Run
    BY <1>2, <1>6, <2>3, FinishedType
  <2> QED BY <2>4, <2>5 DEF status
<1>7. CASE Close(p)
  <2>1. pc[p] = "close" /\ "close" \in Executing \ {"begin"}
    BY <1>7 DEF Close, Go, Executing
  <2> QED BY <1>3, <1>6, <1>7, <2>1 DEF Close
<1>8. CASE InterruptRun(p)
  <2>1. PICK from \in Scope \cup {"late", "session", "close"} : Go(p, from, "promote")
    BY <1>8 DEF InterruptRun
  <2>2. pc[p] = from /\ from \in Executing \ {"begin"}
    BY <2>1 DEF Go, Scope, Executing, Early, Stepping, InProgress
  <2> DEFINE stopped == IF from \in InProgress \cup {"late"}
                        THEN [r EXCEPT !.steps[c.step] = CancelledResult(c, from)]
                        ELSE r
             ended == Finished(stopped, c.approved, InterruptedStatus(r.dispatched))
             over == Finished(r, c.approved, RunOutcome(r, c.error))
  <2>3. mem' = [mem EXCEPT ![p] = IF Stopped(r) \/ Complete(r) THEN over ELSE ended]
    BY <1>8, <2>2 DEF InterruptRun
  <2>4. over \in Run /\ Honest(over, acts, audit) BY <1>6, <2>2
  <2>5. /\ stopped \in Run /\ stopped.dispatched = r.dispatched
        /\ BeingExecuted(stopped, c) /\ Proposed(stopped) /\ ResultsTrue(stopped, acts)
        /\ StatusTrue(stopped, acts) /\ DecisionsTrue(stopped, acts, audit)
    <3>1. CASE from \in InProgress \cup {"late"}
      <4>1. UpToStep(r, c, acts) BY <2>2, <3>1, InStep, StepAwaits
      <4>2. stopped = [r EXCEPT !.steps[c.step] = CancelledResult(c, from)] BY <3>1
      <4>3. r \in Run /\ c \in Progress /\ Honest(r, acts, audit) /\ BeingExecuted(r, c)
        BY <1>2, <2>2
      <4> DEFINE x == [r EXCEPT !.steps[c.step] = CancelledResult(c, from)]
      <4>4. /\ x \in Run /\ x.dispatched = r.dispatched
            /\ BeingExecuted(x, c) /\ Proposed(x) /\ ResultsTrue(x, acts)
            /\ StatusTrue(x, acts) /\ DecisionsTrue(x, acts, audit)
        <5> HIDE DEF r, c
        <5>1. \E y : y = x OBVIOUS
        <5> QED BY <4>1, <4>3, <5>1, CancelledTrue, Zenon
      <4> HIDE DEF x, stopped, r, c
      <4> QED BY <4>2, <4>4 DEF x
    <3>2. CASE from \notin InProgress \cup {"late"}
      BY <1>2, <2>2, <3>2
    <3> QED BY <3>1, <3>2
  <2>6. ended \in Run /\ Honest(ended, acts, audit)
    <3> DEFINE status == InterruptedStatus(r.dispatched)
    <3>1. /\ status \in Terminal \cup {"awaiting"} /\ status \in RunStatus
          /\ status \notin {"awaiting", "succeeded"}
          /\ status = "cancelled" => stopped.dispatched = {}
      BY <2>5 DEF InterruptedStatus, Terminal, RunStatus
    <3>2. c \in Progress BY <1>2, <2>2
    <3> HIDE DEF status, stopped, c, r
    <3>3. Honest(Finished(stopped, c.approved, status), acts, audit)
      BY <1>1, <2>5, <3>1, <3>2, FinishedHonest
    <3>4. Finished(stopped, c.approved, status) \in Run BY <2>5, <3>1, FinishedType
    <3> QED BY <3>3, <3>4 DEF status
  <2>7. /\ UNCHANGED <<disk, audit, claim, cur, queue, acts>>
        /\ \A q \in Procs \ {p} : intr'[q] = intr[q]
    BY <1>8 DEF InterruptRun, Interrupted, TypeInv, TypeOK
  <2> HIDE DEF over, ended, stopped
  <2>8. CASE Stopped(r) \/ Complete(r) BY <1>3, <2>1, <2>2, <2>3, <2>4, <2>7, <2>8
  <2>9. CASE ~(Stopped(r) \/ Complete(r)) BY <1>3, <2>1, <2>2, <2>3, <2>6, <2>7, <2>9
  <2> QED BY <2>8, <2>9
<1> QED BY <1>4, <1>5, <1>7, <1>8

\* The final record of an execution is issued as it was put together.
LEMMA PromotedTrue ==
  ASSUME TypeInv, OneWorker, RunInv, NEW p \in Procs, Promoted(p)
  PROVE  RunInv'
<1>1. pc[p] = "promote" /\ mem[p] \in Run
  BY DEF Promoted, Go, TypeInv
<1>2. Honest(mem[p], acts, audit) BY <1>1 DEF RunInv, Fits, Advancing
<1>3. Phase("final", mem[p], cur[p], Append(queue[p], mem[p]), acts, audit)
  <2>1. "final" \notin Early \cup Stepping \cup Executing
    BY DEF Early, Stepping, InProgress, Executing
  <2>2. ActsTrue("final", mem[p], cur[p], Append(queue[p], mem[p]), acts) BY DEF ActsTrue
  <2> QED BY <2>1, <2>2 DEF Phase
<1>4. /\ "promote" \in Busy \ Ending /\ "final" \in Busy \ {"idle", "desk"} /\ "final" \in Ending
      /\ "final" \notin Running \cup Opening
  BY DEF Busy, Location, Ending, Running, Opening, Executing, Early, Stepping, InProgress
<1>5. /\ Go(p, "promote", "final") /\ Issue(p, mem[p])
      /\ UNCHANGED <<disk, audit, claim, cur, acts>> /\ intr' = intr
  BY DEF Promoted
<1>6. "final" # "promote" /\ "promote" # "begin" /\ "promote" \in Executing \cup {"promote"}
  OBVIOUS
<1> HIDE DEF Executing
<1> QED BY <1>1, <1>2, <1>3, <1>4, <1>5, <1>6, IssueFits

-----------------------------------------------------------------------------
(* Commands, decisions, interrupts and crashes.                            *)

\* What may be dropped from the front of a process's writes: all that is left
\* is as good for the process as it was.
LEMMA RestFits ==
  ASSUME NEW at, NEW r, NEW c, NEW w \in Seq(Run), NEW d, NEW sent, NEW log,
         Fits(at, r, c, w, d, sent, log), NEW k \in DOMAIN w
  PROVE  LET v == SubSeq(w, k + 1, Len(w))
         IN /\ Fits(at, r, c, v, w[k], sent, log)
            /\ \A n \in DOMAIN v : \E m \in DOMAIN w : v[n] = w[m]
            /\ w[k].status \in Terminal \cup {"awaiting"} => v = <<>>
<1>1. w \in Seq(Run) /\ w # <<>> /\ k \in 1..Len(w) /\ Len(w) \in Nat OBVIOUS
<1> DEFINE v == SubSeq(w, k + 1, Len(w))
<1>2. /\ v \in Seq(Run) /\ Len(v) = Len(w) - k
      /\ \A n \in DOMAIN v : n \in Nat /\ n + k \in DOMAIN w /\ v[n] = w[n + k] /\ n + k > k
      /\ v = <<>> <=> k = Len(w)
  <2>1. v \in Seq(Run) /\ Len(v) = Len(w) - k BY <1>1, SubSeqProperties
  <2>2. \A n \in 1..Len(v) : v[n] = w[n + k]
    <3>1. TAKE n \in 1..Len(v)
    <3>2. n \in 1..(Len(w) - k) BY <2>1
    <3>3. SubSeq(w, k + 1, Len(w))[n] = w[(k + 1) + n - 1] BY <1>1, <3>2, SMTT(30)
    <3>4. (k + 1) + n - 1 = n + k BY <1>1, <3>2
    <3> QED BY <3>3, <3>4
  <2>3. v = <<>> <=> Len(v) = 0 BY <2>1, EmptySeq
  <2>4. Len(w) \in Nat /\ k \in Nat /\ k <= Len(w) /\ DOMAIN w = 1..Len(w) BY <1>1
  <2>5. DOMAIN v = 1..Len(v) BY <2>1
  <2> HIDE DEF v
  <2>6. \A n \in DOMAIN v : n \in Nat /\ n + k \in DOMAIN w /\ v[n] = w[n + k] /\ n + k > k
    BY <2>1, <2>2, <2>4, <2>5
  <2> QED BY <2>1, <2>3, <2>4, <2>6
<1> HIDE DEF v
<1>3. Latest(w[k], v) = Latest(d, w)
  <2>1. CASE v = <<>> BY <1>1, <1>2, <2>1 DEF Latest
  <2>2. CASE v # <<>>
    <3>1. Len(v) \in Nat /\ DOMAIN v = 1..Len(v) /\ Len(v) # 0
      <4>1. v \in Seq(Run) BY <1>2
      <4> QED BY <2>2, <4>1, EmptySeq
    <3> DEFINE e == Len(v)
    <3>2. e \in 1..e /\ e \in Nat /\ Len(v) = e BY <3>1
    <3> HIDE DEF e
    <3>3. e \in DOMAIN v BY <3>1, <3>2
    <3>4. e + k = Len(w)
      <4>1. Len(v) = Len(w) - k /\ k \in Nat /\ Len(w) \in Nat BY <1>1, <1>2
      <4> QED BY <3>2, <4>1
    <3>5. v[e] = w[e + k] BY <1>2, <3>3
    <3> QED BY <1>1, <2>2, <3>2, <3>4, <3>5 DEF Latest
  <2> QED BY <2>1, <2>2
<1>4. w[k].status \in Terminal \cup {"awaiting"} => v = <<>>
  <2>1. w[k].status \in Terminal \cup {"awaiting"} => ~(k < Len(w)) BY DEF Fits, Lined
  <2> QED BY <1>1, <1>2, <2>1
<1>5. \A n \in DOMAIN v : \E m \in DOMAIN w : v[n] = w[m] BY <1>2
<1>6. \A n \in DOMAIN v : n < Len(v) => v[n].status \notin Terminal \cup {"awaiting"}
  <2> TAKE n \in DOMAIN v
  <2> HAVE n < Len(v)
  <2>1. n + k \in DOMAIN w /\ n + k < Len(w) /\ v[n] = w[n + k] BY <1>1, <1>2
  <2> QED BY <2>1 DEF Fits, Lined
<1>7. Lined(at, w[k], v)
  <2>1. at \notin Ending => /\ w[k].status \notin Terminal
                            /\ \A n \in DOMAIN v : v[n].status \notin Terminal
    BY <1>5 DEF Fits, Lined
  <2>2. at \in Executing \cup {"promote"} => /\ w[k].status # "awaiting"
                                             /\ \A n \in DOMAIN v : v[n].status # "awaiting"
    BY <1>5 DEF Fits, Lined
  <2>3. at \in Running => w[k].status # "awaiting" BY <2>2, AwaitSets
  <2>4. at \in Opening => Untold(w[k]) /\ \A n \in DOMAIN v : Untold(v[n])
    BY <1>5 DEF Fits, Lined
  <2>5. Queued(at, w[k], v) BY <1>4, <1>6, <2>1 DEF Queued
  <2> QED BY <1>6, <2>1, <2>2, <2>3, <2>4, <2>5 DEF Lined
<1>8. Follows(at, r, w[k], v) BY <1>1, <1>3 DEF Fits, Follows
<1>9. Phase(at, r, c, v, sent, log)
  <2>1. Phase(at, r, c, w, sent, log) BY DEF Fits
  <2>2. at \notin {"approving", "rejecting"} BY <1>1, <2>1 DEF Phase, BeingDecided
  <2>3. ActsTrue(at, r, c, v, sent) BY <1>1, <2>1 DEF Phase, ActsTrue
  <2> QED BY <2>1, <2>2, <2>3 DEF Phase
<1>10. \A n \in DOMAIN v : Trusted(v[n], sent, log) BY <1>5 DEF Fits
<1>11. at = "desk" => r.status \in Terminal \/ v = <<>> BY <1>1 DEF Fits
<1>12. Fits(at, r, c, v, w[k], sent, log)
  BY <1>7, <1>8, <1>9, <1>10, <1>11 DEF Fits
<1> QED BY <1>4, <1>5, <1>12 DEF v

\* A write of an ended command that lands while another process works is good
\* for that process too.
LEMMA OverlaidFits ==
  ASSUME TypeInv, OneWorker, RunInv, NEW p \in Procs, NEW q \in Procs \ {p},
         NEW k \in DOMAIN queue[p]
  PROVE  Fits(pc[q], mem[q], cur[q], queue[q], queue[p][k], acts, audit)
<1> DEFINE d == queue[p][k]
<1>1. Fits(pc[q], mem[q], cur[q], queue[q], disk, acts, audit) BY DEF RunInv
<1>2. queue[p] # <<>> BY DEF TypeInv, TypeOK
<1>3. CASE pc[q] = "idle"
  <2>1. cur[q] = Fresh BY <1>1, <1>3 DEF Fits, Phase
  <2>2. NoOvertaking => Queued("idle", d, queue[q])
    <3>1. NoOvertaking => queue[q] = <<>> BY <1>2, OthersWrote
    <3> QED BY <3>1 DEF Queued, Ending
  <2>3. \A n \in DOMAIN queue[q] : Trusted(queue[q][n], acts, audit) BY <1>1 DEF Fits
  <2>4. \A n \in DOMAIN queue[q] :
          n < Len(queue[q]) => queue[q][n].status \notin Terminal \cup {"awaiting"}
    BY <1>1 DEF Fits, Lined
  <2> HIDE DEF d
  <2>5. Fits("idle", mem[q], Fresh, queue[q], d, acts, audit)
    BY <2>2, <2>3, <2>4, IdleFits
  <2> QED BY <1>3, <2>1, <2>5 DEF d
<1>4. CASE pc[q] # "idle"
  <2>1. ~NoOvertaking
    <3>1. claim = q BY <1>4 DEF OneWorker
    <3>2. NoOvertaking => claim # q BY <1>2 DEF RunInv, Together
    <3> QED BY <3>1, <3>2
  <2>2. Leads(pc[q], mem[q]) => d.status \in Terminal
    BY DEF RunInv, Together, AllFinal
  <2>3. pc[q] \in Opening => Untold(d) BY DEF RunInv, Together
  <2> HIDE DEF d
  <2>4. pc[q] \in Mirrored =>
          \/ d.status \in Terminal \/ mem[q].status \in Terminal
          \/ pc[q] \in {"final", "rejected"}
    <3>1. Mirrored \subseteq Advancing \cup {"rejecting", "desk", "final", "rejected"}
      BY DEF Mirrored, Advancing, Opening
    <3> QED BY <2>2, <3>1 DEF Leads
  <2>5. Follows(pc[q], mem[q], d, queue[q])
    <3>1. CASE queue[q] = <<>> BY <2>1, <2>4, <3>1 DEF Follows
    <3>2. CASE queue[q] # <<>> BY <1>1, <2>1, <3>2 DEF Fits, Follows, Latest
    <3> QED BY <3>1, <3>2
  <2>6. Lined(pc[q], d, queue[q])
    <3>1. pc[q] \in Running => d.status # "awaiting"
      <4>1. pc[q] \in Running => Leads(pc[q], mem[q]) BY AwaitSets DEF Leads
      <4> QED BY <2>2, <4>1 DEF Terminal
    <3> QED BY <1>1, <2>1, <2>3, <3>1 DEF Fits, Lined
  <2>7. Fits(pc[q], mem[q], cur[q], queue[q], d, acts, audit)
    BY <1>1, <2>5, <2>6 DEF Fits
  <2> QED BY <2>7 DEF d
<1> QED BY <1>3, <1>4

\* A write that lands is one of those the invariant already speaks of.
LEMMA LandTrue ==
  ASSUME TypeInv, OneWorker, RunInv, NEW p \in Procs, Land(p)
  PROVE  RunInv'
<1> DEFINE w == queue[p]
<1>1. PICK k \in DOMAIN w :
        /\ disk' = w[k]
        /\ queue' = [queue EXCEPT ![p] = SubSeq(w, k + 1, Len(w))]
        /\ UNCHANGED <<audit, claim, pc, mem, cur, intr, acts>>
  BY DEF Land
<1> DEFINE v == SubSeq(w, k + 1, Len(w))
           d == w[k]
<1>2. w \in Seq(Run) /\ w # <<>> /\ d \in Run BY <1>1 DEF TypeInv, TypeOK
<1>3. Fits(pc[p], mem[p], cur[p], w, disk, acts, audit) BY DEF RunInv
<1>4. /\ Fits(pc[p], mem[p], cur[p], v, d, acts, audit)
      /\ \A n \in DOMAIN v : \E m \in DOMAIN w : v[n] = w[m]
      /\ d.status \in Terminal \cup {"awaiting"} => v = <<>>
  <2>1. w \in Seq(Run) /\ k \in DOMAIN w BY <1>1, <1>2
  <2> HIDE DEF w
  <2>2. LET u == SubSeq(w, k + 1, Len(w))
        IN /\ Fits(pc[p], mem[p], cur[p], u, w[k], acts, audit)
           /\ \A n \in DOMAIN u : \E m \in DOMAIN w : u[n] = w[m]
           /\ w[k].status \in Terminal \cup {"awaiting"} => u = <<>>
    <3> DEFINE at == pc[p]
               r == mem[p]
               c == cur[p]
    <3>1. Fits(at, r, c, w, disk, acts, audit) BY <1>3
    <3> HIDE DEF at, r, c
    <3>2. LET u == SubSeq(w, k + 1, Len(w))
          IN /\ Fits(at, r, c, u, w[k], acts, audit)
             /\ \A n \in DOMAIN u : \E m \in DOMAIN w : u[n] = w[m]
             /\ w[k].status \in Terminal \cup {"awaiting"} => u = <<>>
      BY <2>1, <3>1, RestFits
    <3> QED BY <3>2 DEF at, r, c
  <2> QED BY <2>2 DEF w
<1>5. \A q \in Procs \ {p} : Fits(pc[q], mem[q], cur[q], queue[q], d, acts, audit)
  BY <1>1, OverlaidFits
<1>6. Trusted(d, acts, audit) BY <1>1, <1>3 DEF Fits
<1>7. disk' = d /\ queue'[p] = v /\ \A q \in Procs \ {p} : queue'[q] = queue[q]
  BY <1>1 DEF TypeInv, TypeOK
<1>8. NoOvertaking => /\ \A q \in Procs \ {p} : queue[q] = <<>> /\ claim # q
  <2>1. NoOvertaking => \A q \in Procs \ {p} : claim # q BY <1>2 DEF RunInv, Together
  <2> QED BY <1>2, <2>1, OthersWrote
<1>9. d.status \notin Terminal => \A q \in Procs \ {p} : AllFinal(queue[q])
  BY <1>1 DEF RunInv, Together, AllFinal
<1>10. d # NoRecord
  <2> HIDE DEF d, w, v
  <2> QED BY <1>2 DEF NoRecord, NewRun, Run, RunStatus, Terminal
<1>11. /\ \A x \in Procs : \A n \in DOMAIN queue'[x] : \E m \in DOMAIN queue[x] :
             queue'[x][n] = queue[x][m]
  <2> SUFFICES ASSUME NEW x \in Procs, NEW n \in DOMAIN queue'[x]
               PROVE  \E m \in DOMAIN queue[x] : queue'[x][n] = queue[x][m]
    OBVIOUS
  <2> HIDE DEF v, d
  <2> QED BY <1>4, <1>7
<1>12. \A x \in Procs : /\ AllFinal(queue[x]) => AllFinal(queue'[x])
                        /\ (\A n \in DOMAIN queue[x] : Untold(queue[x][n])) =>
                             \A n \in DOMAIN queue'[x] : Untold(queue'[x][n])
  BY <1>11 DEF AllFinal
<1> HIDE DEF v, d, w
<1>13. Together'
  <2>1. NoOvertaking => \A x, y \in Procs : queue'[x] # <<>> /\ y # x =>
          claim' # y /\ queue'[y] = <<>>
    BY <1>1, <1>7, <1>8
  <2>2. \A x \in Procs : pc'[x] = "idle" => claim' # x /\ ~intr'[x]
    BY <1>1 DEF RunInv, Together
  <2>3. disk' # NoRecord BY <1>7, <1>10
  <2>4. \A x, y \in Procs : x # y => AllFinal(queue'[x]) \/ AllFinal(queue'[y])
    BY <1>12 DEF RunInv, Together
  <2>5. \A x, y \in Procs : x # y /\ Leads(pc'[x], mem'[x]) => AllFinal(queue'[y])
    BY <1>1, <1>12 DEF RunInv, Together
  <2>6. \A x, y \in Procs : x # y /\ pc'[x] \in Opening =>
          \A n \in DOMAIN queue'[y] : Untold(queue'[y][n])
    BY <1>1, <1>12 DEF RunInv, Together
  <2>7. disk'.status = "awaiting" => \A x \in Procs : AllFinal(queue'[x])
    <3>1. d.status = "awaiting" => AllFinal(v) BY <1>4 DEF AllFinal
    <3> QED BY <1>7, <1>9, <3>1 DEF Terminal
  <2> QED BY <2>1, <2>2, <2>3, <2>4, <2>5, <2>6, <2>7 DEF Together
<1>14. \A x \in Procs : Fits(pc[x], mem[x], cur[x], queue'[x], d, acts, audit)
  BY <1>4, <1>5, <1>7
<1>15. SentOnce(acts) /\ DecidedOnce(audit) BY DEF RunInv
<1> QED BY <1>1, <1>6, <1>7, <1>13, <1>14, <1>15 DEF RunInv

\* A command that claims the run is the only one that works on it.
LEMMA EnterFits ==
  ASSUME TypeInv, RunInv, NEW p \in Procs, pc'[p] \in {"begin", "desk"},
         \A q \in Procs : pc[q] = "idle", OnlyMoves(p), claim' = p,
         UNCHANGED <<disk, audit, cur, intr, acts>>,
         Fits(pc'[p], mem'[p], Fresh, queue'[p], disk, acts, audit),
         NoOvertaking => \A q \in Procs \ {p} : queue[q] = <<>>,
         AllFinal(queue'[p]) \/ \A q \in Procs \ {p} : AllFinal(queue[q]),
         Leads(pc'[p], mem'[p]) => \A q \in Procs \ {p} : AllFinal(queue[q]),
         pc'[p] = "begin" =>
           \A q \in Procs \ {p} : \A k \in DOMAIN queue[q] : Untold(queue[q][k]),
         disk.status = "awaiting" => AllFinal(queue'[p]),
         disk = NoRecord => pc'[p] = "begin"
  PROVE  RunInv'
<1>1. \A q \in Procs \ {p} : /\ pc'[q] = "idle" /\ mem'[q] = mem[q] /\ cur'[q] = cur[q]
                             /\ queue'[q] = queue[q]
  BY DEF OnlyMoves
<1>2. \A q \in Procs : cur'[q] = Fresh BY DEF RunInv, Fits, Phase
<1>3. \A q \in Procs : Fits(pc'[q], mem'[q], cur'[q], queue'[q], disk, acts, audit)
  BY <1>1, <1>2 DEF RunInv
<1>4. pc'[p] # "idle" /\ \A q \in Procs : pc'[q] \in Opening \cup {"idle", "desk"}
  BY <1>1, AwaitSets DEF Opening
<1>5. \A x : ~Leads("idle", x) BY AwaitSets DEF Leads
<1>6. Together'
  <2>1. NoOvertaking => \A x, y \in Procs : queue'[x] # <<>> /\ y # x =>
          claim' # y /\ queue'[y] = <<>>
    BY <1>1
  <2>2. \A x \in Procs : pc'[x] = "idle" => claim' # x /\ ~intr'[x]
    BY <1>4 DEF RunInv, Together
  <2>3. disk' = NoRecord => \A x \in Procs :
          \/ pc'[x] = "idle" /\ queue'[x] = <<>>
          \/ pc'[x] = "begin"
          \/ pc'[x] = "final" /\ intr'[x]
    BY <1>1 DEF RunInv, Together
  <2>4. \A x, y \in Procs : x # y => AllFinal(queue'[x]) \/ AllFinal(queue'[y])
    <3>1. \A x, y \in Procs : x # y => AllFinal(queue[x]) \/ AllFinal(queue[y])
      BY DEF RunInv, Together
    <3> QED BY <1>1, <3>1
  <2>5. \A x, y \in Procs : x # y /\ Leads(pc'[x], mem'[x]) => AllFinal(queue'[y])
    BY <1>1, <1>5
  <2>6. \A x, y \in Procs : x # y /\ pc'[x] \in Opening =>
          \A k \in DOMAIN queue'[y] : Untold(queue'[y][k])
    <3>1. {"idle", "desk"} \cap Opening = {} BY AwaitSets DEF Ending
    <3> QED BY <1>1, <3>1
  <2>7. disk'.status = "awaiting" => \A x \in Procs : AllFinal(queue'[x])
    BY <1>1 DEF RunInv, Together
  <2> QED BY <2>1, <2>2, <2>3, <2>4, <2>5, <2>6, <2>7 DEF Together
<1>7. Trusted(disk, acts, audit) /\ SentOnce(acts) /\ DecidedOnce(audit) BY DEF RunInv
<1> QED BY <1>3, <1>6, <1>7 DEF RunInv

\* Nothing was sent or decided before the first record.
LEMMA NothingBefore ==
  ASSUME TypeInv, Trusted(NoRecord, acts, audit)
  PROVE  Unsent(acts) /\ \A i \in Steps : Unlogged(audit, i)
<1>1. \A i \in Steps : NoRecord.decision[i] = "none" BY DEF NoRecord, NewRun
<1>2. NoRecord.dispatched = {} /\ NoRecord.status \notin Terminal
  BY DEF NoRecord, NewRun, Terminal
<1>3. Honest(NoRecord, acts, audit) BY <1>2 DEF Trusted
<1>4. \A s \in Steps : acts[s] = 0
  BY <1>2, <1>3 DEF Honest, StatusTrue, TypeInv, TypeOK
<1> QED BY <1>1, <1>3, <1>4 DEF Honest, DecisionsTrue, Unsent

\* A new run begins with nothing sent and nothing decided.
LEMMA StartRunTrue ==
  ASSUME TypeInv, OneWorker, RunInv, NEW p \in Procs, StartRun(p)
  PROVE  RunInv'
<1> DEFINE w == <<NewRun>>
<1>1. /\ Go(p, "idle", "begin") /\ claim = NoProc /\ disk = NoRecord /\ claim' = p
      /\ Issue(p, NewRun) /\ UNCHANGED <<disk, audit, cur, intr, acts>>
  BY DEF StartRun, Unclaimed
<1>2. \A q \in Procs : pc[q] = "idle" /\ queue[q] = <<>>
  <2>1. \A q \in Procs : pc[q] = "idle" BY <1>1, LifecycleAssumption DEF OneWorker
  <2> QED BY <1>1, <2>1 DEF RunInv, Together
<1>3. Unsent(acts) /\ \A i \in Steps : Unlogged(audit, i)
  BY <1>1, NothingBefore DEF RunInv
<1>4. Honest(NewRun, acts, audit) BY <1>3, NewRunHonest
<1>5. Phase("begin", NewRun, Fresh, w, acts, audit)
  <2>1. OneApproval(NewRun, Fresh) BY DEF OneApproval, NewRun, Fresh
  <2>2. BeingExecuted(NewRun, Fresh) BY <2>1 DEF BeingExecuted, NewRun, NotRun, Fresh
  <2>3. Resumable(NewRun, Fresh, acts) BY <1>3 DEF Resumable, Fresh, Steps
  <2>4. \A t \in Steps : NewRun.steps[t] = NotRun BY DEF NewRun
  <2>5. ActsTrue("begin", NewRun, Fresh, w, acts) BY DEF ActsTrue
  <2>6. "begin" \notin Stepping /\ Fresh.step = 0 BY DEF Stepping, InProgress, Fresh
  <2> HIDE DEF w
  <2> QED BY <2>2, <2>3, <2>4, <2>5, <2>6 DEF Phase
<1>6. Fits("begin", NewRun, Fresh, w, disk, acts, audit)
  <2>1. DOMAIN w = {1} /\ w[1] = NewRun /\ Len(w) = 1 /\ w # <<>> OBVIOUS
  <2> HIDE DEF w
  <2>2. /\ NewRun.status \notin Terminal \cup {"awaiting"}
        /\ disk.status \notin Terminal \cup {"awaiting"}
        /\ Untold(NewRun) /\ Untold(disk)
    BY <1>1 DEF NoRecord, NewRun, Terminal, Untold
  <2>3. Queued("begin", disk, w) BY <2>1, <2>2 DEF Queued
  <2>4. Lined("begin", disk, w) BY <2>1, <2>2, <2>3 DEF Lined
  <2>5. Latest(disk, w) = NewRun BY <2>1 DEF Latest
  <2>6. Follows("begin", NewRun, disk, w) BY <2>5 DEF Follows
  <2>7. \A k \in DOMAIN w : Trusted(w[k], acts, audit) BY <1>4, <2>1, HonestIsSound
  <2> QED BY <1>4, <1>5, <2>4, <2>6, <2>7 DEF Fits
<1>7. pc'[p] = "begin" /\ mem'[p] = NewRun /\ queue'[p] = w /\ OnlyMoves(p)
  <2>1. queue[p] = <<>> BY <1>2
  <2>2. Append(<<>>, NewRun) = w OBVIOUS
  <2>3. queue'[p] = Append(queue[p], NewRun) BY <1>1 DEF Issue, TypeInv, TypeOK
  <2> HIDE DEF w
  <2> QED BY <1>1, <2>1, <2>2, <2>3 DEF Go, Issue, TypeInv, TypeOK, OnlyMoves
<1>8. \A q \in Procs : /\ AllFinal(queue[q])
                       /\ \A k \in DOMAIN queue[q] : Untold(queue[q][k])
  BY <1>2 DEF AllFinal
<1>9. disk.status # "awaiting" BY <1>1 DEF NoRecord, NewRun
<1>10. Fits(pc'[p], mem'[p], Fresh, queue'[p], disk, acts, audit) BY <1>6, <1>7
<1> HIDE DEF w
<1> QED BY <1>1, <1>2, <1>7, <1>8, <1>9, <1>10, EnterFits

\* A command that takes over a run completes its record, and knows which
\* decisions are still open.
LEMMA StartDeskTrue ==
  ASSUME TypeInv, OneWorker, RunInv, NEW p \in Procs, StartDesk(p)
  PROVE  RunInv'
<1> DEFINE left == AsLeft(disk, audit)
           w == IF left = disk THEN <<>> ELSE <<left>>
<1>1. /\ Go(p, "idle", "desk") /\ queue[p] = <<>> /\ claim = NoProc /\ disk # NoRecord
      /\ Overtakes \/ \A q \in Procs : queue[q] = <<>>
      /\ claim' = p /\ mem' = [mem EXCEPT ![p] = left]
      /\ queue' = IF left = disk THEN queue ELSE [queue EXCEPT ![p] = Append(queue[p], left)]
      /\ UNCHANGED <<disk, audit, cur, intr, acts>>
  BY DEF StartDesk, Unclaimed, Written
<1>2. \A q \in Procs : pc[q] = "idle" BY <1>1, LifecycleAssumption DEF OneWorker
<1>3. NoOvertaking => \A q \in Procs : queue[q] = <<>> BY <1>1 DEF NoOvertaking
<1>4. /\ disk \in Run /\ acts \in [Steps -> Nat] /\ audit \in Seq(Entry)
      /\ Trusted(disk, acts, audit)
  BY <1>1 DEF TypeInv, TypeOK, RunInv
<1>5. disk.status \in Terminal => Kept(disk, left)
  <2>1. Proposed(disk) BY <1>4 DEF Trusted, Sound
  <2> QED BY <1>4, <2>1, AsLeftKeeps
<1>6. Trusted(left, acts, audit) /\ AtDesk(left, audit)
  <2>1. CASE NoOvertaking \/ disk.status \notin Terminal
    <3>1. Honest(disk, acts, audit) BY <1>4, <2>1 DEF Trusted
    <3>2. Honest(left, acts, audit) /\ AtDesk(left, audit) BY <1>4, <3>1, AsLeftHonest
    <3> HIDE DEF left
    <3> QED BY <3>2, HonestIsSound
  <2>2. CASE ~(NoOvertaking \/ disk.status \notin Terminal)
    <3>1. Sound(disk, acts, audit) BY <1>4 DEF Trusted
    <3>2. Sound(left, acts, audit) /\ left.status \in Terminal /\ AtDesk(left, audit)
      BY <1>4, <2>2, <3>1, AsLeftSound
    <3> HIDE DEF left
    <3> QED BY <2>2, <3>2 DEF Trusted
  <2> QED BY <2>1, <2>2
<1>7. left.status \notin Terminal => left = disk /\ disk.status = "awaiting"
  <2>1. Proposed(disk) BY <1>4 DEF Trusted, Sound
  <2> QED BY <1>4, <2>1, AsLeftStays
<1>8. disk.status = "awaiting" => \A q \in Procs : AllFinal(queue[q])
  BY <1>2 DEF RunInv, Together
<1> HIDE DEF left
<1>9. /\ \A k \in DOMAIN w : w[k] = left /\ ~(k < Len(w))
      /\ Latest(disk, w) = left
      /\ left.status \in Terminal \/ w = <<>>
      /\ AllFinal(w)
  <2>1. CASE left = disk
    <3>1. w = <<>> BY <2>1
    <3> HIDE DEF w
    <3> QED BY <2>1, <3>1 DEF Latest, AllFinal
  <2>2. CASE left # disk
    <3>1. w = <<left>> BY <2>2
    <3>2. DOMAIN <<left>> = {1} /\ <<left>>[1] = left /\ Len(<<left>>) = 1 /\ <<left>> # <<>>
      OBVIOUS
    <3>3. left.status \in Terminal BY <1>7, <2>2
    <3> HIDE DEF w
    <3>4. DOMAIN w = {1} /\ w[1] = left /\ Len(w) = 1 /\ w # <<>> BY <3>1, <3>2
    <3> QED BY <3>3, <3>4 DEF Latest, AllFinal
  <2> QED BY <2>1, <2>2
<1>10. queue'[p] = w /\ \A q \in Procs \ {p} : queue'[q] = queue[q]
  <2>1. CASE left = disk BY <1>1, <2>1
  <2>2. CASE left # disk
    <3>1. Append(<<>>, left) = <<left>> /\ w = <<left>> BY <2>2
    <3>2. queue' = [queue EXCEPT ![p] = Append(<<>>, left)] BY <1>1, <2>2
    <3> HIDE DEF w
    <3> QED BY <3>1, <3>2 DEF TypeInv, TypeOK
  <2> QED BY <2>1, <2>2
<1> HIDE DEF w
<1>11. Phase("desk", left, Fresh, w, acts, audit)
  BY <1>6 DEF Phase, Early, Stepping, Executing, InProgress, ActsTrue
<1>12. Fits("desk", left, Fresh, w, disk, acts, audit)
  <2>1. "desk" \in Ending /\ "desk" \notin Executing \cup {"promote"} \cup Running \cup Opening
                          /\ "desk" \notin Advancing
    BY DEF Ending, Advancing, Opening, Running, Executing, Early, Stepping, InProgress
  <2>2. Queued("desk", disk, w) BY <1>5, <1>9, <2>1 DEF Queued
  <2>3. Lined("desk", disk, w) BY <1>9, <2>1, <2>2 DEF Lined
  <2>4. Follows("desk", left, disk, w) BY <1>9 DEF Follows
  <2>5. NoOvertaking \/ left.status \notin Terminal => Honest(left, acts, audit)
    BY <1>6 DEF Trusted
  <2>6. \A k \in DOMAIN w : Trusted(w[k], acts, audit) BY <1>6, <1>9
  <2> QED BY <1>9, <1>11, <2>1, <2>3, <2>4, <2>5, <2>6 DEF Fits
<1>13. /\ pc'[p] = "desk" /\ mem'[p] = left /\ OnlyMoves(p)
  BY <1>1, <1>10 DEF Go, TypeInv, TypeOK, OnlyMoves
<1>14. Leads("desk", left) => left.status \notin Terminal
  BY AwaitSets DEF Leads, Ending
<1>15. Leads(pc'[p], mem'[p]) => \A q \in Procs \ {p} : AllFinal(queue[q])
  BY <1>7, <1>8, <1>13, <1>14
<1>16. Fits(pc'[p], mem'[p], Fresh, queue'[p], disk, acts, audit) BY <1>10, <1>12, <1>13
<1>17. AllFinal(queue'[p]) BY <1>9, <1>10
<1> QED BY <1>1, <1>2, <1>3, <1>13, <1>15, <1>16, <1>17, EnterFits

\* A decision that enters the log is the first on its step.
LEMMA DecideTrue ==
  ASSUME TypeInv, OneWorker, RunInv, NEW p \in Procs, NEW i \in Steps,
         NEW kind \in {"approved", "rejected"}, NEW to \in {"approving", "rejecting"},
         to = "approving" <=> kind = "approved",
         kind = "approved" => CanResume(mem[p], i),
         Decide(p, i, kind, to)
  PROVE  RunInv'
<1> DEFINE r == mem[p]
           c == [cur[p] EXCEPT !.approved = i]
           now == Append(audit, [step |-> i, kind |-> kind])
<1>1. /\ pc[p] = "desk" /\ queue[p] = <<>> /\ r.decision[i] = "pending" /\ r.status = "awaiting"
      /\ pc' = [pc EXCEPT ![p] = to] /\ audit' = now /\ cur' = [cur EXCEPT ![p] = c]
      /\ UNCHANGED <<disk, claim, mem, intr, queue, acts>>
  BY DEF Decide, Go, Written, CanDecide, Progressed
<1>2. r \in Run /\ audit \in Seq(Entry) /\ acts \in [Steps -> Nat]
  BY <1>1 DEF TypeInv, TypeOK
<1>3. Fits("desk", r, cur[p], <<>>, disk, acts, audit) BY <1>1 DEF RunInv
<1>4. /\ Honest(r, acts, audit) /\ AtDesk(r, audit) /\ cur[p] = Fresh
      /\ disk = r \/ (~NoOvertaking /\ disk.status \in Terminal)
  <2>1. r.status \notin Terminal BY <1>1 DEF Terminal
  <2> HIDE DEF r
  <2> QED BY <1>3, <2>1 DEF Fits, Phase, Follows, Mirrored, Latest
<1>5. c.step = 0 /\ c.approved = i BY <1>4 DEF Fresh
<1>6. SentOnce(acts) /\ DecidedOnce(audit) BY DEF RunInv
<1>7. /\ i \in Irreversible /\ r.steps[i].status = "awaiting"
      /\ \A t \in Steps : t > i => r.decision[t] = "none"
  BY <1>1, <1>4 DEF Honest, Proposed
<1>8. kind = "approved" => Resumable(r, c, acts) /\ OneApproval(r, c)
  <2> SUFFICES ASSUME kind = "approved" PROVE Resumable(r, c, acts) /\ OneApproval(r, c)
    OBVIOUS
  <2>1. \A t \in Steps : t < i => r.steps[t].status = "succeeded" /\ t \notin Irreversible
    BY DEF CanResume, MayReplay, Steps
  <2>2. \A t \in Steps : t >= i => acts[t] = 0 BY <1>4, <1>7 DEF Honest, ResultsTrue
  <2>3. \A t \in Steps : t < i => acts[t] = 0 BY <1>6, <2>1 DEF SentOnce
  <2>4. \A t \in Steps : acts[t] = 0
    <3> HIDE DEF r, c, now
    <3> QED BY <2>2, <2>3 DEF Steps
  <2>5. \A t \in Steps : t # i => r.decision[t] = "none"
    <3>1. \A t \in Steps : t < i => r.decision[t] = "none"
      BY <1>4, <2>1 DEF Honest, Proposed
    <3> HIDE DEF r, c, now
    <3> QED BY <1>7, <3>1 DEF Steps
  <2>6. \A t \in Steps : r.outcome[t] = "none"
    BY <1>1, <1>4, <2>5 DEF Honest, Proposed
  <2> HIDE DEF r, c, now
  <2> QED BY <1>5, <1>7, <2>1, <2>4, <2>5, <2>6 DEF Resumable, OneApproval, Unsent
<1>9. Honest(r, acts, now) /\ LogHas(now, i, kind)
  <2>1. kind = "approved" => Unsent(acts) BY <1>8 DEF Resumable
  <2> HIDE DEF r, c
  <2> QED BY <1>1, <1>2, <1>4, <2>1, LoggedHonest
<1>10. DecidedOnce(now)
  <2>1. Unlogged(audit, i) BY <1>1, <1>4 DEF AtDesk
  <2>2. [step |-> i, kind |-> kind] \in Entry BY DEF Entry
  <2>3. /\ DOMAIN now = DOMAIN audit \cup {Len(audit) + 1}
        /\ now[Len(audit) + 1] = [step |-> i, kind |-> kind]
        /\ \A n \in DOMAIN audit : now[n] = audit[n]
    BY <1>2, <2>2
  <2> HIDE DEF now
  <2> QED BY <1>6, <2>1, <2>3 DEF DecidedOnce, Unlogged
<1> HIDE DEF now
<1>11. Phase(to, r, c, <<>>, acts, now)
  <2> HIDE DEF r, c
  <2>1. BeingDecided(r, c, <<>>, now, kind) BY <1>1, <1>5, <1>9 DEF BeingDecided
  <2>2. to \notin Early \cup Stepping \cup Executing \cup {"idle", "desk", "approved"}
    BY DEF Early, Stepping, Executing, InProgress
  <2>3. ActsTrue(to, r, c, <<>>, acts) BY DEF ActsTrue
  <2>4. kind = "rejected" <=> to = "rejecting" OBVIOUS
  <2>5. to \notin {"results", "evidence", "release", "late", "unrebuilt"} OBVIOUS
  <2> QED BY <1>5, <1>8, <2>1, <2>2, <2>3, <2>4, <2>5 DEF Phase
<1>12. \A x : Sound(x, acts, audit) => Sound(x, acts, now)
  <2>1. [step |-> i, kind |-> kind] \in Entry BY DEF Entry
  <2> HIDE DEF r, c
  <2> QED BY <1>2, <2>1, SoundOnceLogged DEF now
<1>13. Trusted(disk, acts, now)
  <2>1. CASE disk = r BY <1>9, <2>1, HonestIsSound
  <2>2. CASE ~NoOvertaking /\ disk.status \in Terminal
    <3>1. Sound(disk, acts, now) BY <1>12 DEF RunInv, Trusted
    <3> QED BY <2>2, <3>1 DEF Trusted
  <2> QED BY <1>4, <2>1, <2>2
<1>14. \A q \in Procs \ {p} :
         /\ AllFinal(queue[q])
         /\ \A k \in DOMAIN queue[q] : /\ Sound(queue[q][k], acts, audit)
                                       /\ Trusted(queue[q][k], acts, now)
  <2> SUFFICES ASSUME NEW q \in Procs \ {p}
               PROVE  /\ AllFinal(queue[q])
                      /\ \A k \in DOMAIN queue[q] : /\ Sound(queue[q][k], acts, audit)
                                                    /\ Trusted(queue[q][k], acts, now)
    OBVIOUS
  <2>1. Leads(pc[p], mem[p])
    <3>1. r.status \notin Terminal BY <1>1 DEF Terminal
    <3> QED BY <1>1, <3>1 DEF Leads
  <2>2. AllFinal(queue[q]) BY <2>1, OthersFinal
  <2>3. NoOvertaking => queue[q] = <<>>
    <3>1. pc[p] # "idle" BY <1>1
    <3> QED BY <3>1, OthersWrote
  <2> HIDE DEF r, c
  <2>4. \A k \in DOMAIN queue[q] : Sound(queue[q][k], acts, audit)
    BY OthersStay DEF Trusted
  <2> QED BY <1>12, <2>2, <2>3, <2>4 DEF Trusted, AllFinal
<1>15. to = "approving" =>
         /\ Untold(disk)
         /\ \A q \in Procs \ {p} : \A k \in DOMAIN queue[q] : Untold(queue[q][k])
  <2> SUFFICES ASSUME to = "approving"
               PROVE  /\ Untold(disk)
                      /\ \A q \in Procs \ {p} : \A k \in DOMAIN queue[q] : Untold(queue[q][k])
    OBVIOUS
  <2>1. OneApproval(r, c) BY <1>8
  <2>2. \A t \in Steps : r.decision[t] = "none" \/ r.decision[t] = "pending"
    <3>1. \A t \in Steps : t = i \/ r.decision[t] = "none" BY <1>5, <2>1 DEF OneApproval
    <3> HIDE DEF r, c
    <3> QED BY <1>1, <3>1
  <2>3. \A t \in Steps : Unlogged(audit, t)
    <3> HIDE DEF r, c
    <3> QED BY <1>4, <2>2 DEF Honest, DecisionsTrue, AtDesk
  <2>4. Sound(disk, acts, audit) BY DEF RunInv, Trusted
  <2> HIDE DEF r, c
  <2> QED BY <1>14, <2>3, <2>4, NothingSettled
<1>16. Fits(to, r, c, <<>>, disk, acts, now)
  <2>1. NoOvertaking => Queued(to, disk, <<>>) BY <1>1, <1>4 DEF Queued, Terminal
  <2>2. /\ to \notin Executing \cup {"promote"} \cup Running
        /\ to \in Opening => to = "approving"
        /\ to # "desk"
    BY DEF Running, Opening, Executing, Early, Stepping, InProgress
  <2> HIDE DEF r, c, Executing
  <2>3. Lined(to, disk, <<>>) BY <1>15, <2>1, <2>2 DEF Lined
  <2>4. Follows(to, r, disk, <<>>) BY <1>4 DEF Follows, Latest
  <2> QED BY <1>9, <1>11, <2>2, <2>3, <2>4 DEF Fits
<1>17. /\ pc'[p] = to /\ mem'[p] = r /\ cur'[p] = c /\ queue'[p] = <<>> /\ OnlyMoves(p)
       /\ disk' = disk /\ claim' = claim /\ acts' = acts /\ audit' = now
  BY <1>1 DEF TypeInv, TypeOK, OnlyMoves
<1>18. pc[p] # "idle" /\ to \notin {"idle", "desk", "final"} /\ disk # NoRecord
  BY <1>1, RecordOnDisk
<1>19. Fits(pc'[p], mem'[p], cur'[p], queue'[p], disk, acts', audit') BY <1>16, <1>17
<1>20. Trusted(disk, acts', audit') /\ SentOnce(acts') /\ DecidedOnce(audit')
  BY <1>6, <1>10, <1>13, <1>17
<1>21. \A q \in Procs \ {p} : \A k \in DOMAIN queue[q] : Trusted(queue[q][k], acts', audit')
  BY <1>14, <1>17
<1>22. \A q \in Procs \ {p} : AllFinal(queue[q]) BY <1>14
<1>23. to \in Opening => to = "approving"
  BY DEF Opening, Executing, Early, Stepping, InProgress
<1> HIDE DEF r, c
<1> QED BY <1>15, <1>17, <1>18, <1>19, <1>20, <1>21, <1>22, <1>23, WorkerMoves

\* A decision that enters the record is the one in the log.
LEMMA RecordDecisionTrue ==
  ASSUME TypeInv, OneWorker, RunInv, NEW p \in Procs,
         RecordApproval(p) \/ RecordRejection(p)
  PROVE  RunInv'
<1> DEFINE r == mem[p]
           c == cur[p]
<1>1. pc[p] \in {"approving", "rejecting"}
  BY DEF RecordApproval, RecordRejection, Go
<1>2. r \in Run /\ c \in Progress BY <1>1 DEF TypeInv, TypeOK
<1>3. Fits(pc[p], r, c, queue[p], disk, acts, audit) BY DEF RunInv
<1>4. /\ Honest(r, acts, audit) /\ c.step = 0
      /\ pc[p] = "approving" => /\ BeingDecided(r, c, queue[p], audit, "approved")
                                /\ OneApproval(r, c) /\ Resumable(r, c, acts)
      /\ pc[p] = "rejecting" => BeingDecided(r, c, queue[p], audit, "rejected")
      /\ queue[p] = <<>>
  <2>1. Phase(pc[p], r, c, queue[p], acts, audit) BY <1>3 DEF Fits
  <2>2. \/ BeingDecided(r, c, queue[p], audit, "approved")
        \/ BeingDecided(r, c, queue[p], audit, "rejected")
    BY <1>1, <2>1 DEF Phase
  <2>3. r.status \notin Terminal /\ queue[p] = <<>> BY <2>2 DEF BeingDecided, Terminal
  <2>4. Honest(r, acts, audit) BY <1>1, <1>3, <2>3 DEF Fits
  <2> HIDE DEF r, c
  <2> QED BY <1>1, <2>1, <2>3, <2>4 DEF Phase
<1>5. /\ {"approving", "rejecting"} \subseteq Busy \ Ending
      /\ {"approved", "rejected"} \subseteq Busy
      /\ "rejected" \in Ending /\ "approved" \notin Ending
      /\ {"approved", "rejected"} \cap (Early \cup Stepping \cup Executing \cup Running) = {}
      /\ "approving" \in Opening /\ "rejected" \notin Opening
  BY DEF Busy, Location, Ending, Early, Stepping, Executing, InProgress, Running, Opening
<1>6. CASE RecordApproval(p)
  <2> DEFINE d == Decided(r, c.approved, "approved")
             w == Append(queue[p], d)
  <2>1. /\ Go(p, "approving", "approved") /\ Issue(p, d)
        /\ UNCHANGED <<disk, audit, claim, cur, intr, acts>>
    BY <1>6 DEF RecordApproval
  <2>2. pc[p] = "approving" BY <2>1 DEF Go
  <2>3. /\ Honest(d, acts, audit) /\ BeingResumed(d, c)
        /\ OneApproval(d, c) /\ Resumable(d, c, acts)
    <3> HIDE DEF r, c
    <3> QED BY <1>2, <1>4, <2>2, ApprovedHonest
  <2>4. d \in Run
    <3>1. c.approved \in Steps BY <1>4, <2>2 DEF BeingDecided
    <3>2. "approved" \in Decision BY DEF Decision
    <3> HIDE DEF r, c
    <3> QED BY <1>2, <3>1, <3>2, DecidedType
  <2> HIDE DEF d, w
  <2>5. Phase("approved", d, c, w, acts, audit)
    <3>1. ActsTrue("approved", d, c, w, acts) BY DEF ActsTrue
    <3> QED BY <1>4, <1>5, <2>3, <3>1 DEF Phase
  <2>6. d.status \notin Terminal BY <2>3 DEF BeingResumed, Terminal
  <2>7. "approved" \notin {"idle", "desk", "final", "promote"} /\ "approving" # "begin"
    OBVIOUS
  <2> QED BY <1>4, <1>5, <2>1, <2>3, <2>4, <2>5, <2>6, <2>7, IssueFits DEF w
<1>7. CASE RecordRejection(p)
  <2> DEFINE d == Rejected(r, c.approved)
             w == Append(queue[p], d)
  <2>1. /\ Go(p, "rejecting", "rejected") /\ Issue(p, d)
        /\ UNCHANGED <<disk, audit, claim, cur, intr, acts>>
    BY <1>7 DEF RecordRejection
  <2>2. pc[p] = "rejecting" BY <2>1 DEF Go
  <2>3. Honest(d, acts, audit)
    <3> HIDE DEF r, c
    <3> QED BY <1>2, <1>4, <2>2, RejectedHonest
  <2>4. d \in Run
    <3>1. c.approved \in Steps BY <1>4, <2>2 DEF BeingDecided
    <3> HIDE DEF r, c
    <3> QED BY <1>2, <3>1, RejectedType
  <2> HIDE DEF d, w
  <2>5. Phase("rejected", d, c, w, acts, audit)
    <3>1. ActsTrue("rejected", d, c, w, acts) BY DEF ActsTrue
    <3> QED BY <1>4, <1>5, <3>1 DEF Phase
  <2>6. "rejected" \notin {"idle", "desk", "final", "promote"} /\ "rejecting" # "begin"
    OBVIOUS
  <2> QED BY <1>4, <1>5, <2>1, <2>3, <2>4, <2>5, <2>6, IssueFits DEF w
<1> QED BY <1>6, <1>7

\* A run resumes with nothing sent yet, or ends because it cannot.
LEMMA ResumeTrue ==
  ASSUME TypeInv, OneWorker, RunInv, NEW p \in Procs, Resume(p)
  PROVE  RunInv'
<1> DEFINE r == mem[p]
           c == cur[p]
<1>1. pc[p] = "approved" /\ queue[p] = <<>> BY DEF Resume, Go, Written
<1>2. r \in Run /\ c \in Progress BY <1>1 DEF TypeInv, TypeOK
<1>3. Fits("approved", r, c, queue[p], disk, acts, audit) BY <1>1 DEF RunInv
<1>4. /\ Honest(r, acts, audit) /\ c.step = 0
      /\ BeingResumed(r, c) /\ OneApproval(r, c) /\ Resumable(r, c, acts)
  BY <1>3 DEF Fits, Phase, Advancing, Opening
<1>5. c.approved \in Steps BY <1>4 DEF BeingResumed
<1>6. /\ "approved" \in Busy \ Ending /\ {"final", "begin"} \subseteq Busy
      /\ "final" \in Ending /\ "begin" \notin Ending
      /\ {"final", "begin"} \cap Running = {} /\ "approved" \in Opening
      /\ "final" \notin Opening
  BY DEF Busy, Location, Ending, Running, Opening, Executing, Early, Stepping, InProgress
<1>7. CASE intr[p]
  <2> DEFINE d == NotResumed(r, c.approved)
             w == Append(queue[p], d)
  <2>1. /\ Go(p, "approved", "final") /\ Issue(p, d)
        /\ UNCHANGED <<disk, audit, claim, cur, intr, acts>>
    BY <1>7 DEF Resume
  <2>2. Honest(d, acts, audit) /\ d \in Run
    <3> HIDE DEF r, c
    <3> QED BY <1>2, <1>4, <1>5, NotResumedHonest, NotResumedType
  <2> HIDE DEF d, w
  <2>3. Phase("final", d, c, w, acts, audit)
    <3>1. "final" \notin Early \cup Stepping \cup Executing
      BY DEF Early, Stepping, InProgress, Executing
    <3>2. ActsTrue("final", d, c, w, acts) BY DEF ActsTrue
    <3> QED BY <3>1, <3>2 DEF Phase
  <2>4. intr'[p] BY <1>7, <2>1
  <2>5. "final" \notin {"idle", "desk", "promote"} /\ "approved" # "begin" OBVIOUS
  <2> QED BY <1>1, <1>6, <2>1, <2>2, <2>3, <2>4, <2>5, IssueFits DEF w
<1>8. CASE ~intr[p]
  <2> DEFINE d == Resumed(r, c.approved)
             w == Append(queue[p], d)
  <2>1. /\ Go(p, "approved", "begin") /\ Issue(p, d)
        /\ UNCHANGED <<disk, audit, claim, cur, intr, acts>>
    BY <1>8 DEF Resume
  <2>2. /\ Honest(d, acts, audit) /\ BeingExecuted(d, c) /\ Resumable(d, c, acts)
        /\ \A t \in Steps : t >= c.approved => d.steps[t] = NotRun
    <3> HIDE DEF r, c
    <3> QED BY <1>2, <1>4, ResumedHonest
  <2>3. d \in Run
    <3> HIDE DEF r, c
    <3> QED BY <1>2, <1>5, ResumedType
  <2> HIDE DEF d, w
  <2>4. Phase("begin", d, c, w, acts, audit)
    <3>1. "begin" \notin Stepping BY DEF Stepping, InProgress
    <3>2. ActsTrue("begin", d, c, w, acts) BY DEF ActsTrue
    <3> QED BY <1>4, <2>2, <3>1, <3>2 DEF Phase
  <2>5. d.status \notin Terminal BY <2>2 DEF BeingExecuted, Terminal
  <2>6. "begin" \notin {"idle", "desk", "promote", "final"} /\ "approved" # "begin" OBVIOUS
  <2> QED BY <1>1, <1>6, <2>1, <2>2, <2>3, <2>4, <2>5, <2>6, IssueFits DEF w
<1> QED BY <1>7, <1>8

\* An interrupt before the first step leaves an honest final record.
LEMMA InterruptBeginTrue ==
  ASSUME TypeInv, OneWorker, RunInv, NEW p \in Procs, InterruptBegin(p)
  PROVE  RunInv'
<1> DEFINE r == mem[p]
           c == cur[p]
           status == InterruptedStatus(r.dispatched)
           d == Finished(r, c.approved, status)
           w == Append(queue[p], d)
           ended == EndedRun(r, FALSE)
<1>1. /\ Go(p, "begin", "final") /\ Interrupted(p)
      /\ Issue(p, IF c.approved = 0 THEN ended ELSE Settle(ended, c.approved))
      /\ UNCHANGED <<disk, audit, claim, cur, acts>>
  BY DEF InterruptBegin
<1>2. pc[p] = "begin" BY <1>1 DEF Go
<1>3. r \in Run /\ c \in Progress /\ acts \in [Steps -> Nat] BY <1>2 DEF TypeInv, TypeOK
<1>4. Fits("begin", r, c, queue[p], disk, acts, audit) BY <1>2 DEF RunInv
<1>5. Honest(r, acts, audit) /\ BeingExecuted(r, c)
  BY <1>4 DEF Fits, Phase, Advancing, Opening, Executing, Early
<1>6. /\ status \in Terminal \cup {"awaiting"} /\ status \in RunStatus
      /\ status \notin {"awaiting", "succeeded"}
      /\ status = "cancelled" => r.dispatched = {}
  BY DEF InterruptedStatus, Terminal, RunStatus
<1>7. (IF c.approved = 0 THEN ended ELSE Settle(ended, c.approved)) = d
  <2>1. ended = [r EXCEPT !.status = status]
    BY <1>3, <1>5 DEF BeingExecuted, EndedRun, Run
  <2>2. ended.status = status /\ Settle(ended, c.approved).status = status
    BY <1>3, <2>1 DEF Settle, Run
  <2>3. Paused(ended) = ended /\ Paused(Settle(ended, c.approved)) = Settle(ended, c.approved)
    BY <1>6, <2>2 DEF Paused
  <2> HIDE DEF r, c, status
  <2> QED BY <2>1, <2>3 DEF Finished
<1>8. Honest(d, acts, audit) /\ d \in Run
  <2> HIDE DEF r, c, status
  <2> QED BY <1>3, <1>5, <1>6, FinishedHonest, FinishedType DEF Honest
<1>9. intr'[p] /\ \A q \in Procs \ {p} : intr'[q] = intr[q]
  BY <1>1 DEF Interrupted, TypeInv, TypeOK
<1>10. Issue(p, d) BY <1>1, <1>7
<1> HIDE DEF r, d, w, ended, status
<1>11. Phase("final", d, c, w, acts, audit)
  <2>1. "final" \notin Early \cup Stepping \cup Executing
    BY DEF Early, Stepping, InProgress, Executing
  <2>2. ActsTrue("final", d, c, w, acts) BY DEF ActsTrue
  <2> QED BY <2>1, <2>2 DEF Phase
<1>12. /\ "begin" \in Busy \ Ending /\ "final" \in Busy \ {"idle", "desk"} /\ "final" \in Ending
       /\ "begin" \in Executing /\ "final" \notin Running \cup Opening
  BY DEF Busy, Location, Ending, Running, Opening, Executing, Early, Stepping, InProgress
<1>13. "final" # "promote" OBVIOUS
<1> HIDE DEF Executing
<1> QED BY <1>1, <1>8, <1>9, <1>10, <1>11, <1>12, <1>13, IssueFits DEF w

\* An interrupt that waits is only noted.
LEMMA InterruptWaitsTrue ==
  ASSUME TypeInv, OneWorker, RunInv, NEW p \in Procs, InterruptWaits(p)
  PROVE  RunInv'
<1>1. /\ pc[p] # "idle" /\ intr' = [intr EXCEPT ![p] = TRUE]
      /\ UNCHANGED <<disk, audit, claim, pc, mem, cur, queue, acts>>
  BY DEF InterruptWaits, Interrupted
<1>2. \A q \in Procs : intr[q] => intr'[q] BY <1>1 DEF TypeInv, TypeOK
<1>3. \A q \in Procs : pc[q] = "idle" => ~intr'[q]
  BY <1>1 DEF TypeInv, TypeOK, RunInv, Together
<1>4. Together' BY <1>1, <1>2, <1>3 DEF RunInv, Together
<1> QED BY <1>1, <1>4 DEF RunInv

\* A command that ends leaves its writes to land, or takes them with it.
LEMMA LeaveTrue ==
  ASSUME TypeInv, OneWorker, RunInv, NEW p \in Procs, Leave(p),
         NEW w \in {<<>>, queue[p]},
         queue' = [queue EXCEPT ![p] = w], UNCHANGED <<audit, acts>>,
         disk' = disk \/ pc[p] # "idle",
         disk'.status = "awaiting" => disk.status = "awaiting" /\ AllFinal(w),
         disk' = NoRecord => disk = NoRecord /\ w = <<>>,
         Trusted(disk', acts, audit), Fits("idle", NoRecord, Fresh, w, disk', acts, audit)
  PROVE  RunInv'
<1>1. /\ pc'[p] = "idle" /\ mem'[p] = NoRecord /\ cur'[p] = Fresh /\ ~intr'[p] /\ queue'[p] = w
      /\ \A q \in Procs \ {p} : /\ pc'[q] = pc[q] /\ mem'[q] = mem[q] /\ cur'[q] = cur[q]
                                /\ queue'[q] = queue[q] /\ intr'[q] = intr[q]
      /\ claim' \in {claim, NoProc} /\ claim' # p
  BY LifecycleAssumption DEF TypeInv, TypeOK, Leave
<1>2. \A q \in Procs \ {p} : Fits(pc[q], mem[q], cur[q], queue[q], disk', acts, audit)
  <2> TAKE q \in Procs \ {p}
  <2>1. Fits(pc[q], mem[q], cur[q], queue[q], disk, acts, audit) BY DEF RunInv
  <2>2. CASE disk' = disk BY <2>1, <2>2
  <2>3. CASE pc[p] # "idle"
    <3>1. pc[q] = "idle" /\ cur[q] = Fresh BY <2>3, OthersIdle
    <3>2. NoOvertaking => Queued("idle", disk', queue[q])
      <4>1. NoOvertaking => queue[q] = <<>> BY <2>3, OthersWrote
      <4> QED BY <4>1 DEF Queued, Ending
    <3>3. \A n \in DOMAIN queue[q] : Trusted(queue[q][n], acts, audit) BY <2>1 DEF Fits
    <3>4. \A n \in DOMAIN queue[q] :
            n < Len(queue[q]) => queue[q][n].status \notin Terminal \cup {"awaiting"}
      BY <2>1 DEF Fits, Lined
    <3>5. Fits("idle", mem[q], Fresh, queue[q], disk', acts, audit)
      BY <3>2, <3>3, <3>4, IdleFits
    <3> QED BY <3>1, <3>5
  <2> QED BY <2>2, <2>3
<1>3. \A q \in Procs : /\ queue'[q] \in {<<>>, queue[q]}
                       /\ AllFinal(queue[q]) => AllFinal(queue'[q])
                       /\ (\A k \in DOMAIN queue[q] : Untold(queue[q][k])) =>
                            \A k \in DOMAIN queue'[q] : Untold(queue'[q][k])
  BY <1>1 DEF AllFinal
<1>4. ~Leads(pc'[p], mem'[p]) /\ pc'[p] \notin Opening BY <1>1, AwaitSets DEF Leads
<1>5. Fits(pc'[p], mem'[p], cur'[p], queue'[p], disk', acts, audit) BY <1>1
<1>6. \A q \in Procs : Fits(pc'[q], mem'[q], cur'[q], queue'[q], disk', acts, audit)
  BY <1>1, <1>2, <1>5
<1>7. Together'
  <2>1. NoOvertaking => \A x, y \in Procs : queue'[x] # <<>> /\ y # x =>
          claim' # y /\ queue'[y] = <<>>
    <3>1. NoOvertaking => \A x, y \in Procs : queue[x] # <<>> /\ y # x =>
            claim # y /\ queue[y] = <<>>
      BY DEF RunInv, Together
    <3> QED BY <1>1, <1>3, <3>1, LifecycleAssumption
  <2>2. \A x \in Procs : pc'[x] = "idle" => claim' # x /\ ~intr'[x]
    <3>1. \A x \in Procs : pc[x] = "idle" => claim # x /\ ~intr[x] BY DEF RunInv, Together
    <3> QED BY <1>1, <3>1, LifecycleAssumption
  <2>3. disk' = NoRecord => \A x \in Procs :
          \/ pc'[x] = "idle" /\ queue'[x] = <<>>
          \/ pc'[x] = "begin"
          \/ pc'[x] = "final" /\ intr'[x]
    BY <1>1 DEF RunInv, Together
  <2>4. \A x, y \in Procs : x # y => AllFinal(queue'[x]) \/ AllFinal(queue'[y])
    <3>1. \A x, y \in Procs : x # y => AllFinal(queue[x]) \/ AllFinal(queue[y])
      BY DEF RunInv, Together
    <3> QED BY <1>3, <3>1
  <2>5. \A x, y \in Procs : x # y /\ Leads(pc'[x], mem'[x]) => AllFinal(queue'[y])
    <3>1. \A x, y \in Procs : x # y /\ Leads(pc[x], mem[x]) => AllFinal(queue[y])
      BY DEF RunInv, Together
    <3> QED BY <1>1, <1>3, <1>4, <3>1
  <2>6. \A x, y \in Procs : x # y /\ pc'[x] \in Opening =>
          \A k \in DOMAIN queue'[y] : Untold(queue'[y][k])
    <3>1. \A x, y \in Procs : x # y /\ pc[x] \in Opening =>
            \A k \in DOMAIN queue[y] : Untold(queue[y][k])
      BY DEF RunInv, Together
    <3> QED BY <1>1, <1>3, <1>4, <3>1
  <2>7. disk'.status = "awaiting" => \A x \in Procs :
          pc'[x] \in {"idle", "desk"} \/ (pc'[x] = "final" /\ ~intr'[x]) => AllFinal(queue'[x])
    BY <1>1 DEF RunInv, Together
  <2> QED BY <2>1, <2>2, <2>3, <2>4, <2>5, <2>6, <2>7 DEF Together
<1>8. SentOnce(acts) /\ DecidedOnce(audit) BY DEF RunInv
<1> QED BY <1>6, <1>7, <1>8 DEF RunInv

\* Whatever ends a command leaves the run as the invariant wants it.
LEMMA EndOfCommandTrue ==
  ASSUME TypeInv, OneWorker, RunInv, NEW p \in Procs,
         Done(p) \/ Refuse(p) \/ InterruptLeaves(p) \/ Abort(p) \/ Crash(p)
  PROVE  RunInv'
<1>1. Trusted(disk, acts, audit) BY DEF RunInv
<1>2. AllFinal(<<>>) BY DEF AllFinal
<1>3. CASE Done(p) \/ Refuse(p)
  <2>1. Leave(p) /\ disk' = disk /\ UNCHANGED <<audit, acts>> /\ queue[p] = <<>>
    BY <1>3 DEF Done, Refuse, Written
  <2>2. queue' = [queue EXCEPT ![p] = <<>>] BY <1>3 DEF Done, Refuse, Written, TypeInv, TypeOK
  <2> QED BY <1>1, <1>2, <2>1, <2>2, NothingFits, LeaveTrue
<1>4. CASE InterruptLeaves(p)
  <2>1. /\ pc[p] \in {"tries", "desk", "final"} /\ ~intr[p] /\ Leave(p)
        /\ disk' = disk /\ UNCHANGED <<audit, queue, acts>>
    BY <1>4 DEF InterruptLeaves
  <2>2. queue' = [queue EXCEPT ![p] = queue[p]] BY <2>1 DEF TypeInv, TypeOK
  <2>3. disk # NoRecord BY <2>1 DEF RunInv, Together
  <2>4. Fits(pc[p], mem[p], cur[p], queue[p], disk, acts, audit) BY DEF RunInv
  <2>5. Fits("idle", NoRecord, Fresh, queue[p], disk, acts, audit)
    <3>1. NoOvertaking => Queued("idle", disk, queue[p])
      BY <2>4 DEF Fits, Lined, Queued, Ending
    <3>2. \A n \in DOMAIN queue[p] : Trusted(queue[p][n], acts, audit) BY <2>4 DEF Fits
    <3>3. \A n \in DOMAIN queue[p] :
            n < Len(queue[p]) => queue[p][n].status \notin Terminal \cup {"awaiting"}
      BY <2>4 DEF Fits, Lined
    <3> QED BY <3>1, <3>2, <3>3, IdleFits
  <2>6. disk.status = "awaiting" => AllFinal(queue[p])
    <3>1. CASE pc[p] = "tries"
      <4>1. "tries" \in Running BY DEF Running, Executing, Early
      <4> QED BY <2>4, <3>1, <4>1 DEF Fits, Lined
    <3>2. CASE pc[p] # "tries" BY <2>1, <3>2 DEF RunInv, Together
    <3> QED BY <3>1, <3>2
  <2> QED BY <1>1, <2>1, <2>2, <2>3, <2>5, <2>6, LeaveTrue
<1>5. CASE Abort(p)
  <2>1. /\ intr[p] /\ disk \in Run /\ disk' = EndedRun(disk, TRUE) /\ Leave(p)
        /\ queue' = [queue EXCEPT ![p] = <<>>] /\ UNCHANGED <<audit, acts>>
    BY <1>5 DEF Abort, TypeInv, TypeOK
  <2>2. pc[p] # "idle" BY <2>1 DEF RunInv, Together
  <2>3. acts \in [Steps -> Nat] BY DEF TypeInv, TypeOK
  <2>4. /\ disk' \in Run
        /\ disk.status # "running" => disk' = disk
        /\ disk.status = "running" => disk'.status # "awaiting"
    <3>1. disk' \in Run BY <2>1, EndedRunType
    <3>2. disk.status = "running" => disk'.status = InterruptedStatus(disk.dispatched)
      BY <2>1 DEF EndedRun, Run
    <3>3. disk.status # "running" => disk' = disk BY <2>1 DEF EndedRun
    <3> QED BY <3>1, <3>2, <3>3 DEF InterruptedStatus
  <2>5. disk' # NoRecord BY <2>4 DEF NoRecord, NewRun, Run, RunStatus, Terminal
  <2>6. Trusted(disk', acts, audit)
    <3>1. CASE disk.status # "running" BY <1>1, <2>4, <3>1
    <3>2. CASE disk.status = "running"
      <4>1. Honest(disk, acts, audit) BY <1>1, <3>2 DEF Trusted, Terminal
      <4>2. Honest(disk', acts, audit) BY <2>1, <2>3, <4>1, EndedRunHonest
      <4> QED BY <4>2, HonestIsSound
    <3> QED BY <3>1, <3>2
  <2>7. disk'.status = "awaiting" => disk.status = "awaiting" BY <2>4
  <2> QED BY <1>2, <2>1, <2>2, <2>5, <2>6, <2>7, NothingFits, LeaveTrue
<1>6. CASE Crash(p)
  <2>1. Leave(p) /\ queue' = [queue EXCEPT ![p] = <<>>] /\ disk' = disk /\ UNCHANGED <<audit, acts>>
    BY <1>6 DEF Crash
  <2> QED BY <1>1, <1>2, <2>1, NothingFits, LeaveTrue
<1> QED BY <1>3, <1>4, <1>5, <1>6

-----------------------------------------------------------------------------
(* The invariant is inductive.                                             *)

\* Before the first run there is nothing to be true of.
LEMMA RunInit == Init => TypeInv /\ OneWorker /\ RunInv
<1> SUFFICES ASSUME Init PROVE TypeInv /\ OneWorker /\ RunInv
  OBVIOUS
<1>1. TypeInv /\ OneWorker
  BY FreshType, LifecycleAssumption DEF Init, TypeInv, TypeOK, Location, OneWorker
<1>2. Honest(NoRecord, acts, audit)
  <2>1. /\ NoRecord.status = "absent" /\ NoRecord.dispatched = {}
        /\ \A s \in Steps : /\ NoRecord.steps[s] = NotRun /\ NoRecord.decision[s] = "none"
                            /\ NoRecord.outcome[s] = "none"
    BY DEF NoRecord, NewRun
  <2>2. (\A s \in Steps : acts[s] = 0) /\ audit = <<>> BY DEF Init
  <2>3. \A i \in Steps : Unlogged(audit, i) BY <2>2 DEF Unlogged
  <2>4. Orderly(NoRecord) BY <2>1 DEF Orderly, Live
  <2>5. Proposed(NoRecord) BY <2>1 DEF Proposed
  <2>6. ResultsTrue(NoRecord, acts) BY <2>1, StepsAssumption DEF ResultsTrue, NotRun
  <2>7. StatusTrue(NoRecord, acts) BY <2>1, <2>2 DEF StatusTrue
  <2>8. OutcomesTrue(NoRecord, acts) BY <2>1 DEF OutcomesTrue
  <2>9. DecisionsTrue(NoRecord, acts, audit) BY <2>1, <2>3 DEF DecisionsTrue
  <2> QED BY <2>4, <2>5, <2>6, <2>7, <2>8, <2>9 DEF Honest
<1>3. SentOnce(acts) /\ DecidedOnce(audit) BY DEF Init, SentOnce, DecidedOnce
<1>4. Trusted(disk, acts, audit) BY <1>2, HonestIsSound DEF Init
<1>5. \A p \in Procs : pc[p] = "idle" /\ queue[p] = <<>> /\ cur[p] = Fresh /\ ~intr[p]
  BY DEF Init
<1>6. Together
  <2>1. \A p \in Procs : AllFinal(queue[p]) BY <1>5 DEF AllFinal
  <2>2. \A p \in Procs : \A k \in DOMAIN queue[p] : Untold(queue[p][k]) BY <1>5
  <2>3. \A p \in Procs : claim # p BY LifecycleAssumption DEF Init
  <2> QED BY <1>5, <2>1, <2>2, <2>3 DEF Together
<1>7. \A p \in Procs : Fits(pc[p], mem[p], cur[p], queue[p], disk, acts, audit)
  BY <1>5, NothingFits
<1> QED BY <1>1, <1>3, <1>4, <1>6, <1>7 DEF RunInv

\* Every step keeps the invariant.
LEMMA RunInduction == TypeInv /\ OneWorker /\ RunInv /\ [Next]_vars => RunInv'
<1> SUFFICES ASSUME TypeInv, OneWorker, RunInv, [Next]_vars PROVE RunInv'
  OBVIOUS
<1>1. CASE UNCHANGED vars
  BY <1>1 DEF vars, RunInv, Together
<1>2. CASE Next
  <2>1. PICK p \in Procs : Work(p) \/ Ask(p) \/ Interrupt(p) \/ Crash(p)
    BY <1>2 DEF Next
  <2>2. CASE Work(p)
    BY <2>2, LandTrue, BeginTrue, RebuildTrue, NextStepTrue, ResolveTrue, DispatchTrue,
       JournalTrue, ReachTrue, CheckTrue, RestoredTrue, ResultTrue, ExpiryTrue,
       CloseTrue, PromotedTrue, EndOfCommandTrue, RecordDecisionTrue, ResumeTrue
    DEF Work
  <2>3. CASE Ask(p)
    <3>1. CASE Approve(p)
      <4>1. PICK i \in Steps : CanResume(mem[p], i) /\ Decide(p, i, "approved", "approving")
        BY <3>1 DEF Approve
      <4> QED BY <4>1, DecideTrue
    <3>2. CASE Reject(p)
      <4>1. PICK i \in Steps : Decide(p, i, "rejected", "rejecting") BY <3>2 DEF Reject
      <4> QED BY <4>1, DecideTrue
    <3> QED BY <2>3, <3>1, <3>2, StartRunTrue, StartDeskTrue DEF Ask
  <2>4. CASE Interrupt(p) \/ Crash(p)
    BY <2>4, InterruptBeginTrue, EndOfCommandTrue, CloseTrue, InterruptWaitsTrue
    DEF Interrupt
  <2> QED BY <2>1, <2>2, <2>3, <2>4
<1> QED BY <1>1, <1>2
-----------------------------------------------------------------------------
(* When no command overtakes a write.                                      *)

\* What is so of one process when only it has writes on their way.
Good(at, r, c, w, d, sent, log) ==
  /\ at # "idle" => Honest(r, sent, log)
  /\ \A k \in DOMAIN w : Honest(w[k], sent, log)
  /\ Phase(at, r, c, w, sent, log)
  /\ at \in Mirrored => r = Latest(d, w)
  /\ Queued(at, d, w)

\* The process that works on the run is the only one with writes on their way,
\* and until the first write has landed it can only have begun.
Alone ==
  /\ \A p, q \in Procs : queue[p] # <<>> /\ q # p => claim # q /\ queue[q] = <<>>
  /\ \A p \in Procs : pc[p] = "idle" => claim # p /\ ~intr[p]
  /\ disk = NoRecord => \A q \in Procs :
       \/ pc[q] = "idle" /\ queue[q] = <<>>
       \/ pc[q] = "begin"
       \/ pc[q] = "final" /\ intr[q]

TruthInv ==
  /\ Honest(disk, acts, audit) /\ SentOnce(acts) /\ DecidedOnce(audit)
  /\ Alone
  /\ \A p \in Procs : Good(pc[p], mem[p], cur[p], queue[p], disk, acts, audit)

\* Nothing is left behind then: every record is honest, and what is in memory
\* is the last one issued.
LEMMA NobodyOvertakes ==
  ASSUME NoOvertaking, RunInv PROVE TruthInv
<1>1. Honest(disk, acts, audit) BY DEF RunInv, Trusted
<1>2. Alone BY DEF RunInv, Together, Alone
<1>3. ASSUME NEW p \in Procs
      PROVE  Good(pc[p], mem[p], cur[p], queue[p], disk, acts, audit)
  <2>1. Fits(pc[p], mem[p], cur[p], queue[p], disk, acts, audit) BY DEF RunInv
  <2>2. pc[p] # "idle" => Honest(mem[p], acts, audit) BY <2>1 DEF Fits
  <2>3. \A k \in DOMAIN queue[p] : Honest(queue[p][k], acts, audit) BY <2>1 DEF Fits, Trusted
  <2>4. pc[p] \in Mirrored => mem[p] = Latest(disk, queue[p]) BY <2>1 DEF Fits, Follows
  <2>5. Queued(pc[p], disk, queue[p]) BY <2>1 DEF Fits, Lined
  <2> QED BY <2>1, <2>2, <2>3, <2>4, <2>5 DEF Fits, Good
<1> QED BY <1>1, <1>2, <1>3 DEF RunInv, TruthInv

\* Only one process works on the run or has anything on its way to disk.
LEMMA WriterAlone ==
  ASSUME OneWorker, TruthInv, NEW p \in Procs, pc[p] # "idle" \/ queue[p] # <<>>
  PROVE  \A q \in Procs \ {p} : pc[q] = "idle" /\ queue[q] = <<>>
<1>1. CASE pc[p] # "idle"
  <2>1. claim = p BY <1>1 DEF OneWorker
  <2> QED BY <2>1 DEF OneWorker, TruthInv, Alone
<1>2. CASE queue[p] # <<>>
  <2>1. \A q \in Procs \ {p} : claim # q /\ queue[q] = <<>> BY <1>2 DEF TruthInv, Alone
  <2> QED BY <2>1 DEF OneWorker
<1> QED BY <1>1, <1>2

-----------------------------------------------------------------------------
(* What the invariant says of a run.                                       *)

\* An irreversible action is sent at most once, journaled, and in order.
LEMMA TruthGivesOrder ==
  ASSUME TypeInv, TruthInv PROVE ActsOnceInOrder
<1>1. ActsAtMostOnce BY DEF TruthInv, SentOnce, ActsAtMostOnce
<1>2. ActionJournaled BY DEF TruthInv, Honest, StatusTrue, ActionJournaled
<1>3. SentInOrder
  <2> SUFFICES ASSUME NEW p \in Procs, Sending(p), NEW s \in 1..(cur[p].step - 1)
               PROVE  disk.steps[s].status = "succeeded"
    BY DEF SentInOrder
  <2>1. /\ pc[p] \in {"dispatch", "reached"} /\ cur[p].step \in Irreversible
        /\ pc[p] \in Stepping /\ pc[p] \in Mirrored
    BY DEF Sending, Stepping, InProgress, Mirrored, Executing
  <2>2. Good(pc[p], mem[p], cur[p], queue[p], disk, acts, audit) BY DEF TruthInv
  <2>3. queue[p] = <<>> /\ UpToStep(mem[p], cur[p], acts)
    BY <2>1, <2>2 DEF Good, Phase, ActsTrue
  <2>4. mem[p] = disk BY <2>1, <2>2, <2>3 DEF Good, Latest
  <2>5. s \in Steps /\ s < cur[p].step BY <2>3, StepsAssumption DEF UpToStep, Steps
  <2> QED BY <2>3, <2>4, <2>5 DEF UpToStep
<1> QED BY <1>1, <1>2, <1>3 DEF ActsOnceInOrder

\* A record reads as it is when no run ever started.
LEMMA NothingLeft ==
  ASSUME NEW log PROVE AsLeft(NoRecord, log) = NoRecord
<1>1. /\ NoRecord.status = "absent"
      /\ \A s \in Steps : NoRecord.decision[s] = "none"
      /\ \A s \in Steps : NoRecord.steps[s] = NotRun
  BY DEF NoRecord, NewRun
<1>2. EndedRun(NoRecord, TRUE) = NoRecord BY <1>1 DEF EndedRun
<1>3. WithDecisions(NoRecord, log) = NoRecord
  <2>1. NoRecord = [NoRecord EXCEPT !.decision = NoRecord.decision,
                                    !.status = NoRecord.status, !.steps = NoRecord.steps]
    BY DEF NoRecord, NewRun
  <2>2. /\ NoRecord.decision = [s \in Steps |-> NoRecord.decision[s]]
        /\ NoRecord.steps = [s \in Steps |-> NoRecord.steps[s]]
    BY DEF NoRecord, NewRun
  <2> QED BY <1>1, <2>1, <2>2 DEF WithDecisions
<1>4. WithOutcomes(NoRecord) = NoRecord BY <1>1 DEF WithOutcomes, Unsettled
<1> QED BY <1>2, <1>3, <1>4 DEF AsLeft

\* What a run reads as is honest, with nothing left to complete.
LEMMA LeftHonest ==
  ASSUME TypeInv, TruthInv PROVE Honest(Left, acts, audit) /\ AtDesk(Left, audit)
<1>1. CASE disk = NoRecord
  <2>1. Left = NoRecord BY <1>1, NothingLeft DEF Left
  <2>2. Honest(Left, acts, audit) BY <1>1, <2>1 DEF TruthInv
  <2>3. \A i \in Steps : Left.decision[i] = "none" BY <2>1 DEF NoRecord, NewRun
  <2> QED BY <2>2, <2>3 DEF AtDesk, Unsettled
<1>2. CASE disk # NoRecord
  <2>1. /\ disk \in Run /\ acts \in [Steps -> Nat] /\ audit \in Seq(Entry)
        /\ Honest(disk, acts, audit)
    BY <1>2 DEF TypeInv, TypeOK, TruthInv
  <2> QED BY <2>1, AsLeftHonest DEF Left
<1> QED BY <1>1, <1>2

\* The decisions of an honest record are exactly those of the log.
LEMMA DecisionsAreLogged ==
  ASSUME TypeInv, TruthInv PROVE DecisionsMatchLog
<1> SUFFICES ASSUME NEW i \in Steps
             PROVE  /\ Left.decision[i] = "approved" <=> Approvals(i) # {}
                    /\ Left.decision[i] = "rejected" <=> Rejections(i) # {}
  BY DEF DecisionsMatchLog
<1>1. /\ LogHas(audit, i, "approved") <=> Approvals(i) # {}
      /\ LogHas(audit, i, "rejected") <=> Rejections(i) # {}
  BY DEF LogHas, Approvals, Rejections
<1>2. Honest(Left, acts, audit) /\ AtDesk(Left, audit) BY LeftHonest
<1>3. /\ Left.decision[i] = "approved" => LogHas(audit, i, "approved")
      /\ Left.decision[i] = "rejected" => LogHas(audit, i, "rejected")
      /\ Left.decision[i] \in {"none", "pending"} => Unlogged(audit, i)
  BY <1>2 DEF Honest, DecisionsTrue, AtDesk
<1>4. Left.decision[i] \in Decision
  <2>1. CASE disk = NoRecord
    BY <2>1, NothingLeft DEF Left, NoRecord, NewRun, Decision
  <2>2. CASE disk # NoRecord
    <3>1. Left \in Run BY <2>2, AsLeftType DEF Left, TypeInv, TypeOK
    <3> QED BY <3>1 DEF Run
  <2> QED BY <2>1, <2>2
<1>5. ~(LogHas(audit, i, "approved") /\ LogHas(audit, i, "rejected"))
  BY DEF TruthInv, DecidedOnce, LogHas
<1>6. Unlogged(audit, i) => ~LogHas(audit, i, "approved") /\ ~LogHas(audit, i, "rejected")
  BY DEF Unlogged, LogHas
<1> QED BY <1>1, <1>3, <1>4, <1>5, <1>6 DEF Decision

\* An awaiting run's proposal is that of the step it stopped at.
LEMMA AwaitsItsProposal ==
  ASSUME Orderly(Left), Proposed(Left), AtDesk(Left, audit)
  PROVE  AwaitingHasItsProposal
<1>1. CASE Left.status = "awaiting"
  <2>1. PICK i \in Steps : Left.steps[i].status = "awaiting" /\ Left.decision[i] = "pending"
    BY <1>1 DEF Proposed, AtDesk
  <2>2. \A s \in Steps : Left.decision[s] = "pending" <=> s = i
    BY <2>1, OnePending
  <2>3. \A s \in 1..(i - 1) : Left.steps[s].status = "succeeded"
    <3> TAKE s \in 1..(i - 1)
    <3>1. s \in Steps /\ s < i BY StepsAssumption DEF Steps
    <3> QED BY <1>1, <2>1, <3>1 DEF Orderly, Live
  <2> QED BY <1>1, <2>1, <2>2, <2>3 DEF AwaitingHasItsProposal
<1>2. CASE Left.status # "awaiting"
  BY <1>2, NoPending DEF AwaitingHasItsProposal
<1> QED BY <1>1, <1>2

\* What the run reads as is true.
LEMMA TruthGivesTruth ==
  ASSUME TypeInv, TruthInv PROVE RecordIsTrue
<1>1. Honest(Left, acts, audit) /\ AtDesk(Left, audit) BY LeftHonest
<1>2. CancelledMeansNothingSent
  BY <1>1 DEF Honest, StatusTrue, Unsent, CancelledMeansNothingSent
<1>3. SucceededMeansAllSent
  BY <1>1, StepsAssumption DEF Honest, StatusTrue, ResultsTrue, SucceededMeansAllSent
<1>4. OneDecision BY DEF TruthInv, DecidedOnce, OneDecision
<1>5. OutcomeIsTrue
  BY <1>1 DEF Honest, StatusTrue, Unsent, OutcomesTrue, OutcomeIsTrue
<1>6. AwaitingHasItsProposal BY <1>1, AwaitsItsProposal DEF Honest
<1> QED BY <1>2, <1>3, <1>4, <1>5, <1>6, DecisionsAreLogged DEF RecordIsTrue

\* Only two kinds of step change the record on disk.
LEMMA OnlyWritesChange ==
  ASSUME NEW p \in Procs, Work(p) \/ Ask(p) \/ Interrupt(p) \/ Crash(p)
  PROVE  disk' = disk \/ Land(p) \/ Abort(p)
<1>1. CASE Work(p)
  BY <1>1 DEF Work, Step, Raise, Begun, TriesRead, SessionOpened, SessionFails,
     Rebuild, Rebuilt, RebuildFails, NextStep, StepsDone, RecordedResolves, PatchResolves,
     Unresolved, ResolveFails, Abstain, Propose, AcceptHeal, BeforeActionError, ActFails,
     JournalDispatch, Dispatch, Reach, ActionReturns, ChecksPass, ChecksFail, PageProblem,
     Restored, RestoreFails, EvidenceTaken, ScreenshotFails, RecordResult, ScopeExpires,
     LateResult, Close, Promoted, Done, Refuse, RecordApproval, RecordRejection, Resume
<1>2. CASE Ask(p) BY <1>2 DEF Ask, StartRun, StartDesk, Approve, Reject, Decide
<1>3. CASE Interrupt(p) \/ Crash(p)
  BY <1>3 DEF Interrupt, InterruptBegin, InterruptLeaves, InterruptRun, InterruptWaits, Crash
<1> QED BY <1>1, <1>2, <1>3

\* A final record is kept by every step.
LEMMA FinalStaysFinal ==
  ASSUME TypeInv, TruthInv, [Next]_vars, disk.status \in Terminal
  PROVE  Kept(disk, disk')
<1>1. disk \in Run BY DEF TypeInv, TypeOK, NoRecord, NewRun, Terminal
<1>2. Kept(disk, disk) BY <1>1 DEF Kept, Run
<1>3. CASE UNCHANGED vars BY <1>2, <1>3 DEF vars
<1>4. CASE Next
  <2>1. PICK p \in Procs : Work(p) \/ Ask(p) \/ Interrupt(p) \/ Crash(p) BY <1>4 DEF Next
  <2>2. CASE Land(p)
    <3>1. PICK k \in DOMAIN queue[p] : disk' = queue[p][k] BY <2>2 DEF Land
    <3>2. Good(pc[p], mem[p], cur[p], queue[p], disk, acts, audit) BY DEF TruthInv
    <3> QED BY <3>1, <3>2 DEF Good, Queued
  <2>3. CASE Abort(p)
    <3>1. disk' = disk BY <2>3 DEF Abort, EndedRun, Terminal
    <3> QED BY <1>2, <3>1
  <2> QED BY <1>2, <2>1, <2>2, <2>3, OnlyWritesChange
<1> QED BY <1>3, <1>4

-----------------------------------------------------------------------------
(* The theorems.                                                           *)

\* For every workflow: an irreversible action reaches a page at most once over
\* all commands, retries, restores and resumes, in the order of the workflow,
\* and the record on disk already says that it may have.
THEOREM ActsInOrder == ASSUME NoOvertaking PROVE Spec => []ActsOnceInOrder
<1>1. TypeInv /\ RunInv => ActsOnceInOrder BY NobodyOvertakes, TruthGivesOrder
<1> QED BY <1>1, RunInit, TypeInduction, WorkerInduction, RunInduction, PTL DEF Spec

\* For every workflow: what a run reads as is true of the actions sent, of the
\* audit log and of the approvals, whatever was interrupted, aborted or killed.
THEOREM RecordsAreTrue == ASSUME NoOvertaking PROVE Spec => []RecordIsTrue
<1>1. TypeInv /\ RunInv => RecordIsTrue BY NobodyOvertakes, TruthGivesTruth
<1> QED BY <1>1, RunInit, TypeInduction, WorkerInduction, RunInduction, PTL DEF Spec

\* For every workflow: no write replaces a final record; only the outcome of an
\* approval that an abort left unsettled is filled in.
THEOREM FinalRecordsAreKept == ASSUME NoOvertaking PROVE Spec => FinalRecordKept
<1>1. TypeInv /\ RunInv /\ [Next]_vars =>
        [disk.status \in Terminal =>
           /\ disk' = [disk EXCEPT !.outcome = disk'.outcome]
           /\ \A s \in Steps : disk.outcome[s] \in {"none", disk'.outcome[s]}]_vars
  BY NobodyOvertakes, FinalStaysFinal DEF Kept
<1> QED
  BY <1>1, RunInit, TypeInduction, WorkerInduction, RunInduction, PTL
  DEF Spec, FinalRecordKept

-----------------------------------------------------------------------------
(* A run keeps its contract.  What it reads as changes when a write lands  *)
(* and when the process that works on it leaves, so the invariant needed   *)
(* says how the statuses on their way to disk follow from one another.     *)

\* The statuses that may come after status x, given what was sent.
After(x, sent) ==
  CASE x = "absent" -> {"absent", "running", "cancelled"}
    [] x = "running" -> RunStatus
    [] x = "awaiting" -> {"awaiting", "failed", "cancelled", "needs_review"} \cup
                         (IF Unsent(sent) THEN {"running"} ELSE {})
    [] OTHER -> {x}

\* The statuses a record of status x that nobody holds may read as.
ReadsAs(x) ==
  IF x = "running" THEN {"cancelled", "needs_review"}
  ELSE IF x = "awaiting" THEN {"awaiting", "cancelled", "failed"} ELSE {x}

\* Every write may follow every earlier one, since any of those may be dropped.
Flows(d, w, sent) ==
  /\ \A k \in DOMAIN w : w[k].status \in After(d.status, sent)
  /\ \A j, k \in DOMAIN w : j < k => w[k].status \in After(w[j].status, sent)

\* All that is on disk or on its way there while steps run is a running record.
Continues(at, r, d, w) ==
  /\ at \in Running => d.status = "running"
  /\ at \in Running \cup {"begin"} => \A k \in DOMAIN w : w[k].status = "running"
  /\ at = "begin" /\ d.status = "absent" => r.dispatched = {}

FlowInv ==
  \A p \in Procs : Flows(disk, queue[p], acts) /\ Continues(pc[p], mem[p], disk, queue[p])

\* How a record reads follows from its status.
LEMMA LeftStatus ==
  ASSUME NEW r \in Run, Proposed(r), NEW log
  PROVE  AsLeft(r, log).status \in ReadsAs(r.status)
<1> DEFINE ended == EndedRun(r, TRUE)
           decided == WithDecisions(ended, log)
<1>1. /\ ended.decision = r.decision /\ ended \in Run
      /\ IF r.status = "running" THEN ended.status \in {"cancelled", "needs_review"}
         ELSE ended.status = r.status
  BY EndedRunType DEF EndedRun, InterruptedStatus, Run
<1>2. r.status # "awaiting" => \A s \in Steps : ended.decision[s] # "pending"
  BY <1>1, NoPending
<1> HIDE DEF ended
<1>3. decided.status \in {ended.status, "failed"}
  BY <1>1 DEF WithDecisions, Run
<1>4. r.status # "awaiting" => decided.status = ended.status
  BY <1>1, <1>2 DEF WithDecisions, Run
<1>5. decided \in Run BY <1>1, WithDecisionsType
<1> HIDE DEF decided
<1>6. IF decided.status = "awaiting"
      THEN WithOutcomes(decided).status \in {"awaiting", "cancelled"}
      ELSE WithOutcomes(decided).status = decided.status
  BY <1>5 DEF WithOutcomes, Run
<1>7. AsLeft(r, log) = WithOutcomes(decided) BY DEF AsLeft, decided, ended
<1>8. r.status \in RunStatus BY DEF Run
<1> QED BY <1>1, <1>3, <1>4, <1>6, <1>7, <1>8 DEF ReadsAs

\* A record with nothing left to complete reads as it is.
LEMMA LeftAtDesk ==
  ASSUME NEW r \in Run, NEW log, AtDesk(r, log), r.status # "running"
  PROVE  AsLeft(r, log).status = r.status
<1>1. EndedRun(r, TRUE) = r BY DEF EndedRun
<1>2. \A s \in Steps : \A kind : ~(r.decision[s] = "pending" /\ Logged(log, s, kind))
  BY DEF AtDesk, Logged, Unlogged
<1>3. WithDecisions(r, log) = r BY <1>2 DEF WithDecisions, Run
<1>4. WithOutcomes(r) = r BY DEF AtDesk, WithOutcomes
<1> QED BY <1>1, <1>3, <1>4 DEF AsLeft

\* A run that nobody finished reads as a record that could have followed.
LEMMA ReadsAfter ==
  ASSUME NEW x \in RunStatus \cup {"absent"}, NEW sent
  PROVE  /\ ReadsAs(x) \subseteq After(x, sent) /\ x \in After(x, sent)
         /\ x # "absent" => \A y \in After(x, sent) : ReadsAs(y) \subseteq After(x, sent)
BY DEF ReadsAs, After, RunStatus, Terminal

\* A record that is issued follows from what is on its way.
LEMMA FlowsOn ==
  ASSUME NEW d, NEW w \in Seq(Run), NEW sent, NEW r \in Run, Flows(d, w, sent),
         r.status \in After(d.status, sent),
         \A k \in DOMAIN w : r.status \in After(w[k].status, sent)
  PROVE  Flows(d, Append(w, r), sent)
<1> DEFINE x == Append(w, r)
<1>1. /\ x[Len(x)] = r /\ DOMAIN x = DOMAIN w \cup {Len(x)}
      /\ \A k \in DOMAIN w : x[k] = w[k]
      /\ \A k \in DOMAIN x : k \in Nat /\ k <= Len(x)
      /\ \A j, k \in DOMAIN x : j < k => j \in DOMAIN w
  OBVIOUS
<1> HIDE DEF x
<1> QED BY <1>1 DEF Flows, x

\* Nothing on its way follows from anything.
LEMMA NothingFlows == ASSUME NEW d, NEW sent PROVE Flows(d, <<>>, sent)
BY DEF Flows

\* A single write has to follow from what is on disk only.
LEMMA OneFlows ==
  ASSUME NEW d, NEW r, NEW sent, r.status \in After(d.status, sent)
  PROVE  Flows(d, <<r>>, sent)
<1> DEFINE w == <<r>>
<1>1. DOMAIN w = {1} /\ w[1] = r OBVIOUS
<1> HIDE DEF w
<1>2. Flows(d, w, sent) BY <1>1 DEF Flows
<1> QED BY <1>2 DEF w

\* The process moves within an execution, and writes nothing.
RunsOn(p) ==
  /\ \E from, to \in Running : Go(p, from, to)
  /\ UNCHANGED <<disk, audit, queue>>
  /\ acts' = acts \/ Reach(p)

\* The awaits that execute the run are the model's own names.
LEMMA RunningAwaits ==
  /\ Scope \cup {"tries", "session", "late", "close", "promote"} \subseteq Running
  /\ InProgress \subseteq Running
  /\ {"tries", "session", "rebuild", "results", "release", "late", "close", "promote",
      "resolve", "heal", "acting", "journal", "dispatch", "reached", "verify",
      "restore", "evidence", "unrebuilt"} \subseteq Running
  /\ Running \cap {"idle", "desk", "begin", "final", "approving", "approved",
                   "rejecting", "rejected"} = {}
BY DEF Running, Executing, Early, Stepping, InProgress, Scope

\* Replaying steps sends nothing irreversible.
LEMMA ReplaySendsNothing ==
  ASSUME TypeInv, RunInv, NEW p \in Procs, Restored(p) \/ Rebuild(p)
  PROVE  acts' = acts
<1>1. CASE Restored(p)
  <2>1. PICK first \in 1..cur[p].step :
          /\ MayReplay(first, cur[p].step)
          /\ acts' = Acted(first..(cur[p].step - 1))
    BY <1>1 DEF Restored
  <2> QED BY <2>1, ActedNothing DEF MayReplay
<1>2. CASE Rebuild(p)
  <2> DEFINE c == cur[p]
  <2>1. pc[p] = "rebuild" /\ "rebuild" \in Executing /\ "rebuild" \in Early
    BY <1>2 DEF Rebuild, Go, Executing, Early
  <2>2. /\ c.step \in Nat /\ c.approved \in Nat
        /\ BeingExecuted(mem[p], c) /\ Resumable(mem[p], c, acts)
    BY <2>1, InExecution DEF Phase
  <2>3. c.step + 1 < c.approved /\ acts' = Acted({c.step + 1}) BY <1>2 DEF Rebuild
  <2>4. c.approved \in Steps
    BY <2>2, <2>3, StepsAssumption DEF BeingExecuted, OneApproval
  <2>5. c.step + 1 \in Steps BY <2>2, <2>3, <2>4, StepsAssumption DEF Steps
  <2>6. {c.step + 1} \cap Irreversible = {} BY <2>2, <2>3, <2>5 DEF Resumable
  <2> HIDE DEF c
  <2> QED BY <2>3, <2>6, ActedNothing
<1> QED BY <1>1, <1>2

\* Ending a step with an error moves the process within the execution.
LEMMA RaiseRunsOn ==
  ASSUME NEW p, NEW from \in Running, NEW status, NEW stale, Raise(p, from, status, stale)
  PROVE  RunsOn(p)
BY RunningAwaits DEF Raise, Step, RunsOn

\* Every step of a process is of one of these kinds.
LEMMA StepKinds ==
  ASSUME TypeInv, RunInv, NEW p \in Procs,
         Work(p) \/ Ask(p) \/ Interrupt(p) \/ Crash(p)
  PROVE  \/ RunsOn(p) \/ Land(p) \/ Begun(p)
         \/ JournalDispatch(p) \/ RecordResult(p) \/ Promoted(p)
         \/ Resume(p) \/ RecordApproval(p) \/ RecordRejection(p)
         \/ InterruptBegin(p) \/ InterruptWaits(p)
         \/ StartRun(p) \/ StartDesk(p) \/ Approve(p) \/ Reject(p)
         \/ Done(p) \/ Refuse(p) \/ InterruptLeaves(p) \/ Abort(p) \/ Crash(p)
<1>1. CASE TriesRead(p) \/ SessionOpened(p) \/ SessionFails(p)
  BY <1>1, RunningAwaits DEF TriesRead, SessionOpened, SessionFails, RunsOn
<1>2. CASE Rebuild(p) \/ Rebuilt(p) \/ RebuildFails(p)
  <2>1. Rebuild(p) => acts' = acts BY ReplaySendsNothing
  <2> QED BY <1>2, <2>1, RunningAwaits DEF Rebuild, Rebuilt, RebuildFails, Step, RunsOn
<1>3. CASE NextStep(p) \/ StepsDone(p)
  BY <1>3, RunningAwaits DEF NextStep, StepsDone, Step, RunsOn
<1>4. CASE RecordedResolves(p) \/ PatchResolves(p) \/ Unresolved(p) \/ AcceptHeal(p)
  BY <1>4, RunningAwaits DEF RecordedResolves, PatchResolves, Unresolved, AcceptHeal, Step, RunsOn
<1>5. CASE ResolveFails(p) \/ Abstain(p) \/ Propose(p)
  BY <1>5, RunningAwaits, RaiseRunsOn DEF ResolveFails, Abstain, Propose
<1>6. CASE BeforeActionError(p) \/ ActFails(p)
  <2>1. PICK from \in {"acting", "dispatch", "reached"} :
          \/ Raise(p, from, "failed", FALSE)
          \/ Step(p, from, "heal", [cur[p] EXCEPT !.via = "none"])
    BY <1>6 DEF BeforeActionError, ActFails
  <2>2. from \in Running /\ "heal" \in Running BY RunningAwaits
  <2>3. CASE Raise(p, from, "failed", FALSE) BY <2>2, <2>3, RaiseRunsOn
  <2>4. CASE Step(p, from, "heal", [cur[p] EXCEPT !.via = "none"])
    BY <2>2, <2>4 DEF Step, RunsOn
  <2> QED BY <2>1, <2>3, <2>4
<1>7. CASE Dispatch(p) \/ Reach(p) \/ ActionReturns(p) \/ ChecksPass(p) \/ EvidenceTaken(p)
  BY <1>7, RunningAwaits DEF Dispatch, Reach, ActionReturns, ChecksPass, EvidenceTaken, Step, RunsOn
<1>8. CASE ChecksFail(p) \/ PageProblem(p) \/ RestoreFails(p) \/ ScreenshotFails(p)
  <2>1. \/ Step(p, "verify", "restore", cur[p])
        \/ \E from \in {"verify", "restore", "evidence"} :
             \E status : Raise(p, from, status, FALSE)
    BY <1>8 DEF ChecksFail, PageProblem, RestoreFails, ScreenshotFails
  <2>2. CASE Step(p, "verify", "restore", cur[p])
    BY <2>2, RunningAwaits DEF Step, RunsOn
  <2>3. CASE \E from \in {"verify", "restore", "evidence"} :
               \E status : Raise(p, from, status, FALSE)
    BY <2>3, RunningAwaits, RaiseRunsOn
  <2> QED BY <2>1, <2>2, <2>3
<1>9. CASE Restored(p)
  <2>1. acts' = acts BY <1>9, ReplaySendsNothing
  <2> QED BY <1>9, <2>1, RunningAwaits DEF Restored, RunsOn
<1>10. CASE ScopeExpires(p)
  <2>1. PICK from \in Scope, to \in {"late", "close"} : \E c : Step(p, from, to, c)
    BY <1>10, RunningAwaits DEF ScopeExpires, Scope
  <2> QED BY <2>1, RunningAwaits DEF Step, RunsOn
<1>11. CASE LateResult(p) \/ Close(p) \/ InterruptRun(p)
  BY <1>11, RunningAwaits DEF LateResult, Close, InterruptRun, RunsOn
<1> QED BY <1>1, <1>2, <1>3, <1>4, <1>5, <1>6, <1>7, <1>8, <1>9, <1>10, <1>11
        DEF Work, Ask, Interrupt

\* The statuses of the records on disk and on their way there.
LEMMA FlowTypes ==
  ASSUME TypeInv, NEW p \in Procs
  PROVE  /\ disk.status \in RunStatus \cup {"absent"}
         /\ disk.status = "absent" <=> disk = NoRecord
         /\ queue[p] \in Seq(Run)
         /\ \A k \in DOMAIN queue[p] : queue[p][k] \in Run /\ queue[p][k].status \in RunStatus
<1>1. \A r \in Run : r.status \in RunStatus BY DEF Run
<1>2. NoRecord.status = "absent" /\ "absent" \notin RunStatus
  BY DEF NoRecord, NewRun, RunStatus, Terminal
<1>3. disk \in Run \cup {NoRecord} /\ queue[p] \in Seq(Run) BY DEF TypeInv, TypeOK
<1>4. \A k \in DOMAIN queue[p] : queue[p][k] \in Run BY <1>3
<1> QED BY <1>1, <1>2, <1>3, <1>4

\* What the worker leaves has to flow only for the worker: nobody else has
\* anything on its way.
LEMMA FlowFor ==
  ASSUME TypeInv, NEW p \in Procs,
         \A q \in Procs \ {p} : pc'[q] = "idle" /\ queue'[q] = <<>>,
         Flows(disk', queue'[p], acts'), Continues(pc'[p], mem'[p], disk', queue'[p])
  PROVE  FlowInv'
<1>1. \A q \in Procs \ {p} : Flows(disk', queue'[q], acts') BY NothingFlows
<1>2. \A q \in Procs \ {p} : Continues(pc'[q], mem'[q], disk', queue'[q])
  BY RunningAwaits DEF Continues
<1> QED BY <1>1, <1>2 DEF FlowInv

\* A write that a process issues flows, and a running one keeps it running.
LEMMA IssueFlows ==
  ASSUME TypeInv, OneWorker, TruthInv, FlowInv, NEW p \in Procs,
         NEW from \in Busy, NEW to \in Busy, NEW r \in Run,
         Go(p, from, to), Issue(p, r), UNCHANGED <<disk, acts>>,
         r.status \in After(disk.status, acts),
         \A k \in DOMAIN queue[p] : r.status \in After(queue[p][k].status, acts),
         to \in Running => from \in Running /\ r.status = "running",
         to = "begin" => r.status = "running" /\ disk.status = "awaiting" /\ queue[p] = <<>>
  PROVE  FlowInv'
<1> DEFINE w == Append(queue[p], r)
<1>1. pc[p] = from /\ from # "idle" BY DEF Go, Busy
<1>2. /\ pc'[p] = to /\ mem'[p] = r /\ queue'[p] = w
      /\ \A q \in Procs \ {p} : pc'[q] = pc[q] /\ queue'[q] = queue[q]
  BY DEF TypeInv, TypeOK, Go, Issue
<1>3. \A q \in Procs \ {p} : pc[q] = "idle" /\ queue[q] = <<>> BY <1>1, WriterAlone
<1>4. queue[p] \in Seq(Run) BY FlowTypes
<1>5. Flows(disk, w, acts) BY <1>4, FlowsOn DEF FlowInv
<1>6. \A k \in DOMAIN w : w[k] = r \/ (k \in DOMAIN queue[p] /\ w[k] = queue[p][k])
  <2>1. /\ w[Len(w)] = r /\ DOMAIN w = DOMAIN queue[p] \cup {Len(w)}
        /\ \A k \in DOMAIN queue[p] : w[k] = queue[p][k]
    BY <1>4
  <2> HIDE DEF w
  <2> QED BY <2>1
<1> HIDE DEF w
<1>7. Continues(to, r, disk, w)
  <2>1. Continues(from, mem[p], disk, queue[p]) BY <1>1 DEF FlowInv
  <2>2. CASE to \in Running
    BY <1>6, <2>1, <2>2, RunningAwaits DEF Continues
  <2>3. CASE to = "begin"
    BY <1>6, <2>3, RunningAwaits DEF Continues
  <2>4. CASE to \notin Running \cup {"begin"}
    BY <2>4 DEF Continues
  <2> QED BY <2>2, <2>3, <2>4
<1> QED BY <1>2, <1>3, <1>5, <1>7, FlowFor

\* While steps run, any status may follow.
LEMMA AfterRunning ==
  ASSUME NEW sent PROVE After("running", sent) = RunStatus
BY DEF After

\* What an execution holds in memory and has on its way.
LEMMA WhileRunning ==
  ASSUME TypeInv, TruthInv, FlowInv, NEW p \in Procs, pc[p] \in Running
  PROVE  /\ disk.status = "running" /\ mem[p] \in Run
         /\ \A k \in DOMAIN queue[p] : queue[p][k].status = "running"
         /\ pc[p] # "promote" => mem[p].status = "running"
<1>1. pc[p] # "idle" /\ (pc[p] # "promote" => pc[p] \in Executing)
  BY RunningAwaits DEF Running
<1>2. Phase(pc[p], mem[p], cur[p], queue[p], acts, audit) BY DEF TruthInv, Good
<1> QED BY <1>1, <1>2 DEF TypeInv, FlowInv, Continues, Phase, BeingExecuted

\* Issuing a record keeps the writes flowing.
LEMMA WritesFlow ==
  ASSUME TypeInv, OneWorker, TruthInv, FlowInv, NEW p \in Procs,
         \/ JournalDispatch(p) \/ RecordResult(p) \/ Promoted(p)
         \/ Resume(p) \/ RecordApproval(p) \/ RecordRejection(p) \/ InterruptBegin(p)
  PROVE  FlowInv'
<1>1. /\ {"acting", "journal", "release", "unrebuilt", "results", "promote"} \subseteq Running \cap Busy
      /\ {"final", "begin", "approving", "approved", "rejecting", "rejected"} \subseteq Busy \ Running
  BY RunningAwaits, Awaits
<1>2. CASE JournalDispatch(p)
  <2> DEFINE r == Journaled(mem[p], cur[p].step)
  <2>1. /\ Go(p, "acting", "journal") /\ Issue(p, r) /\ UNCHANGED <<disk, acts>>
        /\ cur[p].step \in Steps /\ pc[p] = "acting"
    BY <1>2, StepsAssumption DEF JournalDispatch, Go
  <2>2. /\ disk.status = "running" /\ mem[p] \in Run /\ mem[p].status = "running"
        /\ \A k \in DOMAIN queue[p] : queue[p][k].status = "running"
    BY <1>1, <2>1, WhileRunning
  <2>3. r \in Run /\ r.status = "running" BY <2>1, <2>2 DEF Journaled, Run
  <2>4. "running" \in RunStatus BY DEF RunStatus
  <2> HIDE DEF r
  <2> QED BY <1>1, <2>1, <2>2, <2>3, <2>4, AfterRunning, IssueFlows, RunningAwaits
<1>3. CASE RecordResult(p)
  <2> DEFINE r == WithResult(mem[p], cur[p])
  <2>1. PICK from \in {"release", "unrebuilt"} :
          Go(p, from, "results") /\ Issue(p, r) /\ UNCHANGED <<disk, acts>>
    BY <1>3 DEF RecordResult
  <2>2. /\ disk.status = "running" /\ mem[p] \in Run /\ mem[p].status = "running"
        /\ \A k \in DOMAIN queue[p] : queue[p][k].status = "running"
        /\ cur[p] \in Progress /\ from \in Running \cap Busy
    BY <1>1, <2>1, WhileRunning DEF Go, TypeInv, TypeOK
  <2>3. r \in Run /\ r.status = "running" BY <2>2, WithResultType DEF WithResult, Run
  <2>4. "running" \in RunStatus BY DEF RunStatus
  <2> HIDE DEF r
  <2> QED BY <1>1, <2>1, <2>2, <2>3, <2>4, AfterRunning, IssueFlows, RunningAwaits
<1>4. CASE Promoted(p)
  <2>1. /\ Go(p, "promote", "final") /\ Issue(p, mem[p]) /\ UNCHANGED <<disk, acts>>
        /\ pc[p] = "promote"
    BY <1>4 DEF Promoted, Go
  <2>2. /\ disk.status = "running" /\ mem[p] \in Run /\ mem[p].status \in RunStatus
        /\ \A k \in DOMAIN queue[p] : queue[p][k].status = "running"
    BY <1>1, <2>1, WhileRunning DEF Run
  <2> QED BY <1>1, <2>1, <2>2, AfterRunning, IssueFlows
<1>5. CASE Resume(p)
  <2> DEFINE c == cur[p]
             r == IF intr[p] THEN NotResumed(mem[p], c.approved) ELSE Resumed(mem[p], c.approved)
             to == IF intr[p] THEN "final" ELSE "begin"
  <2>1. /\ Go(p, "approved", to) /\ Issue(p, r) /\ UNCHANGED <<disk, acts>>
        /\ pc[p] = "approved" /\ queue[p] = <<>> /\ to \in {"final", "begin"}
    BY <1>5 DEF Resume, Go, Written
  <2>2. Good("approved", mem[p], c, <<>>, disk, acts, audit) BY <2>1 DEF TruthInv
  <2>3. disk = mem[p] /\ BeingResumed(mem[p], c) /\ Unsent(acts)
    BY <2>2 DEF Good, Phase, Mirrored, Latest, Resumable
  <2>4. mem[p] \in Run BY <2>1 DEF TypeInv
  <2>5. c.approved \in Steps /\ disk.status = "awaiting" BY <2>3 DEF BeingResumed
  <2>6. /\ r \in Run
        /\ IF intr[p] THEN r.status = "cancelled" ELSE r.status = "running"
    <3>1. \A i \in Steps : /\ NotResumed(mem[p], i).status = "cancelled"
                           /\ Resumed(mem[p], i).status = "running"
      BY <2>4 DEF NotResumed, EndedAt, Resumed, Run
    <3> HIDE DEF c
    <3> QED BY <2>4, <2>5, <3>1, NotResumedType, ResumedType
  <2>7. r.status \in After(disk.status, acts) BY <2>3, <2>5, <2>6 DEF After
  <2> HIDE DEF r
  <2> QED BY <1>1, <2>1, <2>5, <2>6, <2>7, IssueFlows
<1>6. CASE RecordApproval(p) \/ RecordRejection(p)
  <2> DEFINE c == cur[p]
  <2>1. pc[p] \in {"approving", "rejecting"} BY <1>6 DEF RecordApproval, RecordRejection, Go
  <2>2. Good(pc[p], mem[p], c, queue[p], disk, acts, audit) BY DEF TruthInv
  <2>3. c.approved \in Steps /\ mem[p].status = "awaiting" /\ queue[p] = <<>>
    BY <2>1, <2>2 DEF Good, Phase, BeingDecided
  <2>4. mem[p] = disk BY <2>1, <2>2, <2>3 DEF Good, Mirrored, Latest
  <2>5. mem[p] \in Run BY <2>1 DEF TypeInv
  <2> DEFINE r == IF RecordApproval(p) THEN Decided(mem[p], c.approved, "approved")
                  ELSE Rejected(mem[p], c.approved)
             to == IF RecordApproval(p) THEN "approved" ELSE "rejected"
  <2>6. /\ Go(p, pc[p], to) /\ Issue(p, r) /\ UNCHANGED <<disk, acts>>
        /\ to \in {"approved", "rejected"}
    BY <1>6 DEF RecordApproval, RecordRejection, Go
  <2>7. r \in Run /\ r.status \in {"awaiting", "failed"}
    <3>1. "approved" \in Decision BY DEF Decision
    <3>2. \A i \in Steps : /\ Decided(mem[p], i, "approved").status = mem[p].status
                           /\ Rejected(mem[p], i).status = "failed"
      BY <2>5 DEF Decided, Rejected, EndedAt, Run
    <3>3. \A i \in Steps : Decided(mem[p], i, "approved") \in Run /\ Rejected(mem[p], i) \in Run
      BY <2>5, <3>1, DecidedType, RejectedType
    <3> HIDE DEF c
    <3> QED BY <2>3, <3>2, <3>3
  <2>8. r.status \in After(disk.status, acts) BY <2>3, <2>4, <2>7 DEF After
  <2> HIDE DEF c, r, to
  <2> QED BY <1>1, <2>1, <2>3, <2>6, <2>7, <2>8, IssueFlows
<1>7. CASE InterruptBegin(p)
  <2> DEFINE ended == EndedRun(mem[p], FALSE)
             r == IF cur[p].approved = 0 THEN ended ELSE Settle(ended, cur[p].approved)
  <2>1. Go(p, "begin", "final") /\ Issue(p, r) /\ UNCHANGED <<disk, acts>> /\ pc[p] = "begin"
    BY <1>7 DEF InterruptBegin, Go
  <2>2. Good("begin", mem[p], cur[p], queue[p], disk, acts, audit) BY <2>1 DEF TruthInv
  <2>3. mem[p].status = "running" /\ mem[p] \in Run
    BY <2>1, <2>2 DEF Good, Phase, Executing, Early, BeingExecuted, TypeInv
  <2>4. ended \in Run /\ ended.status = InterruptedStatus(mem[p].dispatched)
    BY <2>3, EndedRunType DEF EndedRun, Run
  <2> HIDE DEF ended
  <2>5. r \in Run /\ r.status = ended.status BY <2>4, SettleType DEF Settle, Run
  <2>6. /\ r.status \in {"cancelled", "needs_review"}
        /\ mem[p].dispatched = {} => r.status = "cancelled"
    BY <2>4, <2>5 DEF InterruptedStatus
  <2>7. Continues("begin", mem[p], disk, queue[p]) BY <2>1 DEF FlowInv
  <2>8. disk.status \in {"absent", "running", "awaiting"}
    <3>1. disk.status \notin Terminal BY <2>2 DEF Good, Queued, Ending
    <3> QED BY <3>1, FlowTypes DEF RunStatus
  <2>9. r.status \in After(disk.status, acts)
    BY <2>6, <2>7, <2>8 DEF Continues, After, RunStatus, Terminal
  <2>10. \A k \in DOMAIN queue[p] : r.status \in After(queue[p][k].status, acts)
    BY <2>6, <2>7, AfterRunning DEF Continues, RunStatus, Terminal
  <2> HIDE DEF r
  <2> QED BY <1>1, <2>1, <2>5, <2>9, <2>10, IssueFlows
<1> QED BY <1>2, <1>3, <1>4, <1>5, <1>6, <1>7

\* A write that lands leaves the later ones following from it.
LEMMA LandFlows ==
  ASSUME TypeInv, OneWorker, TruthInv, FlowInv, NEW p \in Procs,
         NEW k \in DOMAIN queue[p], disk' = queue[p][k],
         queue' = [queue EXCEPT ![p] = SubSeq(queue[p], k + 1, Len(queue[p]))],
         UNCHANGED <<pc, mem, acts>>
  PROVE  /\ FlowInv'
         /\ \A n \in DOMAIN queue'[p] : \E m \in DOMAIN queue[p] : queue'[p][n] = queue[p][m]
<1> DEFINE w == queue[p]
           v == SubSeq(w, k + 1, Len(w))
<1>1. w \in Seq(Run) BY FlowTypes
<1>2. \A n \in DOMAIN v : /\ n + k \in DOMAIN w /\ v[n] = w[n + k]
                          /\ k < n + k /\ n \in Nat
  <2>1. v \in Seq(Run) /\ Len(v) = Len(w) - k /\ k \in 1..Len(w)
    BY <1>1, SubSeqProperties
  <2>2. \A n \in 1..Len(v) : v[n] = w[n + k] BY <1>1, <2>1, SubSeqProperties
  <2>3. DOMAIN v = 1..Len(v) BY <2>1
  <2>4. Len(w) \in Nat /\ DOMAIN w = 1..Len(w) BY <1>1
  <2> HIDE DEF v, w
  <2> QED BY <2>1, <2>2, <2>3, <2>4
<1>3. queue'[p] = v /\ \A q \in Procs \ {p} : queue'[q] = queue[q]
  BY DEF TypeInv, TypeOK
<1>4. w # <<>> BY <1>1
<1>5. \A q \in Procs \ {p} : pc[q] = "idle" /\ queue[q] = <<>> BY <1>4, WriterAlone
<1>6. Flows(disk, w, acts) /\ Continues(pc[p], mem[p], disk, w) BY DEF FlowInv
<1> HIDE DEF v
<1>7. Flows(w[k], v, acts)
  <2>1. \A n \in DOMAIN v : v[n].status \in After(w[k].status, acts)
    BY <1>2, <1>6 DEF Flows
  <2>2. ASSUME NEW j \in DOMAIN v, NEW n \in DOMAIN v, j < n
        PROVE  v[n].status \in After(v[j].status, acts)
    <3>1. k \in Nat BY <1>1
    <3>2. j + k < n + k BY <1>2, <2>2, <3>1
    <3> QED BY <1>2, <1>6, <3>2 DEF Flows
  <2> QED BY <2>1, <2>2 DEF Flows
<1>8. Continues(pc[p], mem[p], w[k], v)
  <2>1. pc[p] \in Running \cup {"begin"} =>
          w[k].status = "running" /\ \A n \in DOMAIN v : v[n].status = "running"
    BY <1>2, <1>6 DEF Continues
  <2> QED BY <2>1 DEF Continues
<1>9. FlowInv' BY <1>3, <1>5, <1>7, <1>8, FlowFor
<1> QED BY <1>2, <1>3, <1>9

\* Moving within an execution, or on to it, keeps the writes flowing.
LEMMA MovesFlow ==
  ASSUME TypeInv, OneWorker, TruthInv, FlowInv, NEW p \in Procs,
         RunsOn(p) \/ Begun(p) \/ InterruptWaits(p)
  PROVE  FlowInv'
<1>1. CASE RunsOn(p)
  <2>1. PICK from \in Running, to \in Running : Go(p, from, to) BY <1>1 DEF RunsOn
  <2>2. pc[p] = from /\ pc[p] # "idle" /\ to # "begin" /\ pc'[p] = to
    BY <2>1, RunningAwaits DEF Go, TypeInv, TypeOK
  <2>3. disk' = disk /\ queue' = queue BY <1>1 DEF RunsOn
  <2>4. /\ disk.status = "running"
        /\ \A k \in DOMAIN queue[p] : queue[p][k].status = "running"
    BY <2>1, <2>2, WhileRunning
  <2>5. \A q \in Procs \ {p} : pc'[q] = "idle" /\ queue'[q] = <<>>
    BY <2>1, <2>2, <2>3, WriterAlone DEF Go, TypeInv, TypeOK
  <2>6. "running" \in RunStatus BY DEF RunStatus
  <2>7. Flows(disk, queue[p], acts') BY <2>4, <2>6, AfterRunning DEF Flows
  <2>8. Continues(to, mem'[p], disk, queue[p]) BY <2>2, <2>4 DEF Continues
  <2> QED BY <2>2, <2>3, <2>5, <2>7, <2>8, FlowFor
<1>2. CASE Begun(p)
  <2>1. /\ pc[p] = "begin" /\ queue[p] = <<>> /\ UNCHANGED <<disk, mem, queue, acts>>
        /\ pc'[p] \in {"tries", "session"} /\ \A q \in Procs \ {p} : pc'[q] = pc[q]
    BY <1>2 DEF Begun, Go, Written, TypeInv, TypeOK
  <2>2. Good("begin", mem[p], cur[p], <<>>, disk, acts, audit) BY <2>1 DEF TruthInv
  <2>3. disk.status = "running"
    BY <2>2 DEF Good, Phase, Executing, Early, BeingExecuted, Mirrored, Latest
  <2>4. Continues(pc'[p], mem[p], disk, <<>>) BY <2>1, <2>3, RunningAwaits DEF Continues
  <2>5. pc[p] # "idle" BY <2>1
  <2>6. \A q \in Procs \ {p} : pc'[q] = "idle" /\ queue'[q] = <<>>
    BY <2>1, <2>5, WriterAlone
  <2> QED BY <2>1, <2>4, <2>6, NothingFlows, FlowFor
<1>3. CASE InterruptWaits(p)
  BY <1>3 DEF InterruptWaits, FlowInv
<1> QED BY <1>1, <1>2, <1>3

\* Nobody has anything on its way when a command claims the run.
LEMMA NobodyElse ==
  ASSUME NoOvertaking, TypeInv, OneWorker, TruthInv, NEW p \in Procs, StartRun(p) \/ StartDesk(p)
  PROVE  \A q \in Procs : pc[q] = "idle" /\ queue[q] = <<>>
<1>1. claim = NoProc /\ (disk = NoRecord \/ Overtakes \/ \A q \in Procs : queue[q] = <<>>)
      /\ queue[p] = <<>>
  BY DEF StartRun, StartDesk, Unclaimed, Written
<1>2. \A q \in Procs : pc[q] = "idle" BY <1>1, LifecycleAssumption DEF OneWorker
<1> QED BY <1>1, <1>2 DEF NoOvertaking, TruthInv, Alone

\* A command that starts, decides or ends keeps the writes flowing.
LEMMA CommandsFlow ==
  ASSUME NoOvertaking, TypeInv, OneWorker, TruthInv, FlowInv, NEW p \in Procs,
         \/ StartRun(p) \/ StartDesk(p) \/ Approve(p) \/ Reject(p)
         \/ Done(p) \/ Refuse(p) \/ InterruptLeaves(p) \/ Abort(p) \/ Crash(p)
  PROVE  FlowInv'
<1>1. CASE StartRun(p)
  <2>1. \A q \in Procs : pc[q] = "idle" /\ queue[q] = <<>> BY <1>1, NobodyElse
  <2>2. /\ pc' = [pc EXCEPT ![p] = "begin"] /\ mem' = [mem EXCEPT ![p] = NewRun]
        /\ queue' = [queue EXCEPT ![p] = Append(queue[p], NewRun)]
        /\ disk = NoRecord /\ UNCHANGED <<disk, acts>>
    BY <1>1 DEF StartRun, Go, Issue
  <2>3. Append(queue[p], NewRun) = <<NewRun>>
    <3>1. Append(<<>>, NewRun) = <<NewRun>> OBVIOUS
    <3> QED BY <2>1, <3>1
  <2>4. /\ pc'[p] = "begin" /\ mem'[p] = NewRun /\ queue'[p] = <<NewRun>>
        /\ \A q \in Procs \ {p} : pc'[q] = "idle" /\ queue'[q] = <<>>
    BY <2>1, <2>2, <2>3 DEF TypeInv, TypeOK
  <2>5. NewRun.status = "running" /\ NewRun.dispatched = {} /\ disk.status = "absent"
    BY <2>2 DEF NewRun, NoRecord
  <2>6. NewRun.status \in After(disk.status, acts) BY <2>5 DEF After
  <2>8. Flows(disk, <<NewRun>>, acts) BY <2>6, OneFlows
  <2>9. \A k \in DOMAIN <<NewRun>> : <<NewRun>>[k].status = "running" BY <2>5
  <2>10. Continues("begin", NewRun, disk, <<NewRun>>)
    BY <2>5, <2>9, RunningAwaits DEF Continues
  <2> QED BY <2>2, <2>4, <2>8, <2>10, FlowFor
<1>2. CASE StartDesk(p)
  <2> DEFINE left == AsLeft(disk, audit)
             w == IF left = disk THEN <<>> ELSE <<left>>
  <2>1. \A q \in Procs : pc[q] = "idle" /\ queue[q] = <<>> BY <1>2, NobodyElse
  <2>2. /\ pc' = [pc EXCEPT ![p] = "desk"] /\ UNCHANGED <<disk, acts>> /\ disk # NoRecord
        /\ queue' = IF left = disk THEN queue ELSE [queue EXCEPT ![p] = Append(queue[p], left)]
    BY <1>2 DEF StartDesk, Go
  <2>3. Append(<<>>, left) = <<left>> OBVIOUS
  <2>4. disk \in Run /\ Proposed(disk) BY <2>2 DEF TypeInv, TypeOK, TruthInv, Honest
  <2>5. left \in Run /\ left.status \in After(disk.status, acts)
    <3>1. left \in Run BY <2>4, AsLeftType
    <3>2. left.status \in ReadsAs(disk.status) BY <2>4, LeftStatus
    <3>3. disk.status \in RunStatus BY <2>4 DEF Run
    <3> HIDE DEF left
    <3> QED BY <3>1, <3>2, <3>3, ReadsAfter
  <2> HIDE DEF left
  <2>6. Flows(disk, w, acts) BY <2>5, OneFlows, NothingFlows
  <2> HIDE DEF w
  <2>7. /\ pc'[p] = "desk" /\ queue'[p] = w
        /\ \A q \in Procs \ {p} : pc'[q] = "idle" /\ queue'[q] = <<>>
    BY <2>1, <2>2, <2>3 DEF TypeInv, TypeOK, w
  <2>8. Continues("desk", mem'[p], disk, w) BY RunningAwaits DEF Continues
  <2> QED BY <2>2, <2>6, <2>7, <2>8, FlowFor
<1>3. CASE Approve(p) \/ Reject(p)
  <2>1. /\ pc[p] = "desk" /\ pc'[p] \in {"approving", "rejecting"} /\ queue[p] = <<>>
        /\ UNCHANGED <<disk, queue, acts>> /\ \A q \in Procs \ {p} : pc'[q] = pc[q]
    BY <1>3 DEF Approve, Reject, Decide, Go, Written, TypeInv, TypeOK
  <2>2. pc[p] # "idle" BY <2>1
  <2>3. \A q \in Procs \ {p} : pc'[q] = "idle" /\ queue'[q] = <<>>
    BY <2>1, <2>2, WriterAlone
  <2>4. Continues(pc'[p], mem'[p], disk, <<>>) BY <2>1, RunningAwaits DEF Continues
  <2> QED BY <2>1, <2>3, <2>4, NothingFlows, FlowFor
<1>4. CASE Done(p) \/ Refuse(p) \/ InterruptLeaves(p) \/ Abort(p) \/ Crash(p)
  <2>1. /\ pc' = [pc EXCEPT ![p] = "idle"] /\ acts' = acts
        /\ \/ queue' = [queue EXCEPT ![p] = <<>>]
           \/ queue' = queue /\ disk' = disk
    BY <1>4 DEF Done, Refuse, InterruptLeaves, Abort, Crash, Leave
  <2>2. pc[p] # "idle" \/ queue[p] # <<>>
    BY <1>4 DEF Done, Refuse, InterruptLeaves, Abort, Crash, TruthInv, Alone
  <2>3. /\ pc'[p] = "idle"
        /\ \A q \in Procs \ {p} : pc'[q] = "idle" /\ queue'[q] = <<>>
    BY <2>1, <2>2, WriterAlone DEF TypeInv, TypeOK
  <2>4. queue'[p] = <<>> \/ (queue'[p] = queue[p] /\ disk' = disk)
    BY <2>1 DEF TypeInv, TypeOK
  <2>5. Flows(disk', queue'[p], acts') BY <2>1, <2>4, NothingFlows DEF FlowInv
  <2>6. Continues("idle", mem'[p], disk', queue'[p]) BY RunningAwaits DEF Continues
  <2> QED BY <2>3, <2>5, <2>6, FlowFor
<1> QED BY <1>1, <1>2, <1>3, <1>4

\* Every step keeps the writes flowing.
LEMMA FlowInduction ==
  ASSUME NoOvertaking
  PROVE  TypeInv /\ OneWorker /\ RunInv /\ FlowInv /\ [Next]_vars => FlowInv'
<1> SUFFICES ASSUME TypeInv, OneWorker, RunInv, FlowInv, [Next]_vars PROVE FlowInv'
  OBVIOUS
<1> TruthInv BY NobodyOvertakes
<1>1. CASE UNCHANGED vars BY <1>1 DEF vars, FlowInv
<1>2. ASSUME NEW p \in Procs, Work(p) \/ Ask(p) \/ Interrupt(p) \/ Crash(p)
      PROVE  FlowInv'
  <2>1. CASE Land(p)
    <3>1. PICK k \in DOMAIN queue[p] :
            /\ disk' = queue[p][k]
            /\ queue' = [queue EXCEPT ![p] = SubSeq(queue[p], k + 1, Len(queue[p]))]
            /\ UNCHANGED <<pc, mem, acts>>
      BY <2>1 DEF Land
    <3> QED BY <3>1, LandFlows
  <2>2. CASE ~Land(p)
    BY <1>2, <2>2, StepKinds, WritesFlow, MovesFlow, CommandsFlow
  <2> QED BY <2>1, <2>2
<1> QED BY <1>1, <1>2 DEF Next

\* Whether what the run reads as is still to change by itself.
Working ==
  \E p \in Procs : \/ pc[p] \notin {"idle", "desk"}
                   \/ \E k \in DOMAIN queue[p] : queue[p][k].status # Left.status

\* A contract step: the status goes where it may, and an honest record says it.
LEMMA StatusStep ==
  ASSUME TypeInv, acts' = acts, NEW r, NEW log, Honest(r, acts, log),
         ContractStatus \in RunStatus \cup {"absent"},
         ContractStatus' = r.status, r.status \in After(ContractStatus, acts)
  PROVE  [Contract!Next]_(Contract!vars)
<1> DEFINE x == ContractStatus
           y == ContractStatus'
           sent == [s \in Irreversible |-> acts[s]]
<1>1. sent' = sent OBVIOUS
<1>2. y = "cancelled" => \A s \in Irreversible : sent[s] = 0
  BY StepsAssumption DEF Honest, StatusTrue, Unsent
<1>3. y = "succeeded" => \A s \in Irreversible : sent[s] = 1
  BY StepsAssumption DEF Honest, StatusTrue, ResultsTrue
<1>4. x = "awaiting" /\ y = "running" => \A s \in Irreversible : sent[s] = 0
  BY StepsAssumption DEF After, Unsent
<1>5. CASE y = x BY <1>1, <1>5 DEF Contract!vars
<1>6. CASE x = "absent" /\ y # x
  <2>1. y \in {"running", "cancelled"} BY <1>6 DEF After
  <2> QED BY <1>1, <1>2, <1>6, <2>1
      DEF Contract!Next, Contract!Start, Contract!Cancel, Contract!Become, Contract!NothingSent
<1>7. CASE x = "running" /\ y # x
  <2>1. y \in {"awaiting", "succeeded", "failed", "cancelled", "needs_review"}
    BY <1>7 DEF After, RunStatus, Terminal
  <2> QED BY <1>1, <1>2, <1>3, <1>7, <2>1
      DEF Contract!Next, Contract!Pause, Contract!Succeed, Contract!Fail, Contract!Cancel,
          Contract!Review, Contract!Become, Contract!NothingSent
<1>8. CASE x = "awaiting" /\ y # x
  <2>1. y \in {"failed", "cancelled", "needs_review", "running"} BY <1>8 DEF After
  <2> QED BY <1>1, <1>2, <1>4, <1>8, <2>1
      DEF Contract!Next, Contract!Resume, Contract!Fail, Contract!Cancel,
          Contract!Review, Contract!Become, Contract!NothingSent
<1>9. CASE x \notin {"absent", "running", "awaiting"} /\ y # x
  BY <1>9 DEF After, RunStatus, Terminal
<1> QED BY <1>5, <1>6, <1>7, <1>8, <1>9

\* What the contract's status is.
LEMMA StatusIs ==
  /\ Working => ContractStatus = disk.status
  /\ ~Working => ContractStatus = Left.status
BY DEF Working, ContractStatus

\* What a run reads as could have followed what is on disk.
LEMMA LeftFollows ==
  ASSUME TypeInv, TruthInv
  PROVE  /\ Left.status \in ReadsAs(disk.status)
         /\ Left.status \in RunStatus \cup {"absent"}
         /\ disk.status \in RunStatus \cup {"absent"}
<1>1. CASE disk = NoRecord
  <2>1. Left = NoRecord /\ disk.status = "absent"
    BY <1>1, NothingLeft DEF Left, NoRecord, NewRun
  <2> QED BY <1>1, <2>1 DEF ReadsAs
<1>2. CASE disk # NoRecord
  <2>1. disk \in Run /\ Proposed(disk) BY <1>2 DEF TypeInv, TypeOK, TruthInv, Honest
  <2>2. Left \in Run BY <2>1, AsLeftType DEF Left
  <2> QED BY <2>1, <2>2, LeftStatus DEF Left, Run
<1> QED BY <1>1, <1>2

\* The contract's status is always one of a run, or absent.
LEMMA StatusType ==
  ASSUME TypeInv, TruthInv PROVE ContractStatus \in RunStatus \cup {"absent"}
BY LeftFollows DEF ContractStatus

\* While a process executes the run, the contract's status is that on disk.
LEMMA WorkKeepsContract ==
  ASSUME TypeInv, OneWorker, RunInv, TruthInv, FlowInv, NEW p \in Procs,
         \/ RunsOn(p) \/ Begun(p)
         \/ JournalDispatch(p) \/ RecordResult(p) \/ Promoted(p)
         \/ Resume(p) \/ RecordApproval(p) \/ RecordRejection(p)
         \/ InterruptBegin(p) \/ InterruptWaits(p)
  PROVE  [Contract!Next]_(Contract!vars)
<1>1. /\ pc[p] \notin {"idle", "desk"} /\ pc'[p] \notin {"idle", "desk"}
      /\ disk' = disk /\ (acts' = acts \/ Reach(p))
  <2>1. CASE RunsOn(p)
    BY <2>1, RunningAwaits DEF RunsOn, Go, TypeInv, TypeOK
  <2>2. CASE ~RunsOn(p)
    BY <2>2 DEF Begun, JournalDispatch, RecordResult, Promoted, Resume, RecordApproval,
                RecordRejection, InterruptBegin, InterruptWaits, Go, TypeInv, TypeOK
  <2> QED BY <2>1, <2>2
<1>2. ContractStatus = disk.status /\ ContractStatus' = ContractStatus
  <2>1. Working /\ Working' BY <1>1 DEF Working
  <2>2. ContractStatus' = disk'.status BY <2>1 DEF Working, ContractStatus
  <2> QED BY <1>1, <2>1, <2>2, StatusIs
<1>3. CASE acts' = acts BY <1>2, <1>3 DEF Contract!vars
<1>4. CASE Reach(p)
  <2> DEFINE s == cur[p].step
  <2>1. pc[p] = "dispatch" /\ "dispatch" \in Stepping /\ "dispatch" \in Running /\ acts' = Acted({s})
    BY <1>4, StepAwaits, RunningAwaits DEF Reach, Go
  <2>2. s \in Steps /\ acts[s] = 0
    BY <2>1, InStep DEF UpToStep, ActsTrue
  <2>3. CASE s \notin Irreversible
    <3>1. acts' = acts BY <2>1, <2>3, ActedNothing
    <3> QED BY <1>3, <3>1
  <2>4. CASE s \in Irreversible
    <3> DEFINE sent == [t \in Irreversible |-> acts[t]]
    <3>1. disk.status = "running" BY <2>1, WhileRunning
    <3>2. SentOnce(acts) BY DEF TruthInv
    <3>3. acts'[s] = 1 /\ \A t \in Steps : t # s => acts'[t] = acts[t]
      BY <2>1, <2>2, <2>4, <3>2, ActedOnce
    <3>4. sent' = [sent EXCEPT ![s] = 1]
      <4>1. \A t \in Irreversible : acts'[t] = [sent EXCEPT ![s] = 1][t]
        BY <2>4, <3>3, StepsAssumption
      <4> HIDE DEF s
      <4> QED BY <4>1
    <3>5. sent[s] = 0 BY <2>2, <2>4
    <3> HIDE DEF s
    <3> QED BY <1>2, <2>4, <3>1, <3>4, <3>5 DEF Contract!Next, Contract!Send
  <2> QED BY <2>3, <2>4
<1> QED BY <1>1, <1>3, <1>4

\* A write that lands changes what the run reads as in the way the contract says.
LEMMA LandKeepsContract ==
  ASSUME TypeInv, OneWorker, TruthInv, FlowInv, NEW p \in Procs, Land(p)
  PROVE  [Contract!Next]_(Contract!vars)
<1> DEFINE w == queue[p]
<1>1. PICK k \in DOMAIN w :
        /\ disk' = w[k]
        /\ queue' = [queue EXCEPT ![p] = SubSeq(w, k + 1, Len(w))]
        /\ UNCHANGED <<audit, claim, pc, mem, cur, intr, acts>>
  BY DEF Land
<1>2. w[k] \in Run /\ w[k].status \in RunStatus /\ w # <<>>
  BY FlowTypes DEF TypeInv, TypeOK
<1>3. Good(pc[p], mem[p], cur[p], w, disk, acts, audit) BY DEF TruthInv
<1>4. Honest(w[k], acts, audit) BY <1>3 DEF Good
<1>5. w[k].status \in After(disk.status, acts) BY DEF FlowInv, Flows
<1>6. Left'.status \in ReadsAs(w[k].status) /\ Honest(Left', acts, audit)
  <2>1. Left' = AsLeft(w[k], audit) BY <1>1 DEF Left
  <2>2. acts \in [Steps -> Nat] /\ audit \in Seq(Entry) BY DEF TypeInv, TypeOK
  <2> HIDE DEF w
  <2>3. Proposed(w[k]) BY <1>4 DEF Honest
  <2> QED BY <1>2, <1>4, <2>1, <2>2, <2>3, LeftStatus, AsLeftHonest
<1>7. ContractStatus' = w[k].status \/ ContractStatus' = Left'.status
  BY <1>1 DEF ContractStatus
<1>8. \A q \in Procs \ {p} : pc[q] = "idle" /\ queue[q] = <<>> BY <1>2, WriterAlone
<1>9. ContractStatus \in RunStatus \cup {"absent"} BY StatusType
<1>10. acts' = acts BY <1>1
<1>11. CASE pc[p] \notin {"idle", "desk"}
  <2>1. Working BY <1>11 DEF Working
  <2>2. ContractStatus' = w[k].status BY <1>1, <1>11 DEF ContractStatus
  <2> HIDE DEF w
  <2> QED BY <1>4, <1>5, <1>9, <1>10, <2>1, <2>2, StatusIs, StatusStep
<1>12. CASE pc[p] \in {"idle", "desk"}
  <2>1. disk.status \in RunStatus
    <3>1. disk # NoRecord BY <1>2, <1>12 DEF TruthInv, Alone
    <3> QED BY <3>1, FlowTypes
  <2>2. "absent" \notin RunStatus BY DEF RunStatus, Terminal
  <2>3. ContractStatus' \in After(ContractStatus, acts)
    <3>1. CASE Working
      <4>1. ContractStatus = disk.status BY <3>1, StatusIs
      <4>2. Left'.status \in After(disk.status, acts)
        <5> HIDE DEF w
        <5> QED BY <1>5, <1>6, <2>1, <2>2, ReadsAfter
      <4> HIDE DEF w
      <4> QED BY <1>5, <1>7, <4>1, <4>2
    <3>2. CASE ~Working
      <4>1. ContractStatus = Left.status /\ w[k].status = Left.status
        BY <3>2, StatusIs DEF Working
      <4>2. Left'.status \in After(w[k].status, acts) /\ w[k].status \in After(w[k].status, acts)
        <5> HIDE DEF w
        <5> QED BY <1>2, <1>6, ReadsAfter
      <4> HIDE DEF w
      <4> QED BY <1>7, <4>1, <4>2
    <3> QED BY <3>1, <3>2
  <2> HIDE DEF w
  <2>4. CASE ContractStatus' = w[k].status BY <1>4, <1>9, <1>10, <2>3, <2>4, StatusStep
  <2>5. CASE ContractStatus' = Left'.status
    <3> DEFINE r == Left'
    <3>1. Honest(r, acts, audit) /\ ContractStatus' = r.status BY <1>6, <2>5
    <3>2. r.status \in After(ContractStatus, acts) BY <2>3, <2>5
    <3> HIDE DEF r
    <3> QED BY <1>9, <1>10, <3>1, <3>2, StatusStep
  <2> QED BY <1>7, <2>4, <2>5
<1> QED BY <1>11, <1>12

\* A command that ends leaves the run reading as a record that could follow.
LEMMA LeavingKeepsContract ==
  ASSUME TypeInv, OneWorker, TruthInv, FlowInv, NEW p \in Procs,
         Done(p) \/ Refuse(p) \/ InterruptLeaves(p) \/ Abort(p) \/ Crash(p)
  PROVE  [Contract!Next]_(Contract!vars)
<1>1. /\ pc' = [pc EXCEPT ![p] = "idle"] /\ acts' = acts /\ audit' = audit
      /\ \/ queue' = [queue EXCEPT ![p] = <<>>]
         \/ queue' = queue /\ disk' = disk
      /\ disk' = disk \/ Abort(p)
  BY DEF Done, Refuse, InterruptLeaves, Abort, Crash, Leave
<1>2. pc[p] # "idle" \/ queue[p] # <<>>
  BY DEF Done, Refuse, InterruptLeaves, Abort, Crash, TruthInv, Alone
<1>3. \A q \in Procs \ {p} : pc[q] = "idle" /\ queue[q] = <<>> BY <1>2, WriterAlone
<1>4. /\ \A q \in Procs : pc'[q] = "idle"
      /\ \A q \in Procs \ {p} : queue'[q] = <<>>
      /\ queue'[p] = <<>> \/ (queue'[p] = queue[p] /\ disk' = disk)
  BY <1>1, <1>3 DEF TypeInv, TypeOK
<1>5. Left' = Left
  <2>1. CASE disk' = disk BY <1>1, <2>1 DEF Left
  <2>2. CASE Abort(p)
    <3>1. disk' = EndedRun(disk, TRUE) /\ disk \in Run
      BY <2>2 DEF Abort, TypeInv, TypeOK
    <3>2. disk'.status # "running" BY <3>1 DEF EndedRun, InterruptedStatus, Run
    <3>3. EndedRun(disk', TRUE) = disk' BY <3>2 DEF EndedRun
    <3> QED BY <1>1, <3>1, <3>3 DEF Left, AsLeft
  <2> QED BY <1>1, <2>1, <2>2
<1>6. Left.status \in After(disk.status, acts)
  BY LeftFollows, ReadsAfter
<1>7. ContractStatus \in RunStatus \cup {"absent"} BY StatusType
<1>8. Honest(Left, acts, audit) BY LeftHonest
<1>9. CASE Working'
  <2>1. \E k \in DOMAIN queue'[p] : queue'[p][k].status # Left'.status
    BY <1>4, <1>9 DEF Working
  <2>2. queue'[p] = queue[p] /\ disk' = disk BY <1>4, <2>1
  <2>3. Working BY <1>5, <2>1, <2>2 DEF Working
  <2>4. ContractStatus' = disk'.status BY <1>9 DEF Working, ContractStatus
  <2>5. ContractStatus' = ContractStatus BY <2>2, <2>3, <2>4, StatusIs
  <2> QED BY <1>1, <2>5 DEF Contract!vars
<1>10. CASE ~Working'
  <2>1. ContractStatus' = Left.status BY <1>5, <1>10 DEF Working, ContractStatus
  <2>2. CASE Working
    <3>1. Left.status \in After(ContractStatus, acts) BY <1>6, <2>2, StatusIs
    <3> QED BY <1>1, <1>7, <1>8, <2>1, <3>1, StatusStep
  <2>3. CASE ~Working
    <3>1. ContractStatus' = ContractStatus BY <2>1, <2>3, StatusIs
    <3> QED BY <1>1, <3>1 DEF Contract!vars
  <2> QED BY <2>2, <2>3
<1> QED BY <1>9, <1>10

\* With nobody at work, the contract's status is what the run reads as.
LEMMA NobodyWorks ==
  ASSUME \A q \in Procs : pc[q] \in {"idle", "desk"} /\ queue[q] = <<>>
  PROVE  ContractStatus = Left.status
BY StatusIs DEF Working

\* Claiming the run changes nothing of what it reads as.
LEMMA ClaimKeepsContract ==
  ASSUME NoOvertaking, TypeInv, OneWorker, TruthInv, NEW p \in Procs,
         StartRun(p) \/ StartDesk(p)
  PROVE  [Contract!Next]_(Contract!vars)
<1>1. \A q \in Procs : pc[q] = "idle" /\ queue[q] = <<>> BY NobodyElse
<1>2. ContractStatus = Left.status BY <1>1, NobodyWorks
<1>3. UNCHANGED <<disk, audit, acts>> /\ Left' = Left BY DEF StartRun, StartDesk, Left
<1>4. CASE StartRun(p)
  <2>1. disk = NoRecord /\ pc'[p] = "begin"
    BY <1>4 DEF StartRun, Go, TypeInv, TypeOK
  <2>2. Left = disk BY <2>1, NothingLeft DEF Left
  <2>3. ContractStatus' = disk'.status BY <2>1 DEF ContractStatus
  <2> QED BY <1>2, <1>3, <2>2, <2>3 DEF Contract!vars
<1>5. CASE StartDesk(p)
  <2>1. /\ \A q \in Procs : pc'[q] \in {"idle", "desk"}
        /\ \A q \in Procs \ {p} : queue'[q] = <<>>
        /\ queue'[p] = <<>> \/ queue'[p] = Append(<<>>, Left)
    BY <1>1, <1>5 DEF StartDesk, Go, Left, TypeInv, TypeOK
  <2>2. \A k \in DOMAIN queue'[p] : queue'[p][k] = Left
    <3>1. \A k \in DOMAIN Append(<<>>, Left) : Append(<<>>, Left)[k] = Left
      <4> DEFINE r == Left
      <4> HIDE DEF r
      <4>1. \A k \in DOMAIN Append(<<>>, r) : Append(<<>>, r)[k] = r OBVIOUS
      <4> QED BY <4>1 DEF r
    <3> QED BY <2>1, <3>1
  <2>3. \A q \in Procs : \A k \in DOMAIN queue'[q] : queue'[q][k].status = Left'.status
    BY <1>3, <2>1, <2>2
  <2>4. ContractStatus' = Left'.status BY <2>1, <2>3 DEF ContractStatus
  <2> QED BY <1>2, <1>3, <2>4 DEF Contract!vars
<1> QED BY <1>4, <1>5

\* Deciding a proposal changes nothing of what the run reads as yet.
LEMMA DecidingKeepsContract ==
  ASSUME TypeInv, OneWorker, TruthInv, NEW p \in Procs, Approve(p) \/ Reject(p)
  PROVE  [Contract!Next]_(Contract!vars)
<1>1. PICK i \in Steps :
        /\ pc[p] = "desk" /\ queue[p] = <<>> /\ mem[p].status = "awaiting"
        /\ pc'[p] \in {"approving", "rejecting"} /\ UNCHANGED <<disk, acts>>
  BY DEF Approve, Reject, Decide, CanDecide, Go, Written, TypeInv, TypeOK
<1>2. pc[p] # "idle" BY <1>1
<1>3. \A q \in Procs : pc[q] \in {"idle", "desk"} /\ queue[q] = <<>>
  BY <1>1, <1>2, WriterAlone
<1>4. Good("desk", mem[p], cur[p], <<>>, disk, acts, audit) BY <1>1 DEF TruthInv
<1>5. mem[p] = disk /\ AtDesk(disk, audit)
  BY <1>4 DEF Good, Phase, Mirrored, Latest
<1>6. mem[p] \in Run BY <1>1 DEF TypeInv
<1>7. Left.status = disk.status BY <1>1, <1>5, <1>6, LeftAtDesk DEF Left
<1>8. ContractStatus = disk.status BY <1>3, <1>7, NobodyWorks
<1>9. ContractStatus' = disk'.status
  <2>1. pc'[p] \notin {"idle", "desk"} BY <1>1
  <2> QED BY <2>1 DEF ContractStatus
<1> QED BY <1>1, <1>8, <1>9 DEF Contract!vars

\* Every step of a run is a step of its contract, or changes nothing of it.
LEMMA ContractStep ==
  ASSUME NoOvertaking
  PROVE  TypeInv /\ OneWorker /\ RunInv /\ FlowInv /\ [Next]_vars =>
           [Contract!Next]_(Contract!vars)
<1> SUFFICES ASSUME TypeInv, OneWorker, RunInv, FlowInv, [Next]_vars
             PROVE  [Contract!Next]_(Contract!vars)
  OBVIOUS
<1> TruthInv BY NobodyOvertakes
<1>1. CASE UNCHANGED vars
  <2>1. UNCHANGED <<disk, audit, pc, queue, acts>> BY <1>1 DEF vars
  <2>2. ContractStatus' = ContractStatus BY <2>1 DEF ContractStatus, Left
  <2> QED BY <2>1, <2>2 DEF Contract!vars
<1>2. ASSUME NEW p \in Procs, Work(p) \/ Ask(p) \/ Interrupt(p) \/ Crash(p)
      PROVE  [Contract!Next]_(Contract!vars)
  BY <1>2, StepKinds, WorkKeepsContract, LandKeepsContract, LeavingKeepsContract,
     ClaimKeepsContract, DecidingKeepsContract
<1> QED BY <1>1, <1>2 DEF Next

\* For every workflow, a run keeps the contract its readers rely on: its status
\* only moves where the contract says, irreversible actions are sent once and
\* only while it runs, and a run that sent one is never resumed or cancelled.
THEOREM RunKeepsContract == ASSUME NoOvertaking PROVE Spec => KeepsContract
<1>1. Init => TypeInv /\ OneWorker /\ RunInv /\ FlowInv
  <2> SUFFICES ASSUME Init PROVE TypeInv /\ OneWorker /\ RunInv /\ FlowInv
    OBVIOUS
  <2>1. \A p \in Procs : Flows(disk, queue[p], acts) BY NothingFlows DEF Init
  <2>2. \A p \in Procs : Continues(pc[p], mem[p], disk, queue[p])
    BY RunningAwaits DEF Init, Continues
  <2> QED BY <2>1, <2>2, RunInit DEF FlowInv
<1>2. Init => Contract!Init
  <2> SUFFICES ASSUME Init PROVE Contract!Init
    OBVIOUS
  <2>1. ContractStatus = Left.status
    BY NobodyWorks DEF Init
  <2>2. Left.status = "absent" BY NothingLeft DEF Init, Left, NoRecord, NewRun
  <2>3. [s \in Irreversible |-> acts[s]] = [s \in Irreversible |-> 0]
    BY StepsAssumption DEF Init
  <2> QED BY <2>1, <2>2, <2>3 DEF Contract!Init
<1> QED
  BY <1>1, <1>2, TypeInduction, WorkerInduction, RunInduction, FlowInduction,
     ContractStep, PTL
  DEF Spec, KeepsContract, Contract!Spec
-----------------------------------------------------------------------------
(* What `mendwork show` shows: a record that was on disk, completed from a *)
(* log that has grown since.                                               *)

\* A record whose pending proposal is that of the step it stopped at.
Showable(r, log) == r \in Run /\ Orderly(r) /\ Proposed(r) /\ Told(r, log)

ShowStates == [at : {"idle", "loaded", "probed", "shown"}, record : Run \cup {NoRecord}]

ShowInv ==
  /\ show \in ShowStates
  /\ show.at \in {"loaded", "probed"} => Showable(show.record, audit)
  /\ ShownDecisionIsLogged

\* What is in the log stays there.
LEMMA LogStays ==
  ASSUME TypeInv, [Next]_vars, NEW i, NEW kind, LogHas(audit, i, kind)
  PROVE  LogHas(audit', i, kind)
<1>1. audit' = audit \/ \E e : audit' = Append(audit, e)
  <2>1. CASE UNCHANGED vars BY <2>1 DEF vars
  <2>2. ASSUME NEW p \in Procs, Work(p) PROVE audit' = audit
    BY <2>2 DEF Work, Step, Raise, Begun, TriesRead, SessionOpened, SessionFails,
       Rebuild, Rebuilt, RebuildFails, NextStep, StepsDone, RecordedResolves, PatchResolves,
       Unresolved, ResolveFails, Abstain, Propose, AcceptHeal, BeforeActionError, ActFails,
       JournalDispatch, Dispatch, Reach, ActionReturns, ChecksPass, ChecksFail, PageProblem,
       Restored, RestoreFails, EvidenceTaken, ScreenshotFails, RecordResult, ScopeExpires,
       LateResult, Close, Promoted, Done, Refuse, RecordApproval, RecordRejection, Resume, Land
  <2>3. ASSUME NEW p \in Procs, Ask(p)
        PROVE  audit' = audit \/ \E e : audit' = Append(audit, e)
    BY <2>3 DEF Ask, StartRun, StartDesk, Approve, Reject, Decide
  <2>4. ASSUME NEW p \in Procs, Interrupt(p) \/ Crash(p) PROVE audit' = audit
    BY <2>4 DEF Interrupt, InterruptBegin, InterruptLeaves, InterruptRun, InterruptWaits,
       Abort, Crash
  <2> QED BY <2>1, <2>2, <2>3, <2>4 DEF Next
<1>2. audit \in Seq(Entry) BY DEF TypeInv, TypeOK
<1>3. PICK n \in DOMAIN audit : audit[n] = [step |-> i, kind |-> kind] BY DEF LogHas
<1>4. n \in DOMAIN audit' /\ audit'[n] = audit[n] BY <1>1, <1>2
<1> QED BY <1>3, <1>4 DEF LogHas

LEMMA StillTold ==
  ASSUME TypeInv, [Next]_vars, NEW r, Told(r, audit) PROVE Told(r, audit')
BY LogStays DEF Told

\* A record's pending proposal is the first step that stopped it.
LEMMA PendingStopped ==
  ASSUME NEW r, Orderly(r), Proposed(r), NEW i \in Steps, r.decision[i] = "pending"
  PROVE  FailedStep(r, i) /\ r.status = "awaiting"
<1>1. r.status = "awaiting" /\ r.steps[i].status = "awaiting" BY DEF Proposed
<1>2. \A t \in Steps : t < i => r.steps[t].status = "succeeded"
  BY <1>1 DEF Orderly, Live
<1> QED BY <1>1, <1>2 DEF FailedStep, Stopping

\* Completing it from the log keeps that, and decides only what the log does.
LEMMA CompletedIsShowable ==
  ASSUME NEW r, NEW log, Showable(r, log), NEW i \in Steps
  PROVE  LET left == AsLeft(r, log) IN
         /\ left.decision[i] = "approved" => LogHas(log, i, "approved")
         /\ left.decision[i] = "rejected" => LogHas(log, i, "rejected")
         /\ left.decision[i] = "pending" => FailedStep(left, i) /\ left.status = "awaiting"
<1> DEFINE ended == EndedRun(r, TRUE)
           decided == WithDecisions(ended, log)
           left == AsLeft(r, log)
<1>1. r \in Run /\ Proposed(r) /\ Told(r, log) BY DEF Showable
<1>2. ended \in Run /\ ended.decision = r.decision
  <2>1. ended \in Run BY <1>1, EndedRunType
  <2> QED BY <1>1, <2>1 DEF EndedRun, Run
<1> HIDE DEF ended
<1>3. decided \in Run /\ left = WithOutcomes(decided)
  BY <1>2, WithDecisionsType DEF AsLeft, ended
<1>4. decided.decision[i] = IF r.decision[i] = "pending" /\ Logged(log, i, "approved")
                            THEN "approved"
                            ELSE IF r.decision[i] = "pending" /\ Logged(log, i, "rejected")
                            THEN "rejected" ELSE r.decision[i]
  BY <1>2 DEF WithDecisions, Run
<1>5. left.decision = decided.decision
  <2> HIDE DEF decided
  <2>1. CASE \A s \in Steps : ~Unsettled(decided, s) BY <1>3, <2>1 DEF WithOutcomes
  <2>2. CASE ~ \A s \in Steps : ~Unsettled(decided, s)
    BY <1>3, <2>2 DEF WithOutcomes, Run
  <2> QED BY <2>1, <2>2
<1>6. \A kind : Logged(log, i, kind) => LogHas(log, i, kind) BY DEF Logged, LogHas
<1>7. ASSUME left.decision[i] = "pending" PROVE FailedStep(left, i) /\ left.status = "awaiting"
  <2>1. r.decision[i] = "pending" /\ ~Logged(log, i, "approved") /\ ~Logged(log, i, "rejected")
    BY <1>4, <1>5, <1>7
  <2>2. r.status = "awaiting" /\ FailedStep(r, i)
    BY <2>1, PendingStopped DEF Showable
  <2>3. ended = r BY <2>2 DEF ended, EndedRun
  <2>4. \A s \in Steps : r.decision[s] = "pending" => s = i
    BY <1>1, <2>1, OnePending
  <2>5. decided = r BY <1>1, <2>1, <2>3, <2>4 DEF WithDecisions, Run
  <2>6. \A s \in Steps : ~Unsettled(r, s) BY <1>1, <2>1 DEF Proposed
  <2>7. left = r BY <1>3, <2>5, <2>6 DEF WithOutcomes
  <2> QED BY <2>2, <2>7
<1> QED BY <1>1, <1>4, <1>5, <1>6, <1>7 DEF Told

LEMMA ShowInduction ==
  TypeInv /\ RunInv /\ ShowInv /\ [ShowNext]_showVars => ShowInv'
<1> SUFFICES ASSUME TypeInv, RunInv, ShowInv, [ShowNext]_showVars PROVE ShowInv'
  OBVIOUS
<1> DEFINE ShownTrue(r, log) ==
      \A i \in Steps :
        /\ r.decision[i] = "approved" => LogHas(log, i, "approved")
        /\ r.decision[i] = "rejected" => LogHas(log, i, "rejected")
        /\ r.decision[i] = "pending" => FailedStep(r, i) /\ r.status = "awaiting"
<1>1. ShownDecisionIsLogged <=> (Shown => ShownTrue(show.record, audit))
  BY DEF ShownDecisionIsLogged, Approvals, Rejections, LogHas
<1>2. ShownDecisionIsLogged' <=> (Shown' => ShownTrue(show'.record, audit'))
  BY DEF ShownDecisionIsLogged, Approvals, Rejections, LogHas
<1> HIDE DEF ShownTrue
<1>3. CASE Load
  <2>1. disk \in Run /\ Sound(disk, acts, audit)
    BY <1>3 DEF Load, TypeInv, TypeOK, RunInv, Trusted
  <2>2. Showable(disk, audit) BY <2>1 DEF Sound, Showable
  <2>3. audit' = audit /\ show' = [at |-> "loaded", record |-> disk] BY <1>3 DEF Load, vars
  <2>4. show' \in ShowStates /\ ~Shown' /\ show'.record = disk
    BY <2>1, <2>3 DEF ShowStates, Shown
  <2> QED BY <1>2, <2>2, <2>3, <2>4 DEF ShowInv
<1>4. CASE Probe
  <2>1. audit' = audit /\ Showable(show.record, audit) BY <1>4 DEF Probe, vars, ShowInv
  <2> DEFINE to == IF claim # NoProc THEN "shown" ELSE "probed"
  <2>2. show' = [show EXCEPT !.at = to] BY <1>4 DEF Probe
  <2>3. ShownTrue(show.record, audit) BY <2>1, PendingStopped DEF Showable, Told, ShownTrue
  <2>4. show'.record = show.record /\ show'.at = to
    BY <2>2 DEF ShowInv, ShowStates
  <2>5. show' \in ShowStates BY <2>2 DEF ShowInv, ShowStates
  <2> QED BY <1>2, <2>1, <2>3, <2>4, <2>5 DEF ShowInv
<1>5. CASE CompleteLoaded
  <2>1. audit' = audit /\ Showable(show.record, audit)
    BY <1>5 DEF CompleteLoaded, vars, ShowInv
  <2>2. show' = [at |-> "shown", record |-> AsLeft(show.record, audit)]
    BY <1>5 DEF CompleteLoaded
  <2>3. ShownTrue(AsLeft(show.record, audit), audit) BY <2>1, CompletedIsShowable DEF ShownTrue
  <2>4. show' \in ShowStates BY <2>1, <2>2, AsLeftType DEF Showable, ShowStates
  <2>5. show'.at = "shown" /\ show'.record = AsLeft(show.record, audit) BY <2>2
  <2>6. ShowStates' = ShowStates BY DEF ShowStates
  <2> QED BY <1>2, <2>1, <2>3, <2>4, <2>5, <2>6 DEF ShowInv
<1>6. CASE Runs \/ UNCHANGED showVars
  <2>1. show' = show /\ [Next]_vars BY <1>6 DEF Runs, showVars
  <2>2. Showable(show.record, audit) => Showable(show.record, audit')
    BY <2>1, StillTold DEF Showable
  <2>3. ShownTrue(show.record, audit) => ShownTrue(show.record, audit')
    BY <2>1, LogStays DEF ShownTrue
  <2> QED BY <1>1, <1>2, <2>1, <2>2, <2>3 DEF ShowInv, Shown
<1> QED BY <1>3, <1>4, <1>5, <1>6 DEF ShowNext

\* What a run reads as is sound, with nothing left to complete, even when it
\* is what a command that ended left behind.
LEMMA LeftSound ==
  ASSUME TypeInv, RunInv PROVE Sound(Left, acts, audit) /\ AtDesk(Left, audit)
<1>1. acts \in [Steps -> Nat] /\ audit \in Seq(Entry) /\ Trusted(disk, acts, audit)
  BY DEF TypeInv, TypeOK, RunInv
<1>2. CASE disk = NoRecord
  <2>1. Left = NoRecord BY <1>2, NothingLeft DEF Left
  <2>2. \A i \in Steps : Left.decision[i] = "none" BY <2>1 DEF NoRecord, NewRun
  <2> QED BY <1>1, <1>2, <2>1, <2>2 DEF Trusted, AtDesk, Unsettled
<1>3. CASE disk # NoRecord /\ disk.status \in Terminal
  <2>1. disk \in Run BY <1>3 DEF TypeInv, TypeOK
  <2> QED BY <1>1, <1>3, <2>1, AsLeftSound DEF Trusted, Left
<1>4. CASE disk # NoRecord /\ disk.status \notin Terminal
  <2>1. disk \in Run BY <1>4 DEF TypeInv, TypeOK
  <2>2. Honest(disk, acts, audit) BY <1>1, <1>4 DEF Trusted
  <2>3. Honest(Left, acts, audit) /\ AtDesk(Left, audit)
    BY <1>1, <2>1, <2>2, AsLeftHonest DEF Left
  <2> QED BY <2>3, HonestIsSound
<1> QED BY <1>2, <1>3, <1>4

\* For every workflow and number of commands, and whether or not a command may
\* start while a write of an earlier one is on its way: however a run goes on
\* while it is shown, nothing is shown as decided that no person decided,
\* nothing as pending that the run did not stop for, what came of an approval is
\* what happened, no proposal is decided twice, and nothing is sent twice.
THEOREM SharedRunsAreSound == ShowSpec => []SharedRunIsSound
<1>1. ShowInit => Init /\ ShowInv
  BY DEF ShowInit, ShowInv, ShowStates, ShownDecisionIsLogged, Shown
<1>2. [ShowNext]_showVars => [Next]_vars
  BY DEF ShowNext, Load, Probe, CompleteLoaded, Runs, showVars
<1>3. TypeInv /\ RunInv /\ ShowInv /\ HealedActIsApproved => SharedRunIsSound
  <2> SUFFICES ASSUME TypeInv, RunInv, ShowInv, HealedActIsApproved PROVE SharedRunIsSound
    OBVIOUS
  <2>1. ActsAtMostOnce BY DEF RunInv, SentOnce, ActsAtMostOnce
  <2>2. OneDecision BY DEF RunInv, DecidedOnce, OneDecision
  <2>3. Sound(Left, acts, audit) /\ AtDesk(Left, audit) BY LeftSound
  <2>4. AwaitingHasItsProposal BY <2>3, AwaitsItsProposal DEF Sound
  <2>5. OutcomeIsTrue BY <2>3 DEF Sound, OutcomesTrue, Unsent, OutcomeIsTrue
  <2>6. ShownDecisionIsLogged BY DEF ShowInv
  <2> QED BY <2>1, <2>2, <2>4, <2>5, <2>6 DEF SharedRunIsSound
<1>4. Spec => []HealedActIsApproved BY HealedActsAreApproved
<1> QED
  BY <1>1, <1>2, <1>3, <1>4, RunInit, TypeInduction, WorkerInduction, RunInduction,
     ShowInduction, PTL
  DEF ShowSpec, Spec
=============================================================================
