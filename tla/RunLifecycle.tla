----------------------------- MODULE RunLifecycle -----------------------------
(***************************************************************************)
(* One run of a workflow, from `mendwork run` through a pause, a decision  *)
(* (`approve`, `reject`) and a resume, to its final record.                *)
(*                                                                         *)
(* Every process that works on the run holds its claim (a file lock), keeps*)
(* the record in memory and writes it to run.json with asynchronous writes *)
(* that land in the order they were issued.  An interrupt cancels the task *)
(* at whatever await it is in; a second one aborts the process; a crash    *)
(* ends it anywhere.  The page is the environment: a click may reach it    *)
(* whatever the process then learns.                                       *)
(***************************************************************************)
EXTENDS RunRecord

CONSTANTS
  Procs,     \* Processes (commands) that may work on the run, one at a time each.
  NoProc,    \* The claim when nobody holds it.
  Saves,     \* Whether the run's source saves heals, so pending patches are tried.
  Overtakes, \* Whether a command may claim the run while a write that an
             \* interrupted command left behind is still on its way to disk.
  MaxTries   \* Bound: heals one step may act on before the ladder abstains.

ASSUME LifecycleAssumption ==
  /\ NoProc \notin Procs
  /\ {Saves, Overtakes} \subseteq BOOLEAN
  /\ MaxTries \in Nat

VARIABLES
  disk,   \* run.json, or NoRecord.
  audit,  \* The audit log's decisions on this run, in order.
  claim,  \* The process holding the run's lock, or NoProc.
  pc,     \* Which await each process is in.
  mem,    \* Each process's record in memory: the journal's, then the final one.
  cur,    \* Each process's execution: the step in progress and what it did.
  intr,   \* Whether each process has received an interrupt.
  queue,  \* Each process's writes of run.json issued and not yet on disk.
  acts    \* How often each irreversible step's action reached a page.

vars == <<disk, audit, claim, pc, mem, cur, intr, queue, acts>>

NoRecord == [NewRun EXCEPT !.status = "absent"]

\* The awaits inside one step, while it has no result yet.
InProgress == {"resolve", "heal", "acting", "journal", "dispatch", "reached",
               "verify", "restore", "evidence", "unrebuilt"}

\* The awaits the run's time limit cancels.
Scope == InProgress \cup {"rebuild", "release", "results"}

Location == Scope \cup {"idle", "begin", "tries", "session", "late", "close",
                        "promote", "final", "desk", "approving", "approved",
                        "rejecting", "rejected"}

Progress == [step : Nat, approved : Nat, via : Via, tries : Nat,
             performed : BOOLEAN, unknown : BOOLEAN, end : StepStatus,
             stale : BOOLEAN, error : BOOLEAN]

Fresh == [step |-> 0, approved |-> 0, via |-> "none", tries |-> 0,
          performed |-> FALSE, unknown |-> FALSE, end |-> "not_run",
          stale |-> FALSE, error |-> FALSE]

StepBegun(c, s) == [Fresh EXCEPT !.step = s, !.approved = c.approved]

Init ==
  /\ disk = NoRecord
  /\ audit = <<>>
  /\ claim = NoProc
  /\ pc = [p \in Procs |-> "idle"]
  /\ mem = [p \in Procs |-> NoRecord]
  /\ cur = [p \in Procs |-> Fresh]
  /\ intr = [p \in Procs |-> FALSE]
  /\ queue = [p \in Procs |-> <<>>]
  /\ acts = [s \in Steps |-> 0]

-----------------------------------------------------------------------------
(* Moving between awaits, and writes of the record.                        *)

Go(p, from, to) == pc[p] = from /\ pc' = [pc EXCEPT ![p] = to]

Progressed(p, c) == cur' = [cur EXCEPT ![p] = c]

\* The journal's record changes at once; the write is awaited.
Issue(p, r) ==
  /\ mem' = [mem EXCEPT ![p] = r]
  /\ queue' = [queue EXCEPT ![p] = Append(@, r)]

Written(p) == queue[p] = <<>>

MutUnclaimed == TRUE

Unclaimed == claim = NoProc

\* The command ends: its claim is released, its issued writes still land.
Leave(p) ==
  /\ pc' = [pc EXCEPT ![p] = "idle"]
  /\ mem' = [mem EXCEPT ![p] = NoRecord]
  /\ cur' = [cur EXCEPT ![p] = Fresh]
  /\ intr' = [intr EXCEPT ![p] = FALSE]
  /\ claim' = IF claim = p THEN NoProc ELSE claim

\* A write lands; one issued earlier that is still on its way is dropped.
Land(p) ==
  \E k \in DOMAIN queue[p] :
    /\ disk' = queue[p][k]
    /\ queue' = [queue EXCEPT ![p] = SubSeq(@, k + 1, Len(@))]
    /\ UNCHANGED <<audit, claim, pc, mem, cur, intr, acts>>

-----------------------------------------------------------------------------
(* A run starts, or resumes, and opens its browser session.                *)

\* A new run has an id of its own, so nobody else can hold its claim.
StartRun(p) ==
  /\ Go(p, "idle", "begin")
  /\ Written(p) /\ Unclaimed /\ disk = NoRecord
  /\ claim' = p
  /\ Issue(p, NewRun)
  /\ UNCHANGED <<disk, audit, cur, intr, acts>>

Begun(p) ==
  /\ Written(p)
  /\ Go(p, "begin", IF Saves THEN "tries" ELSE "session")
  /\ UNCHANGED <<disk, audit, claim, mem, cur, intr, queue, acts>>

TriesRead(p) ==
  /\ Go(p, "tries", "session")
  /\ UNCHANGED <<disk, audit, claim, mem, cur, intr, queue, acts>>

SessionOpened(p) ==
  /\ Go(p, "session", IF cur[p].approved = 0 THEN "results" ELSE "rebuild")
  /\ UNCHANGED <<disk, audit, claim, mem, cur, intr, queue, acts>>

-----------------------------------------------------------------------------
(* One step.  Step moves within it; Raise ends it with an error, which the *)
(* run's own deadline turns into a plain failure whatever it was.          *)

Step(p, from, to, c) ==
  /\ Go(p, from, to)
  /\ Progressed(p, c)
  /\ UNCHANGED <<disk, audit, claim, mem, intr, queue, acts>>

Raise(p, from, status, stale) ==
  \/ Step(p, from, "evidence", [cur[p] EXCEPT !.end = status, !.stale = stale])
  \/ Step(p, from, "evidence", [cur[p] EXCEPT !.end = "failed"])

\* How often each irreversible action reached a page once the steps in S act.
Acted(S) == [s \in Steps |-> acts[s] + IF s \in S \cap Irreversible THEN 1 ELSE 0]

NextStep(p) ==
  /\ Written(p) /\ ~Stopped(mem[p]) /\ cur[p].step < NumSteps
  /\ \/ Step(p, "results", "resolve", StepBegun(cur[p], cur[p].step + 1))
     \/ Step(p, "results", "close", [cur[p] EXCEPT !.error = TRUE])

StepsDone(p) ==
  /\ Written(p) /\ (Stopped(mem[p]) \/ cur[p].step = NumSteps)
  /\ Step(p, "results", "close", cur[p])

RecordedResolves(p) ==
  Step(p, "resolve", "acting", [cur[p] EXCEPT !.via = "recorded"])

PatchResolves(p) ==
  Saves /\ Step(p, "resolve", "acting", [cur[p] EXCEPT !.via = "patch"])

Unresolved(p) == Step(p, "resolve", "heal", cur[p])

ResolveFails(p) == Raise(p, "resolve", "failed", FALSE)

OnApproved(c) == c.step = c.approved

MutHealMayAct(c) == TRUE

HealMayAct(c) == c.step \notin Irreversible \/ OnApproved(c)

\* Nothing the ladder accepts, or not the element that was approved.
Abstain(p) ==
  \E stale \in {FALSE, OnApproved(cur[p])} : Raise(p, "heal", "failed", stale)

Propose(p) == ~HealMayAct(cur[p]) /\ Raise(p, "heal", "awaiting", FALSE)

AcceptHeal(p) ==
  /\ HealMayAct(cur[p]) /\ cur[p].tries < MaxTries
  /\ Step(p, "heal", "acting", [cur[p] EXCEPT !.via = "healed", !.tries = @ + 1])

\* The target cannot take the action: nothing was performed on it.
BeforeActionError(p) ==
  \E from \in {"acting", "dispatch"} :
    IF cur[p].via = "recorded"
    THEN Raise(p, from, "failed", FALSE)
    ELSE Step(p, from, "heal", [cur[p] EXCEPT !.via = "none"])

\* The browser closed, or another failure that no heal follows.
ActFails(p) ==
  \E from \in {"acting", "dispatch", "reached"} : Raise(p, from, "failed", FALSE)

Journaled(r, s) == [r EXCEPT !.dispatched = @ \cup {s}]

JournalDispatch(p) ==
  /\ cur[p].step \in Irreversible
  /\ Go(p, "acting", "journal")
  /\ Issue(p, Journaled(mem[p], cur[p].step))
  /\ UNCHANGED <<disk, audit, claim, cur, intr, acts>>

Dispatch(p) ==
  \/ Written(p) /\ Step(p, "journal", "dispatch", cur[p])
  \/ cur[p].step \notin Irreversible /\ Step(p, "acting", "dispatch", cur[p])

\* The action is on the page; the process does not know it yet.
Reach(p) ==
  /\ Go(p, "dispatch", "reached")
  /\ acts' = Acted({cur[p].step})
  /\ UNCHANGED <<disk, audit, claim, mem, cur, intr, queue>>

ActionReturns(p) ==
  Step(p, "reached", "verify", [cur[p] EXCEPT !.performed = TRUE])

ChecksPass(p) == Step(p, "verify", "evidence", [cur[p] EXCEPT !.end = "succeeded"])

ChecksFail(p) ==
  IF cur[p].step \in Irreversible
  THEN Raise(p, "verify", IF cur[p].via = "recorded" THEN "failed" ELSE "needs_review", FALSE)
  ELSE IF cur[p].via = "healed"
  THEN Step(p, "verify", "restore", cur[p])
  ELSE Raise(p, "verify", "failed", FALSE)

\* A new tab, or a request the egress policy refused.
PageProblem(p) == Raise(p, "verify", "failed", FALSE)

MutMayReplay(first, step) == TRUE

MayReplay(first, step) == (first..(step - 1)) \cap Irreversible = {}

\* The page is rebuilt by replaying the steps since its document was opened,
\* and the recorded target is tried again on it.
Restored(p) ==
  /\ \E first \in 1..cur[p].step :
       /\ MayReplay(first, cur[p].step)
       /\ acts' = Acted(first..(cur[p].step - 1))
  /\ \/ /\ Go(p, "restore", "acting")
        /\ Progressed(p, [cur[p] EXCEPT !.via = "recorded", !.performed = FALSE])
     \/ /\ Go(p, "restore", "heal")
        /\ Progressed(p, [cur[p] EXCEPT !.via = "none", !.performed = FALSE])
  /\ UNCHANGED <<disk, audit, claim, mem, intr, queue>>

RestoreFails(p) == Raise(p, "restore", "failed", FALSE)

EvidenceTaken(p) == Step(p, "evidence", "release", cur[p])

ScreenshotFails(p) ==
  /\ cur[p].end = "succeeded"
  /\ Raise(p, "evidence", "failed", FALSE)

ResultOf(c) == Result(c.end, c.via, c.performed, c.unknown, c.stale)

WithResult(r, c) == [r EXCEPT !.steps[c.step] = ResultOf(c)]

RecordResult(p) ==
  /\ \/ Go(p, "release", "results")
     \/ Go(p, "unrebuilt", "results")
  /\ Issue(p, WithResult(mem[p], cur[p]))
  /\ UNCHANGED <<disk, audit, claim, cur, intr, acts>>

-----------------------------------------------------------------------------
(* The steps before an approved one are replayed quietly in a new browser. *)

Rebuild(p) ==
  /\ cur[p].step + 1 < cur[p].approved
  /\ Go(p, "rebuild", "rebuild")
  /\ Progressed(p, [cur[p] EXCEPT !.step = @ + 1])
  /\ acts' = Acted({cur[p].step + 1})
  /\ UNCHANGED <<disk, audit, claim, mem, intr, queue>>

Rebuilt(p) ==
  /\ cur[p].step + 1 = cur[p].approved
  /\ Step(p, "rebuild", "resolve", StepBegun(cur[p], cur[p].approved))

RebuildFails(p) ==
  /\ cur[p].step + 1 < cur[p].approved
  /\ Step(p, "rebuild", "unrebuilt",
          [StepBegun(cur[p], cur[p].approved) EXCEPT !.end = "failed", !.stale = TRUE])

-----------------------------------------------------------------------------
(* The end of an execution.                                                *)

Complete(r) == \A s \in Steps : r.steps[s].status # "not_run"

MutStopStatus(r) == r.steps[NumSteps].status

StopStatus(r) ==
  CHOOSE status \in RunStatus :
    \A s \in Steps : FailedStep(r, s) => status = r.steps[s].status

RunOutcome(r, error) ==
  IF error THEN "failed"
  ELSE IF Stopped(r) THEN StopStatus(r)
  ELSE IF Complete(r) THEN "succeeded" ELSE "failed"

Finished(r, approved, status) ==
  LET ended == [r EXCEPT !.status = status]
  IN Paused(IF approved = 0 THEN ended ELSE Settle(ended, approved))

\* The run's time limit cancels a call that did not return in time.  A step
\* in progress gets its evidence outside the limit; otherwise nothing more.
ScopeExpires(p) ==
  \/ \E from \in InProgress :
       Step(p, from, "late",
            [cur[p] EXCEPT !.end = "failed", !.stale = FALSE,
                           !.unknown = from \in {"dispatch", "reached"}])
  \/ \E from \in Scope \ InProgress : Step(p, from, "close", cur[p])

LateResult(p) ==
  /\ Go(p, "late", "close")
  /\ mem' = [mem EXCEPT ![p] = WithResult(@, cur[p])]
  /\ UNCHANGED <<disk, audit, claim, cur, intr, queue, acts>>

SessionFails(p) ==
  /\ Go(p, "session", "promote")
  /\ mem' = [mem EXCEPT ![p] = Finished(@, cur[p].approved, "failed")]
  /\ UNCHANGED <<disk, audit, claim, cur, intr, queue, acts>>

Close(p) ==
  /\ Go(p, "close", "promote")
  /\ mem' = [mem EXCEPT ![p] =
               Finished(@, cur[p].approved, RunOutcome(@, cur[p].error))]
  /\ UNCHANGED <<disk, audit, claim, cur, intr, queue, acts>>

Promoted(p) ==
  /\ Go(p, "promote", "final")
  /\ Issue(p, mem[p])
  /\ UNCHANGED <<disk, audit, claim, cur, intr, acts>>

MutDone(p) ==
  /\ pc[p] = "final" /\ Written(p)
  /\ Leave(p)
  /\ UNCHANGED <<disk, audit, queue, acts>>

Done(p) ==
  /\ pc[p] \in {"final", "rejected"} /\ Written(p)
  /\ Leave(p)
  /\ UNCHANGED <<disk, audit, queue, acts>>

-----------------------------------------------------------------------------
(* A person decides a proposal: the audit entry first, then the record.    *)

\* The command claims the run and completes what an ended process left.
StartDesk(p) ==
  LET left == AsLeft(disk, audit) IN
  /\ Go(p, "idle", "desk")
  /\ Written(p) /\ Unclaimed /\ disk # NoRecord
  /\ Overtakes \/ \A q \in Procs : Written(q)
  /\ claim' = p
  /\ mem' = [mem EXCEPT ![p] = left]
  /\ queue' = IF left = disk THEN queue
              ELSE [queue EXCEPT ![p] = Append(@, left)]
  /\ UNCHANGED <<disk, audit, cur, intr, acts>>

\* The proposal is not pending, or the run cannot be resumed as it stands.
Refuse(p) ==
  /\ pc[p] = "desk" /\ Written(p)
  /\ Leave(p)
  /\ UNCHANGED <<disk, audit, queue, acts>>

CanDecide(r, i) == r.decision[i] = "pending" /\ r.status = "awaiting"

MutCanResume(r, i) == \A s \in 1..(i - 1) : r.steps[s].status = "succeeded"

CanResume(r, i) ==
  /\ \A s \in 1..(i - 1) : r.steps[s].status = "succeeded"
  /\ MayReplay(1, i)

Decide(p, i, kind, to) ==
  /\ Written(p) /\ CanDecide(mem[p], i)
  /\ Go(p, "desk", to)
  /\ audit' = Append(audit, [step |-> i, kind |-> kind])
  /\ Progressed(p, [cur[p] EXCEPT !.approved = i])
  /\ UNCHANGED <<disk, claim, mem, intr, queue, acts>>

Approve(p) ==
  \E i \in Steps : CanResume(mem[p], i) /\ Decide(p, i, "approved", "approving")

Reject(p) == \E i \in Steps : Decide(p, i, "rejected", "rejecting")

RecordApproval(p) ==
  /\ Go(p, "approving", "approved")
  /\ Issue(p, Decided(mem[p], cur[p].approved, "approved"))
  /\ UNCHANGED <<disk, audit, claim, cur, intr, acts>>

RecordRejection(p) ==
  /\ Go(p, "rejecting", "rejected")
  /\ Issue(p, Rejected(mem[p], cur[p].approved))
  /\ UNCHANGED <<disk, audit, claim, cur, intr, acts>>

\* An interrupt that arrived meanwhile cancels the run before it resumes.
Resume(p) ==
  /\ Written(p)
  /\ IF intr[p]
     THEN Go(p, "approved", "final") /\ Issue(p, NotResumed(mem[p], cur[p].approved))
     ELSE Go(p, "approved", "begin") /\ Issue(p, Resumed(mem[p], cur[p].approved))
  /\ UNCHANGED <<disk, audit, claim, cur, intr, acts>>

-----------------------------------------------------------------------------
(* Interrupts, aborts and crashes.                                         *)

Interrupted(p) == ~intr[p] /\ intr' = [intr EXCEPT ![p] = TRUE]

\* Before the first step: the run is written as ended, with no step begun.
InterruptBegin(p) ==
  LET ended == EndedRun(mem[p], FALSE) IN
  /\ Interrupted(p)
  /\ Go(p, "begin", "final")
  /\ Issue(p, IF cur[p].approved = 0 THEN ended ELSE Settle(ended, cur[p].approved))
  /\ UNCHANGED <<disk, audit, claim, cur, acts>>

\* While pending patches are read, or before a decision, or during the final
\* write: nothing handles the interrupt but the claim's release.
InterruptLeaves(p) ==
  /\ pc[p] \in {"tries", "desk", "final"} /\ ~intr[p]
  /\ Leave(p)
  /\ UNCHANGED <<disk, audit, queue, acts>>

\* The result of the step in progress, when an interrupt stops it.
CancelledResult(c, at) ==
  Result("cancelled", c.via, c.performed,
         c.unknown \/ at \in {"dispatch", "reached"}, FALSE)

\* While steps run: the step in progress is cancelled, and the run ends,
\* unless its steps had already ended.
InterruptRun(p) ==
  LET c == cur[p]
      r == mem[p]
      stopped == IF pc[p] \in InProgress \cup {"late"}
                 THEN [r EXCEPT !.steps[c.step] = CancelledResult(c, pc[p])]
                 ELSE r
  IN /\ Interrupted(p)
     /\ \E from \in Scope \cup {"late", "session", "close"} : Go(p, from, "promote")
     /\ mem' = [mem EXCEPT ![p] =
          IF Stopped(r) \/ Complete(r)
          THEN Finished(r, c.approved, RunOutcome(r, c.error))
          ELSE Finished(stopped, c.approved, InterruptedStatus(r.dispatched))]
     /\ UNCHANGED <<disk, audit, claim, cur, queue, acts>>

\* While heals are promoted or a decision is recorded, the interrupt waits.
InterruptWaits(p) ==
  /\ Interrupted(p)
  /\ pc[p] \in {"promote", "approving", "approved", "rejecting", "rejected"}
  /\ UNCHANGED <<disk, audit, claim, pc, mem, cur, queue, acts>>

\* A second interrupt: the record on disk is finished as it stands.
Abort(p) ==
  /\ intr[p] /\ disk # NoRecord
  /\ disk' = EndedRun(disk, TRUE)
  /\ queue' = [queue EXCEPT ![p] = <<>>]
  /\ Leave(p)
  /\ UNCHANGED <<audit, acts>>

\* The process is killed, or the machine stops; its writes are lost.
Crash(p) ==
  /\ pc[p] # "idle" \/ queue[p] # <<>>
  /\ queue' = [queue EXCEPT ![p] = <<>>]
  /\ Leave(p)
  /\ UNCHANGED <<disk, audit, acts>>

-----------------------------------------------------------------------------

\* What a process does on its own: each await it is in returns or raises.
Work(p) ==
  \/ Land(p)
  \/ Begun(p) \/ TriesRead(p) \/ SessionOpened(p) \/ SessionFails(p)
  \/ Rebuild(p) \/ Rebuilt(p) \/ RebuildFails(p)
  \/ NextStep(p) \/ StepsDone(p)
  \/ RecordedResolves(p) \/ PatchResolves(p) \/ Unresolved(p) \/ ResolveFails(p)
  \/ Abstain(p) \/ Propose(p) \/ AcceptHeal(p)
  \/ BeforeActionError(p) \/ ActFails(p) \/ JournalDispatch(p) \/ Dispatch(p)
  \/ Reach(p) \/ ActionReturns(p)
  \/ ChecksPass(p) \/ ChecksFail(p) \/ PageProblem(p)
  \/ Restored(p) \/ RestoreFails(p)
  \/ EvidenceTaken(p) \/ ScreenshotFails(p) \/ RecordResult(p)
  \/ ScopeExpires(p) \/ LateResult(p)
  \/ Close(p) \/ Promoted(p) \/ Done(p)
  \/ Refuse(p) \/ RecordApproval(p) \/ RecordRejection(p) \/ Resume(p)

\* What a person does: commands and decisions.
Ask(p) == StartRun(p) \/ StartDesk(p) \/ Approve(p) \/ Reject(p)

Interrupt(p) ==
  \/ InterruptBegin(p) \/ InterruptLeaves(p) \/ InterruptRun(p)
  \/ InterruptWaits(p) \/ Abort(p)

Next == \E p \in Procs : Work(p) \/ Ask(p) \/ Interrupt(p) \/ Crash(p)

Spec == Init /\ [][Next]_vars
=============================================================================
