---------------------------- MODULE RunProperties -----------------------------
(***************************************************************************)
(* What makes a run correct: what its record on disk, the audit log and    *)
(* what really reached the page say about one another, whatever is         *)
(* interrupted, aborted or killed.                                         *)
(***************************************************************************)
EXTENDS RunLifecycle

\* The record as anyone would read it if no process held it.
Left == AsLeft(disk, audit)

Approvals(i) == {n \in DOMAIN audit : audit[n] = [step |-> i, kind |-> "approved"]}
Rejections(i) == {n \in DOMAIN audit : audit[n] = [step |-> i, kind |-> "rejected"]}

\* The process is about to act, or has acted, on an irreversible step.
Sending(p) ==
  pc[p] \in {"dispatch", "reached"} /\ cur[p].step \in Irreversible

\* Every process that works on the run is in one of the code's awaits, its
\* records are records, and every count is in range.
TypeOK ==
  /\ disk \in Run \cup {NoRecord}
  /\ audit \in Seq(Entry)
  /\ claim \in Procs \cup {NoProc}
  /\ pc \in [Procs -> Location]
  /\ mem \in [Procs -> Run \cup {NoRecord}]
  /\ cur \in [Procs -> Progress]
  /\ intr \in [Procs -> BOOLEAN]
  /\ queue \in [Procs -> Seq(Run)]
  /\ acts \in [Steps -> Nat]

-----------------------------------------------------------------------------
(* Irreversible actions.                                                   *)

\* No irreversible action reaches a page twice: not by a retry, not by a
\* restore that replays earlier steps, and not by a resume in a new browser.
ActsAtMostOnce == \A s \in Steps : acts[s] <= 1

\* An irreversible action that reached the page is in the record on disk, at
\* every moment and after any crash: the journal's write landed before it.
ActionJournaled == \A s \in Steps : acts[s] > 0 => s \in disk.dispatched

\* While an irreversible action is on its way, the record on disk says that
\* every step before it succeeded, so no run acts past a step that stopped it.
SentInOrder ==
  \A p \in Procs : Sending(p) =>
    \A s \in 1..(cur[p].step - 1) : disk.steps[s].status = "succeeded"

\* Nothing acts on a healed target of an irreversible step unless the audit
\* log already holds a person's approval of that step.
HealedActIsApproved ==
  \A p \in Procs :
    Sending(p) /\ cur[p].via = "healed" => Approvals(cur[p].step) # {}

\* A run that reads as cancelled sent nothing irreversible.
CancelledMeansNothingSent ==
  Left.status = "cancelled" => \A s \in Steps : acts[s] = 0

\* A run that reads as succeeded sent every irreversible action exactly once.
SucceededMeansAllSent ==
  Left.status = "succeeded" => \A s \in Irreversible : acts[s] = 1

\* Irreversible actions reach the page once, in the order of the workflow,
\* and never before the record on disk says that they may have.
ActsOnceInOrder == ActsAtMostOnce /\ ActionJournaled /\ SentInOrder

-----------------------------------------------------------------------------
(* Decisions.                                                              *)

\* Only one process at a time works on the run, and it holds the claim.
OneWorker == \A p \in Procs : pc[p] # "idle" => claim = p

\* A proposal is decided once, whatever happens between the two writes.
OneDecision == \A i \in Steps : \A m, n \in DOMAIN audit :
  audit[m].step = i /\ audit[n].step = i => m = n

\* The record, read as it was left, holds exactly the log's decisions.
DecisionsMatchLog ==
  \A i \in Steps :
    /\ Left.decision[i] = "approved" <=> Approvals(i) # {}
    /\ Left.decision[i] = "rejected" <=> Rejections(i) # {}

\* A run awaits approval exactly while one proposal is pending, and that is
\* the proposal of the step it stopped at, after steps that all succeeded.
AwaitingHasItsProposal ==
  IF Left.status = "awaiting"
  THEN \E i \in Steps :
         /\ \A s \in Steps : Left.decision[s] = "pending" <=> s = i
         /\ Left.steps[i].status = "awaiting"
         /\ \A s \in 1..(i - 1) : Left.steps[s].status = "succeeded"
  ELSE \A s \in Steps : Left.decision[s] # "pending"

\* The outcome recorded for an approval is what happened: an element was acted
\* on once if it says so, and nothing was if the run was never resumed.
OutcomeIsTrue ==
  \A i \in Steps :
    /\ Left.outcome[i] \in {"acted_verified", "acted_unverified"} => acts[i] = 1
    /\ Left.outcome[i] = "acted_verified" => Left.steps[i].status = "succeeded"
    /\ Left.outcome[i] = "not_resumed" =>
         Left.status = "cancelled" /\ \A s \in Steps : acts[s] = 0

\* What a run reads as is what happened to it: its status is true of the
\* actions that were sent, its decisions are the audit log's, its one pending
\* proposal is the one it stopped for, and its outcomes are true.
RecordIsTrue ==
  /\ CancelledMeansNothingSent /\ SucceededMeansAllSent
  /\ OneDecision /\ DecisionsMatchLog
  /\ AwaitingHasItsProposal
  /\ OutcomeIsTrue

-----------------------------------------------------------------------------
(* Steps.                                                                  *)

\* A final record on disk never changes again: no late, repeated or recovered
\* write replaces it.  Only the outcome of an approval that an abort left
\* unsettled is filled in by the next command that reads it.
FinalRecordKept ==
  [][disk.status \in Terminal =>
       /\ disk' = [disk EXCEPT !.outcome = disk'.outcome]
       /\ \A s \in Steps : disk.outcome[s] \in {"none", disk'.outcome[s]}]_vars

\* The contract's state: while a process executes the run, or a write that
\* would change how it reads is on its way, what the record says; otherwise
\* what it reads as.
ContractStatus ==
  IF \E p \in Procs : \/ pc[p] \notin {"idle", "desk"}
                      \/ \E k \in DOMAIN queue[p] : queue[p][k].status # Left.status
  THEN disk.status ELSE Left.status

Contract == INSTANCE RunContract WITH
  Actions <- Irreversible, status <- ContractStatus,
  sent <- [s \in Irreversible |-> acts[s]]

\* Every run keeps the contract its readers rely on.
KeepsContract == Contract!Spec

\* Each await returns or raises: a browser call is bounded by the run's time
\* limit, a file write by the operating system.  Interrupts, crashes, commands
\* and decisions are not assumed.
FairSpec == Spec /\ \A p \in Procs : WF_vars(Work(p))

\* A command never holds a run for ever.
ClaimIsReleased == \A p \in Procs : claim = p ~> claim # p
=============================================================================
