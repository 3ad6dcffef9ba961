------------------------------ MODULE RunRecord ------------------------------
(***************************************************************************)
(* The record a run leaves on disk (run.json) and the pure functions that  *)
(* change it: finishing an interrupted run, pausing for approval, deciding *)
(* a proposal, resuming, settling an approval, and reading a record that   *)
(* no process holds (engine/safety/interruption.py, safety/approvals.py,   *)
(* replay/approval_records.py, replay/journal.py).                         *)
(*                                                                         *)
(* A record keeps what those functions tell apart: the run's status, one   *)
(* result per step, the journaled irreversible dispatches, and for each    *)
(* step the proposal it made (at most one: a second needs a second record) *)
(* with its decision and outcome.  Times, errors' wording, evidence,       *)
(* inputs and usage are left out.                                          *)
(***************************************************************************)
EXTENDS Naturals, Sequences

CONSTANTS
  NumSteps,     \* How many steps the workflow has.
  Irreversible  \* The steps whose risk is IRREVERSIBLE.

Steps == 1..NumSteps

ASSUME StepsAssumption ==
  /\ NumSteps \in Nat \ {0}
  /\ Irreversible \subseteq Steps

Terminal == {"succeeded", "failed", "cancelled", "needs_review"}
RunStatus == Terminal \cup {"running", "awaiting"}

Stopping == {"failed", "cancelled", "awaiting", "needs_review"}
StepStatus == Stopping \cup {"succeeded", "not_run"}

\* What the step acted on, or was about to act on: the recorded target, a
\* pending patch's, or an element the heal ladder accepted.
Via == {"none", "recorded", "patch", "healed"}

Decision == {"none", "pending", "approved", "rejected"}
Outcome == {"none", "acted_verified", "acted_unverified", "not_needed",
            "stale", "interrupted", "not_resumed"}

StepResult == [status : StepStatus, via : Via, performed : BOOLEAN,
               unknown : BOOLEAN, stale : BOOLEAN]

Run == [status : RunStatus, steps : [Steps -> StepResult],
        dispatched : SUBSET Steps, decision : [Steps -> Decision],
        outcome : [Steps -> Outcome]]

NotRun == [status |-> "not_run", via |-> "none", performed |-> FALSE,
           unknown |-> FALSE, stale |-> FALSE]

Result(status, via, performed, unknown, stale) ==
  [status |-> status, via |-> via, performed |-> performed,
   unknown |-> unknown, stale |-> stale]

\* The results before step i, followed by not_run for every later step.
StepsSoFar(steps, i) == [s \in Steps |-> IF s < i THEN steps[s] ELSE NotRun]

NewRun == [status |-> "running", steps |-> [s \in Steps |-> NotRun],
           dispatched |-> {}, decision |-> [s \in Steps |-> "none"],
           outcome |-> [s \in Steps |-> "none"]]

Stopped(r) == \E s \in Steps : r.steps[s].status \in Stopping

\* The step the run stopped at: the first stopping result.
FailedStep(r, s) ==
  /\ r.steps[s].status \in Stopping
  /\ \A t \in Steps : t < s => r.steps[t].status \notin Stopping

-----------------------------------------------------------------------------
(* Interrupted runs.                                                       *)

InterruptedStatus(dispatched) ==
  IF dispatched # {} THEN "needs_review" ELSE "cancelled"

\* The first step without a result is taken to be the one in progress.
MarkedSteps(steps) ==
  [s \in Steps |->
     IF /\ steps[s].status = "not_run"
        /\ \A t \in Steps : t < s => steps[t].status # "not_run"
     THEN [steps[s] EXCEPT !.status = "cancelled", !.unknown = TRUE]
     ELSE steps[s]]

MutEndedRun(r, stepInProgress) ==
  [r EXCEPT !.status = InterruptedStatus(r.dispatched),
            !.steps = IF stepInProgress THEN MarkedSteps(r.steps) ELSE @]

EndedRun(r, stepInProgress) ==
  IF r.status # "running" THEN r
  ELSE [r EXCEPT !.status = InterruptedStatus(r.dispatched),
                 !.steps = IF stepInProgress THEN MarkedSteps(r.steps) ELSE @]

-----------------------------------------------------------------------------
(* Approvals.                                                              *)

MutSettled(res) ==
  IF res.status = "succeeded"
    THEN IF res.via = "healed" THEN "acted_verified" ELSE "not_needed"
  ELSE IF res.status \in {"cancelled", "not_run"} THEN "interrupted"
  ELSE IF res.via = "healed" THEN "acted_unverified" ELSE "stale"

\* What came of an approval, from its step's result once the run resumed.
Settled(res) ==
  IF res.status = "succeeded"
    THEN IF res.via = "healed" THEN "acted_verified" ELSE "not_needed"
  ELSE IF res.status = "needs_review" THEN "acted_unverified"
  ELSE IF res.status \in {"cancelled", "not_run"} THEN "interrupted"
  ELSE IF res.stale THEN "stale"
  ELSE IF res.performed
    THEN IF res.via = "healed" THEN "acted_unverified" ELSE "not_needed"
  ELSE "stale"

Settle(r, i) == [r EXCEPT !.outcome[i] = Settled(r.steps[i])]

\* A run that stopped for approval records its proposal as pending.
Paused(r) ==
  IF r.status # "awaiting" THEN r
  ELSE [r EXCEPT !.decision = [s \in Steps |->
          IF FailedStep(r, s) THEN "pending" ELSE r.decision[s]]]

Decided(r, i, kind) == [r EXCEPT !.decision[i] = kind]

EndedAt(r, i, status) ==
  [r EXCEPT !.status = status, !.steps[i].status = status,
            !.steps[i].stale = FALSE]

Rejected(r, i) == EndedAt(Decided(r, i, "rejected"), i, "failed")

NotResumed(r, i) == EndedAt([r EXCEPT !.outcome[i] = "not_resumed"], i, "cancelled")

Resumed(r, i) == [r EXCEPT !.status = "running", !.steps = StepsSoFar(@, i)]

-----------------------------------------------------------------------------
(* A record no process holds, completed from its journal and the audit log *)
(* (a sequence of decisions).  At most one proposal of a record is pending *)
(* and at most one approval is unsettled, so each of the two loops of the  *)
(* code changes at most one step.                                          *)

Entry == [step : Steps, kind : {"approved", "rejected"}]

\* The decision an undecided proposal takes from the log: its first entry.
Logged(log, s, kind) ==
  \E n \in DOMAIN log :
    /\ log[n] = [step |-> s, kind |-> kind]
    /\ \A m \in DOMAIN log : m < n => log[m].step # s

MutWithDecisions(r, log) == r

WithDecisions(r, log) ==
  LET new(s, kind) == r.decision[s] = "pending" /\ Logged(log, s, kind)
      failed == \E s \in Steps : new(s, "rejected")
  IN [r EXCEPT
        !.decision = [s \in Steps |-> IF new(s, "approved") THEN "approved"
                                      ELSE IF new(s, "rejected") THEN "rejected"
                                      ELSE r.decision[s]],
        !.status = IF failed THEN "failed" ELSE @,
        !.steps = [s \in Steps |->
                     IF new(s, "rejected")
                     THEN [r.steps[s] EXCEPT !.status = "failed", !.stale = FALSE]
                     ELSE r.steps[s]]]

Unsettled(r, s) == r.decision[s] = "approved" /\ r.outcome[s] = "none"

WithOutcomes(r) ==
  IF \A s \in Steps : ~Unsettled(r, s) THEN r
  ELSE IF r.status = "awaiting"
  THEN [r EXCEPT
          !.status = "cancelled",
          !.outcome = [s \in Steps |->
             IF Unsettled(r, s) THEN "not_resumed" ELSE r.outcome[s]],
          !.steps = [s \in Steps |->
             IF Unsettled(r, s)
             THEN [r.steps[s] EXCEPT !.status = "cancelled", !.stale = FALSE]
             ELSE r.steps[s]]]
  ELSE [r EXCEPT !.outcome = [s \in Steps |->
          IF Unsettled(r, s) THEN Settled(r.steps[s]) ELSE r.outcome[s]]]

AsLeft(r, log) == WithOutcomes(WithDecisions(EndedRun(r, TRUE), log))
=============================================================================
