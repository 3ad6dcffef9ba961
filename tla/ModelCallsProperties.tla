------------------------- MODULE ModelCallsProperties -------------------------
(***************************************************************************)
(* What the budgets of model calls must keep true across processes that    *)
(* reserve calls together, are cancelled and die, and what becomes of a    *)
(* step that asks.                                                         *)
(***************************************************************************)
EXTENDS ModelCalls

Threads == [at : Reservation, day : Days, count : 0..PerDay]

Working == [run : Runs \cup {NoRun}, reserved : 0..PerRun, used : 0..PerRun,
            purpose : {"choose", "repair"}, attempt : 0..MaxAttempts]

Breakers == [state : {"closed", "open", "half_open"}, failures : Nat, trial : BOOLEAN]

Records == [status : {"new", "running", "awaiting", "ended"}, calls : 0..PerRun]

\* Every variable has its type (RunModelBudget, FileUsageLedger, CircuitBreaker,
\* Run.model_usage); no budget is passed and no call has too many requests.
TypeOK ==
  /\ today \in Days
  /\ ledger \in [Days -> 0..PerDay]
  /\ lock \in Procs \cup {NoProc}
  /\ thread \in [Procs -> Threads]
  /\ awaits \in [Procs -> {"idle", "ready", "reserving", "calling"}]
  /\ work \in [Procs -> Working]
  /\ breaker \in [Procs -> Breakers]
  /\ record \in [Runs -> Records]
  /\ sent \subseteq Days \X (1..PerDay)
  /\ made \in [Runs -> Nat]

\* Every call that is sent was counted on its day before, on a count of its
\* own, and no day counts more than it allows: whatever dies or is cancelled
\* while it reserves or calls (FileUsageLedger._reserve, RunModelBudget.reserve).
CallsAreCounted ==
  /\ \A d \in Days, n \in 1..PerDay : <<d, n>> \in sent => n <= ledger[d]
  /\ \A p \in Procs : thread[p].at = "counted" =>
       /\ <<thread[p].day, thread[p].count>> \notin sent
       /\ thread[p].count <= ledger[thread[p].day]
       /\ \A q \in Procs \ {p} : thread[q].at = "counted" =>
            thread[q].day # thread[p].day \/ thread[q].count # thread[p].count

\* All the executions of a run together send no more calls than a run may make:
\* a resumed run goes on from the usage its pause recorded (resume.py).
RunWithinBudget == \A r \in Runs : made[r] <= PerRun

\* The record of a paused run names every call it sent, also those that were
\* not answered (rung3._call, run_execution._final).
UsageIsComplete ==
  \A r \in Runs : record[r].status = "awaiting" => made[r] <= record[r].calls

\* No budget is passed by the calls that are really sent, each of which was
\* counted before, and a run's record names those it must go on counting from.
BudgetsHold == CallsAreCounted /\ RunWithinBudget /\ UsageIsComplete

\* What the event loop, the lock and the call's time limit see to.
Fairness ==
  \A p \in Procs :
    /\ SF_callsVars(TakesLock(p))
    /\ WF_callsVars(FindsUsedUp(p)) /\ WF_callsVars(Counts(p))
    /\ WF_callsVars(NotReserved(p)) /\ WF_callsVars(SendReserved(p))
    /\ WF_callsVars(RefuseReserved(p)) /\ WF_callsVars(CallTimesOut(p))

CallsFairSpec == CallsSpec /\ Fairness

\* A step that asks the model is answered, refused or told why not: it waits
\* neither for a lock nor for the provider for ever (_reserve, rung3._call).
AskIsDecided ==
  \A p \in Procs : awaits[p] \in {"reserving", "calling"} ~> awaits[p] \in {"ready", "idle"}
=============================================================================
