------------------------------ MODULE ModelCalls ------------------------------
(***************************************************************************)
(* How runs ask a model to choose an element (Rung 3).  A call is counted  *)
(* before it is made: first in the run's memory, then in the day's file,   *)
(* by a thread that holds a file lock and goes on if its caller is         *)
(* cancelled.  Then the process's circuit breaker may refuse it; then it   *)
(* is sent, at most MaxAttempts times, until it is answered, given up, or  *)
(* out of time.  A reply in the wrong shape is followed by one repair      *)
(* call.  Commands are cancelled and processes die at any of these steps.  *)
(***************************************************************************)
EXTENDS ModelReplies

CONSTANTS
  Procs,        \* Processes: one command, with one breaker, at a time each.
  NoProc,       \* The lock when nobody holds it.
  Runs,         \* The runs the processes execute and resume.
  NoRun,        \* The run of a process that executes none.
  LastDay,      \* Bound: days that pass.
  PerRun,       \* Calls a run may make (model_max_calls_per_run).
  PerDay,       \* Calls a day allows (model_max_calls_per_day).
  Threshold     \* Failures in a row that open a breaker (model_breaker_failures).

ASSUME CallsAssumption ==
  /\ NoProc \notin Procs /\ NoRun \notin Runs
  /\ LastDay \in Nat \ {0}
  /\ PerRun \in Nat /\ PerDay \in Nat
  /\ Threshold \in Nat \ {0}

Days == 1..LastDay

VARIABLES
  today,    \* The UTC day.
  ledger,   \* The calls each day's document counts.
  lock,     \* The process whose thread holds the ledger's lock, or NoProc.
  thread,   \* Each process's reservation in its thread.
  awaits,   \* What each process awaits.
  work,     \* The run each process executes, with its budget and its call.
  breaker,  \* Each process's circuit breaker.
  record,   \* Each run's record: whether it may be taken up, and its usage.
  sent,     \* History: the counts, of a day, that calls were sent on.
  made      \* History: how many calls each run has sent.

callsVars == <<today, ledger, lock, thread, awaits, work, breaker, record, sent, made>>

\* Where a reservation is: before the lock, holding it with the count read, or
\* returned (with a count, with the day used up, or with an error).
Reservation == {"none", "lock", "write", "counted", "used_up", "failed"}

NoThread == [at |-> "none", day |-> 1, count |-> 0]

\* A run being executed: `reserved` and `used` are its RunModelBudget's count
\* and the usage it would record; the purpose and attempt are its call's.
Executing(r, calls) ==
  [run |-> r, reserved |-> calls, used |-> calls, purpose |-> "choose", attempt |-> 0]

FreshBreaker == [state |-> "closed", failures |-> 0, trial |-> FALSE]

CallsInit ==
  /\ today = 1
  /\ ledger = [d \in Days |-> 0]
  /\ lock = NoProc
  /\ thread = [p \in Procs |-> NoThread]
  /\ awaits = [p \in Procs |-> "idle"]
  /\ work = [p \in Procs |-> Executing(NoRun, 0)]
  /\ breaker = [p \in Procs |-> FreshBreaker]
  /\ record = [r \in Runs |-> [status |-> "new", calls |-> 0]]
  /\ sent = {}
  /\ made = [r \in Runs |-> 0]

At(p, location) == awaits[p] = location
To(p, location) == awaits' = [awaits EXCEPT ![p] = location]
Works(p, w) == work' = [work EXCEPT ![p] = w]
Thread(p, t) == thread' = [thread EXCEPT ![p] = t]
Breaker(p, b) == breaker' = [breaker EXCEPT ![p] = b]

-----------------------------------------------------------------------------
(* The run and its budget.                                                 *)

\* A command starts a run, or resumes one that waited for approval: its budget
\* counts the calls its record names.
BeginRun(p, r) ==
  /\ At(p, "idle") /\ thread[p] = NoThread
  /\ record[r].status \in {"new", "awaiting"}
  /\ To(p, "ready")
  /\ record' = [record EXCEPT ![r] = [record[r] EXCEPT !.status = "running"]]
  /\ Works(p, Executing(r, record[r].calls))
  /\ UNCHANGED <<today, ledger, lock, thread, breaker, sent, made>>

\* Mutant: one call more.
MutRunAllows(p) == work[p].reserved <= PerRun

\* The run's count allows one more call.
RunAllows(p) == work[p].reserved < PerRun

\* The final record, or the pause's, with the usage of all executions; the
\* process and its breaker are gone.
Stops(p, status) ==
  /\ To(p, "idle")
  /\ record' = [record EXCEPT ![work[p].run] = [status |-> status, calls |-> work[p].used]]
  /\ Works(p, Executing(NoRun, 0))
  /\ Breaker(p, FreshBreaker)
  /\ UNCHANGED <<today, ledger, lock, thread, sent, made>>

\* The run pauses for approval: only between two calls.
PausesRun(p) == At(p, "ready") /\ Stops(p, "awaiting")

\* The run ends, or an interrupt or its time limit cancels it at any await.  A
\* cancelled call's usage is not recorded; a cancelled reservation's thread
\* goes on.
Ends(p) == ~At(p, "idle") /\ Stops(p, "ended")

\* The process dies: the system frees its lock, and the run is never resumed.
Crash(p) ==
  /\ ~At(p, "idle") \/ thread[p] # NoThread
  /\ To(p, "idle")
  /\ record' = [r \in Runs |-> IF r = work[p].run THEN [record[r] EXCEPT !.status = "ended"]
                                                  ELSE record[r]]
  /\ Works(p, Executing(NoRun, 0))
  /\ Thread(p, NoThread)
  /\ lock' = IF lock = p THEN NoProc ELSE lock
  /\ Breaker(p, FreshBreaker)
  /\ UNCHANGED <<today, ledger, sent, made>>

-----------------------------------------------------------------------------
(* Reserving a call.                                                       *)

\* The run reserves a call, for today, in a thread of its process.
StartReserving(p) ==
  /\ To(p, "reserving")
  /\ Thread(p, [at |-> "lock", day |-> today, count |-> 0])

\* A step asks the model.  When the run's own budget is used up it abstains,
\* and nothing changes.
Ask(p) ==
  /\ At(p, "ready") /\ RunAllows(p)
  /\ StartReserving(p)
  /\ Works(p, [work[p] EXCEPT !.purpose = "choose"])
  /\ UNCHANGED <<today, ledger, lock, breaker, record, sent, made>>

\* Mutant: no lock is taken.
MutTakesLock(p) ==
  /\ thread[p].at = "lock"
  /\ Thread(p, [thread[p] EXCEPT !.at = "write", !.count = ledger[thread[p].day]])
  /\ UNCHANGED <<today, ledger, lock, awaits, work, breaker, record, sent, made>>

\* The thread takes the lock and reads the day's count.
TakesLock(p) ==
  /\ thread[p].at = "lock" /\ lock = NoProc
  /\ lock' = p
  /\ Thread(p, [thread[p] EXCEPT !.at = "write", !.count = ledger[thread[p].day]])
  /\ UNCHANGED <<today, ledger, awaits, work, breaker, record, sent, made>>

\* The thread lets go of the lock, if it held it, and returns or raises.
Returns(p, at, count) ==
  /\ Thread(p, [thread[p] EXCEPT !.at = at, !.count = count])
  /\ lock' = IF lock = p THEN NoProc ELSE lock
  /\ UNCHANGED <<today, awaits, work, breaker, record, sent, made>>

\* Mutant: the lock is not let go of when the day is used up.
MutFindsUsedUp(p) ==
  /\ thread[p].at = "write" /\ thread[p].count >= PerDay
  /\ Thread(p, [thread[p] EXCEPT !.at = "used_up"])
  /\ UNCHANGED <<today, ledger, lock, awaits, work, breaker, record, sent, made>>

\* The day is used up, also when it allows no call at all.
FindsUsedUp(p) ==
  /\ thread[p].at = "write" /\ thread[p].count >= PerDay
  /\ Returns(p, "used_up", thread[p].count)
  /\ UNCHANGED ledger

\* The new count replaces the old, in one rename.
Counts(p) ==
  /\ thread[p].at = "write" /\ thread[p].count < PerDay
  /\ ledger' = [ledger EXCEPT ![thread[p].day] = thread[p].count + 1]
  /\ Returns(p, "counted", thread[p].count + 1)

\* The ledger cannot be locked, read or written, and allows no call.
LedgerFails(p) ==
  /\ thread[p].at \in {"lock", "write"}
  /\ Returns(p, "failed", 0)
  /\ UNCHANGED ledger

\* The directory cannot be synced after the rename: counted, and no call.
SyncFails(p) ==
  /\ thread[p].at = "write" /\ thread[p].count < PerDay
  /\ ledger' = [ledger EXCEPT ![thread[p].day] = thread[p].count + 1]
  /\ Returns(p, "failed", 0)

\* A thread whose caller was cancelled returns to nobody.
Discarded(p) ==
  /\ At(p, "idle") /\ thread[p].at \in {"counted", "used_up", "failed"}
  /\ Thread(p, NoThread)
  /\ UNCHANGED <<today, ledger, lock, awaits, work, breaker, record, sent, made>>

\* No call was reserved: the step abstains.
NotReserved(p) ==
  /\ At(p, "reserving") /\ thread[p].at \in {"used_up", "failed"}
  /\ To(p, "ready")
  /\ Thread(p, NoThread)
  /\ UNCHANGED <<today, ledger, lock, work, breaker, record, sent, made>>

-----------------------------------------------------------------------------
(* Making a call.                                                          *)

\* The breaker lets a call through: it is closed, or its pause has passed and
\* no trial is running.
LetsThrough(b) ==
  \/ b.state = "closed"
  \/ b.state = "half_open" /\ ~b.trial

Reserved(p) == At(p, "reserving") /\ thread[p].at = "counted"

\* The reserved call is let through, as the trial if the breaker is half open.
SendReserved(p) ==
  /\ Reserved(p) /\ LetsThrough(breaker[p])
  /\ To(p, "calling")
  /\ Thread(p, NoThread)
  /\ Works(p, [work[p] EXCEPT !.reserved = @ + 1, !.attempt = 1])
  /\ Breaker(p, [breaker[p] EXCEPT !.trial = breaker[p].state = "half_open"])
  /\ sent' = sent \cup {<<thread[p].day, thread[p].count>>}
  /\ made' = [made EXCEPT ![work[p].run] = @ + 1]
  /\ UNCHANGED <<today, ledger, lock, record>>

\* The breaker refuses the reserved call; it counts, and the step abstains.
RefuseReserved(p) ==
  /\ Reserved(p) /\ ~LetsThrough(breaker[p])
  /\ To(p, "ready")
  /\ Thread(p, NoThread)
  /\ Works(p, [work[p] EXCEPT !.reserved = @ + 1, !.used = @ + 1])
  /\ UNCHANGED <<today, ledger, lock, breaker, record, sent, made>>

\* A request got no usable response, and another is sent.
Retry(p) ==
  /\ At(p, "calling") /\ work[p].attempt < MaxAttempts
  /\ Works(p, [work[p] EXCEPT !.attempt = @ + 1])
  /\ UNCHANGED <<today, ledger, lock, thread, awaits, breaker, record, sent, made>>

Succeeded(b) == FreshBreaker

Failed(b) ==
  [state |-> IF b.state # "closed" \/ b.failures + 1 >= Threshold THEN "open" ELSE "closed",
   failures |-> b.failures + 1, trial |-> FALSE]

\* The call is over and its usage is added to the run's.
UsageRecorded(p) ==
  Works(p, [work[p] EXCEPT !.used = @ + 1, !.attempt = 0])

\* The model chose, or abstained; or its reply is in the wrong shape, and it is
\* the repair's, or the run has no call left.
ReplyArrives(p) ==
  /\ At(p, "calling")
  /\ To(p, "ready")
  /\ UsageRecorded(p)
  /\ Breaker(p, Succeeded(breaker[p]))
  /\ UNCHANGED <<today, ledger, lock, thread, record, sent, made>>

\* The reply is in the wrong shape: the rung asks once more, if the run may.
Repairs(p) ==
  /\ At(p, "calling") /\ work[p].purpose = "choose" /\ RunAllows(p)
  /\ StartReserving(p)
  /\ Works(p, [work[p] EXCEPT !.used = @ + 1, !.attempt = 0, !.purpose = "repair"])
  /\ Breaker(p, Succeeded(breaker[p]))
  /\ UNCHANGED <<today, ledger, lock, record, sent, made>>

\* The last request, or the last there was time for, got no usable response.
ProviderFails(p) ==
  /\ At(p, "calling")
  /\ To(p, "ready")
  /\ UsageRecorded(p)
  /\ Breaker(p, Failed(breaker[p]))
  /\ UNCHANGED <<today, ledger, lock, thread, record, sent, made>>

\* The call's time limit cancels it before the transport's own, which is set
\* later, has passed: the breaker learns nothing.
CallTimesOut(p) ==
  /\ At(p, "calling")
  /\ To(p, "ready")
  /\ UsageRecorded(p)
  /\ UNCHANGED <<today, ledger, lock, thread, breaker, record, sent, made>>

-----------------------------------------------------------------------------
(* Time.                                                                   *)

\* The breaker's pause is over.
PauseEnds(p) ==
  /\ breaker[p].state = "open"
  /\ Breaker(p, [breaker[p] EXCEPT !.state = "half_open"])
  /\ UNCHANGED <<today, ledger, lock, thread, awaits, work, record, sent, made>>

Midnight ==
  /\ today < LastDay
  /\ today' = today + 1
  /\ UNCHANGED <<ledger, lock, thread, awaits, work, breaker, record, sent, made>>

CallsNext ==
  \/ Midnight
  \/ \E p \in Procs :
       \/ \E r \in Runs : BeginRun(p, r)
       \/ PausesRun(p) \/ Ends(p) \/ Crash(p)
       \/ Ask(p) \/ TakesLock(p) \/ FindsUsedUp(p) \/ Counts(p)
       \/ LedgerFails(p) \/ SyncFails(p) \/ Discarded(p) \/ NotReserved(p)
       \/ SendReserved(p) \/ RefuseReserved(p) \/ Retry(p) \/ ReplyArrives(p) \/ Repairs(p)
       \/ ProviderFails(p) \/ CallTimesOut(p) \/ PauseEnds(p)

CallsSpec == CallsInit /\ [][CallsNext]_callsVars
=============================================================================
