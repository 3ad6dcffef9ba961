# A verification project for Mendwork

Mendwork records what a person does in a browser as a workflow, replays it, heals
steps whose target has moved, asks a person before it acts on a healed target of an
irreversible step, leaves one record per run (`run.json`) that other commands and
people rely on, and turns verified heals into new versions of the workflow. Model
calls, the network and the files it keeps are guarded by budgets, a policy and locks.
The modules here model all of that which has state and order: see the inventory.
Paths below are relative to `src/src/mendwork/` unless they start with `docs/` or
`benchmarks/`.

## Inventory

| Component | State it keeps | Operations | What makes it correct |
|---|---|---|---|
| Run record (`engine/domain/runs.py`, `engine/safety/interruption.py`, `approvals.py`, `engine/replay/approval_records.py`, `journal.py`) | `run.json`: status, one result per step, journaled irreversible dispatches, proposals with their decision and outcome | journal writes, `ended_run`, `paused`, `decided`, `rejected`, `not_resumed`, `resumed`, `settle`, `as_left` | the status says what was sent; an outcome says what happened; a final record never changes |
| Run execution (`engine/replay/run_execution.py`, `step_runner.py`, `replayer.py`, `resume.py`) | the record in memory, the step in progress | start, rebuild, step loop, time limit, final record | no irreversible action twice; journal before dispatch; nothing after a stop |
| Decisions (`engine/replay/decisions.py`) | the audit entry and the record of one proposal | `approve`, `reject`, `current` | decided once; the log and the record agree |
| Command line (`apps/cli/interrupts.py`, `run.py`, `approvals.py`) | how many interrupts arrived, whether they are deferred | first interrupt cancels, second aborts | an interrupted command leaves an ended record |
| Rung 0 (`engine/replay/rung0.py`, `consensus.py`, `identity.py`) | the reading of one page | vote over selectors, identity, wait | an element is chosen only by agreement on one page |
| Heal loop and ladder (`engine/replay/step_healing.py`, `engine/healing/`) | excluded candidates, pins, heals acted on, deadlines | climb, accept, gate, act, verify, exclude, restore | nothing failed, irreversible or authenticating is repeated; no guess; it ends |
| Model rung (`engine/healing/rung3.py`, `prompt.py`, `choice.py`, `adapters/models/`) | what was shown, the calls, their totals | ask, repair, read the reply, judge the pick again | the pick is the control that was shown, and no worse than the recorded one; no secret is sent; every call is counted |
| Heal rules (`engine/safety/risk.py`, `heal_policy.py`, `heal_kinds.py`, `engine/healing/checks.py`) | none | classify, compare, refuse | what is destructive is asked before it is done |
| Usage ledger and budgets (`adapters/usage_fs/ledger.py`, `engine/safety/budgets.py`) | calls per day in a file under a lock; calls per run | reserve, record | counted before it is made; no limit is passed, over all executions of a run |
| Circuit breaker (`adapters/models/breaker.py`) | failures, opened at, trial | before_call, succeeded, failed | a broken provider is paused and tried again |
| Promotion of heals (`engine/patching/`) | pending patches with their successes, under a file lock | count, retire, place, publish, replace | a version is published only from enough distinct successes on the very step it replaces; what a run reports of its heals is true; an undone heal stays undone |
| Workflow versions (`engine/patching/sources.py`, `manual_versions.py`, `engine/domain/lineage.py`) | numbered immutable versions | publish, choose, import, roll back | a log that only grows; each version says truly how it differs from its parent |
| File stores (`adapters/storage_fs/`, `adapters/artifacts_local/`, `adapters/audit_fs/`) | files, their names, locks | create, replace, append, list, claim | whole files; no name given away; what was returned is there; recorded decisions stay, in order |
| Browser session (`adapters/browser_playwright/session.py`, `launcher.py`, `observations.py`, `tracing.py`) | driver, browser, context, page, epochs, the step's watch, the trace | start, navigate, act, watch, trace, tear down | nothing left behind; nothing slept through; no secret in the evidence |
| Navigation and egress (`engine/safety/egress*.py`, `engine/replay/navigation*.py`, `adapters/browser_playwright/egress/`) | the egress log, the requests | preflight, filter documents, connect, retry | only what the policy allows is reached and shown; what is refused is told |
| Verification (`engine/verification/`) | the checkpoint at hand | look, sleep, look again | a change is never missed |
| Recording (`engine/recording/`, `adapters/browser_playwright/recording/`, `js/recorder.js`) | held-back gestures, messages, navigations, draft steps | report, deliver, capture, perform, flush, write | the steps are what the person did, in order, once; the person is never kept from working |
| Recorded targets, checkpoints, naming (`engine/recording/targets.py`, `checkpoints.py`, `naming.py`, `assembly.py`) | candidate selectors, proposals, answers | verify, prove, propose, name, assemble | a target is proven on one page; checkpoints say what changed; answers stand |
| Benchmark (`engine/benchmark/`, `benchmarks/`) | events and probes of a finished run | note, observe, classify, score, gate | a wrong action is never missed and never invented; the scores add up |
| Reports and output, workflow documents, settings and wiring | none | pure functions | see *Not modelled* |

How they interact: a command (`run`, `approve`, `reject`) claims the run by a
file lock, keeps the record in memory, and awaits: browser calls, writes of
`run.json` in threads, appends to the audit log. `run` may stop at a step whose
heal needs approval; `approve` appends the decision to the log, records it, and
resumes the run in a new browser session; `reject` ends it. `show` reads without a
claim. Interrupts cancel the command's task at whatever await it is in, except over
a decision's two writes and the promotion of heals, where they wait; a second
interrupt finishes the record on disk and ends the process. Within a step, rung 0
reads a page that changes by itself; when it finds no agreement the ladder reads it
again and again, may ask a model, and restores the page after a failed heal by
replaying earlier steps. Every request of the page passes the document filter and the
gateway, whose refusals end whichever step led to them. When a run has succeeded, and
before its final record, it promotes its heals; several runs of one workflow, and
people who `import` or `rollback`, share the versions (by an exclusive link of the
next number) and the pending patches (by a file lock). All runs of a workspace count
their model calls in one file of the day, in threads that hold another file lock. A
recording goes the other way: the page's script holds a gesture back, the recorder
fingerprints its element, performs it, and watches what it does.

The hard behaviours are therefore: cancellation at every await; crash between every
two writes; a late write of an ended command; a click whose arrival is unknown; time
limits that race results; a decision split over two files; a page that changes
between two reads, between the read and the decision, and between the decision and
the action; a name that resolves differently at each look-up; refusals and
navigations that one callback notices and another explains; messages of a page out of
order; a heal overtaken by an edit, a rollback or another heal; and a reservation or a
call whose caller is gone. `PROJECT.json` lists each at its line.

## Modules

One group of modules per subject: the model, its properties (`...Properties`, or at the
end of the model), its instance for TLC (`MC...`) and its proofs (`...Proofs`), where it
has them.

### A run and its record

- **RunRecord** - the record and the pure functions on it, as operators. A
  record keeps what these functions tell apart: statuses, per-step results (what
  was acted on, whether the action was performed or its outcome is unknown,
  whether it failed as stale), the journaled dispatches, and one proposal per
  step with its decision and outcome.
- **RunLifecycle** (EXTENDS RunRecord) - one run and the processes that work on
  it. `disk` is `run.json`, `audit` the log, `claim` the lock; per process, `pc`
  is the await it is in, `mem` the record in memory, `cur` its `StepProgress`
  and approval, `intr` whether an interrupt arrived, `queue` the writes issued
  and not yet on disk; `acts` counts what really reached a page. One action per
  await that returns or raises: `Begun` .. `SessionFails` (replayer, resume),
  `NextStep` .. `RecordResult` (step loop, step runner, heal loop),
  `ScopeExpires`/`LateResult` (run time limit), `Close`/`Promoted`/`Done` (end),
  `StartDesk` .. `Resume` (decisions), `Interrupt*`, `Abort`, `Crash`.
- **RunContract** - the abstract promise to a reader of the record: which status
  may follow which, and what each says about the irreversible actions sent.
- **RunShow** - `show`'s three reads interleaved with the run.

Choices worth knowing:

- *The page is the environment.* `Reach` puts the action on the page before the
  process learns of it (`ActionReturns`), so the call can be cut off in between.
  An error the browser adapter classes as raised before the action
  (`errors.py:89-112`) is taken at its word: it performs nothing.
- *Writes land in order and may be skipped.* `Land` lets the k-th write of a
  process land and drops the earlier ones: `store.py` numbers the writes of a
  path and discards one that comes after a later one (FileStores checks that).
- *`Overtakes`* says whether a command may claim the run while a write left
  behind by an interrupted command is still on its way. The order of writes is
  kept by each process, not between processes, so with `TRUE` the late write can
  replace a newer record, and `FinalRecordKept` fails: an interrupt in the final
  write (`run_execution.py:197`) releases the claim with the write in flight.
  `one_process` checks what holds when that does not happen; `two_processes`
  checks with `TRUE` everything that holds even so.
- *`Raise`* ends a step with its error or, past the run's deadline, with the
  run's own time limit as a plain failure (`step_runner.py:453-474`).
- *`ContractStatus`* is what the record says while a command executes, and what
  `as_left` would make of it when none does: that is what any reader sees.

### One step on a page that changes

- **StepHealing** - one step from its first reading to its end. `page` is what the
  browser would answer now: which elements each selector finds, and how each element
  looks. `read` is what the code read earlier, kept apart from it; `moved` says that
  the DOM's epoch is no longer the one noted. `pc` is the await: `settle0` .. `wait0`
  (`Rung0Resolver`), `climb`, `settle1` .. `look1` (rung 1), `settle2` .. `confirm2`
  (rung 2), `ask3`, `judge3` (rung 3, whose inside is ModelRung), `gate`, `ready`,
  `act`, `verify`, `restore`. `Change` may replace the page by any other at any time.
- *A look is a record of what the rules ask of an element* (name, identity, position,
  score, whether it is safe, ready, shares a name, ...): similarity of texts is a number
  of the page, everything the code does with it is modelled.
- *Two deadlines pass when they like*: the one of the resolution or action at hand, and
  the step's heal deadline.

### What a model may decide, and be told

- **HealRules** - `classify_risk`, `introduced_danger`, the interaction classes, the
  credential rules, and which candidates may be shown or picked, on texts that are sets
  of words.
- **ModelReplies** - what a response is: transport errors and retryable statuses, each
  provider's wire format, and the reply's JSON.
- **ModelRung** (EXTENDS both) - rung 3, one await at a time: remembered picks, what is
  shown (`DisplayText`: scrubbed, folded, scrubbed), the call and its requests, one
  repair, and the pick's identity, facts and epoch read again (`Identify`, `Facts`,
  `Epoch`). `known` is every word the provider has been sent; `rung.totals` is
  `ModelUsageTotals`. `Folding` is what NFKC makes of a word that is not in normal form:
  one of the forms a secret may hide in.
- **ModelCalls** - the processes whose runs ask a model. `ledger` holds the days'
  documents and `lock` their file lock; per process, `thread` is the reservation
  in its thread, `work` the run's budget and the call in progress, `breaker` its
  circuit breaker; `record` is what of a run's record decides whether, and with
  what budget, it is taken up again. `Ask`, `Repairs` are `_ask`; `TakesLock` ..
  `SyncFails` are `FileUsageLedger._reserve`; `NotReserved`, `SendReserved`,
  `RefuseReserved` what follows a reservation; `Retry` .. `CallTimesOut` how a call goes
  on or ends.
- In ModelCalls, *lock and read are one step, and so are rename and unlock*: nothing
  between them is visible to others. *A cancelled reservation's thread goes on*
  (`asyncio.to_thread`), and the process stays until it has returned (`Discarded`),
  unless it dies. *Time is a choice*: `PauseEnds`, `Midnight`, `CallTimesOut` and the end
  of retries may come at any moment. *A process is one command*, so its breaker is new with
  each (`wiring.py`); a command executes one run, and asks one thing at a time.

### Heals become versions

- **WorkflowVersions** - the pure part of patching: how a child version is derived
  and refused, where a heal stands against the latest version (`Place`,
  `UndoingRollbacks`), which runs save heals (`Saves`), which patches a finished
  run retires.
- **Patching** (EXTENDS WorkflowVersions) - the processes that publish versions.
  `history` is the store, `pending` and `lock` the pending patches' document and
  its file lock; per process, `pc` is the read or write of a store it does next,
  `run` the run it promotes, `plan` the version it is about to store and the
  parent it read. `StartRun` .. `ReadTries` are `resolve_source` and
  `first_tries`; `RunSucceeds` is `run_patch_facts` and the start of `promote`;
  `Hold`, `Count`, `Replace` are `_after_successes`; `PlaceHeal`, `LinkHeal`,
  `Conflict` the loop of `_publish`; `Plan*`/`PublishPlan` the commands `import`
  and `rollback`; `StoreFails` and `Stops` a failing store and a process that
  dies, between any two of these.
- **VersionLog** - the abstract promise to a reader of the store.
- *A step is a target and a risk*, the risk standing for everything else a step says: a
  heal keeps it, an edit may change only it. *Reading the history is one step*, because
  versions never change once listed (FileStores has the listing). *A write that reports
  an error may have landed* (`MayLand`). *`Stops`* also stands for a plan nobody
  confirms and for a failed import, rollback or first version.

### Files

- **FileStores** - threads of several processes at the system calls of the stores:
  `publish` (make the folder, temporary file, write, flush, exclusive link, unlink,
  sync), `create`, `replace` (in the order asked for, or with the directory synced),
  `append` (lock, read, write, flush, unlock, close), `list`. `seen` and `kept` are what each name
  means now and after a loss of power; `Fail` makes the call at hand raise, `Kill` ends
  a process with its locks, `LosePower` keeps what was flushed and any part of the rest.
  A file's content is the mark of who wrote it.
- *The audit log's buffer*: `AppendLine` may fail after all, some or none of the line has
  reached the file. The rest stays in the handle's buffer, the lock is let go of, and
  `Close` writes it again, whole or in part, wherever the file ends by then (`log.py:57-68`).
  What follows a line without a newline is the rest of that line, or runs into it (`Piece`).

### The browser and the network

- **Egress** - the policy on hosts and addresses, the document filter, the gateway and
  the log of refusals. A host is written as labels, some of them numbers, and `ParseHost`
  reads it as browsers do: `0x0a000001` and `0177.1` are addresses, `1.09` is no host. An
  address is the ranges it lies in (`LiesIn`, for IPv4) and the IPv4 addresses it carries.
  `Dns` says what a name *may* resolve to at
  each look-up. A request of the page is one record that goes from stage to stage.
- **BrowserSession** (EXTENDS Egress) - a run's session from the preflight to the
  teardown. `eng` is where its coroutine stands, `page` the document and what it loads,
  `tracer` the trace and the document a secret tainted, `watch` the step's watch, `stop`
  what is up and the interrupts still to come. A scenario says what each step does and
  what the site does because of it; the order is free.
- *A start and a teardown are one await after the other* (`MakeWorkdir`, `OpenGateway`,
  `OpenContext`, `StartTrace`, `Attach`, and back), and each may fail or be interrupted.
  A call that is cut short may have done its work all the same (`Interrupt`): what it made
  is up, and nobody holds it. `stop.cut` is the awaits that were cut short. The gateway's
  teardown is the exception: it closes its socket before it first waits.
- *A read of the page can find another document than the last one* (`Epoch` is a document
  and a count), and the driver's calls fail or run out of time. *The driver and Chromium
  are external*: their events arrive in any order the code must cope with.

### Recording

- **Recording** - `js/recorder.js`, the channel, the navigation log and the recorder's
  loop. `page` is the document with the script's state in it (`dirty`, `busy`, `armed`),
  `chan` the messages on their way, held and queued, `nav` the navigations, `rec` the
  recorder's await, `steps` what was recorded. `Post` puts a message on its way, `Deliver` takes any
  of them, `Lost` is a document that is gone. Values are counts: how often a field was
  edited.
- **TargetCapture** - `TargetRecorder`: candidates tried alone and in scopes, verified
  on a page that held still, proven through rung 0. A selector is a sequence of atoms.
  `Candidates` and `ScopeSelectors` are the lists the code may make: each atom once, in
  the order of the strategies, or of the scopes' kinds and distances.
- **InputNaming** - `NamingSession`, `--input`, the prompts, and `assemble`. The proposals
  still to be answered are a set, answered in the order of their steps (`Asked`).
- **RecordedWorkflow** (EXTENDS both) - a step from its capture to its checkpoints, a
  recording to its workflow, and the same capture made for a healed element
  (`engine/patching/capture.py`). `NewLandmarks` are places on the page, and `Listed` is
  the one list that has headings first and else keeps the page's order.

### The benchmark

- **Scoring** - what `observe_run` reads, `classify_step`, the metrics and the gate. The
  source folds over lists; here a count is the cardinality of a set of indices and a state
  reached by a fold is the latest event that decides it, which is what can be reasoned
  about for lists of any length.
- **Benchmark** (EXTENDS Scoring) - a system runs a workflow; each action is a probe,
  noted before it is sent with what ground truth says then, and the events are the
  emitter's. Scoring never sees what was true, only what was noted.

## Runs

| Run | Instance | What it shows |
|---|---|---|
| `one_process` | 3 steps, 2 and 3 irreversible, 1 process, heals saved, 2 heals per step, fairness | `ActsOnceInOrder`, `RecordIsTrue`, `HealedActIsApproved`, `FinalRecordKept`, `KeepsContract` (RunLifecycle implements RunContract), and no command holds a run for ever |
| `two_processes` | 2 irreversible steps, 2 processes (symmetric), 1 heal per step, `Overtakes`, and `show` | one worker at a time, one decision, no action twice, with a late write of a previous command; what `show` prints of decisions is in the log |
| `promotion` | 2 steps, 2 processes (symmetric), 2 runs, 2 files, people import up to version 2 and roll back up to version 3, both policies, 2 successes, 2 attempts | evidence, placement, outcomes, counts, and `NothingForgotten` (Patching implements VersionLog), with crashes and store failures everywhere |
| `model_calls` | 2 processes, 2 runs, 2 days, 2 calls per run and per day, breakers that open at 1 failure, 2 requests per call, fairness | no budget is passed, calls have counts of their own, pauses name their calls, and every ask ends |
| `step_healing` | 3 elements, 7 pages that may follow one another, 8 kinds of step, 2 heals, 1 login, fairness | nothing is repeated that must not be; what acts is what was read; every step ends |
| `file_stores` | 3 threads, 5 workloads, one loss of power, fairness | readers find whole files and what was published; nothing newer is overwritten; recorded decisions stay, in order, also when a failed append's line lands late; every job returns |
| `recording` | a field, a list, a control, 3 documents, 8 scenarios, fairness | edits come before the gestures that depend on them, stopping loses none, navigations are counted once, no masked text is stored, gestures are answered |
| `browser_session` | 13 scenarios, 10 URLs, names with several answers, 2 attempts, up to 2 interrupts, fairness | only allowed addresses are reached and shown, refusals are told, no secret in the evidence, no change slept through, nothing left behind but what an await that was cut short had in hand, every session ends |
| `recorded_workflow` | 5 nodes, 5 sites, 4 recordings, 5 `--input` sets, fairness | the fingerprint is proven on one page, checkpoints say what changed, answers stand, captures end |
| `benchmark` | 6 cells: ladder and script, portal and labels, 2 heals | what is read back of a run is what was so; no wrong action is missed or invented; the scores add up |
| `model_rung` | 3 elements, 10 steps, every provider and shape of reply, 1 change of the page, fairness | the pick is the control shown and no worse than the recorded one; no secret is sent; calls add up; the rung returns |
| `healer_disagrees` | the same | a violation: see below |

Bounds. Three steps are enough to have a step before, at and after an irreversible
one, two irreversible steps in a row, an approved step with steps to rebuild before
it, and a restore that replays from any earlier step. Two heals per step let a healed
action fail, be restored and be followed by another; the code's own limit
(`HealConfig`) only cuts longer sequences of the same. A process is a command that
returns to idle and may start again, so even one process gives `run`, `approve` and
later commands in every order.

In `promotion` every file targets the same element, an edit changes the rest of a
step, and that element is one no heal may use (`Unusable`, a password field): heals
lead away from the file's element and never back, so that only a rollback brings a
step back to what it was. Two successes are the least the configuration allows
(`PatchingConfig`), and under the immediate policy one run's heal, a rollback of it and
another run that heals the same way fit in two runs; two attempts give one retry.
`MaxImports` and `MaxRollbacks` stop people only, so that no promotion is cut off. Two
runs cannot show a third one that finds the counts of two: larger instances (one step,
three runs) hold as well.

In `model_calls` two runs compete for a day that allows either of them alone, and may go
on the next day; two calls per run are a failure and a trial, a call and its repair, or
one call before and one after a pause.

In `step_healing` each page makes one rung accept or decline (agreement, split votes, a
late control, twins, a weak winner, a missing control, a danger word), and any page may
follow any other as often as it likes, so the orders of what is read are all there. The
tasks are a safe step, one with a pending patch and weak checkpoints, a login, a step
after an irreversible one, and irreversible steps with no approval, with the approval of
a ranked element and with that of a model's pick. `model_rung` takes the inside of rung 3
apart for the same reason: one change of the page between any two of its awaits is what
its last reading must notice.

`file_stores` gives each workload the threads that meet on one name: two versions and a
listing, one version three times with two contents, a recording and two counts, three
writes of one record, and three decisions of two processes. `recording` gives each
scenario the few events that race (two edits and a click and a stop; a site that
navigates while the person does; a window that closes). `browser_session` does the same
for the site's events. `recorded_workflow` uses a table whose rows repeat one button,
because a target that is unique needs no scopes.

Deadlock is checked in RunLifecycle, StepHealing and FileStores. The other systems
really stop: when the bound on runs is reached (Patching), all runs have ended
(ModelCalls), the rung, the capture or the session is over, or the cell is scored.

### Fairness

`RunProperties.FairSpec` is weak fairness of each process's own work: an await returns
or raises. Browser calls have timeouts under the run's time limit, file writes and the
audit append end by the operating system. Interrupts, crashes, commands and decisions
are not assumed. In ModelCalls weak fairness stands for threads that run and calls that
are out of time at the latest (`asyncio.timeout`); the provider need not answer. A thread
that waits for the ledger's lock has strong fairness: the system gives the lock to some
waiter, and each run asks a bounded number of times, so no waiter is passed over for ever.

StepHealing, RecordedWorkflow and BrowserSession assume that the code's awaits return
and that its deadlines pass (`Deadline` is the clock's); the page may change for ever, so
each loop must end by its deadline or its count. BrowserSession adds that events of the
network and of the page, once due, arrive. ModelRung and FileStores assume the awaits
only: power, failures and kills are never assumed. Recording assumes that the channel
delivers what is on its way and the recorder goes on; the person need do nothing.

### Where the code and its documentation disagree

`healer_disagrees` refutes a sentence of `engine/safety/heal_policy.py`: the finding in
`PROJECT.json` quotes it. `introduced_danger` reads a control's name, text and label,
`classify_risk` its name only, so a safe step may be healed to a control that the
recorder would have called irreversible, without asking. `PickIsSound` says what holds
instead.

The models contain more behaviour that a sentence of the repository does not describe;
each was seen as a counterexample or met while modelling, and the properties above hold
with it.

*Runs and decisions.* An interrupt while a finished step releases its elements loses the
step's result (`step_runner.py:204`; `run_execution.py:8-9`). An approval is recorded as
stale although its action reached the page (`safety/approvals.py:211`;
`domain/approvals.py:48-49` says nothing was acted on). An interrupt while pending
patches are read leaves the record saying running (`replayer.py:157`; `:97-99`). A second
interrupt of `approve` or `reject` ends the record of a run that another process holds
(`apps/cli/approvals.py:197`; `approval_records.py:123`). The step in progress of a dead
process is inferred from the results on disk, which may already hold the step that
stopped the run; the next one is then marked as cancelled (`interruption.py:86`;
`domain/runs.py:224-225`). An approved element acted on without proof ends a run as failed
when the deadline passes while it is verified (`domain/approvals.py:44-45` says it needs
review). `show` may show a finished run as ended by its process, because it loads the
record before it asks for the claim (`decisions.py:78`).

*Healing.* Rung 2 confirms its winner's identity after ranking, but judges no rule again
on what the element is then (`rung2.py:119`; `docs/adr/0009-heal-ladder-rungs-1-2.md:141`).

*Model calls.* A provider that accepts requests and never answers does not open the
breaker: the rung's own limit, of the same length as the transport's and started earlier,
cancels the call, and a cancellation is no failure (`rung3.py:229`; `breaker.py:3-8`). A
trial call that ends so leaves the half-open breaker refusing every later call of its
process (`breaker.py:60`; `:5-7`). Such a call is recorded with no HTTP attempts
(`rung3.py:231-236`; `model_evidence.py:32-33`), and `errors.py:219-220` says more of
budgets than a failed reservation keeps.

*Versions and stores.* A process that stops between publishing a pending patch and
replacing the pending patches leaves its spent successes, and after an import of the old
content the patch is published again on them (`patcher.py:189`; `:14-17`). A heal that a
rollback undid by restoring yet another target is saved again (`rebase.py:78`;
`apps/cli/rollback.py:5`). A version published into a folder another process has made and
not yet synced may be lost with it (`workflow_store.py:104`), and so may the whole audit
log, whose directory is never synced (`audit_fs/log.py:1-6`).

*The audit log.* "Two decisions can never take the same place" (`audit_fs/log.py:3-5`) is
not so of an append that failed: after `handle.flush()` raises (`:64`), the lock is let go
of (`:68`) and closing the handle flushes the line again. Another process may have appended
with the same sequence in between. The late line then breaks the chain, or runs into one
cut short, and from then on every read and append raises `AuditLogCorrupt`, although each
append did what it should. The append whose line this is raised, too; if nobody wrote in
between, its decision is in the log though it was refused. What is left of the sentence is
checked and proved: decisions returned as recorded never share a place.

*Recording.* `scope_ancestors` of an element that is gone raises `TargetNotFound`, which
escapes the recorder's own errors and, while a heal is captured, fails the step
(`targets.py:66`, `:192-198`; `capture.py:9-10`, `session.py:240-263`). `flush_pending`
does not look at whether the messages it waited for came (`recording/session.py:92`). The
navigation log takes a request that commits no document for the next one's cause
(`navigation_log.py:53-58`), so a navigation of the browser may become the page's
(`pages.py:100`; docs/adr/0008). Typing and choosing are not held back while a gesture is
recorded, and a key pressed with nothing focused goes to whatever document is shown then.

*Browser.* A refused subresource together with a busy status is retried before it is
told; a refusal that comes after a step's last look is told of the next step
(`step_actions.py:104`). `failure_since` may name another connection's failure. An
interrupt while Chromium is launched leaves the driver running (`launcher.py:207-212`),
and so does a browser whose closing raises. Of a session, "all of it is removed afterwards"
and "never has a moment without it" (`launcher.py:235-236`) have exceptions when an await
is cut short: the directory that a thread was making outside the `try` stays (`:238`), and
so does one that cannot be removed, which is only logged (`:293-300`); a gateway whose
start was interrupted keeps listening, on a port nobody was told; and a context whose
opening or closing was interrupted (`:244`, `:261-263`) is left without its gateway until
the browser is closed.

*Benchmark.* `_verdict` calls a step whose checkpoints passed before a later failure a
false success; a script's time-out records no action (`script_runner.py`); what matched and
whether ground truth is known are read at two moments (`ground_truth.py:220-221`); on a real
application a script's probes take labels for known that name nothing at that moment
(`real_apps/run.py:286-298`; `benchmark/truth.py:130-134`). `ScoresAreSound` says for which
cells the gate is exact.

## Proofs

Each theorem holds for every value of the constants that the assumptions named here
allow. Every invariant was checked by TLC on small instances before it was proved.

### A run's life (RunLifecycleProofs)

Any number of steps, set of irreversible steps, set of processes, and value of `Saves`,
`Overtakes` and `MaxTries` that satisfies `StepsAssumption` and `LifecycleAssumption` (at
least one step; irreversible steps are steps; `NoProc` is no process).

- `TypeCorrect`: `Spec => []TypeOK`. The inductive invariant `TypeInv` adds to
  `TypeOK` that a process inside a step, or past a decision, has a step number
  in range and a record in memory: without it `WithResult` could not be typed. The first
  lemmas show, function by function, that each operation on a record returns a record.
- `OnlyOneWorker`: `Spec => []OneWorker`. The invariant is inductive with
  `TypeInv`; the only actions that take a claim require it to be free.
- `HealedActsAreApproved`: `Spec => []HealedActIsApproved`. `ApprovalInv` says
  that a process past the decision it logged carries a step the log approves
  (`ApprovedIsLogged`), and that a step acting by a heal is reversible or is the
  approved one (`HealIsAllowed`). One lemma classifies every step by what it does to
  each process (`EveryStepMoves`): it starts, moves within a command, or leaves.

- `SharedRunsAreSound`: `ShowSpec => []SharedRunIsSound`, for `show` beside any number of
  commands, whether or not a command may start while a write of an earlier one is still on
  its way.

The rest of what the record says of what really happened is proved under one more
assumption, `NoOvertaking`: commands wait for the writes an earlier one left behind, or
there is one process only. It is what `one_process` checks. Without it these properties are
false (`FinalRecordKept` fails when a late write of an interrupted command replaces a newer
record).

- `ActsInOrder`: `Spec => []ActsOnceInOrder`.
- `RecordsAreTrue`: `Spec => []RecordIsTrue`.
- `FinalRecordsAreKept`: `Spec => FinalRecordKept`, an action property.
- `RunKeepsContract`: `Spec => KeepsContract`, the refinement of RunContract.

All of these follow from `RunInv`, which is inductive without `NoOvertaking`. None of the
properties is: each speaks of the record on disk, and the next write may replace it by one
that a process has in memory or in its queue. So the invariant says of *every* record that
exists that it is `Trusted`. One that a run may still go on from is honest (`Honest`): its
results are those of successive steps, its dispatches, status and outcomes are true of the
actions sent, its decisions true of the log. A final one may be a record that a command
which ended left behind and that landed over a newer one: it need not tell of everything
that was sent since, but what it tells is true and stays true (`Sound`). What is honest now
must stay so when another action is sent or another decision logged, and that depends on
where the process is: `Phase` says, await by await, what a process may still do (an
unsent step ahead, a decision of its own not yet written).

Late writes are the rest of the argument. While a command may take the run further, the
others have only final records on their way (`Leads`, `Together`): a command that claims
the run meanwhile goes further only from a record on disk that awaits approval, and by then
whatever else the earlier one had on its way has landed or was dropped. So a late write can
end a run and never take it back to a step. What is in memory is the last record issued unless such a write has
landed over it (`Follows`), a process issues a final or paused record last (`Lined`), and
as long as a process may still send an action, no record of another one settles an
approval (`Untold`), so no outcome becomes false by it. A lemma per action shows that the
process which moves `Fits` again; one lemma shows it of all the others at once. With
`NoOvertaking`, `RunInv` says what a reader would first expect (`TruthInv`): every record
is honest, a final one is only followed by the same with outcomes filled in (`Queued`), and
nobody but the worker has anything on its way (`Alone`).

The refinement needs more: what the contract sees is the status on disk while a process
executes and the status the record reads as when none does, so a landing write that skips
others must be one step of the contract. `FlowInv` says that the statuses on disk, in a
queue and in memory each follow from the one before by the contract's steps (`Flows`),
and that while steps run all of them are `running` (`Continues`). Each step of RunLifecycle is
then shown to be a step of RunContract, or none.

### Promotion (PatchingProofs)

Any steps, files, processes and bounds that satisfy `VersionsAssumption` and
`PatchingAssumption`.

- `PatchingTypes`: `Spec => []TypeOK`.
- `VersionsAreALog`: `Spec => KeepsLog`, the refinement of VersionLog, and
  `NothingIsForgotten`: `Spec => NothingForgotten`, with the counts of pending patches.
- `HealsAreBacked`, `RollbacksHold`, `OutcomesTold`: `EvidenceIsReal`,
  `RolledBackStaysBack` and `OutcomesAreTold`.

One invariant of six parts carries all of them. A version is planned from a read of the
store and stored later, so `PlanInv` says of every plan that it is a true child of the
version it was read from and that its heal was not undone by a rollback up to there: the
exclusive creation of the version's file makes that version the last one when the plan
is stored, and the history only grows, so nothing the plan says of it can change.
`EvidenceInv` follows the runs that verified a heal from a run's results to the pending
patches and on to the plan; `LockInv` says that what the holder of the lock has read has at
least the successes that are stored, which makes its write a union and not a loss.
`ReportInv` says that each heal of a run is still to be placed or has an outcome that is
true of the versions. A first version whose parent disappears, or a version placed on a
plan of an older one, is excluded by `TypeInv`, which ties the await to what was read.

### One step's healing (StepHealingProofs)

Any tasks, limits and pages that satisfy `HealingAssumption` and `PagesAssumption` (a page
has finitely many elements, a selector finds some of them, and every look has a score), in
any order.

- `NothingIsRepeated`: `Spec => []NothingRepeated`. `StepInv` speaks of the step's progress
  alone, so no change of the page can disturb it: what failed is excluded and what is
  excluded is at no gate (`ExcludedInv`), a healed target that is acted on has an attempt
  left and its approval (`HealedInv`), and a login or an irreversible action is the last
  thing a step does (`ActedInv`). The last one is where the limits meet: rung 0 may find a
  login control after a heal was tried and restored, which is a second login only if the
  heal submitted one, and then `Limit` allowed no further attempt (`Recovers`).
- `ActsOnWhatWasRead`: `Spec => ActsOnWhatItRead`, three action properties. `ReadInv` says
  that, at an await that uses a reading, either the epoch has moved or the reading is what
  the page shows (`AgreedInv`, `LooksInv`); `ChangeInv` that a page which changes there
  never goes unnoticed; `AgreementIsOne` that selectors which agree find one element.

### A model's call and its pick (ModelRungProofs)

Rung 3 first, then the calls of many processes.

Any page, steps, responses, secrets, vocabulary and limits that satisfy `ScrubAssumption`
(a normal form is its own, and the mark of a removed secret holds none),
`PagesAssumption` (what is read of an element has a control's facts),
`ProvidersAssumption` (the three wire formats; a body's token count is there or not, its
choice a number) and `RungAssumption`.

- `NoSecretIsSent`: `Spec => []SecretsStayHere`. The property is inductive as it stands,
  because what a provider has been told only grows in `Send` and in the repair. The lemmas
  follow a text through `DisplayText`: after the second pass of the scrubber there is no
  secret in it, and no word that folding would turn into one, because folding came before
  (`FoldedIsNormal`, `DisplayIsSafe`); a description, the question and the repair are made of
  such texts only (`DescriptionIsSafe`, `QuestionIsSafe`, `RepairIsSafe`). With the second
  pass left out, the mutant of `DisplayText`, the argument breaks at `DisplayIsSafe`.
- `CostsAreTold`: `Spec => []CallsAddUp`. `CallInv` adds the types of a call and that the
  call under way is the first, or repairs the only one before it; one lemma
  (`OneMoreAddsUp`) shows that any call whose requests are counted may be added.
- `PicksAreSound`: `Spec => []PickIsSound`. `PickInv` follows the pick through the awaits
  that judge it: an unchanged epoch means that what was read of the element last is what
  was ranked, so the rules judged what will be acted on, and `HasLookAlike`, which looked at
  what was read, spoke of the page as it still is. `EligibleAreListed` shows that what is
  shown are elements of the page (by the pigeonhole principle: the eligible ones fill the
  places they are counted into), `SafeIsNoWorse` that the rules refuse whatever is worse
  than the recorded control, for every vocabulary.

ModelCalls: any number of processes, runs and days and every limit that satisfies
`CallsAssumption` (`NoProc` and `NoRun` are not members, limits are natural numbers, and a
breaker opens after one failure or more) and `RepliesAssumption` (a call is one request or
more).

- `CallsTypeCorrect` and `BudgetsAreKept`: `CallsSpec => []TypeOK` and `CallsSpec =>
  []BudgetsHold`,
  the latter from `EveryCallIsCounted`, `RunsKeepTheirBudget` and `PausesNameTheirCalls`.
  One inductive invariant proves all of them: `LedgerInv` says that a thread about to write
  holds the lock and the day's count as it is, so the count it returns is new; `BudgetInv`
  that a run is executed by one process at most, that between two calls its usage is what it
  reserved, and that it has sent no more than that. Each needs the other's types: `TypeOK`
  holds of the next state only because a process that reserves was allowed to.

### Files (FileStoresProofs)

Any threads, processes, versions and jobs that satisfy `StoresAssumption` (names differ,
versions are the numbers from 1) and `WorkloadsAssumption` (a job is about a name of its
kind; a document is either written in an order, by one process, or has none).

- `ReadersAreServed`: `Spec => []StoredIsRead`, `DecisionsStay`: `Spec => []DecisionsAreKept`,
  `NothingIsOverwritten`: `Spec => NothingOverwritten`, all from the invariant `Inv`
  (`FilesAreSound`). None is inductive. Whole files under their names need that the thread
  a name belongs to is past its writing and has flushed it (`NamesWhole`), so that neither
  it nor the loss of power can change that file again; published versions without gaps
  need that a publisher's parent is still there when it links (`Lists`), which is so only
  because a name that exists never goes away; records in order need that no thread past its
  look at the last write is older than it (`Ordered`), which the lock guarantees
  (`Placed`: a thread holds a lock exactly while it is at the calls made under it); a
  decision recorded once needs that its writer has no line before it appends, that the
  place it read is after every recorded one, and that what it wrote is after them until it
  is flushed (`Deciding`). The chain itself is no part of that argument once a failed
  append has written late (`ClosedLate`): then a reader may only find recorded decisions
  in order, or a line that stops it (`Decided`), and a torn part of a line never belongs to
  a recorded decision (`Tidy`).
- One lemma (`StepMoves`) says what any step of any thread leaves alone; with it the
  invariant's parts about all other threads follow at once, and for the thread that
  steps from what its jobs' calls do (`WriteSteps`, `ListSteps`, `OrderSteps`,
  `AppendSteps`). The end of a process and the loss of power have lemmas of their own
  (`KillInv`, `PowerInv`); after the loss only what `Inv` says apart from
  `power = "on"` remains, and that is what readers are promised.

### A browser session (BrowserSessionProofs)

Any policy, URLs, names and what they may resolve to, workflow steps, sites, numbers of
attempts, faults and interrupts that satisfy `EgressAssumption` (hosts are written as labels
or an address, addresses lie in the policy's ranges) and `ScenariosAssumption` (the URLs a
site redirects to, asks for or leaves for are among the URLs there are).

One type invariant (`Types`) and four more carry the theorems. `TypesAlways` is most of the
work: for each step of the run a lemma says where it leads and what it forgets
(`ReadPageMoves` .. `CutShortMoves`), and what each step does to the requests is said once
(`Grown`: a request that was there keeps what it is unless it is cut, a new one has gone
nowhere). The other invariants then need one lemma each for the run, the page and the
network.

- `EgressHolds`: `Spec => []EgressIsHeld`. That addresses are checked before they are
  connected to is in the types: what is left to try, and what was reached, are subsets of
  `Reachable`, and `CheckedIsReachable` shows that `CheckConnection` lets only these
  through, whatever the look-up answered. `NetInv` says that a request past the document
  filter has a URL that `CheckNavigation` passes (`Filtered`), also after a redirect; that a
  refused load has its refusal in the log until the run looks (`Told`); and that a closed
  gateway has no connection (`Closed`). `PassingIsAllowed` shows that a URL that passes is on
  the allowlist or excepted.
- `EvidenceStaysClean`: `Spec => []EvidenceIsClean`. Secrets are typed only into
  documents the run has read (`Secrets`), and a trace that is paused waits for a document
  newer than every one of them (`Paused`): when it resumes, the page shows the document of
  that read or a later one, and neither is a secret's.
- `NothingSleeps`: `Spec => []NothingSleptThrough`. `WaitInv` says that the epoch the run
  knows is never later than the page's, so a page that turns from it never turns back to it;
  and that clearing the event of responses happens only when all of them were looked at.
- `NothingIsLeft`: `Spec => []NothingLeftBehind`. `UpInv` says for every await of the start
  and the teardown what is up there, unless one of them was cut short (`stop.cut`): the
  driver and the browser (`ChromiumInv`), the directory, the gateway and the filter
  (`GatewayInv`), the context (`ContextInv`). A gateway left by its interrupted start never
  had a context, so nothing was ever asked of it (`Unasked`); any other gateway is closed
  before the session ends, and its connections with it.

### A recording (RecordingProofs)

Any fields, lists, targets, number of documents and scenarios that satisfy
`RecordingAssumption` (an element is a field or a list, and `Nothing` is none; how often
something happens is a number).

- `NavigationsAreCountedOnce`: `Spec => []NavigationsCountedOnce`, and
  `StepsStayFaithful`: `Spec => []StepsAreFaithful`, from one invariant `Inv`.

Both properties speak of the steps, and the steps are made long after the events they come
from: what has to be invariant is what the events on their way will come to. `Coming` are
the events the recorder has still to handle, in the queue or, after a stop, in the
backlog. `NavInv` says that the navigations among them are the next ones after the one
counted last, one after the other and none missing while the queue is open, and that a
gesture comes after the navigations of its document; so an event that is not the next one
was counted by a gesture before it. `MessageInv` says how the messages of a document are
numbered, and that those not released yet come after those that were. `EditInv` follows
every edit that a gesture, the page or a stop rests on: it is in the steps (`Kept`), is the
event at hand (`AtHand`), is among those to come (`Ahead`), or has a number the channel has not
released yet (`Underway`), and then it is released first. The claim about an edit is made of
a field's text as it was, so the field must not have lost it: `Reached` ties it to the
page as long as the document is shown. What may be lost is said by `late` and by nothing
else.

Adding a step is the one place where all of it meets: a fill merged into the last one
must not be older than what it replaces (`StepValues`, `ReplacedKeeps`), and a gesture's
step counts every navigation since the last one (`AppendedKeeps`).

### A recorded workflow (WorkflowProofs)

Any sites, elements, recordings, options, answers and observations that satisfy
`TargetAssumption`, `SitesAssumption` (an element answers to finitely many atoms, and its
ancestors are a list of elements), `NamingAssumption` (a recording is a sequence of steps
whose fields make a slug; `--input` is a dictionary by name, `record.py:198`) and
`ObservationsAssumption` (what is observed are lists; a checkpoint may have one alternative
or more).

- `FingerprintsAreProven`: `Spec => []TargetIsProven`, from `CaptureInv`. The property
  looks at the end of a capture, and the page may have changed at each of its awaits, so
  the invariant says what is known of which page. `KeptFind`: as long as nothing moved
  since the page settled, every selector kept finds the target on the page there is now;
  `Confirm` looks whether anything moved, and turns that into a fact about one page of the
  past (`Verified`), which no change disturbs. `VotesStand` does the same for Rung 0: its
  votes are this page's until something moves. `Proven` is what a reading of an unmoved
  page leaves: the elected node is one, the rank chosen is a vote for it, and the others
  voted for it or for none; `SameAgain` makes that node the captured one. A selector that
  finds several elements votes for no node (`VoteFacts`), so it cannot be the one that
  elects.
- `WorkflowsAreTrue`: `Spec => []WorkflowIsTrue`. `ChecksInv` says that all alternatives
  still to be tried, and all that were kept, say what changed (`Says`): a live text is new
  when the page after the step has more copies of it than the page before, which the lemmas
  count over prefixes (`FewerAtFirst`, `NewTextIsNew`). `NamingInv` is about the answers.
  `OnlyOverlapIsRefused` compares the document's validation with what was answered, and
  needs all of the rest: every input holds the value of each of its steps, a step that
  opens a page only as a URL (`InputsHold`); what `--input` named took all the steps of
  its value (`InputsAreWhole`), therefore two inputs have the same steps or none in common
  (`InputsOverlap`), and of two with the same steps `assemble` leaves one unused, for every
  step (`InputsAreUsed`); what is still to be asked is no input's yet and no two questions
  are about one value (`QueueIsOpen`), so an answer never takes a step from an earlier one;
  and every credential has its secret, whose name is no input's (`SecretsAreNamed`).

### A benchmark (WorkflowProofs)

Any cells, rungs and limit on heals that satisfy `JobsAssumption` (a cell is a system, a
suite, a sequence of steps and their ground truth, which says of every control whether a
system should abstain) and `LimitsAssumption` (the ladder has a last rung above 0; the
limit is a number).

- `BenchmarkRecordsAreTrue`: `CellSpec => []RecordsAreTrue`. The property reads a step's
  events when it has ended; `CellInv` says what they tell of each action at any moment.
  `Sent`: the events up to an action tell its rung and whether it restored the page.
  `Answered`: what the checkpoints said of it is decided by the first event after it that
  decides anything (`Closed`), or by none so far (`Open`). `LadderInv` ties both to where
  the ladder is: all actions are decided while it looks for an element or restores the
  page, and only the latest is open between its sending and the end of its checkpoints.
  `VerdictIs` shows that the reader finds that same decision.
- `BenchmarkScoresAreSound`: `CellSpec => []ScoresAreSound`, from `CellInv`, `KeyedInv`
  (what an action was noted to be follows from its element and from what could be named of
  it then) and `ScoreInv` (as many ends as steps that ended, each with its reason; one
  outcome for each of them that acts on a control, and what it says is true of the step,
  `OutcomeIsTrue`). `ClassifySays` states the classes of `classify_step` by what each
  needs, `TrueOutcome` compares them with what was so, which for an action of a healed
  element needs that the events show a rung above 0 (`HealedIsLaddered`). The metrics count
  disjoint sets of outcomes (`MetricsAddUp`).

### What stays with TLC

- Liveness (`ClaimIsReleased`, `AskIsDecided`, `StepEnds`, `EveryJobReturns`,
  `GestureIsAnswered`, `SessionEnds`, `CaptureEnds`, `RungReturns`): the prover has no rule
  for fairness or ENABLED.

The installed library's induction over natural numbers takes an operator, which the
provers cannot instantiate. Where a least element is needed, it comes from the
well-foundedness of inclusion on finite sets (`LeastNatural`) or from counting.

## Not modelled

- How alike two texts are (`engine/healing/features.py`), how a selector is evaluated in
  the page, and the other scripts in `adapters/browser_playwright/js` except `recorder.js`:
  their answers are what a page or a look says.
- Formatting, reports, scorecards and their HTML; YAML documents, their validation
  messages and schemas; settings, secrets' sources and wiring: pure functions of one
  value, with no order to get wrong.
- Failing writes and unexpected errors while a record is written: the command then ends as
  after a crash, which is modelled; FileStores has the writes themselves.
- In patching: rungs, strengths and model usage of a heal, the order of several pending
  targets of one step, the text of plans and diffs.
- In model calls: the prompt's wording, tokens as numbers, prices, the lengths of pauses.
- In the browser session: pointer and keyboard details, screenshots' content, downloads'
  bytes, TLS. In recording: what gestures a script can see at all.
- In the benchmark: the portal's mutations, seeds, durations and percentiles.

## What could come next

1. One model of a run with its session and its heals: today RunLifecycle, StepHealing and
   BrowserSession meet only in what each assumes of the others.
