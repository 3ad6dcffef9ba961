------------------------------- MODULE Benchmark -------------------------------
(***************************************************************************)
(* One cell of a benchmark: a system runs a workflow, each action is noted *)
(* with what ground truth says of its element just before it is sent, and  *)
(* the run's events are read back afterwards to score every step.          *)
(*                                                                         *)
(* A system is Mendwork's ladder or a script, on the chaos portal, which   *)
(* always says what an element is, or on a real application, where a       *)
(* person's labels do and may name nothing at some moment.                 *)
(*                                                                         *)
(* observe_run reads a finished run; what it reads of a step are the       *)
(* events of that step alone, so the model scores a step when it ends.     *)
(***************************************************************************)
EXTENDS Scoring

CONSTANTS
  Jobs,       \* [system, suite, steps, truths]; a step is [key, element, checks, resets]
  Elsewhere,  \* any element that is no step's control
  TopRung,    \* the ladder's last rung
  MaxHeals    \* how many heal actions a step may have

\* A cell is one of a system and a suite, a sequence of steps, and ground truth
\* for their controls.
IsCell(j) ==
  /\ j.system \in {"ladder", "script"} /\ j.suite \in {"portal", "labels"}
  /\ j.steps \in Seq(ToSet(j.steps))
  /\ \A i \in DOMAIN j.steps :
       LET s == j.steps[i] IN
       /\ s.element \in BOOLEAN /\ s.checks \in Nat
       /\ s.key # NoKey => j.truths[s.key].abstain \in BOOLEAN

ASSUME JobsAssumption == \A j \in Jobs : IsCell(j)
ASSUME LimitsAssumption == TopRung \in Nat \ {0} /\ MaxHeals \in Nat

VARIABLES
  job,      \* the cell: system, suite, workflow and ground truth
  at,       \* the step at work
  phase,    \* how far it is
  heal,     \* the rung its target came from, the heal actions it had, whether it is healing
  passed,   \* the checkpoints that passed since the action
  redo,     \* the next step a restore replays
  events,   \* the events the step emitted
  probes,   \* its actions as noted, with what was true of each
  counted,  \* the wrong actions the page counted
  end,      \* how the step ended, and whether its control was there
  ends,     \* how each step ended
  outcomes  \* the classified steps, with what was true of each

cellVars == <<job, at, phase, heal, passed, redo, events, probes, counted, end, ends, outcomes>>
stepVars == <<heal, passed, redo, events, probes, counted, end>>

Step == job.steps[at]
Keys == {job.steps[i].key : i \in DOMAIN job.steps} \ {NoKey}
EarlierKeys == {job.steps[i].key : i \in 1..at} \ {NoKey}

NoHeal == [rung |-> 0, used |-> 0, healing |-> FALSE]
Ended(e, here) == [stop |-> e.stop, reason |-> e.reason, available |-> here]
NoEnd == Ended(End("not_reached", ""), FALSE)

FreshStep ==
  /\ heal' = NoHeal /\ passed' = 0 /\ redo' = 0
  /\ events' = <<>> /\ probes' = <<>> /\ counted' = 0 /\ end' = NoEnd

CellInit ==
  /\ job \in Jobs
  /\ at = 0 /\ phase = "next"
  /\ heal = NoHeal /\ passed = 0 /\ redo = 0
  /\ events = <<>> /\ probes = <<>> /\ counted = 0 /\ end = NoEnd
  /\ ends = <<>> /\ outcomes = <<>>

Goto(from, to) == phase = from /\ phase' = to

Emit(emitted) == events' = events \o emitted

\* One event for each rung the ladder climbed, rung 0 first.
Reports(top, resolved) ==
  [i \in 1..(top + 1) |-> Event("heal_attempted", i - 1, resolved /\ i = top + 1)]

TargetResolved(rung) == <<Event("target_resolved", rung, TRUE)>>
HealVerified(rung, ok) == <<Event("heal_verified", rung, ok)>>
StateRestored(ok) == <<Event("state_restored", 0, ok)>>
ActionPerformed == <<Event("action_performed", 0, TRUE)>>
Checked(ok) == <<Event("checkpoint", 0, ok)>>
StepSucceeded == <<Event("step_succeeded", 0, TRUE)>>
StepFailed == <<Event("step_failed", 0, TRUE)>>

\* A heal that settled is reported once its checkpoints have said so.
Settled == IF heal.healing THEN HealVerified(heal.rung, TRUE) ELSE <<>>

\* The step ends: its event, how it stopped, and whether its control was
\* still there when the ladder stopped (a script looks when it declined).
Finish(from, status, error, reason, last) ==
  /\ Goto(from, "observe")
  /\ LET stop == StopOf(status, error, reason) IN
     /\ Emit(last \o IF status = "succeeded" THEN StepSucceeded ELSE StepFailed)
     /\ \E here \in IF status = "succeeded" \/ Step.key = NoKey THEN {FALSE} ELSE BOOLEAN :
          end' = Ended(stop, here)

Fails(from, error, reason, last) == Finish(from, "failed", error, reason, last)

-----------------------------------------------------------------------------
(* Noting an action.                                                       *)

\* What of the element is asked: which control it is, then whether the
\* step's own can be named.  A script on a real application is not given
\* the second question (real_apps/run.py), so its answer stays yes.
Questions == {"matched"} \cup IF job.system = "script" THEN {} ELSE {"known"}

Answering == IF job.suite = "portal" THEN {{"matched", "known"}} ELSE SUBSET {"matched", "known"}

Probe(elem, named, restoring) ==
  [at |-> Len(events),
   keys |-> IF "matched" \in named THEN {elem} \cap Keys ELSE {},
   known |-> Questions \cap {"known"} \subseteq named,
   elem |-> elem, named |-> named, restoring |-> restoring, rung |-> heal.rung,
   said |-> "not_checked"]

Notes(restoring) ==
  \E elem \in Keys \cup {Elsewhere}, named \in Answering :
    probes' = Append(probes, Probe(elem, named, restoring))

\* What the checkpoints have said of the latest action since.
Saying(verdict) ==
  IF Step.element THEN [probes EXCEPT ![Len(probes)].said = verdict] ELSE probes

\* The portal counts an action on a control that now does something else.
PageCounts ==
  \E n \in IF job.suite = "portal" /\ Step.key # NoKey
              /\ (job.truths[Step.key].abstain \/ (probes # <<>> /\ Last(probes).elem # Step.key))
           THEN {0, 1} ELSE {0} :
    counted' = counted + n

\* An action of a restore: noted, sent and counted as part of the step.
Redoes ==
  /\ Notes(TRUE)
  /\ \E n \in IF job.suite = "portal" /\ Last(probes').elem \notin EarlierKeys THEN {0, 1} ELSE {0} :
       counted' = counted + n

-----------------------------------------------------------------------------
(* A step of the ladder.                                                   *)

Begin ==
  /\ at < Len(job.steps)
  /\ at' = at + 1
  /\ Goto("next", CASE job.system = "script" /\ job.steps[at + 1].element -> "locate"
                    [] job.system = "script" /\ ~job.steps[at + 1].element -> "load"
                    [] job.system = "ladder" /\ job.steps[at + 1].element -> "resolve"
                    [] OTHER -> "send")
  /\ UNCHANGED <<job, ends, outcomes, stepVars>>

\* Rung 0, before the step's action or again on a restored page.
Resolved ==
  /\ Goto("resolve", "send")
  /\ heal' = [heal EXCEPT !.rung = 0, !.healing = FALSE]
  /\ Emit(TargetResolved(0))
  /\ UNCHANGED <<job, at, ends, outcomes, passed, redo, probes, counted, end>>

NotHealable ==
  /\ Fails("resolve", "PageNeverStable", "page_never_stable", <<>>)
  /\ UNCHANGED <<job, at, ends, outcomes, heal, passed, redo, probes, counted>>

Healable ==
  /\ Goto("resolve", "climb")
  /\ UNCHANGED <<job, at, ends, outcomes, stepVars>>

\* A rung resolved an element, and nothing stops the ladder from acting on it.
Heals ==
  /\ Goto("climb", "send")
  /\ heal.used < MaxHeals
  /\ \E rung \in 1..TopRung :
       /\ heal' = [heal EXCEPT !.rung = rung, !.healing = TRUE]
       /\ Emit(Reports(rung, TRUE) \o TargetResolved(rung))
  /\ UNCHANGED <<job, at, ends, outcomes, passed, redo, probes, counted, end>>

\* A rung resolved one, and it waits for a person or is over the limit.
Blocked ==
  /\ \/ Finish("climb", "awaiting_approval", "ApprovalRequired", "", Reports(TopRung, TRUE))
     \/ Fails("climb", "HealAbstained", "heal_limit_reached", Reports(TopRung, TRUE))
  /\ UNCHANGED <<job, at, ends, outcomes, heal, passed, redo, probes, counted>>

Abstains ==
  /\ \/ Fails("climb", "HealAbstained", "no_candidates", Reports(TopRung, FALSE))
     \/ Fails("climb", "HealAbstained", "page_never_stable", Reports(1, FALSE))
     \/ Fails("climb", "HealAbstained", "heal_timed_out", <<>>)
  /\ UNCHANGED <<job, at, ends, outcomes, heal, passed, redo, probes, counted>>

\* The action is noted, and sent.
Sends ==
  /\ Goto("send", "sent")
  /\ passed' = 0
  /\ IF Step.element THEN Notes(FALSE) ELSE UNCHANGED probes
  /\ UNCHANGED <<job, at, ends, outcomes, heal, redo, events, counted, end>>

\* The element cannot take the action, or the call for it fails: a heal is
\* excluded and the ladder climbed again, anything else ends the step.
NotActed ==
  /\ phase \in {"send", "sent"}
  /\ \/ /\ heal.healing /\ heal.used < MaxHeals
        /\ phase' = "climb"
        /\ heal' = [heal EXCEPT !.used = @ + 1]
        /\ UNCHANGED <<events, end>>
     \/ /\ ~heal.healing
        /\ Fails(phase, IF Step.element THEN "TargetNotFound" ELSE "NavigationError", "", <<>>)
        /\ UNCHANGED heal
  /\ UNCHANGED <<job, at, ends, outcomes, passed, redo, probes, counted>>

Performed ==
  /\ Goto("sent", "verify")
  /\ PageCounts
  /\ Emit(ActionPerformed)
  /\ UNCHANGED <<job, at, ends, outcomes, heal, passed, redo, probes, end>>

\* A new tab, or a refused connection, before, between or after checkpoints.
PageProblem ==
  /\ Fails("verify", "EgressBlocked", "", <<>>)
  /\ passed \in {0, Step.checks}
  /\ UNCHANGED <<job, at, ends, outcomes, heal, passed, redo, probes, counted>>

CheckPasses ==
  /\ Goto("verify", "verify")
  /\ passed < Step.checks
  /\ passed' = passed + 1
  /\ probes' = Saying("passed")
  /\ Emit(Checked(TRUE))
  /\ UNCHANGED <<job, at, ends, outcomes, heal, redo, counted, end>>

\* The refusal of a navigation is the real cause if there is one.
CheckFails ==
  /\ phase = "verify" /\ passed < Step.checks
  /\ probes' = Saying("failed")
  /\ \/ Fails("verify", "EgressBlocked", "", Checked(FALSE)) /\ UNCHANGED <<heal, redo>>
     \/ /\ ~heal.healing
        /\ Fails("verify", "CheckpointFailed", "text_missing", Checked(FALSE))
        /\ UNCHANGED <<heal, redo>>
     \/ /\ heal.healing
        /\ Goto("verify", "restore")
        /\ heal' = [heal EXCEPT !.used = @ + 1]
        /\ redo' \in 1..at
        /\ Emit(Checked(FALSE) \o HealVerified(heal.rung, FALSE))
        /\ UNCHANGED end
  /\ UNCHANGED <<job, at, ends, outcomes, passed, counted>>

\* The step's evidence must be kept for it to succeed.
Succeeds ==
  /\ phase = "verify" /\ passed = Step.checks
  /\ \/ Finish("verify", "succeeded", "", "", Settled) /\ probes' = Saying("passed")
     \/ /\ Fails("verify", "EvidenceFailed", "", Settled)
        /\ probes' = IF heal.healing THEN Saying("passed") ELSE probes
  /\ UNCHANGED <<job, at, ends, outcomes, heal, passed, redo, counted>>

\* After a refuted heal: it is never retried on an irreversible step, and not
\* over the limit.
NotRecovered ==
  /\ redo > 0 /\ heal.rung > 0
  /\ \/ Finish("restore", "needs_review", "NeedsReview", "irreversible_heal_unverified", <<>>)
     \/ Fails("restore", "HealAbstained", "heal_limit_reached", <<>>)
  /\ UNCHANGED <<job, at, ends, outcomes, heal, passed, redo, probes, counted>>

\* What was typed into the healed field is cleared first.
Clears ==
  /\ Goto("restore", "replay")
  /\ heal.used < MaxHeals
  /\ IF Step.resets THEN Redoes ELSE UNCHANGED <<probes, counted>>
  /\ UNCHANGED <<job, at, ends, outcomes, heal, passed, redo, events, end>>

\* An earlier step is replayed without an event of its own.
Replays ==
  /\ redo < at
  /\ Goto("replay", "replay")
  /\ redo' = redo + 1
  /\ IF job.steps[redo].element THEN Redoes ELSE UNCHANGED <<probes, counted>>
  /\ UNCHANGED <<job, at, ends, outcomes, heal, passed, events, end>>

NotRestored ==
  /\ Fails("replay", "HealAbstained", "restore_failed", StateRestored(FALSE))
  /\ UNCHANGED <<job, at, ends, outcomes, heal, passed, redo, probes, counted>>

\* The step's own target is looked for on the page as it was.
Restored ==
  /\ redo = at
  /\ Goto("replay", "resolve")
  /\ redo' = 0
  /\ Emit(StateRestored(TRUE))
  /\ UNCHANGED <<job, at, ends, outcomes, heal, passed, probes, counted, end>>

\* The run's time is up, in a step or between two.
TimesOut ==
  /\ phase \notin {"next", "observe", "done"} /\ job.system = "ladder"
  /\ Fails(phase, "RunTimeout", "", <<>>)
  /\ UNCHANGED <<job, at, ends, outcomes, heal, passed, redo, probes, counted>>

-----------------------------------------------------------------------------
(* A step of a script: one locator, no heal.                               *)

ScriptEnds(from, stop, reason) ==
  /\ Goto(from, "observe")
  /\ \E here \in IF stop = "declined" THEN BOOLEAN ELSE {FALSE} :
       end' = Ended(End(stop, reason), here)

Loads ==
  /\ \/ ScriptEnds("load", "error", "net_error")
     \/ ScriptEnds("load", "completed", "")
     \/ ScriptEnds("load", "checkpoint_failed", "checkpoint_failed")
  /\ UNCHANGED <<job, at, ends, outcomes, heal, passed, redo, events, probes, counted>>

NotLocated ==
  /\ \/ ScriptEnds("locate", "unexpressible", "no locator")
     \/ ScriptEnds("locate", "declined", "locator_timeout")
     \/ ScriptEnds("locate", "declined", "strict_mode_violation")
     \/ ScriptEnds("locate", "error", "browser_error")
  /\ UNCHANGED <<job, at, ends, outcomes, heal, passed, redo, events, probes, counted>>

Locates ==
  /\ Goto("locate", "act")
  /\ Notes(FALSE)
  /\ UNCHANGED <<job, at, ends, outcomes, heal, passed, redo, events, counted, end>>

ScriptActs ==
  /\ Goto("act", "check")
  /\ PageCounts
  /\ UNCHANGED <<job, at, ends, outcomes, heal, passed, redo, events, probes, end>>

\* The call for the action fails, whether or not the page saw the action.
ScriptRefused ==
  /\ \/ ScriptEnds("act", "declined", "locator_timeout")
     \/ ScriptEnds("act", "error", "browser_error")
  /\ UNCHANGED <<job, at, ends, outcomes, heal, passed, redo, events, probes, counted>>

ScriptChecks ==
  /\ \/ ScriptEnds("check", "completed", "") /\ probes' = Saying("passed")
     \/ ScriptEnds("check", "checkpoint_failed", "checkpoint_failed") /\ probes' = Saying("failed")
     \/ ScriptEnds("check", "error", "EgressBlocked") /\ UNCHANGED probes
  /\ UNCHANGED <<job, at, ends, outcomes, heal, passed, redo, events, counted>>

-----------------------------------------------------------------------------
(* Scoring.                                                                *)

\* A script records its action only once its checkpoints were asked.
ScriptRecords ==
  IF end.stop \notin {"completed", "checkpoint_failed"} THEN <<>>
  ELSE [i \in DOMAIN probes |->
          [resolution |-> 0,
           target |-> TargetMatch(Step.key \in probes[i].keys, probes[i].known),
           verdict |-> IF end.stop = "completed" THEN "passed" ELSE "failed",
           restoring |-> FALSE]]

Records ==
  IF job.system = "script" THEN ScriptRecords
  ELSE [i \in DOMAIN probes |-> Record(probes[i], Step.key, events, EarlierKeys)]

Observation ==
  [stop |-> end.stop, reason |-> end.reason, actions |-> Records, available |-> end.available,
   counted |-> IF job.system = "script" /\ Records = <<>> THEN 0 ELSE counted,
   laddered |-> \E e \in ToSet(events) : e.kind = "heal_attempted" /\ e.rung > 0]

\* What was true of the step's actions: those ground truth could judge that
\* reached what they should not, and those it had a name for.
IsWrong(p) ==
  \/ job.truths[Step.key].abstain /\ ~p.restoring
  \/ p.elem \notin IF p.restoring THEN EarlierKeys ELSE {Step.key}

Facts ==
  [wrong |-> counted > 0 \/ \E p \in ToSet(probes) : IsWrong(p),
   seen |-> \E p \in ToSet(probes) : IsWrong(p) /\ "known" \in p.named,
   expected |-> ~job.truths[Step.key].abstain,
   right |-> /\ \E p \in ToSet(probes) : ~p.restoring
             /\ \A p \in ToSet(probes) : ~IsWrong(p) /\ "matched" \in p.named]

NotReached(i) ==
  Classify(job.truths[job.steps[i].key],
           [stop |-> "not_reached", reason |-> "", actions |-> <<>>, available |-> FALSE,
            counted |-> 0, laddered |-> FALSE])

\* A step is scored if ground truth knows its control; the run goes on only
\* after a step that completed.
Scores ==
  /\ phase = "observe"
  /\ phase' = IF end.stop = "completed" /\ at < Len(job.steps) THEN "next" ELSE "done"
  /\ ends' = Append(ends, End(end.stop, end.reason))
  /\ outcomes' = IF Step.key = NoKey THEN outcomes
                 ELSE Append(outcomes, [scored |-> Classify(job.truths[Step.key], Observation),
                                        facts |-> Facts])
  /\ FreshStep
  /\ UNCHANGED <<job, at>>

TimesOutBetween ==
  /\ at > 0 /\ job.system = "ladder"
  /\ Goto("next", "done")
  /\ UNCHANGED <<job, at, ends, outcomes, stepVars>>

CellNext ==
  \/ Begin \/ Resolved \/ NotHealable \/ Healable \/ Heals \/ Blocked \/ Abstains
  \/ Sends \/ NotActed \/ Performed \/ PageProblem \/ CheckPasses \/ CheckFails \/ Succeeds
  \/ NotRecovered \/ Clears \/ Replays \/ NotRestored \/ Restored
  \/ TimesOut \/ TimesOutBetween
  \/ Loads \/ NotLocated \/ Locates \/ ScriptActs \/ ScriptRefused \/ ScriptChecks
  \/ Scores

CellSpec == CellInit /\ [][CellNext]_cellVars

-----------------------------------------------------------------------------
(* The finished cell.                                                      *)

Completed == Len(ends) = Len(job.steps) /\ Last(ends).stop = "completed"

Unreached == {i \in (Len(ends) + 1)..Len(job.steps) : job.steps[i].key # NoKey}

CellOutcomes ==
  [i \in DOMAIN outcomes |-> outcomes[i].scored]
  \o [i \in 1..Cardinality(Unreached) |-> NotReached(CHOOSE k \in Unreached :
                                                       Cardinality({j \in Unreached : j < k}) = i - 1)]

Failure == RunFailure(ends, [i \in DOMAIN job.steps |-> job.steps[i].key])

Gated == job.system = "ladder"

-----------------------------------------------------------------------------
(* What the scores must be for the headline, the wrong actions, to mean     *)
(* anything.                                                                *)

\* What the events around each action of a step say of it afterwards is what
\* was so when it was sent: which rung found its element, whether it only
\* restored the page, and what the checkpoints right after it said
\* (observe.py, whose docstring lines the actions up with the events).
RecordsAreTrue ==
  phase = "observe" /\ job.system = "ladder" =>
    \A i \in DOMAIN probes :
      /\ Records[i].restoring = probes[i].restoring
      /\ ~probes[i].restoring => /\ Records[i].resolution = probes[i].rung
                                 /\ Records[i].verdict = probes[i].said

Wrongs == {i \in DOMAIN outcomes : outcomes[i].facts.wrong}

\* The gate hears every wrong action of a gated system that ground truth could
\* see, whatever the step did afterwards, and none that was not one where the
\* page itself says what its elements are; and a step is only called correct
\* when every action of it was seen to reach what it should (results.py,
\* gate_failures; outcomes.py, classify_step).
WrongIsNeverMissed ==
  phase = "done" =>
    LET fails == GateFails(Gated, CellOutcomes) IN
    /\ Gated /\ (\E i \in Wrongs : outcomes[i].facts.seen \/ job.suite = "portal") => fails
    /\ fails /\ job.suite = "portal" => Wrongs # {}
    /\ \A i \in DOMAIN outcomes :
         IsCorrect(outcomes[i].scored) => outcomes[i].facts.expected /\ outcomes[i].facts.right

\* Nothing vanishes from the scorecard: every step that acts on a control is
\* counted once, the wrong ones as caught or missed, the correct ones by where
\* their element came from, no rate exceeds one, no outcome contradicts itself,
\* and a run that did not succeed says where it stopped and why (metrics.py;
\* cells.py, CellResult; observe.py, run_failure_of).
OutcomesAddUp ==
  phase = "done" =>
    LET m == StepMetrics(CellOutcomes) IN
    /\ m.steps = Cardinality({i \in DOMAIN job.steps : job.steps[i].key # NoKey})
    /\ m.wrongRate.numerator = m.missed + m.caught
    /\ m.healed = m.healSuccess.numerator
    /\ \A ratio \in {m.wrongRate, m.unjudged, m.completion, m.healSuccess, m.abstained,
                     m.unnecessary} : ratio.numerator <= ratio.denominator
    /\ \A i \in DOMAIN CellOutcomes : IsExplained(CellOutcomes[i])
    /\ ~Completed => /\ Failure.reason # ""
                     /\ Failure.step \in DOMAIN ends => ends[Failure.step].stop # "completed"

\* The scores add up, and no wrong action is missing from them.
ScoresAreSound == WrongIsNeverMissed /\ OutcomesAddUp
===============================================================================
