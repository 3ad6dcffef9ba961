-------------------------------- MODULE Scoring --------------------------------
(***************************************************************************)
(* How a benchmark scores a run: what each step's events say about each    *)
(* action, which class the step falls into against ground truth, and the   *)
(* metrics and the gate over the classes.                                  *)
(***************************************************************************)
EXTENDS Naturals, FiniteSets, Sequences, SequencesExt, FiniteSetsExt

CONSTANT NoKey   \* the control of a step that acts on none, such as navigate

Event(kind, rung, ok) == [kind |-> kind, rung |-> rung, ok |-> ok]

-----------------------------------------------------------------------------
(* Ground truth: for each control, whether a release took it away or made  *)
(* it do something else, and whether it changed in a way to heal through.  *)

Applied(key, category) == [key |-> key, category |-> category]

StepTruths(keys, applied) ==
  [key \in keys |->
     [abstain |-> Applied(key, "abstain_expected") \in applied,
      changed |-> Applied(key, "heal_expected") \in applied]]

TargetMatch(matched, known) ==
  IF matched THEN "on_target" ELSE IF known THEN "off_target" ELSE "unknown"

-----------------------------------------------------------------------------
(* What the events around an action say of it.                             *)

MutRestoring(events, at) == \E i \in 1..at : events[i].kind = "heal_verified" /\ ~events[i].ok

\* Between a heal that was refuted and the end of the restore after it.
Restoring(events, at) ==
  \E i \in 1..at :
    /\ events[i].kind = "heal_verified" /\ ~events[i].ok
    /\ \A j \in (i + 1)..at : events[j].kind \notin {"state_restored", "heal_verified"}

\* The rung the element came from; 0 is the recorded selectors.
Resolves(e) == e.kind = "target_resolved" \/ (e.kind = "heal_attempted" /\ e.ok)

Resolution(events, at) ==
  LET found == {i \in 1..at : Resolves(events[i])}
  IN IF found = {} THEN 0 ELSE events[Max(found)].rung

\* What the checkpoints after the action said, up to the step's next decision.
Decides(e) ==
  \/ e.kind \in {"heal_verified", "step_succeeded", "target_resolved", "heal_attempted",
                 "state_restored"}
  \/ e.kind = "checkpoint" /\ ~e.ok

Turns(events, at) == {i \in (at + 1)..Len(events) : Decides(events[i])}

Checks(events, at) ==
  {i \in (at + 1)..Len(events) :
     events[i].kind = "checkpoint" /\ \A d \in Turns(events, at) : i < d}

Judgement(e, checked) ==
  IF e.kind \in {"heal_verified", "checkpoint"} THEN IF e.ok THEN "passed" ELSE "failed"
  ELSE IF e.kind = "step_succeeded" \/ checked THEN "passed" ELSE "not_checked"

Verdict(events, at) ==
  Judgement(IF Turns(events, at) = {} THEN Event("none", 0, TRUE)
            ELSE events[Min(Turns(events, at))],
            Checks(events, at) # {})

\* A probe is an action as it was noted just before it was sent: how many
\* events there were, which controls the element was, whether the step's
\* control could be named.
Record(probe, key, events, earlier) ==
  LET redo == Restoring(events, probe.at)
  IN [resolution |-> Resolution(events, probe.at),
      target |-> TargetMatch(IF redo THEN probe.keys \cap earlier # {} ELSE key \in probe.keys,
                             probe.known),
      verdict |-> IF redo THEN "not_checked" ELSE Verdict(events, probe.at),
      restoring |-> redo]

-----------------------------------------------------------------------------
(* How a step stopped.                                                     *)

Declining ==
  {"HealAbstained", "TargetNotFound", "AmbiguousTarget", "TargetDrifted", "BudgetExceeded"}

NotDecisions == {"page_never_stable", "heal_timed_out"}

End(stop, reason) == [stop |-> stop, reason |-> reason]

\* The reason is the error's own, or the error's name.
StopOf(status, error, reason) ==
  LET label == IF reason = "" THEN error ELSE reason IN
  IF status = "succeeded" THEN End("completed", "")
  ELSE IF status = "awaiting_approval" THEN End("approval", "approval_required")
  ELSE IF error = "CheckpointFailed" THEN End("checkpoint_failed", label)
  ELSE IF error \in Declining /\ label \notin NotDecisions THEN End("declined", label)
  ELSE End("error", label)

\* The step a run that did not succeed stopped at, and why: its last step if
\* none says (steps are the controls of the workflow's steps).
RunFailure(ends, steps) ==
  IF ends # <<>> /\ Last(ends).stop # "completed"
  THEN [step |-> Len(ends), reason |-> Last(ends).reason]
  ELSE [step |-> Len(steps), reason |-> "unrecorded"]

-----------------------------------------------------------------------------
(* The class of a step: the first rule that holds.                         *)

MutWrongRecords(truth, actions) == {i \in DOMAIN actions : actions[i].target = "off_target"}

\* On a step that expects abstention every action of its own is wrong.
WrongRecords(truth, actions) ==
  {i \in DOMAIN actions :
     actions[i].target = "off_target" \/ (truth.abstain /\ ~actions[i].restoring)}

Own(actions) == {i \in DOMAIN actions : ~actions[i].restoring}

LastOwn(actions) == actions[Max(Own(actions))]

NonWrongClass(truth, o) ==
  IF o.stop = "approval" THEN "approval_requested"
  ELSE IF o.stop = "completed" /\ ~truth.abstain /\ Own(o.actions) # {}
  THEN IF LastOwn(o.actions).resolution # 0 THEN "healed_correct" ELSE "direct_correct"
  ELSE IF o.stop = "declined" /\ Own(o.actions) = {}
  THEN IF truth.abstain THEN "abstained_correct"
       ELSE IF o.available THEN "abstained_unnecessary" ELSE "failed"
  ELSE "failed"

Unknown(o) == \E i \in DOMAIN o.actions : o.actions[i].target = "unknown"

FirstWrong(truth, o) == o.actions[Min(WrongRecords(truth, o.actions))]

\* An observation o has stop, reason, actions, counted, available and laddered.
ClassOf(truth, o) ==
  IF o.stop = "not_reached" /\ o.actions = <<>> /\ o.counted = 0 THEN "not_reached"
  ELSE IF WrongRecords(truth, o.actions) # {}
  THEN IF FirstWrong(truth, o).resolution # 0 THEN "healed_wrong" ELSE "direct_wrong"
  ELSE IF o.counted > 0 THEN "direct_wrong"
  ELSE IF Unknown(o) THEN "ground_truth_unknown"
  ELSE NonWrongClass(truth, o)

\* acted and unknown stand for the counts of wrong and unjudged actions.
Classify(truth, o) ==
  LET wrong == WrongRecords(truth, o.actions)
      class == ClassOf(truth, o)
      missed == IF wrong # {} THEN \E i \in wrong : o.actions[i].verdict = "passed"
                ELSE o.stop = "completed"
  IN [class |-> class,
      wrong |-> IF class \notin {"healed_wrong", "direct_wrong"} THEN "no"
                ELSE IF missed THEN "false_success" ELSE "caught",
      rung |-> IF wrong # {} THEN FirstWrong(truth, o).resolution
               ELSE IF class \in {"healed_correct", "direct_correct"}
                    THEN LastOwn(o.actions).resolution ELSE 0,
      abstain |-> truth.abstain, changed |-> truth.changed, laddered |-> o.laddered,
      acted |-> wrong # {} \/ o.counted > 0, unknown |-> Unknown(o)]

IsWrongClass(o) == o.class \in {"healed_wrong", "direct_wrong"}

\* What StepOutcome demands of itself.
IsExplained(outcome) ==
  /\ IsWrongClass(outcome) <=> outcome.wrong # "no"
  /\ outcome.acted => IsWrongClass(outcome)
  /\ outcome.class = "ground_truth_unknown" <=> outcome.unknown /\ ~IsWrongClass(outcome)

-----------------------------------------------------------------------------
(* The metrics of a sequence of outcomes, and the gate.                    *)

Ratio(some, all) ==
  [numerator |-> Cardinality(some \cap all), denominator |-> Cardinality(all)]

IsCorrect(o) == o.class \in {"healed_correct", "direct_correct"}

Classed(outcomes, class) == {i \in DOMAIN outcomes : outcomes[i].class = class}

StepMetrics(outcomes) ==
  LET reached == DOMAIN outcomes \ Classed(outcomes, "not_reached")
      act == {i \in reached : ~outcomes[i].abstain}
      correct == {i \in DOMAIN outcomes : IsCorrect(outcomes[i])}
  IN [steps |-> Len(outcomes),
      reached |-> Cardinality(reached),
      wrongRate |-> Ratio({i \in DOMAIN outcomes : IsWrongClass(outcomes[i])}, reached),
      missed |-> Cardinality({i \in reached : outcomes[i].wrong = "false_success"}),
      caught |-> Cardinality({i \in reached : outcomes[i].wrong = "caught"}),
      unjudged |-> Ratio(Classed(outcomes, "ground_truth_unknown"), reached),
      completion |-> Ratio(correct, {i \in act : outcomes[i].changed}),
      healSuccess |-> Ratio(Classed(outcomes, "healed_correct"), {i \in act : outcomes[i].laddered}),
      abstained |-> Ratio(Classed(outcomes, "abstained_correct"), reached \ act),
      unnecessary |-> Ratio(Classed(outcomes, "abstained_unnecessary"), act),
      direct |-> Cardinality({i \in correct : outcomes[i].rung = 0}),
      healed |-> Cardinality({i \in correct : outcomes[i].rung # 0})]

\* A gated system fails the benchmark when a step of it is wrong; a script
\* may be.
GateFails(gated, outcomes) == gated /\ StepMetrics(outcomes).wrongRate.numerator > 0
=============================================================================
