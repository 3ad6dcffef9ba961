------------------------ MODULE StepHealingProperties ------------------------
(***************************************************************************)
(* What a healed step may never do, however the page changes under it.     *)
(***************************************************************************)
EXTENDS StepHealing

Location ==
  {"settle0", "match0", "look0", "wait0", "climb", "settle1", "match1", "look1", "settle2",
   "scan2", "confirm2", "ask3", "judge3", "gate", "ready", "act", "verify", "restore", "done"}

\* The step is at one of the code's awaits, its counts are in range, and what
\* it holds on the page are elements.
TypeOK ==
  /\ page \in Pages /\ task \in Tasks
  /\ pc \in Location
  /\ {moved, late, over} \subseteq BOOLEAN
  /\ st.used \in 0..MaxAttempts
  /\ st.pinned \subseteq Elements /\ st.held \subseteq Elements
  /\ st.elem \in Elements \cup {NoElement} /\ read.elem \in Elements \cup {NoElement}
  /\ st.end \in {"none", "succeeded", "failed", "awaiting", "needs_review", "unreadable"}
  /\ (st.end = "none") = (pc # "done")

Accepts(from) == pc = from /\ pc' = "gate"

\* Every selector that finds one element finds this one, and one does.
AgreeOn(finds, e) ==
  /\ {e} \in {finds[rank] : rank \in DOMAIN finds}
  /\ \A rank \in DOMAIN finds : Cardinality(finds[rank]) = 1 => finds[rank] = {e}

\* A verified or accepted element is one the page showed as a whole: selectors,
\* identity and looks of one moment, never one element's name with another's
\* position.
OneReading ==
  [][/\ pc = "look0" /\ pc' = "ready" =>
          AgreeOn(Trying, st'.elem) /\ SameAs(Expected, page.looks[st'.elem])
     /\ Accepts("look1") => AgreeOn(page.alternate, st'.elem)
     /\ Accepts("look1") \/ Accepts("judge3") => st'.judged = page.looks[st'.elem]]_vars

\* An accepted element was no guess: a ranking's winner led every other safe
\* element that had not failed by the margin, and a model's pick had no
\* look-alike among the elements the model could have been shown.
NotAGuess ==
  [][Accepts("confirm2") \/ Accepts("judge3") =>
       \A e \in Elements \ {st'.elem} :
         LET other == read.looks[e]
         IN Signature(other) \notin st.excluded /\ other.safe =>
              IF st'.rung = 2 THEN st'.judged.score >= other.score + Margin
              ELSE other.shares => Describe(other) # Describe(st'.judged)]_vars

\* A heal never acts again on an element that failed the step's checkpoints.
FailedNeverRetried ==
  pc = "act" /\ st.via = "healed" => Signature(st.judged) \notin st.failed

\* One step submits a login at most once, whichever rung found the control and
\* whatever is restored and tried again, so the account is not locked.
AuthenticatesOnce == st.logins <= 1

\* An irreversible step acts at most once, never while it awaits a decision,
\* on a heal only if a person approved that element, and no recovery repeats
\* an irreversible step before it.
IrreversibleOnce ==
  /\ Irreversible(task) => st.acts <= 1
  /\ Irreversible(task) /\ st.via = "healed" /\ pc \in {"act", "verify"} =>
       Identity(st.judged) = task.approved
  /\ st.end = "awaiting" => Irreversible(task) /\ st.acts = 0
  /\ ~(st.replayed /\ task.before = "irreversible")

\* The element acted on still has the identity that was verified when the
\* action was decided: the only page changes it survives are those after it.
VerifiedIsReady ==
  [][pc = "ready" /\ pc' = "act" => page.looks[st.elem].name = st.name]_vars

\* However a step ends, no element stays pinned in the page, unless the page
\* could not be read.
NothingPinned ==
  pc = "done" => st.pinned = {} /\ (st.end # "unreadable" => st.held = {})

\* Nothing a step did is done again that must not be: no failed element, no
\* login, no irreversible action, no element left pinned for the next step.
NothingRepeated ==
  TypeOK /\ FailedNeverRetried /\ AuthenticatesOnce /\ IrreversibleOnce /\ NothingPinned

\* What is acted on is what was read: one reading of the page, no guess among
\* its elements, and still the element that was verified.
ActsOnWhatItRead == OneReading /\ NotAGuess /\ VerifiedIsReady

\* Every browser call returns or raises within its time limit, and the two
\* deadlines pass; the page may change for ever.
FairSpec == Spec /\ WF_vars(Work) /\ WF_vars(StepDeadline) /\ WF_vars(HealDeadline)

\* Every step ends: no sequence of page changes keeps the ladder climbing.
StepEnds == <>(pc = "done")
=============================================================================
