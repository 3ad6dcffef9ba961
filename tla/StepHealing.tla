----------------------------- MODULE StepHealing -----------------------------
(***************************************************************************)
(* One step of a run on a page that may change at any moment: rung 0       *)
(* resolves the recorded selectors by consensus, a pending patch's target  *)
(* is tried once, and then the heal ladder is climbed, gated, acted on,    *)
(* verified and recovered from, again and again, until the step ends.      *)
(*                                                                         *)
(* A page is what the browser would answer now: which elements each        *)
(* selector finds, and how each element looks.  What the code read earlier *)
(* is kept apart from it, because the two can differ.                      *)
(***************************************************************************)
EXTENDS Naturals, FiniteSets, Sequences, TLC

CONSTANTS
  Elements,       \* the DOM nodes a page may show
  NoElement,      \* no element
  Pages,          \* every page the site may show
  Tasks,          \* the steps: risk, checkpoints, approval, pending patch, ...
  Threshold,      \* healing.accept_threshold
  Margin,         \* healing.accept_margin
  CandidateCap,   \* healing.candidates_max
  ShownToModel,   \* model.candidates_k
  MaxAttempts,    \* healing.max_attempts
  AuthAttempts    \* healing.authentication_max_attempts

ASSUME HealingAssumption ==
  /\ NoElement \notin Elements
  /\ {Threshold, Margin, CandidateCap, ShownToModel, MaxAttempts} \subseteq Nat \ {0}
  /\ AuthAttempts \in {0, 1}

\* A page answers every recorded selector with some of its finitely many elements,
\* and every element it is asked about with a look that has a score.
ASSUME PagesAssumption ==
  /\ IsFiniteSet(Elements)
  /\ \A p \in Pages :
       /\ {p.recorded, p.alternate, p.patch} \subseteq Seq(SUBSET Elements)
       /\ \A e \in Elements : p.looks[e].score \in Nat /\ p.looks[e].safe \in BOOLEAN

VARIABLES
  page,     \* what the browser would answer now
  moved,    \* the DOM changed since the epoch the step compares with
  pc,       \* the await the step is at
  task,     \* the step
  st,       \* its progress (StepProgress, and the healer's locals)
  read,     \* what the rung at work has read
  late,     \* the deadline of the resolution or action at hand has passed
  over      \* the step's heal deadline has passed

vars == <<page, moved, pc, task, st, read, late, over>>

\* How an element looks that is not on the page.
Gone ==
  [name |-> "", id |-> "", pos |-> 0, score |-> 0, safe |-> FALSE, ready |-> "never",
   shares |-> FALSE, keeps |-> FALSE, near |-> FALSE, login |-> FALSE, sure |-> FALSE]

Present(p) == {e \in Elements : p.looks[e] # Gone}

\* What identifies an element on a reloaded page, and without its position.
Signature(look) == <<look.name, look.id, look.pos>>
Identity(look) == <<look.name, look.id>>

\* What a model is shown of an element.
Describe(look) == <<look.name, look.near>>

NoReading == [verdict |-> "none", elem |-> NoElement, looks |-> <<>>, quiet |-> FALSE, last |-> "never_stable"]

NoStep ==
  [trying |-> "recorded", via |-> "none", elem |-> NoElement, name |-> "none",
   judged |-> Gone, rung |-> 0, healing |-> FALSE,
   used |-> 0, excluded |-> {}, pinned |-> {}, held |-> {},
   proposal |-> <<>>, end |-> "none",
   acts |-> 0, logins |-> 0, failed |-> {}, replayed |-> FALSE]

Init ==
  /\ page \in Pages
  /\ moved = FALSE
  /\ task \in Tasks
  /\ pc = "settle0"
  /\ st = NoStep /\ read = NoReading
  /\ late = FALSE /\ over = FALSE

Late == late \/ (st.healing /\ over)

Goto(from, to) == pc = from /\ pc' = to

\* Where an epoch that was noted is still to be compared with the page's.
Comparing ==
  {"match0", "look0", "wait0", "match1", "look1", "scan2", "confirm2", "ask3", "judge3"}

\* The step goes on without the page or a deadline changing.
Proceed(from, to, s, r) ==
  /\ Goto(from, to)
  /\ st' = s /\ read' = r
  /\ moved' = (moved /\ to \in Comparing)
  /\ UNCHANGED <<page, task, late, over>>

\* The step ends: its result is made and its elements are released.
Ended(s, end) == [s EXCEPT !.end = end, !.pinned = {}]

Finish(from, s, end) == Proceed(from, "done", Ended(s, end), NoReading)

\* Settling ends, and the epoch is noted.
Settle(from, to) ==
  /\ Goto(from, to)
  /\ moved' = FALSE
  /\ UNCHANGED <<page, task, st, read, late, over>>

-----------------------------------------------------------------------------
(* Consensus: every selector that finds exactly one element votes.         *)

Hits(finds) == {rank \in DOMAIN finds : Cardinality(finds[rank]) = 1}

Found(finds) == UNION {finds[rank] : rank \in Hits(finds)}

Verdict(finds) ==
  CASE Cardinality(Found(finds)) = 1 -> "agreement"
    [] Cardinality(Found(finds)) > 1 -> "disagreement"
    [] Found(finds) = {} /\ \E rank \in DOMAIN finds : Cardinality(finds[rank]) > 1 -> "several"
    [] OTHER -> "no_match"

\* The reading after the selectors were tried: the verdict and its element.
Matched(r, finds) ==
  [r EXCEPT !.verdict = Verdict(finds),
            !.elem = IF Verdict(finds) = "agreement"
                     THEN CHOOSE e \in Elements : Found(finds) = {e} ELSE NoElement]

-----------------------------------------------------------------------------
(* Rung 0.                                                                 *)

Trying == IF st.trying = "patch" THEN page.patch ELSE page.recorded

\* Rung 0 alone asks whether the page settled quietly or at its time limit.
Settle0 ==
  /\ Goto("settle0", "match0")
  /\ moved' = FALSE
  /\ \E quiet \in BOOLEAN : read' = [read EXCEPT !.quiet = quiet]
  /\ UNCHANGED <<page, task, st, late, over>>

Match0 ==
  Proceed("match0", "look0", [st EXCEPT !.held = Found(Trying)], Matched(read, Trying))

\* The identity a fingerprint recorded, confirmed by Playwright.
SameAs(name, look) == look # Gone /\ look.name = name /\ look.sure

Expected == IF st.trying = "patch" THEN "patched" ELSE "recorded"

Outcome0 ==
  CASE read.verdict = "agreement" ->
         IF SameAs(Expected, page.looks[read.elem]) THEN "resolved" ELSE "drifted"
    [] read.verdict \in {"disagreement", "several"} -> "ambiguous"
    [] OTHER -> "not_found"

Released(s) == [s EXCEPT !.held = {}]

Decisive(outcome) ==
  \/ read.quiet /\ outcome # "not_found"
  \/ Late
  \/ st.trying = "patch"

\* A reading counts only if the DOM held still while it was taken.
Stable == ~moved

Target(s, elem, name) ==
  [Released(s) EXCEPT !.elem = elem, !.name = name, !.pinned = @ \cup {elem},
                      !.via = IF s.trying = "patch" THEN "patch" ELSE "recorded"]

Resolve0 ==
  /\ Stable /\ Outcome0 = "resolved"
  /\ Goto("look0", "ready")
  /\ st' = Target(st, read.elem, page.looks[read.elem].name)
  /\ read' = NoReading
  /\ late' = (late /\ st.trying # "patch")
  /\ UNCHANGED <<page, moved, task, over>>

Wait0 ==
  /\ ~(Stable /\ (Outcome0 = "resolved" \/ Decisive(Outcome0)))
  /\ ~(~Stable /\ Late)
  /\ Goto("look0", "wait0")
  /\ moved' = FALSE
  /\ st' = Released(st)
  /\ read' = [NoReading EXCEPT !.last = IF Stable THEN Outcome0 ELSE read.last]
  /\ UNCHANGED <<page, task, late, over>>

Waited0 == (moved \/ Late) /\ Proceed("wait0", "settle0", st, read)

Healable(failure) == failure \in {"not_found", "ambiguous", "drifted"}

HasPatch(t, failure) == t.patch /\ failure \in {"not_found", "drifted"}

\* Rung 0 gives up: a failure of the recorded target is healed, after a pending
\* patch's target was tried; a page that never held still fails the step.
Fail0 ==
  /\ \/ Stable /\ Outcome0 # "resolved" /\ Decisive(Outcome0)
     \/ ~Stable /\ Late
  /\ LET failure == IF Stable THEN Outcome0 ELSE read.last
         failing == Released(st)
     IN CASE st.trying = "patch" -> Proceed("look0", "climb", failing, NoReading)
          [] ~Healable(failure) /\ st.trying # "patch" -> Finish("look0", failing, "failed")
          [] st.trying = "recorded" /\ HasPatch(task, failure) ->
               /\ Goto("look0", "settle0")
               /\ st' = [failing EXCEPT !.trying = "patch"]
               /\ read' = NoReading /\ late' = FALSE
               /\ UNCHANGED <<page, moved, task, over>>
          [] OTHER -> Proceed("look0", "climb", failing, NoReading)

Rung0 ==
  \/ Settle0 \/ Match0 \/ Resolve0 \/ Wait0 \/ Waited0 \/ Fail0

-----------------------------------------------------------------------------
(* Climbing: rungs 1 and 2.                                                *)

NoTarget(s) ==
  [s EXCEPT !.trying = "again", !.via = "none", !.elem = NoElement, !.name = "none",
            !.judged = Gone, !.rung = 0]

Climb ==
  IF over
  THEN Finish("climb", st, "failed")
  ELSE /\ Goto("climb", "settle1")
       /\ st' = [NoTarget(st) EXCEPT !.healing = TRUE]
       /\ read' = NoReading /\ late' = FALSE
       /\ UNCHANGED <<page, moved, task, over>>

MutReadAgain(from, settle) ==
  ~Stable /\ Proceed(from, settle, Released(st), NoReading)

\* A reading the page changed under is taken again until the heal deadline.
ReadAgain(from, settle) ==
  /\ ~Stable
  /\ IF over THEN Finish(from, Released(st), "failed")
     ELSE Proceed(from, settle, Released(st), NoReading)

Match1 ==
  Proceed("match1", "look1", [st EXCEPT !.held = Found(page.alternate)],
          Matched(read, page.alternate))

Excluded(look) == Signature(look) \in st.excluded

Rung1Accepts(look) ==
  /\ SameAs("recorded", look)
  /\ ~Excluded(look) /\ look.safe /\ look.score >= Threshold

\* An element a rung accepts, with the name it was confirmed under and the
\* look every rule judged.
Accept(from, rung, elem, judged, confirmed) ==
  Proceed(from, "gate",
          [st EXCEPT !.rung = rung, !.elem = elem, !.judged = judged, !.name = confirmed,
                     !.held = {elem}], NoReading)

Rung1 ==
  \/ Settle("settle1", "match1")
  \/ Match1
  \/ pc = "look1" /\ ReadAgain("look1", "settle1")
  \/ /\ pc = "look1" /\ Stable /\ read.verdict = "agreement" /\ Rung1Accepts(page.looks[read.elem])
     /\ Accept("look1", 1, read.elem, page.looks[read.elem], page.looks[read.elem].name)
  \/ /\ pc = "look1" /\ Stable /\ ~(read.verdict = "agreement" /\ Rung1Accepts(page.looks[read.elem]))
     /\ Proceed("look1", "settle2", Released(st), NoReading)

Ranked(looks) == {e \in Elements : looks[e] # Gone /\ ~Excluded(looks[e])}

Tops(looks, ranked) == {e \in ranked : \A o \in ranked : looks[o].score <= looks[e].score}

MutLeads(looks, ranked, top) == TRUE

\* The margin is over the best other candidate that no rule refused.
Leads(looks, ranked, top) ==
  \A o \in ranked \ {top} : looks[o].safe => looks[top].score >= looks[o].score + Margin

Decision(looks, ranked, top) ==
  CASE ~looks[top].safe -> "top_rejected"
    [] looks[top].safe /\ looks[top].score < Threshold -> "below_threshold"
    [] looks[top].safe /\ looks[top].score >= Threshold /\ ~Leads(looks, ranked, top) -> "below_margin"
    [] OTHER -> "accepted"

\* A model is asked, or an approved pick is found again, only after these.
TakesUp(decision) ==
  /\ decision \in {"below_threshold", "below_margin"}
  /\ IF task.approved = <<>> THEN task.model ELSE task.approvedRung = 3

\* Nothing was accepted: an abstention, or an approval that no longer fits.
Declines(from) == Finish(from, Released(st), "failed")

Scan2 ==
  /\ Stable /\ pc = "scan2"
  /\ LET looks == page.looks
         ranked == Ranked(looks)
         scanned == [NoReading EXCEPT !.looks = looks]
     IN IF Cardinality(Present(page)) > CandidateCap \/ ranked = {}
        THEN Declines("scan2")
        ELSE \E top \in Tops(looks, ranked) :
               LET decision == Decision(looks, ranked, top)
                   holding == [st EXCEPT !.held = ranked]
               IN CASE decision = "accepted" ->
                         Proceed("scan2", "confirm2", holding, [scanned EXCEPT !.elem = top])
                    [] decision # "accepted" /\ TakesUp(decision) ->
                         Proceed("scan2", "ask3", holding, scanned)
                    [] OTHER -> Declines("scan2")

\* The winner's identity is read again, to be confirmed: what it is called now
\* is what the target will be checked against before the action.
Confirm2 ==
  LET now == page.looks[read.elem]
  IN \/ /\ now # Gone /\ now.sure
        /\ Accept("confirm2", 2, read.elem, read.looks[read.elem], now.name)
     \/ /\ now = Gone \/ ~now.sure
        /\ pc = "confirm2" /\ Declines("confirm2")

Rung2 ==
  \/ Settle("settle2", "scan2")
  \/ pc = "scan2" /\ ReadAgain("scan2", "settle2")
  \/ Scan2
  \/ pc = "confirm2" /\ Confirm2

-----------------------------------------------------------------------------
(* Rung 3: a model chooses, and its pick is judged again.                  *)

Eligible(looks) == {e \in Ranked(looks) : looks[e].safe /\ looks[e].shares}

LookAlike(looks, e) ==
  \E o \in Eligible(looks) \ {e} : Describe(looks[o]) = Describe(looks[e])

Verifiable(t) == t.checkpoints # "none"

MutLimit(t, login) == MaxAttempts

\* An authentication step gets fewer attempts: the recording reads as one, or
\* the element submits a password form.
Limit(t, login) == IF t.authenticates \/ login THEN AuthAttempts ELSE MaxAttempts

MayAsk(t) == Verifiable(t) /\ st.used < Limit(t, FALSE)

\* The eligible candidates a model is shown: the best ones.
Shown(looks) ==
  {s \in SUBSET Eligible(looks) :
     /\ Cardinality(s) = IF Cardinality(Eligible(looks)) < ShownToModel
                         THEN Cardinality(Eligible(looks)) ELSE ShownToModel
     /\ \A e \in s, o \in Eligible(looks) \ s : looks[e].score >= looks[o].score}

\* The element an approval was given for, looked for among the others.
Matches(look, approved) == Identity(look) = approved

Pick(e) == Proceed("ask3", "judge3", st, [read EXCEPT !.elem = e])

Ask3 ==
  LET looks == read.looks
      asked == /\ Eligible(looks) # {} /\ MayAsk(task)
               /\ \A e \in Tops(looks, Eligible(looks)) : ~LookAlike(looks, e)
  IN /\ pc = "ask3"
     /\ \/ /\ \/ task.approved = <<>>
              \/ \A e \in Eligible(looks) : ~Matches(looks[e], task.approved)
           /\ Declines("ask3")
        \/ task.approved = <<>> /\ asked /\ \E s \in Shown(looks), e \in Elements : e \in s /\ Pick(e)
        \/ /\ task.approved # <<>>
           /\ \E e \in Eligible(looks) : Matches(looks[e], task.approved) /\ Pick(e)

\* Rules only a model's pick faces: some recorded context, and a recorded
\* identifier when the checkpoints cannot tell it from another element.
PickRules(t, look) == look.near /\ (t.checkpoints = "strong" \/ look.keeps)

Unchanged(now, then) == now.name = then.name /\ Describe(now) = Describe(then)

Judge3 ==
  LET then == read.looks[read.elem]
      now == page.looks[read.elem]
      holds == /\ ~LookAlike(read.looks, read.elem)
               /\ now # Gone
               /\ now.safe /\ PickRules(task, now) /\ Unchanged(now, then) /\ now.sure
               /\ Stable
  IN /\ pc = "judge3"
     /\ IF holds THEN Accept("judge3", 3, read.elem, then, now.name) ELSE Declines("judge3")

Rung3 == Ask3 \/ Judge3

-----------------------------------------------------------------------------
(* Gates.                                                                  *)

Irreversible(t) == t.risk = "irreversible"

OverLimit(s, t) == s.used >= Limit(t, s.judged.login)

\* An approval holds for its element only, on what the element is.
IsApproved(s, t) ==
  t.approved # <<>> /\ Identity(s.judged) = t.approved /\ s.name = t.approved[1]

\* What the ladder accepted is not what the person approved.
Stale(s, t) == t.approved # <<>> /\ ~IsApproved(s, t)

Gate ==
  LET stale == Stale(st, task)
      proposes == Irreversible(task) /\ task.approved = <<>>
      healed == [st EXCEPT !.via = "healed", !.pinned = @ \cup {st.elem}, !.held = {}]
  IN /\ pc = "gate"
     /\ CASE stale \/ ~Verifiable(task) -> Finish("gate", Released(st), "failed")
          [] ~stale /\ Verifiable(task) /\ proposes ->
               Finish("gate", [Released(st) EXCEPT !.proposal = Identity(st.judged)], "awaiting")
          [] ~stale /\ Verifiable(task) /\ ~proposes /\ OverLimit(st, task) ->
               Finish("gate", Released(st), "failed")
          [] OTHER ->
               /\ Goto("gate", "ready")
               /\ st' = healed /\ late' = FALSE
               /\ UNCHANGED <<page, moved, task, read, over>>

-----------------------------------------------------------------------------
(* Performing the step on its target.                                      *)

Look == page.looks[st.elem]

\* Read again before the action: removed, renamed, or unable to take it.
Unsuitable ==
  \/ Look = Gone
  \/ Look.name # st.name
  \/ Look.ready = "never"
  \/ Look.ready = "waits" /\ Late

Ready ==
  /\ pc = "ready" /\ ~Unsuitable /\ Look.ready = "yes"
  /\ Proceed("ready", "act", st, read)

Unpinned(s) == [s EXCEPT !.pinned = @ \ {s.elem}]

\* Nothing was performed: a healed or pending target is left for the ladder.
BeforeActionError ==
  /\ \/ pc = "ready" /\ Unsuitable
     \/ pc = "act" /\ (Look = Gone \/ Look.ready # "yes")
  /\ CASE st.via = "recorded" -> Finish(pc, st, "failed")
       [] st.via = "patch" -> Proceed(pc, "climb", Unpinned(st), read)
       [] OTHER -> Proceed(pc, "climb",
                           [Unpinned(st) EXCEPT !.excluded = @ \cup {Signature(st.judged)}], read)

\* What the code took the element to be.
Acting == IF st.via = "healed" THEN st.judged ELSE Look

\* The action reaches the element, and the page answers it.
Act ==
  /\ Goto("act", "verify")
  /\ Look # Gone /\ Look.ready = "yes"
  /\ \E next \in Pages : page' = next
  /\ st' = [st EXCEPT !.acts = @ + 1,
                      !.logins = IF task.authenticates \/ Acting.login THEN @ + 1 ELSE @]
  /\ UNCHANGED <<moved, task, read, late, over>>

Counted(s) == IF s.via = "healed" THEN [s EXCEPT !.used = @ + 1] ELSE s

ChecksPass == Finish("verify", Counted(st), "succeeded")

PageProblem == Finish("verify", st, "failed")

Disproved(s) ==
  [Counted(s) EXCEPT !.excluded = @ \cup {Signature(s.judged)},
                     !.failed = @ \cup {Signature(s.judged)}]

ChecksFail ==
  CASE st.via # "healed" ->
         Finish("verify", st,
                IF st.via = "patch" /\ Irreversible(task) THEN "needs_review" ELSE "failed")
    [] st.via = "healed" /\ Irreversible(task) -> Finish("verify", Disproved(st), "needs_review")
    [] st.via = "healed" /\ ~Irreversible(task) /\ OverLimit(Disproved(st), task) ->
         Finish("verify", Disproved(st), "failed")
    [] OTHER -> Proceed("verify", "restore", Disproved(st), NoReading)

Perform ==
  Ready \/ BeforeActionError \/ Act \/ ChecksPass \/ PageProblem \/ ChecksFail

-----------------------------------------------------------------------------
(* Recovery from a failed heal.                                            *)

MutMayReplay(t) == TRUE

MayReplay(t) == t.before # "irreversible"

\* What a failed fill typed is cleared, the segment's first page is opened
\* again, its earlier steps are replayed, and rung 0 tries the restored page.
Restore ==
  /\ MayReplay(task)
  /\ Goto("restore", "settle0")
  /\ \E next \in Pages : page' = next
  /\ st' = [NoTarget(Unpinned(st)) EXCEPT !.replayed = task.before # "none"]
  /\ late' = FALSE
  /\ UNCHANGED <<moved, task, read, over>>

\* Restoring would repeat an irreversible step, a replay fails, the page opens
\* elsewhere, or a replayed step's own heal is not found again.
RestoreFails == Finish("restore", Unpinned(st), "failed")

Recover == Restore \/ RestoreFails

-----------------------------------------------------------------------------
(* The page, the clock, and the browser.                                   *)

Reading == {"match0", "look0", "match1", "look1", "scan2", "confirm2", "judge3"}

\* A page that cannot be read fails the step where it stands.
Unreadable ==
  /\ pc \in Reading
  /\ Proceed(pc, "done", Ended(st, "unreadable"), NoReading)

Change ==
  /\ pc # "done"
  /\ page' \in Pages \ {page}
  /\ moved' = (pc \in Comparing)
  /\ UNCHANGED <<pc, task, st, read, late, over>>

\* Resolving and acting have a deadline of their own; the ladder has the heal's.
Timed == {"settle0", "match0", "look0", "wait0", "ready", "act"}

StepDeadline ==
  /\ pc \in Timed /\ ~late /\ late' = TRUE
  /\ UNCHANGED <<page, moved, pc, task, st, read, over>>

HealDeadline ==
  /\ pc # "done" /\ st.healing /\ ~over /\ over' = TRUE
  /\ UNCHANGED <<page, moved, pc, task, st, read, late>>

Work ==
  Rung0 \/ Climb \/ Rung1 \/ Rung2 \/ Rung3 \/ Gate \/ Perform \/ Recover

Done == pc = "done" /\ UNCHANGED vars

Next == Work \/ Unreadable \/ Change \/ StepDeadline \/ HealDeadline \/ Done

Spec == Init /\ [][Next]_vars
=============================================================================
