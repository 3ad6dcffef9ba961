------------------------------ MODULE ModelRung ------------------------------
(***************************************************************************)
(* Rung 3: what rung 2 could not decide between is described to a model,   *)
(* which answers a number or null, and the element of that number is read  *)
(* again and judged by every rule before anything may act on it.           *)
(*                                                                         *)
(* The page may change at every await, the provider may answer anything,   *)
(* and the budgets, the breaker and the time limits may end a call.        *)
(***************************************************************************)
EXTENDS HealRules, ModelReplies, SequencesExt

CONSTANTS
  Order,         \* the elements of the page, best ranked first
  Absent,        \* an element that is not on the page
  Steps,         \* the steps: action, recorded control, checkpoints, ...
  Pages,         \* what each element may be when rung 2 reads the page
  Changes,       \* what an element may become
  MaxChanges,    \* how often the page may change (bound)
  Providers,     \* the wire formats
  Responses,     \* what one request may come back with
  ShownToModel,  \* model.candidates_k
  MaxAttemptsOf, \* healing.max_attempts and authentication_max_attempts
  Plain,         \* the words that hold a secret
  Encoded,       \* the words that hold one in base64
  Folding,       \* what NFKC makes of a word that is not in normal form
  Redacted       \* what stands for a secret that was removed

\* A normal form is its own, and the mark of a secret holds none.
ASSUME ScrubAssumption ==
  /\ \A w \in DOMAIN Folding : Folding[w] \notin DOMAIN Folding
  /\ Redacted \notin Plain \cup Encoded \cup DOMAIN Folding

ControlFields ==
  {"tag", "role", "type", "attrs", "name", "text", "label", "near", "entry", "masked",
   "submits", "inForm", "password", "downloads"}

ASSUME RungAssumption == ShownToModel \in Nat

\* What is read of an element is a control's facts, whole.
ASSUME PagesAssumption ==
  /\ Order \in Seq(ToSet(Order))
  /\ \A p \in Pages : \A e \in ToSet(Order) :
       p[e] # Absent => p[e] = [f \in ControlFields |-> p[e][f]]

\* A body says how many tokens it took, or does not, and chooses a number.
ASSUME ProvidersAssumption ==
  /\ Providers \subseteq {"gemini", "openai_compatible", "ollama"}
  /\ \A response \in Responses :
       response.body.tokens \in BOOLEAN /\ response.body.text.choice \in Int

VARIABLES
  page,      \* what each element is now
  changes,   \* how often the page has changed since rung 2 read it
  step,      \* the step at hand
  read,      \* what rung 2 read of each element
  provider,  \* the model's wire format
  pc,        \* the await the rung is at
  rung,      \* what the rung has shown, asked, read and decided
  call,      \* the call at hand
  known      \* the words the provider has been sent

vars == <<page, changes, step, read, provider, pc, rung, call, known>>

-----------------------------------------------------------------------------
(* What a model is shown.                                                  *)

\* A secret's own forms leave a mark, its base64 forms none.
ScrubOutbound(text) ==
  (text \ (Plain \cup Encoded)) \cup {Redacted : w \in text \cap Plain}

Fold(text) == {IF w \in DOMAIN Folding THEN Folding[w] ELSE w : w \in text}

MutDisplayText(text) == Fold(ScrubOutbound(text))

\* Scrubbed, normalized, and scrubbed again.
DisplayText(text) == ScrubOutbound(Fold(ScrubOutbound(text)))

Kind(control) ==
  IF control.tag = "input" /\ control.type # "" THEN <<control.role, control.type>>
  ELSE IF control.role # "" THEN <<control.role>> ELSE <<control.tag>>

\* The visible text is shown only where it differs from the name.
Describe(control) ==
  [kind |-> Kind(control),
   name |-> DisplayText(control.name),
   label |-> DisplayText(control.label),
   text |-> IF control.text = control.name THEN {} ELSE DisplayText(control.text),
   near |-> DisplayText(control.near)]

WordsOf(d) == d.name \cup d.label \cup d.text \cup d.near

\* The words of the messages that ask: the intent, the recording, the list.
RenderMessages(shown) ==
  DisplayText(step.intent) \cup WordsOf(Describe(step.recorded))
    \cup UNION {WordsOf(Describe(read[e])) : e \in ToSet(shown)}

\* What a repair adds: the unusable reply.
RepairMessages(echo) == ScrubOutbound(echo)

-----------------------------------------------------------------------------
(* The candidates.                                                         *)

Scanned(e) ==
  read[e] # Absent /\ ActionAccepts(step.action, InteractionClass(read[e]))

\* A candidate a model may be shown.
IsEligible(e) ==
  /\ Scanned(e)
  /\ SafetyRejection(step, read[e]) = "none"
  /\ SharesIdentity(step.recorded, read[e])

\* They keep the page's order: the n-th has n of them up to and with itself.
Eligible ==
  LET places == {i \in DOMAIN Order : IsEligible(Order[i])} IN
  [n \in 1..Cardinality(places) |->
     Order[CHOOSE i \in places : Cardinality({j \in places : j <= i}) = n]]

MutHasLookAlike(e) ==
  \E o \in ToSet(rung.shown) \ {e} : Describe(read[o]) = Describe(read[e])

\* Another eligible candidate, shown or not, reads exactly like this one.
HasLookAlike(e) ==
  \E o \in ToSet(Order) \ {e} : IsEligible(o) /\ Describe(read[o]) = Describe(read[e])

\* The gates that stop the step whatever a model would choose.
BeforeAsking ==
  IF ~IsVerifiable(step) THEN "unverifiable"
  ELSE IF step.used >= MaxAttemptsOf[AuthenticationStep(step, FALSE)] THEN "no_attempts"
  ELSE "none"

-----------------------------------------------------------------------------

NoCall == [purpose |-> "choose", attempt |-> 0]

NoTotals == [calls |-> 0, attempts |-> 0, tokens |-> 0, unreported |-> 0]

NoRung ==
  [shown |-> <<>>, calls |-> <<>>, totals |-> NoTotals, pick |-> Absent,
   now |-> Absent, sure |-> TRUE, outcome |-> "none"]

Init ==
  /\ step \in Steps
  /\ read \in Pages
  /\ page = read /\ changes = 0
  /\ provider \in Providers
  /\ pc = "begin"
  /\ rung = NoRung /\ call = NoCall /\ known = {}

Goto(from, to) == pc = from /\ pc' = to

Still == UNCHANGED <<page, changes, step, read, provider>>

\* The rung returns: every element but an accepted pick is released.
Finish(from, outcome, r) ==
  /\ Goto(from, "done") /\ rung' = [r EXCEPT !.outcome = outcome]
  /\ UNCHANGED <<call, known>> /\ Still

\* A pick with a twin means nothing; any other is read again.
Judging(from, e, r) ==
  IF HasLookAlike(e)
    THEN Finish(from, "choice_refused", [r EXCEPT !.pick = e])
    ELSE /\ Goto(from, "identify") /\ rung' = [r EXCEPT !.pick = e]
         /\ UNCHANGED <<call, known>> /\ Still

\* An earlier pick, or the element a person approved, is judged again without
\* asking.
Reuse ==
  /\ pc = "begin" /\ step.reuse # Absent
  /\ LET found == {i \in DOMAIN Order : IsEligible(Order[i]) /\ read[Order[i]] = step.reuse} IN
     IF found = {} THEN Finish("begin", "no_eligible", rung)
     ELSE Judging("begin", Order[Min(found)], rung)

Begin ==
  /\ pc = "begin" /\ step.reuse = Absent
  /\ IF Eligible = <<>> THEN Finish("begin", "no_eligible", rung)
     ELSE IF HasLookAlike(Head(Eligible)) THEN Finish("begin", "look_alikes", rung)
     ELSE IF BeforeAsking # "none" THEN Finish("begin", "not_asked", rung)
     ELSE /\ Goto("begin", "reserve")
          /\ rung' = [rung EXCEPT !.shown =
                        SubSeq(Eligible, 1, IF Len(Eligible) < ShownToModel THEN Len(Eligible)
                                            ELSE ShownToModel)]
          /\ UNCHANGED <<call, known>> /\ Still

\* The run's or the day's budget is used up, or cannot be counted.
UsedUp == Finish("reserve", "budget_exhausted", rung)

\* The call was counted; its messages go out with its first request.
Send ==
  /\ Goto("reserve", "waiting")
  /\ call' = [call EXCEPT !.attempt = 1]
  /\ known' = known \cup RenderMessages(rung.shown)
  /\ UNCHANGED rung /\ Still

MutPlus(totals, attempts, tokens) ==
  [totals EXCEPT !.calls = @ + 1, !.attempts = @ + attempts, !.tokens = @ + 1]

\* A call's usage is added up; tokens that were not reported are never read as
\* none.
Plus(totals, attempts, tokens) ==
  [calls |-> totals.calls + 1, attempts |-> totals.attempts + attempts,
   tokens |-> totals.tokens + (IF tokens THEN 1 ELSE 0),
   unreported |-> totals.unreported + (IF tokens THEN 0 ELSE 1)]

\* The requests the provider really received.
Sent == IF pc = "pausing" THEN call.attempt - 1 ELSE call.attempt

\* The call is recorded.
Recorded(outcome, attempts, tokens) ==
  [rung EXCEPT
     !.totals = Plus(@, attempts, tokens),
     !.calls = Append(@, [purpose |-> call.purpose, outcome |-> outcome, attempts |-> attempts,
                          tokens |-> tokens, sent |-> Sent, choice |-> Null])]

Unavailable(from, outcome, attempts) ==
  Finish(from, "model_unavailable", Recorded(outcome, attempts, FALSE))

\* An open breaker refuses the call, and no request is made.
Refused ==
  /\ pc = "reserve"
  /\ Unavailable("reserve", "circuit_open", 0)

\* A reply in the wrong shape: the first is answered by one repair call.
Invalid(text, tokens) ==
  LET r == Recorded("invalid", call.attempt, tokens) IN
  IF call.purpose = "repair" THEN Finish("waiting", "output_invalid", r)
  ELSE /\ Goto("waiting", "reserve") /\ rung' = r
       /\ call' = [NoCall EXCEPT !.purpose = "repair"]
       /\ known' = known \cup RepairMessages(IF text.echo THEN known ELSE {})
       /\ Still

\* A reply in the right shape: null abstains, a number off the list too.
Answered(choice, tokens) ==
  LET r == [Recorded("answered", call.attempt, tokens) EXCEPT
              !.calls[Len(rung.calls) + 1].choice = choice]
  IN IF choice = Null THEN Finish("waiting", "model_abstained", r)
     ELSE IF ~OnTheList(choice, Len(rung.shown)) THEN Finish("waiting", "choice_out_of_range", r)
     ELSE Judging("waiting", rung.shown[choice], r)

\* A response arrived: a body is decoded and its text parsed.
Arrives ==
  /\ pc = "waiting"
  /\ \E response \in Responses :
       /\ Arrived(response)
       /\ LET decoded == Decode(provider, response.body) IN
          IF decoded.completion = "malformed"
            THEN Unavailable("waiting", "malformed", call.attempt)
            ELSE IF Problem(decoded) # "none" THEN Invalid(decoded.text, decoded.tokens)
            ELSE Answered(decoded.text.choice, decoded.tokens)

\* A request failed, and no attempt or no time is left for another.
Fails ==
  /\ pc = "waiting"
  /\ \E response \in Responses :
       ~Arrived(response) /\ Unavailable("waiting", "failed", call.attempt)

MutPauses ==
  /\ Goto("waiting", "pausing")
  /\ \E response \in Responses : ~Arrived(response) /\ MayRetry(response, call.attempt)
  /\ UNCHANGED <<rung, call, known>> /\ Still

\* It is made again after a pause.
Pauses ==
  /\ Goto("waiting", "pausing")
  /\ \E response \in Responses : ~Arrived(response) /\ MayRetry(response, call.attempt)
  /\ call' = [call EXCEPT !.attempt = @ + 1]
  /\ UNCHANGED <<rung, known>> /\ Still

Retries ==
  /\ Goto("pausing", "waiting")
  /\ UNCHANGED <<rung, call, known>> /\ Still

\* The pause took the time that was left; the attempt it led to sends nothing.
NoTimeLeft ==
  /\ pc = "pausing"
  /\ Unavailable("pausing", "failed", call.attempt)

\* The call's own time limit cancels it, and its requests are not told.
TimesOut ==
  /\ pc \in {"waiting", "pausing"}
  /\ Unavailable(pc, "timeout", 0)

-----------------------------------------------------------------------------
(* Judging a pick on what it is now.                                       *)

Refuse(from) == Finish(from, "choice_refused", rung)

\* Its identity is read, and whether Playwright finds the same role and name.
Identify ==
  /\ pc = "identify"
  /\ IF page[rung.pick] = Absent THEN Refuse("identify")
     ELSE /\ Goto("identify", "facts")
          /\ \E sure \in BOOLEAN :
               rung' = [rung EXCEPT !.now = page[rung.pick], !.sure = sure]
          /\ UNCHANGED <<call, known>> /\ Still

\* What the identity is of: tag, role, type and name.
WithIdentity(facts, identity) ==
  [facts EXCEPT !.tag = identity.tag, !.role = identity.role,
                !.type = identity.type, !.name = identity.name]

\* What refuses the pick as it is now, or because it changed after the choice.
Unsafe(current) ==
  \/ SafetyRejection(step, current) # "none"
  \/ ContextRejected(step.recorded, current)
  \/ VerificationRejected(step, current)
  \/ Describe(current) # Describe(read[rung.pick])
  \/ ~rung.sure

\* Its facts are read, in another await, and every rule judges the two.
Facts ==
  /\ pc = "facts"
  /\ IF page[rung.pick] = Absent THEN Refuse("facts")
     ELSE LET current == WithIdentity(page[rung.pick], rung.now) IN
          IF Unsafe(current) THEN Refuse("facts")
          ELSE /\ Goto("facts", "epoch") /\ rung' = [rung EXCEPT !.now = current]
               /\ UNCHANGED <<call, known>> /\ Still

PageStable == changes = 0

\* Last, the page must be the one that was ranked.
Epoch ==
  /\ pc = "epoch"
  /\ Finish("epoch", IF PageStable THEN "resolved" ELSE "page_never_stable", rung)

-----------------------------------------------------------------------------

Rung3 ==
  \/ Reuse \/ Begin \/ UsedUp \/ Send \/ Refused
  \/ Arrives \/ Fails \/ Pauses \/ Retries \/ NoTimeLeft \/ TimesOut
  \/ Identify \/ Facts \/ Epoch

\* Every change of the DOM moves its epoch.
PageChanges ==
  /\ pc \notin {"begin", "done"} /\ changes < MaxChanges
  /\ \E e \in DOMAIN page : \E c \in Changes :
       page[e] # c /\ page' = [page EXCEPT ![e] = c]
  /\ changes' = changes + 1
  /\ UNCHANGED <<step, read, provider, pc, rung, call, known>>

Next == Rung3 \/ PageChanges

Spec == Init /\ [][Next]_vars

\* Every await of the rung returns or reaches its time limit; the page need not
\* change.
FairSpec == Spec /\ WF_vars(Rung3)
=============================================================================
