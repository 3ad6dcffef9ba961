---------------------------- MODULE ModelRungProofs ----------------------------
(***************************************************************************)
(* The rung: nothing that holds a secret reaches a provider, for any page, *)
(* step, reply and number of calls (a word gets into a message described   *)
(* and scrubbed, folded and scrubbed again; or quoted by a repair, from    *)
(* what a provider was sent before), costs are told, and picks are sound.  *)
(* Its calls: no budget is passed, for any processes, runs and days.       *)
(***************************************************************************)
EXTENDS ModelRungProperties, ModelCallsProperties, FiniteSetTheorems, SequenceTheorems, TLAPS

\* Scrubbing a text in normal form leaves nothing that may not leave.
LEMMA ScrubbedIsSafe ==
  ASSUME NEW text, text \cap DOMAIN Folding = {}
  PROVE  ScrubOutbound(text) \cap Unsendable = {}
BY ScrubAssumption DEF ScrubOutbound, Unsendable

\* What was folded is in normal form.
LEMMA FoldedIsNormal ==
  ASSUME NEW text
  PROVE  Fold(text) \cap DOMAIN Folding = {}
BY ScrubAssumption DEF Fold

\* Scrubbing alone is not enough: folding may bring a secret back.
LEMMA DisplayIsSafe ==
  ASSUME NEW text
  PROVE  DisplayText(text) \cap Unsendable = {}
<1> DEFINE folded == Fold(ScrubOutbound(text))
<1>1. folded \cap DOMAIN Folding = {}
  BY FoldedIsNormal
<1> HIDE DEF folded
<1>2. ScrubOutbound(folded) \cap Unsendable = {}
  BY <1>1, ScrubbedIsSafe
<1> QED
  BY <1>2 DEF DisplayText, folded

\* A control's description is made of displayed texts only.
LEMMA DescriptionIsSafe ==
  ASSUME NEW control
  PROVE  WordsOf(Describe(control)) \cap Unsendable = {}
<1> DEFINE d == Describe(control)
<1>1. d.name \cap Unsendable = {} /\ d.label \cap Unsendable = {} /\ d.near \cap Unsendable = {}
  BY DisplayIsSafe DEF Describe
<1>2. d.text \cap Unsendable = {}
  BY DisplayIsSafe DEF Describe
<1> HIDE DEF d
<1> QED
  BY <1>1, <1>2 DEF WordsOf, d

\* The messages that ask: the intent, the recorded control, the listed ones.
LEMMA QuestionIsSafe ==
  ASSUME NEW shown
  PROVE  RenderMessages(shown) \cap Unsendable = {}
<1>1. DisplayText(step.intent) \cap Unsendable = {}
  BY DisplayIsSafe
<1>2. WordsOf(Describe(step.recorded)) \cap Unsendable = {}
  BY DescriptionIsSafe
<1>3. \A e : WordsOf(Describe(read[e])) \cap Unsendable = {}
  BY DescriptionIsSafe
<1> QED
  BY <1>1, <1>2, <1>3 DEF RenderMessages

\* A reply only quotes what its provider was sent.
LEMMA RepairIsSafe ==
  ASSUME SecretsStayHere, NEW echo, echo \subseteq known
  PROVE  RepairMessages(echo) \cap Unsendable = {}
<1>1. echo \cap DOMAIN Folding = {}
  BY DEF SecretsStayHere, Unsendable
<1> QED
  BY <1>1, ScrubbedIsSafe DEF RepairMessages

-----------------------------------------------------------------------------

\* The steps that tell a provider nothing.
LEMMA FinishTells ==
  ASSUME NEW from, NEW outcome, NEW r, Finish(from, outcome, r)
  PROVE  known' = known
BY DEF Finish

LEMMA JudgingTells ==
  ASSUME NEW from, NEW e, NEW r, Judging(from, e, r)
  PROVE  known' = known
<1>1. CASE HasLookAlike(e)
  BY <1>1, FinishTells DEF Judging
<1>2. CASE ~HasLookAlike(e)
  BY <1>2 DEF Judging
<1> QED
  BY <1>1, <1>2

LEMMA UnavailableTells ==
  ASSUME NEW from, NEW outcome, NEW n, Unavailable(from, outcome, n)
  PROVE  known' = known
BY FinishTells DEF Unavailable

\* An unusable reply is quoted back, or ends the rung.
LEMMA InvalidTells ==
  ASSUME SecretsStayHere, NEW text, NEW tokens, Invalid(text, tokens)
  PROVE  SecretsStayHere'
<1>1. CASE call.purpose = "repair"
  <2>1. known' = known
    BY <1>1, FinishTells DEF Invalid
  <2> QED
    BY <2>1 DEF SecretsStayHere, Unsendable
<1>2. CASE call.purpose # "repair"
  <2> DEFINE echo == IF text.echo THEN known ELSE {}
  <2>1. known' = known \cup RepairMessages(echo)
    BY <1>2 DEF Invalid
  <2>2. echo \subseteq known
    OBVIOUS
  <2> HIDE DEF echo
  <2>3. RepairMessages(echo) \cap Unsendable = {}
    BY <2>2, RepairIsSafe
  <2> QED
    BY <2>1, <2>3 DEF SecretsStayHere, Unsendable
<1> QED
  BY <1>1, <1>2

LEMMA AnsweredTells ==
  ASSUME NEW choice, NEW tokens, Answered(choice, tokens)
  PROVE  known' = known
<1> DEFINE r == [Recorded("answered", call.attempt, tokens) EXCEPT
                   !.calls[Len(rung.calls) + 1].choice = choice]
<1>1. \/ Finish("waiting", "model_abstained", r)
      \/ Finish("waiting", "choice_out_of_range", r)
      \/ Judging("waiting", rung.shown[choice], r)
  BY DEF Answered
<1> HIDE DEF r
<1> QED
  BY <1>1, FinishTells, JudgingTells

-----------------------------------------------------------------------------

\* No step of the rung, and no change of the page, tells a secret.
LEMMA SecretsStep == SecretsStayHere /\ [Next]_vars => SecretsStayHere'
<1> SUFFICES ASSUME SecretsStayHere, [Next]_vars PROVE SecretsStayHere'
  OBVIOUS
<1> USE DEF SecretsStayHere
<1>0. known' = known => SecretsStayHere'
  BY DEF Unsendable
<1>1. CASE Reuse
  BY <1>0, <1>1, FinishTells, JudgingTells DEF Reuse
<1>2. CASE Begin
  BY <1>0, <1>2, FinishTells DEF Begin
<1>3. CASE Send
  <2>1. known' = known \cup RenderMessages(rung.shown)
    BY <1>3 DEF Send
  <2> QED
    BY <2>1, QuestionIsSafe DEF Unsendable
<1>4. CASE UsedUp
  BY <1>0, <1>4, FinishTells DEF UsedUp
<1>5. CASE Refused \/ Fails \/ NoTimeLeft \/ TimesOut
  BY <1>0, <1>5, UnavailableTells DEF Refused, Fails, NoTimeLeft, TimesOut
<1>6. CASE Arrives
  <2>1. PICK response \in Responses :
          LET decoded == Decode(provider, response.body) IN
          \/ Unavailable("waiting", "malformed", call.attempt)
          \/ Invalid(decoded.text, decoded.tokens)
          \/ Answered(decoded.text.choice, decoded.tokens)
    BY <1>6 DEF Arrives
  <2> QED
    BY <1>0, <2>1, UnavailableTells, InvalidTells, AnsweredTells
<1>7. CASE Pauses \/ Retries
  BY <1>0, <1>7 DEF Pauses, Retries
<1>8. CASE Identify \/ Facts \/ Epoch
  BY <1>0, <1>8, FinishTells DEF Identify, Facts, Epoch, Refuse
<1>9. CASE PageChanges \/ UNCHANGED vars
  BY <1>0, <1>9 DEF PageChanges, vars
<1> QED
  BY <1>1, <1>2, <1>3, <1>4, <1>5, <1>6, <1>7, <1>8, <1>9 DEF Next, Rung3

\* Whatever the page shows, the steps type and the replies quote, no message to
\* a provider holds a secret, its base64 or a word that is not in normal form
\* (display_text, scrub_outbound, repair_messages).
THEOREM NoSecretIsSent == Spec => []SecretsStayHere
<1>1. Init => SecretsStayHere
  BY DEF Init, SecretsStayHere
<1> QED
  BY <1>1, SecretsStep, PTL DEF Spec

-----------------------------------------------------------------------------
(* What the calls cost.                                                    *)

CallOutcomes == {"answered", "invalid", "malformed", "failed", "timeout", "circuit_open"}

CallRecord ==
  [purpose : {"choose", "repair"}, outcome : CallOutcomes, attempts : Nat, tokens : BOOLEAN,
   sent : Int, choice : Int]

Totals == [calls : Nat, attempts : Nat, tokens : Nat, unreported : Nat]

\* A rung has exactly the parts the module gives it.
IsRung(r) ==
  r = [shown |-> r.shown, calls |-> r.calls, totals |-> r.totals, pick |-> r.pick,
       now |-> r.now, sure |-> r.sure, outcome |-> r.outcome]

\* The requests of a call are counted, except where none is told.
Counted(c) == c.outcome \in {"timeout", "circuit_open"} \/ c.attempts \in {c.sent, c.sent + 1}

\* CallsAddUp, of any calls and totals.
AddUp(calls, totals) ==
  LET answered == {i \in DOMAIN calls : calls[i].tokens} IN
  /\ totals.calls = Len(calls)
  /\ totals.tokens = Cardinality(answered)
  /\ totals.tokens + totals.unreported = totals.calls
  /\ Len(calls) <= 2
  /\ Len(calls) = 2 => calls[1].outcome = "invalid" /\ calls[2].purpose = "repair"
  /\ \A i \in DOMAIN calls : Counted(calls[i])

\* While a call is under way, it is the first, or repairs the only one before.
OneBefore(purpose, calls) ==
  IF purpose = "choose" THEN calls = <<>>
  ELSE Len(calls) = 1 /\ calls[1].outcome = "invalid"

Asking == {"reserve", "waiting", "pausing"}

CallInv ==
  /\ IsRung(rung)
  /\ rung.calls \in Seq(CallRecord) /\ rung.totals \in Totals
  /\ call \in [purpose : {"choose", "repair"}, attempt : Nat]
  /\ provider \in Providers
  /\ AddUp(rung.calls, rung.totals)
  /\ pc = "begin" => rung = NoRung /\ call = NoCall
  /\ pc \in Asking => OneBefore(call.purpose, rung.calls)
  /\ pc = "pausing" => call.attempt >= 1

\* One more call is one more call in the totals, told or not.
LEMMA OneMoreAddsUp ==
  ASSUME NEW calls \in Seq(CallRecord), NEW totals \in Totals, NEW c \in CallRecord,
         AddUp(calls, totals), OneBefore(c.purpose, calls), Counted(c)
  PROVE  /\ Append(calls, c) \in Seq(CallRecord)
         /\ Plus(totals, c.attempts, c.tokens) \in Totals
         /\ AddUp(Append(calls, c), Plus(totals, c.attempts, c.tokens))
<1> DEFINE all == Append(calls, c)
           now == Plus(totals, c.attempts, c.tokens)
           old == {i \in DOMAIN calls : calls[i].tokens}
           new == {i \in DOMAIN all : all[i].tokens}
<1>1. /\ all \in Seq(CallRecord) /\ Len(all) = Len(calls) + 1
      /\ DOMAIN all = 1..(Len(calls) + 1) /\ DOMAIN calls = 1..Len(calls)
      /\ \A i \in 1..Len(calls) : all[i] = calls[i]
      /\ all[Len(calls) + 1] = c
  BY AppendProperties
<1>2. now \in Totals
  BY DEF Plus, Totals, CallRecord
<1>3. Len(calls) \in Nat /\ Len(calls) <= 1
  <2>1. Len(calls) \in Nat
    OBVIOUS
  <2>2. calls = <<>> => Len(calls) = 0
    OBVIOUS
  <2>3. calls = <<>> \/ Len(calls) = 1
    BY Zenon DEF OneBefore
  <2> QED
    BY <2>1, <2>2, <2>3
<1>4. IsFiniteSet(old) /\ Len(calls) + 1 \notin old
  <2>1. IsFiniteSet(1..Len(calls))
    BY <1>3, FS_Interval
  <2> QED
    BY <1>1, <1>3, <2>1, FS_Subset
<1>5. new = IF c.tokens THEN old \cup {Len(calls) + 1} ELSE old
  BY <1>1, <1>3
<1>6. Cardinality(old) \in Nat /\ Cardinality(new) = Cardinality(old) + (IF c.tokens THEN 1 ELSE 0)
  <2> HIDE DEF old, new
  <2>1. Cardinality(old) \in Nat
    BY <1>4, FS_CardinalityType
  <2>2. Cardinality(old \cup {Len(calls) + 1}) = Cardinality(old) + 1
    BY <1>4, FS_AddElement
  <2>3. CASE c.tokens
    BY <1>5, <2>1, <2>2, <2>3
  <2>4. CASE ~c.tokens
    BY <1>5, <2>1, <2>4
  <2> QED
    BY <2>3, <2>4, <2>1
<1>7. now.calls = Len(all) /\ now.tokens = Cardinality(new) /\ now.tokens + now.unreported = now.calls
  <2>1. /\ totals.calls = Len(calls) /\ totals.tokens = Cardinality(old)
        /\ totals.tokens + totals.unreported = totals.calls
    BY DEF AddUp
  <2>2. now.calls = totals.calls + 1 /\ now.tokens = totals.tokens + (IF c.tokens THEN 1 ELSE 0)
        /\ now.unreported = totals.unreported + (IF c.tokens THEN 0 ELSE 1)
    BY DEF Plus
  <2>3. totals.tokens \in Nat /\ totals.unreported \in Nat
    BY DEF Totals
  <2> HIDE DEF all, now, old, new
  <2>4. CASE c.tokens
    BY <1>1, <1>3, <1>6, <2>1, <2>2, <2>3, <2>4
  <2>5. CASE ~c.tokens
    BY <1>1, <1>3, <1>6, <2>1, <2>2, <2>3, <2>5
  <2> QED
    BY <2>4, <2>5
<1>8. Len(all) = 2 => all[1].outcome = "invalid" /\ all[2].purpose = "repair"
  BY <1>1, <1>3 DEF OneBefore, CallRecord
<1>9. \A i \in DOMAIN all : Counted(all[i])
  <2>1. \A i \in DOMAIN calls : Counted(calls[i])
    BY DEF AddUp
  <2> HIDE DEF all
  <2>2. ASSUME NEW i \in DOMAIN all PROVE Counted(all[i])
    <3>1. CASE i = Len(calls) + 1
      BY <3>1, <1>1
    <3>2. CASE i # Len(calls) + 1
      <4>1. i \in DOMAIN calls /\ all[i] = calls[i]
        BY <1>1, <1>3, <3>2
      <4> QED
        BY <2>1, <4>1
    <3> QED
      BY <3>1, <3>2
  <2> QED
    BY <2>2
<1>11. Len(all) <= 2
  BY <1>1, <1>3
<1> HIDE DEF all, now
<1>10. AddUp(all, now)
  BY <1>7, <1>8, <1>9, <1>11, Zenon DEF AddUp, new
<1> QED
  BY <1>1, <1>2, <1>10 DEF all, now

\* What a call that ends is recorded as.
CallOf(outcome, attempts, tokens, choice) ==
  [purpose |-> call.purpose, outcome |-> outcome, attempts |-> attempts, tokens |-> tokens,
   sent |-> Sent, choice |-> choice]

\* The rung after one more call: nothing else of it changes.
OneMore(r, c) ==
  /\ IsRung(r)
  /\ r.shown = rung.shown /\ r.pick = rung.pick /\ r.now = rung.now /\ r.sure = rung.sure
  /\ r.outcome = rung.outcome
  /\ r.calls = Append(rung.calls, c) /\ r.totals = Plus(rung.totals, c.attempts, c.tokens)

LEMMA RecordedIsOneMore ==
  ASSUME CallInv, NEW outcome, NEW attempts, NEW tokens
  PROVE  OneMore(Recorded(outcome, attempts, tokens), CallOf(outcome, attempts, tokens, Null))
<1>1. IsRung(rung)
  BY DEF CallInv
<1> DEFINE c == CallOf(outcome, attempts, tokens, Null)
           r == Recorded(outcome, attempts, tokens)
<1>2. c.attempts = attempts /\ c.tokens = tokens
  BY DEF CallOf
<1>3. r = [[rung EXCEPT !.totals = Plus(rung.totals, attempts, tokens)] EXCEPT
             !.calls = Append(rung.calls, c)]
  BY DEF Recorded, CallOf
<1> HIDE DEF c, r
<1>4. /\ IsRung(r) /\ r.shown = rung.shown /\ r.pick = rung.pick /\ r.now = rung.now
      /\ r.sure = rung.sure /\ r.outcome = rung.outcome
      /\ r.calls = Append(rung.calls, c) /\ r.totals = Plus(rung.totals, attempts, tokens)
  BY <1>1, <1>3 DEF IsRung
<1> QED
  BY <1>2, <1>4 DEF OneMore, r, c

\* A call that is recorded adds up, whatever became of it.
LEMMA CallAddsUp ==
  ASSUME CallInv, pc \in Asking, NEW outcome \in CallOutcomes, NEW attempts \in Nat,
         NEW tokens \in BOOLEAN, NEW choice \in Int,
         Counted(CallOf(outcome, attempts, tokens, choice)),
         NEW r, OneMore(r, CallOf(outcome, attempts, tokens, choice))
  PROVE  /\ r.calls \in Seq(CallRecord) /\ r.totals \in Totals
         /\ AddUp(r.calls, r.totals)
<1> DEFINE c == CallOf(outcome, attempts, tokens, choice)
<1>1. call.purpose \in {"choose", "repair"} /\ call.attempt \in Nat
  BY DEF CallInv
<1>2. Sent \in Int
  BY <1>1 DEF Sent
<1>3. c \in CallRecord
  BY <1>1, <1>2 DEF CallOf, CallRecord
<1>4. OneBefore(c.purpose, rung.calls)
  BY DEF CallInv, CallOf
<1>5. Counted(c)
  OBVIOUS
<1>6. r.calls = Append(rung.calls, c) /\ r.totals = Plus(rung.totals, c.attempts, c.tokens)
  BY DEF OneMore
<1>7. /\ rung.calls \in Seq(CallRecord) /\ rung.totals \in Totals
      /\ AddUp(rung.calls, rung.totals)
  BY DEF CallInv
<1> HIDE DEF c
<1> QED
  BY <1>3, <1>4, <1>5, <1>6, <1>7, OneMoreAddsUp

\* A rung whose calls add up may return, and be judged.
LEMMA FinishAddsUp ==
  ASSUME CallInv, NEW from, NEW outcome, NEW r, Finish(from, outcome, r), IsRung(r),
         r.calls \in Seq(CallRecord), r.totals \in Totals, AddUp(r.calls, r.totals)
  PROVE  CallInv'
<1>1. pc' = "done" /\ rung' = [r EXCEPT !.outcome = outcome] /\ call' = call /\ provider' = provider
  BY DEF Finish, Goto, Still
<1>2. IsRung(rung') /\ rung'.calls = r.calls /\ rung'.totals = r.totals
  BY <1>1 DEF IsRung
<1> QED
  BY <1>1, <1>2 DEF CallInv, Asking

LEMMA JudgingAddsUp ==
  ASSUME CallInv, NEW from, NEW e, NEW r, Judging(from, e, r), IsRung(r),
         r.calls \in Seq(CallRecord), r.totals \in Totals, AddUp(r.calls, r.totals)
  PROVE  CallInv'
<1> DEFINE p == [r EXCEPT !.pick = e]
<1>1. IsRung(p) /\ p.calls = r.calls /\ p.totals = r.totals
  BY DEF IsRung
<1>2. CASE HasLookAlike(e)
  <2>1. Finish(from, "choice_refused", p)
    BY <1>2 DEF Judging
  <2> HIDE DEF p
  <2> QED
    BY <1>1, <2>1, FinishAddsUp
<1>3. CASE ~HasLookAlike(e)
  <2>1. pc' = "identify" /\ rung' = p /\ call' = call /\ provider' = provider
    BY <1>3 DEF Judging, Goto, Still
  <2> HIDE DEF p
  <2> QED
    BY <1>1, <2>1 DEF CallInv, Asking
<1> QED
  BY <1>2, <1>3

\* The answer's number is written into the call it answered.
LEMMA AnsweredIsOneMore ==
  ASSUME CallInv, NEW attempts \in Nat, NEW tokens \in BOOLEAN, NEW choice \in Int
  PROVE  OneMore([Recorded("answered", attempts, tokens) EXCEPT
                    !.calls[Len(rung.calls) + 1].choice = choice],
                 CallOf("answered", attempts, tokens, choice))
<1> DEFINE before == Recorded("answered", attempts, tokens)
           b == CallOf("answered", attempts, tokens, Null)
           c == CallOf("answered", attempts, tokens, choice)
           n == Len(rung.calls) + 1
           r == [before EXCEPT !.calls[n].choice = choice]
<1>1. OneMore(before, b)
  BY RecordedIsOneMore
<1>2. c = [b EXCEPT !.choice = choice] /\ c.attempts = b.attempts /\ c.tokens = b.tokens
  BY DEF CallOf
<1>3. rung.calls \in Seq(CallRecord) /\ Len(rung.calls) \in Nat
  BY DEF CallInv
<1>11. b \in CallRecord /\ c \in CallRecord
  <2>1. call.purpose \in {"choose", "repair"} /\ call.attempt \in Nat
    BY DEF CallInv
  <2>2. Sent \in Int
    BY <2>1 DEF Sent
  <2> QED
    BY <2>1, <2>2 DEF CallOf, CallRecord, CallOutcomes, Null
<1>4. r = [before EXCEPT !.calls = [before.calls EXCEPT ![n] = [before.calls[n] EXCEPT !.choice = choice]]]
  BY Zenon
<1> HIDE DEF before, b, c, r
<1>5. before.calls = Append(rung.calls, b)
  BY <1>1 DEF OneMore
<1>6. Append(rung.calls, b)[n] = b /\ DOMAIN Append(rung.calls, b) = 1..n
  BY <1>3
<1>7. [Append(rung.calls, b) EXCEPT ![n] = c] = Append(rung.calls, c)
  <2> DEFINE sb == Append(rung.calls, b)
             sc == Append(rung.calls, c)
  <2>1. sb \in Seq(CallRecord) /\ DOMAIN sb = 1..n /\ \A i \in 1..Len(rung.calls) : sb[i] = rung.calls[i]
    BY <1>3, <1>11, AppendProperties
  <2>2. /\ sc \in Seq(CallRecord) /\ DOMAIN sc = 1..n /\ sc[n] = c
        /\ \A i \in 1..Len(rung.calls) : sc[i] = rung.calls[i]
    BY <1>3, <1>11, AppendProperties
  <2> HIDE DEF sb, sc
  <2>3. n \in 1..n /\ \A i \in 1..n : i # n => i \in 1..Len(rung.calls)
    BY <1>3
  <2>4. \A i \in 1..n : [sb EXCEPT ![n] = c][i] = sc[i]
    BY <2>1, <2>2, <2>3
  <2>5. DOMAIN sc = 1..n /\ sc = [i \in 1..n |-> sc[i]]
    BY <2>2, <1>3
  <2>6. [sb EXCEPT ![n] = c] = [i \in 1..n |-> [sb EXCEPT ![n] = c][i]]
    BY <2>1
  <2>7. [sb EXCEPT ![n] = c] = sc
    BY <2>4, <2>5, <2>6
  <2> QED
    BY <2>7 DEF sb, sc
<1>8. r = [before EXCEPT !.calls = Append(rung.calls, c)]
  BY <1>2, <1>4, <1>5, <1>6, <1>7
<1>9. /\ IsRung(r) /\ r.shown = before.shown /\ r.pick = before.pick /\ r.now = before.now
      /\ r.sure = before.sure /\ r.outcome = before.outcome
      /\ r.calls = Append(rung.calls, c) /\ r.totals = before.totals
  BY <1>1, <1>8 DEF IsRung, OneMore
<1>10. OneMore(r, c)
  BY <1>1, <1>2, <1>9 DEF OneMore
<1> QED
  BY <1>10 DEF before, c, r

\* The steps that end a call without an answer.
LEMMA UnavailableAddsUp ==
  ASSUME CallInv, pc \in Asking, NEW from, NEW outcome \in CallOutcomes, NEW n \in Nat,
         Counted(CallOf(outcome, n, FALSE, Null)), Unavailable(from, outcome, n)
  PROVE  CallInv'
<1> DEFINE r == Recorded(outcome, n, FALSE)
<1>1. OneMore(r, CallOf(outcome, n, FALSE, Null))
  BY RecordedIsOneMore
<1>2. Finish(from, "model_unavailable", r)
  BY DEF Unavailable
<1> HIDE DEF r
<1>3. r.calls \in Seq(CallRecord) /\ r.totals \in Totals /\ AddUp(r.calls, r.totals)
  <2>1. FALSE \in BOOLEAN /\ Null \in Int
    BY DEF Null
  <2> QED
    BY <1>1, <2>1, CallAddsUp
<1>4. IsRung(r)
  BY <1>1 DEF OneMore
<1> QED
  BY <1>2, <1>3, <1>4, FinishAddsUp

\* A request that is being waited for is counted.
LEMMA WaitingIsCounted ==
  ASSUME CallInv, pc = "waiting", NEW outcome, NEW tokens, NEW choice
  PROVE  Counted(CallOf(outcome, call.attempt, tokens, choice))
BY DEF Counted, CallOf, Sent

LEMMA InvalidAddsUp ==
  ASSUME CallInv, pc = "waiting", NEW text, NEW tokens \in BOOLEAN, Invalid(text, tokens)
  PROVE  CallInv'
<1> DEFINE r == Recorded("invalid", call.attempt, tokens)
           c == CallOf("invalid", call.attempt, tokens, Null)
<1>0. call.attempt \in Nat /\ call.purpose \in {"choose", "repair"}
  BY DEF CallInv
<1>1. OneMore(r, c)
  BY RecordedIsOneMore
<1>2. \/ call.purpose = "repair" /\ Finish("waiting", "output_invalid", r)
      \/ /\ call.purpose # "repair" /\ pc' = "reserve" /\ rung' = r /\ provider' = provider
         /\ call' = [NoCall EXCEPT !.purpose = "repair"]
  BY DEF Invalid, Goto, Still
<1>3. c.outcome = "invalid"
  BY DEF CallOf
<1>4. Counted(c)
  BY WaitingIsCounted
<1> HIDE DEF r
<1>5. r.calls \in Seq(CallRecord) /\ r.totals \in Totals /\ AddUp(r.calls, r.totals)
  <2>1. "invalid" \in CallOutcomes /\ Null \in Int /\ pc \in Asking
    BY DEF Null, Asking, CallOutcomes
  <2> QED
    BY <1>0, <1>1, <1>4, <2>1, CallAddsUp
<1>6. IsRung(r) /\ r.calls = Append(rung.calls, c)
  BY <1>1 DEF OneMore
<1>7. CASE Finish("waiting", "output_invalid", r)
  BY <1>5, <1>6, <1>7, FinishAddsUp
<1>8. CASE /\ call.purpose # "repair" /\ pc' = "reserve" /\ rung' = r /\ provider' = provider
           /\ call' = [NoCall EXCEPT !.purpose = "repair"]
  <2>1. rung.calls = <<>>
    BY <1>0, <1>8 DEF CallInv, Asking, OneBefore
  <2> HIDE DEF c
  <2>2. Len(r.calls) = 1 /\ r.calls[1] = c
    BY <1>6, <2>1
  <2>3. call' \in [purpose : {"choose", "repair"}, attempt : Nat] /\ call'.purpose = "repair"
    BY <1>8 DEF NoCall
  <2>4. OneBefore(call'.purpose, rung'.calls)
    BY <1>3, <1>8, <2>2, <2>3 DEF OneBefore
  <2> QED
    BY <1>5, <1>6, <1>8, <2>3, <2>4 DEF CallInv
<1> QED
  BY <1>2, <1>7, <1>8

LEMMA AnsweredAddsUp ==
  ASSUME CallInv, pc = "waiting", NEW choice \in Int, NEW tokens \in BOOLEAN,
         Answered(choice, tokens)
  PROVE  CallInv'
<1> DEFINE r == [Recorded("answered", call.attempt, tokens) EXCEPT
                   !.calls[Len(rung.calls) + 1].choice = choice]
           c == CallOf("answered", call.attempt, tokens, choice)
<1>0. call.attempt \in Nat
  BY DEF CallInv
<1>1. OneMore(r, c)
  BY <1>0, AnsweredIsOneMore
<1>2. \/ Finish("waiting", "model_abstained", r)
      \/ Finish("waiting", "choice_out_of_range", r)
      \/ Judging("waiting", rung.shown[choice], r)
  BY DEF Answered
<1>3. Counted(c)
  BY WaitingIsCounted
<1> HIDE DEF r
<1>4. r.calls \in Seq(CallRecord) /\ r.totals \in Totals /\ AddUp(r.calls, r.totals)
  <2>1. "answered" \in CallOutcomes /\ pc \in Asking
    BY DEF Asking, CallOutcomes
  <2> QED
    BY <1>0, <1>1, <1>3, <2>1, CallAddsUp
<1>5. IsRung(r)
  BY <1>1 DEF OneMore
<1> QED
  BY <1>2, <1>4, <1>5, FinishAddsUp, JudgingAddsUp

\* What a body decodes to keeps its count and its choice.
LEMMA DecodeTypes ==
  ASSUME NEW p \in Providers, NEW response \in Responses
  PROVE  LET decoded == Decode(p, response.body) IN
         /\ decoded.tokens \in BOOLEAN
         /\ decoded.completion # "malformed" => decoded.text = response.body.text
<1> DEFINE body == response.body
<1>1. body.tokens \in BOOLEAN /\ p \in {"gemini", "openai_compatible", "ollama"}
  BY ProvidersAssumption
<1> HIDE DEF body
<1>2. GeminiDecode(body).tokens \in BOOLEAN
      /\ (GeminiDecode(body).completion # "malformed" => GeminiDecode(body).text = body.text)
  BY <1>1 DEF GeminiDecode, Malformed, Withheld, Ended, Decoded
<1>3. OpenAIDecode(body).tokens \in BOOLEAN
      /\ (OpenAIDecode(body).completion # "malformed" => OpenAIDecode(body).text = body.text)
  BY <1>1 DEF OpenAIDecode, Malformed, Withheld, Ended, Decoded
<1>4. OllamaDecode(body).tokens \in BOOLEAN
      /\ (OllamaDecode(body).completion # "malformed" => OllamaDecode(body).text = body.text)
  BY <1>1 DEF OllamaDecode, Malformed, Ended, Decoded
<1>5. Decode(p, body) \in {GeminiDecode(body), OpenAIDecode(body), OllamaDecode(body)}
  BY <1>1 DEF Decode
<1> QED
  BY <1>2, <1>3, <1>4, <1>5 DEF body

\* Judging what a pick is now, and what it was chosen among, makes no call.
LEMMA QuietStepAddsUp ==
  ASSUME CallInv, IsRung(rung'), rung'.calls = rung.calls, rung'.totals = rung.totals,
         call' = call, provider' = provider, pc' \notin Asking \cup {"begin"}
  PROVE  CallInv'
BY DEF CallInv, Asking

LEMMA CallInvInit == Init => CallInv
<1> SUFFICES ASSUME Init PROVE CallInv
  OBVIOUS
<1>1. rung = NoRung /\ call = NoCall /\ provider \in Providers /\ pc = "begin"
  BY DEF Init
<1>2. <<>> \in Seq(CallRecord) /\ Len(<<>>) = 0 /\ DOMAIN <<>> = {}
  BY EmptySeq
<1>3. AddUp(<<>>, NoTotals)
  <2>1. {i \in DOMAIN <<>> : <<>>[i].tokens} = {} /\ Cardinality({}) = 0
    BY <1>2, FS_EmptySet
  <2> QED
    BY <1>2, <2>1 DEF AddUp, NoTotals
<1>4. IsRung(NoRung) /\ NoRung.calls = <<>> /\ NoRung.totals = NoTotals /\ NoTotals \in Totals
  BY DEF IsRung, NoRung, NoTotals, Totals
<1>5. NoCall \in [purpose : {"choose", "repair"}, attempt : Nat]
  BY DEF NoCall
<1> QED
  BY <1>1, <1>2, <1>3, <1>4, <1>5 DEF CallInv, Asking

LEMMA CallInvStep == CallInv /\ [Next]_vars => CallInv'
<1> SUFFICES ASSUME CallInv, [Next]_vars PROVE CallInv'
  OBVIOUS
<1>0. /\ IsRung(rung) /\ rung.calls \in Seq(CallRecord) /\ rung.totals \in Totals
      /\ call \in [purpose : {"choose", "repair"}, attempt : Nat] /\ provider \in Providers
      /\ AddUp(rung.calls, rung.totals)
  BY DEF CallInv
<1>1. CASE Reuse
  <2>1. \/ Finish("begin", "no_eligible", rung)
        \/ \E e : Judging("begin", e, rung)
    BY <1>1 DEF Reuse
  <2> QED
    BY <1>0, <2>1, FinishAddsUp, JudgingAddsUp
<1>2. CASE Begin
  <2>1. CASE \E outcome : Finish("begin", outcome, rung)
    BY <1>0, <2>1, FinishAddsUp
  <2>2. CASE ~\E outcome : Finish("begin", outcome, rung)
    <3>1. pc = "begin" /\ pc' = "reserve" /\ call' = call /\ provider' = provider
          /\ \E s : rung' = [rung EXCEPT !.shown = s]
      BY <1>2, <2>2 DEF Begin, Goto, Still
    <3>2. call = NoCall /\ rung.calls = <<>>
      BY <3>1 DEF CallInv, NoRung
    <3>3. IsRung(rung') /\ rung'.calls = rung.calls /\ rung'.totals = rung.totals
      BY <1>0, <3>1 DEF IsRung
    <3> QED
      BY <1>0, <3>1, <3>2, <3>3 DEF CallInv, OneBefore, NoCall
  <2> QED
    BY <2>1, <2>2
<1>3. CASE UsedUp
  BY <1>0, <1>3, FinishAddsUp DEF UsedUp
<1>4. CASE Send
  <2>1. /\ pc = "reserve" /\ pc' = "waiting" /\ call' = [call EXCEPT !.attempt = 1]
        /\ rung' = rung /\ provider' = provider
    BY <1>4 DEF Send, Goto, Still
  <2>2. call'.purpose = call.purpose /\ call' \in [purpose : {"choose", "repair"}, attempt : Nat]
    BY <1>0, <2>1
  <2> QED
    BY <2>1, <2>2 DEF CallInv, Asking
<1>5. CASE Refused
  <2>1. pc \in Asking /\ Unavailable("reserve", "circuit_open", 0)
    BY <1>5 DEF Refused, Asking
  <2>2. Counted(CallOf("circuit_open", 0, FALSE, Null)) /\ "circuit_open" \in CallOutcomes
    BY DEF Counted, CallOf, CallOutcomes
  <2> QED
    BY <2>1, <2>2, UnavailableAddsUp
<1>6. CASE Arrives
  <2>1. pc = "waiting" /\ pc \in Asking /\ call.attempt \in Nat
    BY <1>0, <1>6 DEF Arrives, Asking
  <2>2. PICK response \in Responses :
          LET decoded == Decode(provider, response.body) IN
          \/ Unavailable("waiting", "malformed", call.attempt)
          \/ decoded.completion # "malformed" /\ Invalid(decoded.text, decoded.tokens)
          \/ decoded.completion # "malformed" /\ Answered(decoded.text.choice, decoded.tokens)
    BY <1>6 DEF Arrives
  <2> DEFINE decoded == Decode(provider, response.body)
  <2>3. /\ decoded.tokens \in BOOLEAN
        /\ decoded.completion # "malformed" => decoded.text = response.body.text
    BY <1>0, DecodeTypes
  <2>4. response.body.text.choice \in Int
    BY ProvidersAssumption
  <2>5. Counted(CallOf("malformed", call.attempt, FALSE, Null)) /\ "malformed" \in CallOutcomes
    BY <2>1, WaitingIsCounted DEF CallOutcomes
  <2> HIDE DEF decoded
  <2>6. \/ Unavailable("waiting", "malformed", call.attempt)
        \/ Invalid(decoded.text, decoded.tokens)
        \/ decoded.text.choice \in Int /\ Answered(decoded.text.choice, decoded.tokens)
    BY <2>2, <2>3, <2>4 DEF decoded
  <2> QED
    BY <2>1, <2>3, <2>5, <2>6, UnavailableAddsUp, InvalidAddsUp, AnsweredAddsUp
<1>7. CASE Fails
  <2>1. pc = "waiting" /\ pc \in Asking /\ Unavailable("waiting", "failed", call.attempt)
    BY <1>7 DEF Fails, Asking
  <2>2. Counted(CallOf("failed", call.attempt, FALSE, Null)) /\ "failed" \in CallOutcomes
    BY <2>1, WaitingIsCounted DEF CallOutcomes
  <2>3. call.attempt \in Nat
    BY <1>0
  <2> QED
    BY <2>1, <2>2, <2>3, UnavailableAddsUp
<1>8. CASE Pauses \/ Retries
  <2>1. /\ pc \in Asking /\ pc' \in {"waiting", "pausing"} /\ rung' = rung /\ provider' = provider
        /\ (call' = call /\ pc' = "waiting") \/ call' = [call EXCEPT !.attempt = @ + 1]
    BY <1>8 DEF Pauses, Retries, Goto, Still, Asking
  <2>2. /\ call'.purpose = call.purpose /\ call' \in [purpose : {"choose", "repair"}, attempt : Nat]
        /\ pc' = "pausing" => call'.attempt >= 1
    BY <1>0, <2>1
  <2> QED
    BY <2>1, <2>2 DEF CallInv, Asking
<1>9. CASE NoTimeLeft
  <2>1. pc = "pausing" /\ pc \in Asking /\ Unavailable("pausing", "failed", call.attempt)
    BY <1>9 DEF NoTimeLeft, Asking
  <2>2. call.attempt \in Nat
    BY <1>0
  <2>3. Counted(CallOf("failed", call.attempt, FALSE, Null)) /\ "failed" \in CallOutcomes
    BY <2>1, <2>2 DEF Counted, CallOf, Sent, CallOutcomes
  <2> QED
    BY <2>1, <2>2, <2>3, UnavailableAddsUp
<1>10. CASE TimesOut
  <2>1. pc \in Asking /\ Unavailable(pc, "timeout", 0)
    BY <1>10 DEF TimesOut, Asking
  <2>2. Counted(CallOf("timeout", 0, FALSE, Null)) /\ "timeout" \in CallOutcomes
    BY DEF Counted, CallOf, CallOutcomes
  <2> QED
    BY <2>1, <2>2, UnavailableAddsUp
<1>11. CASE Identify \/ Facts \/ Epoch
  <2>1. CASE \E from, outcome : Finish(from, outcome, rung)
    BY <1>0, <2>1, FinishAddsUp
  <2>2. CASE ~\E from, outcome : Finish(from, outcome, rung)
    <3>1. \E now, sure : rung' = [rung EXCEPT !.now = now, !.sure = sure] \/ rung' = [rung EXCEPT !.now = now]
      BY <1>11, <2>2 DEF Identify, Facts, Epoch, Refuse
    <3>2. pc' \in {"facts", "epoch"} /\ call' = call /\ provider' = provider
      BY <1>11, <2>2 DEF Identify, Facts, Epoch, Refuse, Goto, Still
    <3>3. IsRung(rung') /\ rung'.calls = rung.calls /\ rung'.totals = rung.totals
      BY <1>0, <3>1 DEF IsRung
    <3> QED
      BY <3>2, <3>3, QuietStepAddsUp DEF Asking
  <2> QED
    BY <2>1, <2>2
<1>12. CASE PageChanges \/ UNCHANGED vars
  <2>1. UNCHANGED <<rung, call, provider, pc>>
    BY <1>12 DEF PageChanges, vars
  <2> QED
    BY <2>1 DEF CallInv
<1> QED
  BY <1>1, <1>2, <1>3, <1>4, <1>5, <1>6, <1>7, <1>8, <1>9, <1>10, <1>11, <1>12 DEF Next, Rung3

\* Whatever the provider answers, refuses or leaves out, and whichever limit ends
\* a call, what a run says its calls cost adds up: each is counted once, and a
\* second one only repairs the first (ModelUsageTotals.plus, _Rung3._record).
THEOREM CostsAreTold == Spec => []CallsAddUp
<1>1. CallInv => CallsAddUp
  BY DEF CallInv, AddUp, Counted, CallsAddUp
<1> QED
  BY <1>1, CallInvInit, CallInvStep, PTL DEF Spec

-----------------------------------------------------------------------------
(* What is accepted.                                                       *)

\* The places of the eligible elements, in the page's order.
Places == {i \in DOMAIN Order : IsEligible(Order[i])}

Place(n) == CHOOSE i \in Places : Cardinality({j \in Places : j <= i}) = n

LEMMA OrderIsSeq == DOMAIN Order = 1..Len(Order) /\ Len(Order) \in Nat
                    /\ \A i \in DOMAIN Order : Order[i] \in ToSet(Order)
<1>1. Order \in Seq(ToSet(Order))
  BY PagesAssumption
<1> QED
  BY <1>1 DEF ToSet

\* Among a finite set of numbers, every place in their order is some number's.
LEMMA EveryPlaceIsTaken ==
  ASSUME NEW K, NEW m \in Nat, K \subseteq 1..m, NEW n \in 1..Cardinality(K)
  PROVE  \E i \in K : Cardinality({j \in K : j <= i}) = n
<1> DEFINE Upto(i) == {j \in K : j <= i}
<1>1. IsFiniteSet(K) /\ Cardinality(K) \in Nat
  <2>1. IsFiniteSet(1..m)
    BY FS_Interval
  <2> QED
    BY <2>1, FS_Subset, FS_CardinalityType
<1>2. ASSUME NEW i \in K
      PROVE  IsFiniteSet(Upto(i)) /\ Cardinality(Upto(i)) \in 1..Cardinality(K)
  <2>1. Upto(i) \subseteq K /\ i \in Upto(i)
    OBVIOUS
  <2> HIDE DEF Upto
  <2>2. IsFiniteSet(Upto(i)) /\ Cardinality(Upto(i)) <= Cardinality(K)
    BY <1>1, <2>1, FS_Subset
  <2>3. Cardinality(Upto(i)) \in Nat /\ Cardinality(Upto(i)) # 0
    BY <2>1, <2>2, FS_CardinalityType, FS_EmptySet
  <2> QED
    BY <1>1, <2>2, <2>3
<1>3. ASSUME NEW i \in K, NEW k \in K, i < k
      PROVE  Cardinality(Upto(i)) # Cardinality(Upto(k))
  <2>0. \A j \in K : j \in Int
    OBVIOUS
  <2>1. Upto(i) \subseteq Upto(k) /\ k \in Upto(k) /\ k \notin Upto(i)
    <3>1. \A j \in K : j <= i => j <= k
      BY <1>3, <2>0
    <3>2. k <= k /\ ~(k <= i)
      BY <1>3, <2>0
    <3> QED
      BY <3>1, <3>2
  <2>2. IsFiniteSet(Upto(k))
    BY <1>2
  <2> HIDE DEF Upto
  <2> QED
    BY <2>1, <2>2, FS_Subset
<1> SUFFICES ASSUME ~\E i \in K : Cardinality(Upto(i)) = n PROVE FALSE
  OBVIOUS
<1> DEFINE T == (1..Cardinality(K)) \ {n}
           f == [i \in K |-> Cardinality(Upto(i))]
<1>4. IsFiniteSet(1..Cardinality(K)) /\ Cardinality(1..Cardinality(K)) = Cardinality(K)
  <2>1. Cardinality(K) >= 1
    BY <1>1
  <2> QED
    BY <1>1, <2>1, FS_Interval
<1>5. IsFiniteSet(T) /\ Cardinality(T) = Cardinality(K) - 1
  BY <1>4, FS_RemoveElement
<1>6. f \in [K -> T]
  <2>1. \A i \in K : Cardinality(Upto(i)) \in T
    BY <1>2
  <2> HIDE DEF Upto, T
  <2> QED
    BY <2>1
<1> HIDE DEF T, f
<1>7. \E i \in K : \E k \in K : i # k /\ f[i] = f[k]
  <2>1. Cardinality(T) < Cardinality(K)
    BY <1>1, <1>5
  <2> QED
    BY <1>1, <1>5, <1>6, <2>1, FS_PigeonHole
<1>8. \A i \in K : f[i] = Cardinality(Upto(i))
  BY DEF f
<1> HIDE DEF Upto
<1>9. PICK i \in K, k \in K : i # k /\ Cardinality(Upto(i)) = Cardinality(Upto(k))
  BY <1>7, <1>8
<1>10. i \in Nat /\ k \in Nat
  OBVIOUS
<1> QED
  BY <1>3, <1>9, <1>10

\* The listed candidates are elements of the page.
LEMMA EligibleAreListed == Eligible \in Seq(ToSet(Order))
<1>1. Places \subseteq 1..Len(Order) /\ Len(Order) \in Nat
  BY OrderIsSeq DEF Places
<1>2. IsFiniteSet(Places) /\ Cardinality(Places) \in Nat
  <2>1. IsFiniteSet(1..Len(Order))
    BY <1>1, FS_Interval
  <2> QED
    BY <1>1, <2>1, FS_Subset, FS_CardinalityType
<1>3. ASSUME NEW n \in 1..Cardinality(Places)
      PROVE  Place(n) \in Places
  <2>1. \E i \in Places : Cardinality({j \in Places : j <= i}) = n
    BY <1>1, EveryPlaceIsTaken
  <2> QED
    BY <2>1 DEF Place
<1>4. Eligible = [n \in 1..Cardinality(Places) |-> Order[Place(n)]]
  BY DEF Eligible, Places, Place
<1>5. \A n \in 1..Cardinality(Places) : Order[Place(n)] \in ToSet(Order)
  BY <1>3, OrderIsSeq DEF Places
<1> QED
  BY <1>2, <1>4, <1>5

\* What is shown is the first of what is listed.
LEMMA FirstAreListed ==
  ASSUME NEW n \in Nat
  PROVE  SubSeq(Eligible, 1, IF Len(Eligible) < n THEN Len(Eligible) ELSE n) \in Seq(ToSet(Order))
BY EligibleAreListed

\* The first place of any is one of them.
LEMMA FirstPlace ==
  ASSUME NEW K, K \subseteq DOMAIN Order, K # {}
  PROVE  Min(K) \in K
<1>1. K \subseteq 1..Len(Order) /\ Len(Order) \in Nat
  BY OrderIsSeq
<1>2. Cardinality(K) \in Nat /\ Cardinality(K) # 0
  <2>1. IsFiniteSet(K)
    BY <1>1, FS_Interval, FS_Subset
  <2> QED
    BY <2>1, FS_CardinalityType, FS_EmptySet
<1>3. PICK i \in K : Cardinality({j \in K : j <= i}) = 1
  <2>1. 1 \in 1..Cardinality(K)
    BY <1>2
  <2> QED
    BY <1>1, <2>1, EveryPlaceIsTaken
<1> DEFINE Upto == {j \in K : j <= i}
<1>4. PICK one : Upto = {one}
  <2>1. IsFiniteSet(Upto)
    BY <1>1, FS_Interval, FS_Subset
  <2> HIDE DEF Upto
  <2> QED
    BY <1>3, <2>1, FS_Singleton DEF Upto
<1>5. \A k \in K : i <= k
  <2>1. i \in Upto /\ \A k \in K : k < i => k \in Upto
    BY <1>1
  <2> QED
    BY <1>1, <1>4, <2>1
<1> QED
  BY <1>5 DEF Min

\* The pick is the one that was answered, or remembered, and the only one of
\* its description.
ChosenByAnswer ==
  IF step.reuse # Absent THEN read[rung.pick] = step.reuse
  ELSE LET last == rung.calls[Len(rung.calls)] IN
       /\ last.outcome = "answered"
       /\ last.choice \in 1..Len(rung.shown) /\ rung.shown[last.choice] = rung.pick

Picked == rung.pick \in ToSet(Order) /\ ~HasLookAlike(rung.pick) /\ ChosenByAnswer

\* Where a pick is judged.
Judged == {"identify", "facts", "epoch"}

\* A pick that is judged safe was there when it was ranked; as long as the page
\* has not changed, what is read of it now is what was ranked.
Safe == read[rung.pick] # Absent /\ SafetyRejection(step, read[rung.pick]) = "none"

PickInv ==
  /\ changes \in Nat /\ (changes = 0 => page = read) /\ read \in Pages
  /\ rung.shown \in Seq(ToSet(Order))
  /\ pc # "done" => rung.outcome = "none"
  /\ pc \in Asking => step.reuse = Absent
  /\ pc \in Judged => Picked
  /\ pc = "facts" /\ changes = 0 => read[rung.pick] # Absent /\ rung.now = read[rung.pick]
  /\ pc = "epoch" /\ changes = 0 => Safe
  /\ Chosen => changes = 0 /\ Picked /\ Safe

\* What is refused for none of the rules is no worse than what was recorded.
LEMMA SameClass ==
  ASSUME NEW recorded, NEW found, CompareKinds(recorded, found) # "incompatible"
  PROVE  InteractionClass(found) = InteractionClass(recorded)
BY DEF CompareKinds

LEMMA NoNewDanger ==
  ASSUME NEW action, NEW recorded, NEW found, IntroducedDanger(recorded, found) = {},
         ClassifyRisk(action, recorded) # "irreversible",
         ClassifyRisk(action, found) = "irreversible"
  PROVE  found.name \cap ((recorded.text \cup recorded.label) \cap DangerWords) # {}
<1>1. action \notin {"fill", "select"} /\ DangerWordsIn(found.name) # {}
  BY DEF ClassifyRisk
<1>2. DangerWordsIn(recorded.name) = {}
  BY <1>1 DEF ClassifyRisk
<1>3. \A text : DangerWordsIn(text) \subseteq text \cap DangerWords
  BY DEF DangerWordsIn
<1>4. PICK w : w \in DangerWordsIn(found.name)
  BY <1>1
<1>5. \E text \in Texts(recorded) : w \in DangerWordsIn(text)
  <2> DEFINE before == UNION {DangerWordsIn(t) : t \in Texts(recorded)}
             after == UNION {DangerWordsIn(t) : t \in Texts(found)}
  <2>1. w \in after
    BY <1>4 DEF Texts
  <2>3. after \ before = {}
    BY DEF IntroducedDanger
  <2>2. w \in before
    <3> HIDE DEF before, after
    <3> QED
      BY <2>1, <2>3
  <2> QED
    BY <2>2
<1>6. w \in DangerWordsIn(recorded.text) \/ w \in DangerWordsIn(recorded.label)
  BY <1>2, <1>5 DEF Texts
<1> QED
  BY <1>3, <1>4, <1>6

LEMMA SafeIsNoWorse ==
  ASSUME NEW found, SafetyRejection(step, found) = "none"
  PROVE  LET recorded == step.recorded
             elsewhere == (recorded.text \cup recorded.label) \cap DangerWords
         IN /\ ClassifyRisk(step.action, recorded) # "irreversible" =>
                 \/ ClassifyRisk(step.action, found) # "irreversible"
                 \/ found.name \cap elsewhere # {}
            /\ InteractionClass(found) = InteractionClass(recorded)
            /\ step.action = "fill" => (step.secret => found.masked)
<1>1. IntroducedDanger(step.recorded, found) = {}
  BY DEF SafetyRejection
<1>2. CompareKinds(step.recorded, found) # "incompatible"
  BY DEF SafetyRejection
<1>3. ~CredentialRejected(step, found)
  BY DEF SafetyRejection
<1>4. step.action = "fill" /\ step.secret => found.masked
  BY <1>3, Zenon DEF CredentialRejected, IsCredentialStep
<1> QED
  BY <1>1, <1>2, <1>4, SameClass, NoNewDanger

LEMMA AcceptedIsSound == PickInv => PickIsSound
<1> SUFFICES ASSUME PickInv, Chosen PROVE PickIsTheControlShown /\ NothingWorseThanRecorded
  BY DEF PickIsSound, PickIsTheControlShown, NothingWorseThanRecorded
<1>1. page = read /\ Picked /\ Safe
  BY DEF PickInv
<1>2. NothingWorseThanRecorded
  BY <1>1, SafeIsNoWorse DEF NothingWorseThanRecorded, Safe
<1>3. ASSUME NEW e \in ToSet(Order) \ {rung.pick}, page[e] # Absent, Scanned(e),
             SafetyRejection(step, page[e]) = "none", SharesIdentity(step.recorded, page[e])
      PROVE  Describe(page[e]) # Describe(page[rung.pick])
  BY <1>1, <1>3 DEF Picked, HasLookAlike, IsEligible
<1>4. PickIsTheControlShown
  BY <1>1, <1>3 DEF PickIsTheControlShown, Picked, Safe, ChosenByAnswer
<1> QED
  BY <1>2, <1>4

-----------------------------------------------------------------------------

\* A pick stays one while the step and what was read of the page do.
LEMMA PickedStays ==
  ASSUME Picked, UNCHANGED <<step, read>>, rung'.pick = rung.pick,
         rung'.calls = rung.calls, rung'.shown = rung.shown
  PROVE  Picked'
<1>1. HasLookAlike(rung.pick)' = HasLookAlike(rung.pick)
  BY DEF HasLookAlike, IsEligible, Scanned
<1>2. ChosenByAnswer' = ChosenByAnswer
  BY DEF ChosenByAnswer
<1> QED
  BY <1>1, <1>2 DEF Picked

\* A rung that returns without an accepted pick.
LEMMA FinishPicks ==
  ASSUME PickInv, NEW from, NEW outcome, outcome # "resolved", NEW r, IsRung(r),
         r.shown \in Seq(ToSet(Order)), Finish(from, outcome, r)
  PROVE  PickInv'
<1>1. /\ pc' = "done" /\ rung' = [r EXCEPT !.outcome = outcome]
      /\ UNCHANGED <<page, changes, step, read>>
  BY DEF Finish, Goto, Still
<1>2. rung'.shown = r.shown /\ rung'.outcome = outcome
  BY <1>1 DEF IsRung
<1> QED
  BY <1>1, <1>2 DEF PickInv, Asking, Judged, Chosen

\* A pick that is to be judged: it is of the page, and chosen.
LEMMA JudgingPicks ==
  ASSUME PickInv, NEW from, NEW e \in ToSet(Order), NEW r, IsRung(r), r.outcome = "none",
         r.shown \in Seq(ToSet(Order)), Judging(from, e, r),
         IF step.reuse # Absent THEN read[e] = step.reuse
         ELSE LET last == r.calls[Len(r.calls)] IN
              /\ last.outcome = "answered"
              /\ last.choice \in 1..Len(r.shown) /\ r.shown[last.choice] = e
  PROVE  PickInv'
<1> DEFINE p == [r EXCEPT !.pick = e]
<1>1. /\ IsRung(p) /\ p.shown = r.shown /\ p.calls = r.calls /\ p.outcome = r.outcome
      /\ p.pick = e
  BY DEF IsRung
<1>2. CASE HasLookAlike(e)
  <2>1. Finish(from, "choice_refused", p)
    BY <1>2 DEF Judging
  <2> HIDE DEF p
  <2> QED
    BY <1>1, <2>1, FinishPicks
<1>3. CASE ~HasLookAlike(e)
  <2>1. pc' = "identify" /\ rung' = p /\ UNCHANGED <<page, changes, step, read>>
    BY <1>3 DEF Judging, Goto, Still
  <2> HIDE DEF p
  <2>2. HasLookAlike(rung.pick)' = HasLookAlike(e)
    BY <1>1, <2>1 DEF HasLookAlike, IsEligible, Scanned
  <2>3. Picked'
    BY <1>1, <1>3, <2>1, <2>2 DEF Picked, ChosenByAnswer
  <2> QED
    BY <1>1, <2>1, <2>3 DEF PickInv, Asking, Judged, Chosen
<1> QED
  BY <1>2, <1>3

\* The steps that leave what was picked, and the page, alone.
LEMMA AskingPicks ==
  ASSUME PickInv, step.reuse = Absent, pc' \in Asking, rung'.outcome = "none",
         rung'.shown \in Seq(ToSet(Order)), UNCHANGED <<page, changes, step, read>>
  PROVE  PickInv'
BY DEF PickInv, Asking, Judged, Chosen

LEMMA PickInvInit == Init => PickInv
<1> SUFFICES ASSUME Init PROVE PickInv
  OBVIOUS
<1>1. /\ read \in Pages /\ page = read /\ changes = 0 /\ pc = "begin" /\ rung = NoRung
  BY DEF Init
<1>2. NoRung.shown = <<>> /\ NoRung.outcome = "none" /\ <<>> \in Seq(ToSet(Order))
  BY EmptySeq DEF NoRung
<1> QED
  BY <1>1, <1>2 DEF PickInv, Asking, Judged, Chosen

\* An answer that is on the list is an element of the page, and was answered.
LEMMA AnsweredPicks ==
  ASSUME CallInv, PickInv, pc = "waiting", NEW choice \in Int, NEW tokens \in BOOLEAN,
         Answered(choice, tokens)
  PROVE  PickInv'
<1> DEFINE r == [Recorded("answered", call.attempt, tokens) EXCEPT
                   !.calls[Len(rung.calls) + 1].choice = choice]
           c == CallOf("answered", call.attempt, tokens, choice)
<1>0. call.attempt \in Nat /\ rung.calls \in Seq(CallRecord) /\ call.purpose \in {"choose", "repair"}
  BY DEF CallInv
<1>1. OneMore(r, c)
  BY <1>0, AnsweredIsOneMore
<1>2. \/ Finish("waiting", "model_abstained", r)
      \/ Finish("waiting", "choice_out_of_range", r)
      \/ choice \in 1..Len(rung.shown) /\ Judging("waiting", rung.shown[choice], r)
  BY DEF Answered, OnTheList
<1>3. rung.shown \in Seq(ToSet(Order)) /\ rung.outcome = "none" /\ step.reuse = Absent
  BY DEF PickInv, Asking
<1>4. c \in CallRecord /\ c.outcome = "answered" /\ c.choice = choice
  <2>1. Sent \in Int
    BY <1>0 DEF Sent
  <2> QED
    BY <1>0, <2>1 DEF CallOf, CallRecord, CallOutcomes
<1> HIDE DEF r, c
<1>5. IsRung(r) /\ r.shown = rung.shown /\ r.outcome = "none" /\ r.calls = Append(rung.calls, c)
  BY <1>1, <1>3 DEF OneMore
<1>6. r.calls[Len(r.calls)] = c
  BY <1>0, <1>4, <1>5
<1>7. CASE choice \in 1..Len(rung.shown) /\ Judging("waiting", rung.shown[choice], r)
  <2>1. rung.shown[choice] \in ToSet(Order)
    BY <1>3, <1>7
  <2> QED
    BY <1>3, <1>4, <1>5, <1>6, <1>7, <2>1, JudgingPicks
<1> QED
  BY <1>2, <1>3, <1>5, <1>7, FinishPicks

\* A repair is asked about the same candidates.
LEMMA InvalidPicks ==
  ASSUME CallInv, PickInv, pc = "waiting", NEW text, NEW tokens, Invalid(text, tokens)
  PROVE  PickInv'
<1> DEFINE r == Recorded("invalid", call.attempt, tokens)
<1>1. OneMore(r, CallOf("invalid", call.attempt, tokens, Null))
  BY RecordedIsOneMore
<1>2. \/ Finish("waiting", "output_invalid", r)
      \/ pc' = "reserve" /\ rung' = r /\ UNCHANGED <<page, changes, step, read>>
  BY DEF Invalid, Goto, Still
<1> HIDE DEF r
<1>3. rung.shown \in Seq(ToSet(Order)) /\ rung.outcome = "none" /\ step.reuse = Absent
  BY DEF PickInv, Asking
<1>4. IsRung(r) /\ r.shown = rung.shown /\ r.outcome = "none"
  BY <1>1, <1>3 DEF OneMore
<1> QED
  BY <1>2, <1>3, <1>4, FinishPicks, AskingPicks DEF Asking

LEMMA UnavailablePicks ==
  ASSUME CallInv, PickInv, NEW from, NEW outcome, NEW n, Unavailable(from, outcome, n)
  PROVE  PickInv'
<1> DEFINE r == Recorded(outcome, n, FALSE)
<1>1. OneMore(r, CallOf(outcome, n, FALSE, Null))
  BY RecordedIsOneMore
<1>2. Finish(from, "model_unavailable", r)
  BY DEF Unavailable
<1> HIDE DEF r
<1>3. IsRung(r) /\ r.shown = rung.shown
  BY <1>1 DEF OneMore
<1>4. rung.shown \in Seq(ToSet(Order))
  BY DEF PickInv
<1> QED
  BY <1>2, <1>3, <1>4, FinishPicks

\* A control's identity is read of the control it is put on.
LEMMA SameIdentity ==
  ASSUME NEW control, control = [f \in ControlFields |-> control[f]]
  PROVE  WithIdentity(control, control) = control
<1>1. {"tag", "role", "type", "name"} \subseteq ControlFields
  BY DEF ControlFields
<1> QED
  BY <1>1 DEF WithIdentity

LEMMA PickInvStep == CallInv /\ PickInv /\ [Next]_vars => PickInv'
<1> SUFFICES ASSUME CallInv, PickInv, [Next]_vars PROVE PickInv'
  OBVIOUS
<1>0. /\ IsRung(rung) /\ rung.shown \in Seq(ToSet(Order)) /\ read \in Pages
      /\ pc # "done" => rung.outcome = "none"
      /\ pc \in Asking => step.reuse = Absent
  BY DEF CallInv, PickInv
<1>1. CASE Reuse
  <2> DEFINE found == {i \in DOMAIN Order : IsEligible(Order[i]) /\ read[Order[i]] = step.reuse}
  <2>1. CASE found = {}
    <3>1. Finish("begin", "no_eligible", rung)
      BY <1>1, <2>1 DEF Reuse
    <3> QED
      BY <1>0, <3>1, FinishPicks
  <2>2. CASE found # {}
    <3>1. Judging("begin", Order[Min(found)], rung) /\ step.reuse # Absent /\ pc = "begin"
      BY <1>1, <2>2 DEF Reuse
    <3>2. Min(found) \in found
      <4>1. found \subseteq DOMAIN Order
        OBVIOUS
      <4> HIDE DEF found
      <4> QED
        BY <2>2, <4>1, FirstPlace
    <3>3. Order[Min(found)] \in ToSet(Order) /\ read[Order[Min(found)]] = step.reuse
      BY <3>2, OrderIsSeq
    <3> HIDE DEF found
    <3> QED
      BY <1>0, <3>1, <3>3, JudgingPicks
  <2> QED
    BY <2>1, <2>2
<1>2. CASE Begin
  <2>1. CASE \E outcome \in {"no_eligible", "look_alikes", "not_asked"} : Finish("begin", outcome, rung)
    BY <1>0, <2>1, FinishPicks
  <2>2. CASE ~\E outcome \in {"no_eligible", "look_alikes", "not_asked"} : Finish("begin", outcome, rung)
    <3>1. /\ pc = "begin" /\ pc' = "reserve" /\ step.reuse = Absent
          /\ UNCHANGED <<page, changes, step, read>>
          /\ rung' = [rung EXCEPT !.shown =
                        SubSeq(Eligible, 1, IF Len(Eligible) < ShownToModel THEN Len(Eligible)
                                            ELSE ShownToModel)]
      BY <1>2, <2>2 DEF Begin, Goto, Still
    <3> DEFINE first == SubSeq(Eligible, 1, IF Len(Eligible) < ShownToModel THEN Len(Eligible)
                                            ELSE ShownToModel)
    <3>2. first \in Seq(ToSet(Order))
      BY FirstAreListed, RungAssumption
    <3>3. rung' = [rung EXCEPT !.shown = first]
      BY <3>1
    <3> HIDE DEF first
    <3>4. rung'.shown = first /\ rung'.outcome = rung.outcome
      BY <1>0, <3>3 DEF IsRung
    <3> QED
      BY <1>0, <3>1, <3>2, <3>4, AskingPicks DEF Asking
  <2> QED
    BY <2>1, <2>2
<1>3. CASE UsedUp
  BY <1>0, <1>3, FinishPicks DEF UsedUp
<1>4. CASE Send \/ Pauses \/ Retries
  <2>1. /\ pc \in Asking /\ pc' \in Asking /\ rung' = rung /\ UNCHANGED <<page, changes, step, read>>
    BY <1>4 DEF Send, Pauses, Retries, Goto, Still, Asking
  <2>2. rung.outcome = "none"
    BY <1>0, <2>1 DEF Asking
  <2> QED
    BY <1>0, <2>1, <2>2, AskingPicks
<1>5. CASE Refused \/ Fails \/ NoTimeLeft \/ TimesOut
  BY <1>5, UnavailablePicks DEF Refused, Fails, NoTimeLeft, TimesOut
<1>6. CASE Arrives
  <2>1. pc = "waiting"
    BY <1>6 DEF Arrives
  <2>2. PICK response \in Responses :
          LET decoded == Decode(provider, response.body) IN
          \/ Unavailable("waiting", "malformed", call.attempt)
          \/ decoded.completion # "malformed" /\ Invalid(decoded.text, decoded.tokens)
          \/ decoded.completion # "malformed" /\ Answered(decoded.text.choice, decoded.tokens)
    BY <1>6 DEF Arrives
  <2> DEFINE decoded == Decode(provider, response.body)
  <2>3. /\ decoded.tokens \in BOOLEAN
        /\ decoded.completion # "malformed" => decoded.text = response.body.text
    <3>1. provider \in Providers
      BY DEF CallInv
    <3> QED
      BY <3>1, DecodeTypes
  <2>4. response.body.text.choice \in Int
    BY ProvidersAssumption
  <2> HIDE DEF decoded
  <2>5. \/ Unavailable("waiting", "malformed", call.attempt)
        \/ Invalid(decoded.text, decoded.tokens)
        \/ decoded.text.choice \in Int /\ Answered(decoded.text.choice, decoded.tokens)
    BY <2>2, <2>3, <2>4 DEF decoded
  <2> QED
    BY <2>1, <2>3, <2>5, UnavailablePicks, InvalidPicks, AnsweredPicks
<1>7. CASE Identify
  <2>1. CASE Finish("identify", "choice_refused", rung)
    BY <1>0, <2>1, FinishPicks
  <2>2. CASE ~Finish("identify", "choice_refused", rung)
    <3>1. /\ pc = "identify" /\ pc' = "facts" /\ page[rung.pick] # Absent
          /\ UNCHANGED <<page, changes, step, read>>
      BY <1>7, <2>2 DEF Identify, Refuse, Goto, Still
    <3>2. PICK sure : rung' = [rung EXCEPT !.now = page[rung.pick], !.sure = sure]
      BY <1>7, <2>2 DEF Identify, Refuse
    <3>3. /\ rung'.pick = rung.pick /\ rung'.calls = rung.calls /\ rung'.shown = rung.shown
          /\ rung'.outcome = rung.outcome /\ rung'.now = page[rung.pick]
      BY <1>0, <3>2 DEF IsRung
    <3>4. Picked'
      <4>1. Picked
        BY <3>1 DEF PickInv, Judged
      <4> QED
        BY <4>1, <3>1, <3>3, PickedStays
    <3> QED
      BY <3>1, <3>3, <3>4 DEF PickInv, Asking, Judged, Chosen
  <2> QED
    BY <2>1, <2>2
<1>8. CASE Facts
  <2>1. CASE Finish("facts", "choice_refused", rung)
    BY <1>0, <2>1, FinishPicks
  <2>2. CASE ~Finish("facts", "choice_refused", rung)
    <3> DEFINE current == WithIdentity(page[rung.pick], rung.now)
    <3>1. /\ pc = "facts" /\ pc' = "epoch" /\ page[rung.pick] # Absent /\ ~Unsafe(current)
          /\ UNCHANGED <<page, changes, step, read>> /\ rung' = [rung EXCEPT !.now = current]
      BY <1>8, <2>2 DEF Facts, Refuse, Goto, Still
    <3>2. SafetyRejection(step, current) = "none"
      BY <3>1 DEF Unsafe
    <3>3. Picked
      BY <3>1 DEF PickInv, Judged
    <3>4. changes = 0 => Safe
      <4> SUFFICES ASSUME changes = 0 PROVE Safe
        OBVIOUS
      <4>1. page = read /\ rung.now = read[rung.pick] /\ read[rung.pick] # Absent
        BY <3>1 DEF PickInv
      <4>2. read[rung.pick] = [f \in ControlFields |-> read[rung.pick][f]]
        BY <1>0, <3>3, <4>1, PagesAssumption DEF Picked
      <4>3. current = read[rung.pick]
        BY <4>1, <4>2, SameIdentity
      <4> QED
        BY <3>2, <4>1, <4>3 DEF Safe
    <3> HIDE DEF current
    <3>5. /\ rung'.pick = rung.pick /\ rung'.calls = rung.calls /\ rung'.shown = rung.shown
          /\ rung'.outcome = rung.outcome
      BY <1>0, <3>1 DEF IsRung
    <3>6. Picked'
      BY <3>1, <3>3, <3>5, PickedStays
    <3>7. Safe' = Safe
      BY <3>1, <3>5 DEF Safe
    <3> QED
      BY <3>1, <3>4, <3>5, <3>6, <3>7 DEF PickInv, Asking, Judged, Chosen
  <2> QED
    BY <2>1, <2>2
<1>9. CASE Epoch
  <2>1. CASE Finish("epoch", "page_never_stable", rung)
    BY <1>0, <2>1, FinishPicks
  <2>2. CASE changes = 0 /\ Finish("epoch", "resolved", rung)
    <3>1. /\ pc = "epoch" /\ pc' = "done" /\ UNCHANGED <<page, changes, step, read>>
          /\ rung' = [rung EXCEPT !.outcome = "resolved"]
      BY <2>2 DEF Finish, Goto, Still
    <3>2. Picked /\ Safe
      BY <2>2, <3>1 DEF PickInv, Judged
    <3>3. /\ rung'.pick = rung.pick /\ rung'.calls = rung.calls /\ rung'.shown = rung.shown
      BY <1>0, <3>1 DEF IsRung
    <3>4. Picked' /\ (Safe' = Safe)
      BY <3>1, <3>2, <3>3, PickedStays DEF Safe
    <3> QED
      BY <2>2, <3>1, <3>2, <3>3, <3>4 DEF PickInv, Asking, Judged
  <2> QED
    BY <1>9, <2>1, <2>2 DEF Epoch, PageStable
<1>10. CASE PageChanges
  <2>1. /\ pc \notin {"begin", "done"} /\ changes' = changes + 1
        /\ UNCHANGED <<step, read, pc, rung>>
    BY <1>10 DEF PageChanges
  <2>2. changes' \in Nat /\ changes' # 0
    BY <2>1 DEF PickInv
  <2>3. pc \in Judged => Picked'
    BY <2>1, PickedStays DEF PickInv
  <2> QED
    BY <2>1, <2>2, <2>3 DEF PickInv, Asking, Chosen
<1>11. CASE UNCHANGED vars
  <2>1. UNCHANGED <<page, changes, step, read, pc, rung>>
    BY <1>11 DEF vars
  <2>2. Picked => Picked'
    BY <2>1, PickedStays
  <2>3. Safe' = Safe
    BY <2>1 DEF Safe
  <2> QED
    BY <2>1, <2>2, <2>3 DEF PickInv, Chosen
<1> QED
  BY <1>1, <1>2, <1>3, <1>4, <1>5, <1>6, <1>7, <1>8, <1>9, <1>10, <1>11 DEF Next, Rung3

\* Whatever a model answers and whenever the page changes, an accepted element
\* is the control that was ranked, shown and answered, the only one of its
\* description, and no worse than the recorded one (rung3.py, checks.py,
\* heal_policy.py).
THEOREM PicksAreSound == Spec => []PickIsSound
<1>1. Init => CallInv /\ PickInv
  BY CallInvInit, PickInvInit
<1>2. (CallInv /\ PickInv) /\ [Next]_vars => (CallInv /\ PickInv)'
  BY CallInvStep, PickInvStep
<1>3. CallInv /\ PickInv => PickIsSound
  BY AcceptedIsSound
<1> QED
  BY <1>1, <1>2, <1>3, PTL DEF Spec

-----------------------------------------------------------------------------
(* The calls a rung makes: for every number of processes, runs and days,   *)
(* and every limit, their budgets hold.                                    *)

\* What a process's reservation is worth: who writes holds the lock and the
\* day's count, and a call that was counted has a count of its own.
LedgerInv ==
  /\ \A p \in Procs : thread[p].at = "write" =>
       lock = p /\ thread[p].count = ledger[thread[p].day]
  /\ \A p \in Procs : thread[p].at = "counted" => thread[p].count >= 1
  /\ CallsAreCounted

\* A process that executes a run is the only one that does; between two calls
\* its usage is what it reserved, and it reserves only what the run allows.
BudgetOf(p) ==
  /\ awaits[p] = "idle" => work[p].run = NoRun
  /\ awaits[p] # "idle" =>
       /\ work[p].run \in Runs
       /\ record[work[p].run].status = "running"
       /\ made[work[p].run] <= work[p].reserved
       /\ \A q \in Procs \ {p} : work[q].run # work[p].run
  /\ awaits[p] \in {"ready", "reserving"} => work[p].used = work[p].reserved
  /\ awaits[p] = "reserving" => work[p].reserved < PerRun
  /\ awaits[p] = "calling" => work[p].used + 1 = work[p].reserved

\* A run that nobody executes and that may be taken up has sent no more calls
\* than its record names.
BudgetInv ==
  /\ \A p \in Procs : BudgetOf(p)
  /\ \A r \in Runs : record[r].status \in {"new", "awaiting"} => made[r] <= record[r].calls
  /\ RunWithinBudget

Inv == TypeOK /\ LedgerInv /\ BudgetInv

LEMMA InitInv == CallsInit => Inv
<1> SUFFICES ASSUME CallsInit PROVE Inv
  OBVIOUS
<1>1. TypeOK
  BY CallsAssumption, RepliesAssumption DEF CallsInit, TypeOK, Threads, Working, Breakers, Records,
    Executing, NoThread, FreshBreaker, Days, Reservation
<1>2. LedgerInv
  BY DEF CallsInit, LedgerInv, CallsAreCounted, NoThread
<1>3. BudgetInv
  BY CallsAssumption, RepliesAssumption DEF CallsInit, BudgetInv, BudgetOf, RunWithinBudget, Executing
<1> QED
  BY <1>1, <1>2, <1>3 DEF Inv

-----------------------------------------------------------------------------
(* Types.                                                                  *)

LEMMA Idle == NoThread \in Threads /\ Executing(NoRun, 0) \in Working /\ FreshBreaker \in Breakers
BY CallsAssumption, RepliesAssumption DEF NoThread, Threads, Reservation, Days, Executing, Working,
  FreshBreaker, Breakers

\* The changes a call makes to its run's budget keep it one.
LEMMA Budgets ==
  ASSUME NEW w \in Working, NEW n \in 0..PerRun, NEW k \in 0..PerRun, NEW i \in 0..MaxAttempts
  PROVE  /\ [w EXCEPT !.reserved = n, !.attempt = i] \in Working
         /\ [w EXCEPT !.reserved = n, !.used = k] \in Working
         /\ [w EXCEPT !.used = k, !.attempt = i] \in Working
         /\ [w EXCEPT !.used = k, !.attempt = i, !.purpose = "repair"] \in Working
BY DEF Working

LEMMA TypeStep == Inv /\ [CallsNext]_callsVars => TypeOK'
<1> SUFFICES ASSUME Inv, [CallsNext]_callsVars PROVE TypeOK'
  OBVIOUS
<1> USE CallsAssumption, RepliesAssumption, Idle DEF Inv, TypeOK, To, At, Works, Thread, Breaker
<1>1. CASE UNCHANGED callsVars
  BY <1>1 DEF callsVars
<1>2. CASE Midnight
  BY <1>2 DEF Midnight, Days
<1>3. ASSUME NEW p \in Procs, NEW r \in Runs, BeginRun(p, r) PROVE TypeOK'
  <2>1. Executing(r, record[r].calls) \in Working
    BY DEF Executing, Working, Records
  <2>2. [record[r] EXCEPT !.status = "running"] \in Records
    BY DEF Records
  <2> QED
    BY <1>3, <2>1, <2>2 DEF BeginRun
<1>4. ASSUME NEW p \in Procs, NEW status \in {"awaiting", "ended"}, Stops(p, status)
      PROVE TypeOK'
  <2>1. [status |-> status, calls |-> work[p].used] \in Records
    BY DEF Records, Working
  <2> QED
    BY <1>4, <2>1 DEF Stops
<1>5. ASSUME NEW p \in Procs, Crash(p) PROVE TypeOK'
  <2>1. \A r \in Runs : [record[r] EXCEPT !.status = "ended"] \in Records
    BY DEF Records
  <2> QED
    BY <1>5, <2>1 DEF Crash
<1>6. [at |-> "lock", day |-> today, count |-> 0] \in Threads
  BY DEF Threads, Reservation
<1>7. ASSUME NEW p \in Procs, Ask(p) PROVE TypeOK'
  <2>1. [work[p] EXCEPT !.purpose = "choose"] \in Working
    BY DEF Working
  <2> QED
    BY <1>6, <1>7, <2>1 DEF Ask, StartReserving
<1>8. ASSUME NEW p \in Procs, TakesLock(p) PROVE TypeOK'
  <2>1. [thread[p] EXCEPT !.at = "write", !.count = ledger[thread[p].day]] \in Threads
    BY DEF Threads, Reservation
  <2> QED
    BY <1>8, <2>1 DEF TakesLock
<1>9. \A p \in Procs, at \in Reservation, n \in 0..PerDay :
        [thread[p] EXCEPT !.at = at, !.count = n] \in Threads
  BY DEF Threads
<1>10. \A p \in Procs : thread[p].day \in Days /\ thread[p].count \in 0..PerDay
  BY DEF Threads
<1>11. ASSUME NEW p \in Procs, FindsUsedUp(p) \/ LedgerFails(p) PROVE TypeOK'
  <2>1. PICK at \in Reservation, n \in 0..PerDay : Returns(p, at, n)
    BY <1>10, <1>11 DEF FindsUsedUp, LedgerFails, Reservation
  <2> QED
    BY <1>9, <1>11, <2>1 DEF FindsUsedUp, LedgerFails, Returns
<1>12. ASSUME NEW p \in Procs, Counts(p) \/ SyncFails(p) PROVE TypeOK'
  <2>1. thread[p].count + 1 \in 0..PerDay
    BY <1>10, <1>12 DEF Counts, SyncFails
  <2>2. PICK at \in Reservation, n \in 0..PerDay : Returns(p, at, n)
    BY <1>12, <2>1 DEF Counts, SyncFails, Reservation
  <2>3. ledger' = [ledger EXCEPT ![thread[p].day] = thread[p].count + 1]
    BY <1>12 DEF Counts, SyncFails
  <2> QED
    BY <1>9, <1>10, <2>1, <2>2, <2>3 DEF Returns
<1>13. ASSUME NEW p \in Procs, Discarded(p) \/ NotReserved(p) PROVE TypeOK'
  BY <1>13 DEF Discarded, NotReserved
<1>14. \A p \in Procs :
         /\ BudgetOf(p)
         /\ work[p] \in Working
         /\ work[p].reserved \in 0..PerRun /\ work[p].used \in 0..PerRun
  BY DEF BudgetInv, Working
<1>15. ASSUME NEW p \in Procs, Reserved(p)
       PROVE  /\ work[p].run \in Runs
              /\ work[p].reserved + 1 \in 0..PerRun
              /\ work[p].used + 1 \in 0..PerRun
  BY <1>14, <1>15 DEF Reserved, BudgetOf
<1>16. ASSUME NEW p \in Procs, SendReserved(p) \/ RefuseReserved(p) PROVE TypeOK'
  <2>1. Reserved(p)
    BY <1>16 DEF SendReserved, RefuseReserved
  <2>2. /\ [work[p] EXCEPT !.reserved = work[p].reserved + 1, !.attempt = 1] \in Working
        /\ [work[p] EXCEPT !.reserved = work[p].reserved + 1, !.used = work[p].used + 1]
             \in Working
    <3> 1 \in 0..MaxAttempts
      OBVIOUS
    <3> QED
      BY <1>14, <1>15, <2>1, Budgets
  <2>3. CASE RefuseReserved(p)
    BY <2>2, <2>3 DEF RefuseReserved
  <2>4. CASE SendReserved(p)
    <3>1. [breaker[p] EXCEPT !.trial = breaker[p].state = "half_open"] \in Breakers
      BY DEF Breakers
    <3>2. <<thread[p].day, thread[p].count>> \in Days \X (1..PerDay)
      BY <1>10, <2>1 DEF Reserved, LedgerInv
    <3> QED
      BY <1>15, <2>1, <2>2, <2>4, <3>1, <3>2 DEF SendReserved
  <2> QED
    BY <1>16, <2>3, <2>4
<1>17. ASSUME NEW p \in Procs, Retry(p) PROVE TypeOK'
  <2>1. [work[p] EXCEPT !.attempt = @ + 1] \in Working
    BY <1>17 DEF Retry, Working
  <2> QED
    BY <1>17, <2>1 DEF Retry
<1>18. ASSUME NEW p \in Procs, At(p, "calling")
       PROVE /\ [work[p] EXCEPT !.used = @ + 1, !.attempt = 0] \in Working
             /\ [work[p] EXCEPT !.used = @ + 1, !.attempt = 0, !.purpose = "repair"] \in Working
  <2>1. work[p].used + 1 \in 0..PerRun /\ 0 \in 0..MaxAttempts
    BY <1>14, <1>18 DEF BudgetOf
  <2> QED
    BY <1>14, <2>1, Budgets
<1>19. ASSUME NEW p \in Procs, ReplyArrives(p) \/ CallTimesOut(p) PROVE TypeOK'
  <2>1. At(p, "calling") /\ UsageRecorded(p)
    BY <1>19 DEF ReplyArrives, CallTimesOut
  <2>2. work' \in [Procs -> Working]
    BY <1>18, <2>1 DEF UsageRecorded
  <2>3. breaker' \in [Procs -> Breakers]
    BY <1>19 DEF ReplyArrives, CallTimesOut, Succeeded
  <2> QED
    BY <1>19, <2>2, <2>3 DEF ReplyArrives, CallTimesOut
<1>20. ASSUME NEW p \in Procs, Repairs(p) PROVE TypeOK'
  BY <1>6, <1>18, <1>20 DEF Repairs, StartReserving, Succeeded
<1>21. ASSUME NEW p \in Procs, ProviderFails(p) PROVE TypeOK'
  <2>1. Failed(breaker[p]) \in Breakers
    BY DEF Failed, Breakers
  <2> QED
    BY <1>18, <1>21, <2>1 DEF ProviderFails, UsageRecorded
<1>22. ASSUME NEW p \in Procs, PauseEnds(p) PROVE TypeOK'
  <2>1. [breaker[p] EXCEPT !.state = "half_open"] \in Breakers
    BY DEF Breakers
  <2> QED
    BY <1>22, <2>1 DEF PauseEnds
<1> QED
  BY <1>1, <1>2, <1>3, <1>4, <1>5, <1>7, <1>8, <1>11, <1>12, <1>13, <1>16,
    <1>17, <1>19, <1>20, <1>21, <1>22 DEF CallsNext, PausesRun, Ends

-----------------------------------------------------------------------------
(* The ledger.                                                             *)

LEMMA LedgerStep == Inv /\ [CallsNext]_callsVars => LedgerInv'
<1> SUFFICES ASSUME Inv, [CallsNext]_callsVars PROVE LedgerInv'
  OBVIOUS
<1> USE CallsAssumption, RepliesAssumption DEF Inv
<1>1. CASE UNCHANGED <<ledger, lock, thread, sent>>
  BY <1>1 DEF LedgerInv, CallsAreCounted
<1>2. ASSUME NEW p \in Procs, NEW t, Thread(p, t), t.at \notin {"write", "counted"},
             UNCHANGED <<ledger, sent>>, lock' = lock \/ lock = p
      PROVE  LedgerInv'
  <2>1. \A q \in Procs : q # p => thread'[q] = thread[q]
    BY <1>2 DEF Thread, TypeOK
  <2>2. thread'[p].at \notin {"write", "counted"}
    BY <1>2 DEF Thread, TypeOK
  <2> QED
    BY <1>2, <2>1, <2>2 DEF LedgerInv, CallsAreCounted
<1>3. NoThread.at = "none"
  BY DEF NoThread
<1>4. ASSUME NEW p \in Procs, Crash(p) \/ Discarded(p) \/ NotReserved(p) \/ RefuseReserved(p)
      PROVE  LedgerInv'
  BY <1>2, <1>3, <1>4 DEF Crash, Discarded, NotReserved, RefuseReserved
<1>5. ASSUME NEW p \in Procs, Ask(p) \/ Repairs(p) PROVE LedgerInv'
  BY <1>2, <1>5 DEF Ask, Repairs, StartReserving
<1>6. ASSUME NEW p \in Procs, FindsUsedUp(p) \/ LedgerFails(p) PROVE LedgerInv'
  <2>1. PICK at \in {"used_up", "failed"}, n \in Int : Returns(p, at, n)
    BY <1>6 DEF FindsUsedUp, LedgerFails, TypeOK, Threads
  <2>2. [thread[p] EXCEPT !.at = at, !.count = n].at = at
    BY DEF TypeOK, Threads
  <2> QED
    BY <1>2, <1>6, <2>1, <2>2 DEF FindsUsedUp, LedgerFails, Returns
<1>7. ASSUME NEW p \in Procs, TakesLock(p) PROVE LedgerInv'
  <2>1. \A q \in Procs : q # p => thread'[q] = thread[q] /\ thread[q].at # "write"
    BY <1>7 DEF TakesLock, Thread, TypeOK, LedgerInv
  <2>2. /\ thread'[p].at = "write" /\ thread'[p].day = thread[p].day
        /\ thread'[p].count = ledger[thread[p].day]
    BY <1>7 DEF TakesLock, Thread, TypeOK, Threads
  <2> QED
    BY <1>7, <2>1, <2>2 DEF TakesLock, LedgerInv, CallsAreCounted
<1>8. ASSUME NEW p \in Procs, Counts(p) \/ SyncFails(p) PROVE LedgerInv'
  <2> DEFINE day == thread[p].day
             count == thread[p].count
  <2>1. /\ lock = p /\ count = ledger[day]
        /\ day \in Days /\ count \in 0..PerDay
    BY <1>8 DEF Counts, SyncFails, LedgerInv, TypeOK, Threads
  <2>2. \A q \in Procs : q # p => thread'[q] = thread[q] /\ thread[q].at # "write"
    BY <1>8, <2>1 DEF Counts, SyncFails, Returns, Thread, TypeOK, LedgerInv
  <2>3. /\ ledger'[day] = count + 1
        /\ \A d \in Days : ledger[d] \in Nat /\ ledger[d] <= ledger'[d]
    BY <1>8, <2>1 DEF Counts, SyncFails, TypeOK
  <2>4. /\ thread'[p].at \in {"counted", "failed"} /\ thread'[p].day = day
        /\ thread'[p].at = "counted" => thread'[p].count = count + 1
    <3>1. PICK at \in {"counted", "failed"}, n \in Int :
            Returns(p, at, n) /\ (at = "counted" => n = count + 1)
      BY <1>8, <2>1 DEF Counts, SyncFails
    <3>2. /\ [thread[p] EXCEPT !.at = at, !.count = n].at = at
          /\ [thread[p] EXCEPT !.at = at, !.count = n].day = day
          /\ [thread[p] EXCEPT !.at = at, !.count = n].count = n
      BY DEF TypeOK, Threads
    <3>3. thread'[p] = [thread[p] EXCEPT !.at = at, !.count = n]
      BY <3>1 DEF Returns, Thread, TypeOK
    <3> QED
      BY <3>1, <3>2, <3>3
  <2>5. <<day, count + 1>> \notin sent
    BY <2>1 DEF LedgerInv, CallsAreCounted, TypeOK
  <2>6. \A q \in Procs : q # p /\ thread[q].at = "counted" =>
          thread[q].day # day \/ thread[q].count # count + 1
    <3>1. \A q \in Procs : thread[q].count \in 0..PerDay
      BY DEF TypeOK, Threads
    <3>2. \A q \in Procs : thread[q].at = "counted" =>
            thread[q].count <= ledger[thread[q].day]
      BY DEF LedgerInv, CallsAreCounted
    <3> QED
      BY <2>1, <3>1, <3>2
  <2>7. sent' = sent
    BY <1>8 DEF Counts, SyncFails, Returns
  <2>8. \A q \in Procs : thread'[q].at = "write" =>
          lock' = q /\ thread'[q].count = ledger'[thread'[q].day]
    BY <2>2, <2>4
  <2>9. \A q \in Procs : thread'[q].at = "counted" =>
          thread'[q].count >= 1 /\ thread'[q].count <= ledger'[thread'[q].day]
    <3>1. \A q \in Procs : thread[q].day \in Days /\ thread[q].count \in 0..PerDay
      BY DEF TypeOK, Threads
    <3>2. \A q \in Procs : thread[q].at = "counted" =>
            thread[q].count >= 1 /\ thread[q].count <= ledger[thread[q].day]
      BY DEF LedgerInv, CallsAreCounted
    <3>3. ASSUME NEW q \in Procs, q # p, thread'[q].at = "counted"
          PROVE  thread'[q].count >= 1 /\ thread'[q].count <= ledger'[thread'[q].day]
      BY <2>2, <2>3, <3>1, <3>2, <3>3, TypeStep DEF TypeOK
    <3> QED
      BY <2>1, <2>3, <2>4, <3>3
  <2>10. \A d \in Days, n \in 1..PerDay : <<d, n>> \in sent' => n <= ledger'[d]
    BY <2>3, <2>7, TypeStep DEF LedgerInv, CallsAreCounted, TypeOK
  <2>11. \A q \in Procs : thread'[q].at = "counted" =>
           <<thread'[q].day, thread'[q].count>> \notin sent'
    BY <2>2, <2>4, <2>5, <2>7 DEF LedgerInv, CallsAreCounted
  <2>12. \A q, r \in Procs : q # r /\ thread'[q].at = "counted" /\ thread'[r].at = "counted" =>
           thread'[r].day # thread'[q].day \/ thread'[r].count # thread'[q].count
    <3>1. \A q, r \in Procs : q # r /\ q # p /\ r # p /\ thread[q].at = "counted"
              /\ thread[r].at = "counted" =>
            thread[r].day # thread[q].day \/ thread[r].count # thread[q].count
      BY DEF LedgerInv, CallsAreCounted
    <3> QED
      BY <2>2, <2>4, <2>6, <3>1
  <2> QED
    BY <2>8, <2>9, <2>10, <2>11, <2>12 DEF LedgerInv, CallsAreCounted
<1>9. ASSUME NEW p \in Procs, SendReserved(p) PROVE LedgerInv'
  <2>1. \A q \in Procs : q # p => thread'[q] = thread[q]
    BY <1>9 DEF SendReserved, Thread, TypeOK
  <2>2. thread'[p].at = "none"
    BY <1>3, <1>9 DEF SendReserved, Thread, TypeOK
  <2>3. sent' = sent \cup {<<thread[p].day, thread[p].count>>}
    BY <1>9 DEF SendReserved
  <2>4. /\ thread[p].at = "counted"
        /\ ledger' = ledger /\ lock' = lock
    BY <1>9 DEF SendReserved, Reserved
  <2> QED
    BY <2>1, <2>2, <2>3, <2>4 DEF LedgerInv, CallsAreCounted
<1>10. ASSUME NEW p \in Procs,
              \/ \E r \in Runs : BeginRun(p, r)
              \/ PausesRun(p) \/ Ends(p) \/ Retry(p) \/ ReplyArrives(p)
              \/ ProviderFails(p) \/ CallTimesOut(p) \/ PauseEnds(p)
       PROVE  LedgerInv'
  BY <1>1, <1>10 DEF BeginRun, PausesRun, Ends, Stops, Retry, ReplyArrives, ProviderFails,
    CallTimesOut, PauseEnds
<1>11. CASE Midnight \/ UNCHANGED callsVars
  BY <1>1, <1>11 DEF Midnight, callsVars
<1> QED
  BY <1>4, <1>5, <1>6, <1>7, <1>8, <1>9, <1>10, <1>11 DEF CallsNext

-----------------------------------------------------------------------------
(* A run's budget.                                                         *)

\* Only process p moved.
OnlyMoved(p) ==
  \A q \in Procs : q # p => work'[q] = work[q] /\ awaits'[q] = awaits[q]

\* A process that goes on with its run keeps the invariant if its own budget
\* does.
LEMMA GoesOn ==
  ASSUME Inv, TypeOK', NEW p \in Procs, OnlyMoved(p),
         awaits[p] # "idle", awaits'[p] # "idle",
         work'[p].run = work[p].run, record' = record,
         \A r \in Runs : r # work[p].run => made'[r] = made[r],
         made'[work[p].run] <= work'[p].reserved,
         awaits'[p] \in {"ready", "reserving"} => work'[p].used = work'[p].reserved,
         awaits'[p] = "reserving" => work'[p].reserved < PerRun,
         awaits'[p] = "calling" => work'[p].used + 1 = work'[p].reserved
  PROVE  BudgetInv'
<1>1. \A q \in Procs : BudgetOf(q)
  BY DEF Inv, BudgetInv
<1>2. BudgetOf(p)'
  BY <1>1 DEF BudgetOf, OnlyMoved
<1>3. ASSUME NEW q \in Procs, q # p PROVE BudgetOf(q)'
  BY <1>1, <1>3 DEF BudgetOf, OnlyMoved
<1>4. \A r \in Runs : record[r].status \in {"new", "awaiting"} => r # work[p].run
  BY <1>1 DEF BudgetOf
<1>5. \A r \in Runs : made'[r] <= PerRun
  <2>1. work'[p].reserved \in 0..PerRun /\ PerRun \in Nat /\ \A r \in Runs : made'[r] \in Nat
    BY CallsAssumption, RepliesAssumption DEF TypeOK, Working
  <2>2. work[p].run \in Runs
    BY <1>1 DEF BudgetOf
  <2> QED
    BY <2>1, <2>2 DEF Inv, BudgetInv, RunWithinBudget
<1> QED
  BY <1>2, <1>3, <1>4, <1>5 DEF Inv, BudgetInv, RunWithinBudget

\* A process that leaves its run keeps it too, if the record it leaves names
\* every call sent.
LEMMA LeavesRun ==
  ASSUME Inv, TypeOK', NEW p \in Procs, OnlyMoved(p),
         awaits'[p] = "idle", work'[p].run = NoRun, made' = made,
         \A r \in Runs : r # work[p].run => record'[r] = record[r],
         \A r \in Runs : r = work[p].run /\ record'[r].status \in {"new", "awaiting"} =>
           made[r] <= record'[r].calls
  PROVE  BudgetInv'
<1>1. \A q \in Procs : BudgetOf(q)
  BY DEF Inv, BudgetInv
<1>2. BudgetOf(p)'
  BY <1>1 DEF BudgetOf
<1>3. ASSUME NEW q \in Procs, q # p PROVE BudgetOf(q)'
  <2>1. awaits[q] # "idle" => work[q].run # NoRun /\ work[q].run # work[p].run
    BY <1>1, <1>3, CallsAssumption, RepliesAssumption DEF BudgetOf
  <2>2. awaits[q] # "idle" => \A o \in Procs \ {q} : work'[o].run # work[q].run
    BY <1>1, <2>1 DEF BudgetOf, OnlyMoved
  <2> QED
    BY <1>1, <1>3, <2>1, <2>2 DEF BudgetOf, OnlyMoved
<1> QED
  BY <1>2, <1>3 DEF Inv, BudgetInv, RunWithinBudget

LEMMA BudgetStep == Inv /\ [CallsNext]_callsVars => BudgetInv'
<1> SUFFICES ASSUME Inv, [CallsNext]_callsVars PROVE BudgetInv'
  OBVIOUS
<1> USE CallsAssumption, RepliesAssumption, TypeStep
<1>1. \A p \in Procs :
        /\ BudgetOf(p)
        /\ work[p] \in Working
        /\ work[p].reserved \in 0..PerRun /\ work[p].used \in 0..PerRun
        /\ work[p].run \in Runs \cup {NoRun}
  BY DEF Inv, BudgetInv, TypeOK, Working
<1>2. CASE UNCHANGED <<awaits, work, record, made>>
  BY <1>2 DEF Inv, BudgetInv, BudgetOf, RunWithinBudget
<1>3. ASSUME NEW p \in Procs, NEW r \in Runs, BeginRun(p, r) PROVE BudgetInv'
  <2>1. /\ OnlyMoved(p) /\ awaits'[p] = "ready" /\ awaits[p] = "idle"
        /\ work'[p] = Executing(r, record[r].calls)
    BY <1>3 DEF BeginRun, At, To, Works, OnlyMoved, Inv, TypeOK
  <2>2. /\ work'[p].run = r
        /\ work'[p].used = record[r].calls /\ work'[p].reserved = record[r].calls
    BY <2>1 DEF Executing
  <2>3. /\ record[r].status \in {"new", "awaiting"} /\ record'[r].status = "running"
        /\ \A o \in Runs : o # r => record'[o] = record[o]
    BY <1>3 DEF BeginRun, Inv, TypeOK, Records
  <2>4. made' = made /\ made[r] <= record[r].calls
    BY <1>3, <2>3 DEF BeginRun, Inv, BudgetInv
  <2>5. \A q \in Procs : q # p => work[q].run # r
    BY <1>1, <2>3 DEF BudgetOf
  <2>6. BudgetOf(p)'
    BY <2>1, <2>2, <2>3, <2>4, <2>5 DEF BudgetOf, OnlyMoved
  <2>7. ASSUME NEW q \in Procs, q # p PROVE BudgetOf(q)'
    BY <1>1, <2>1, <2>2, <2>3, <2>4, <2>5, <2>7 DEF BudgetOf, OnlyMoved
  <2> QED
    BY <2>3, <2>4, <2>6, <2>7 DEF Inv, BudgetInv, RunWithinBudget
<1>4. ASSUME NEW p \in Procs, PausesRun(p) \/ Ends(p) PROVE BudgetInv'
  <2>1. PICK status \in {"awaiting", "ended"} :
          Stops(p, status) /\ (status = "awaiting" => awaits[p] = "ready")
    BY <1>4 DEF PausesRun, Ends, At
  <2>2. OnlyMoved(p) /\ awaits'[p] = "idle" /\ work'[p].run = NoRun /\ made' = made
    BY <2>1 DEF Stops, To, Works, OnlyMoved, Executing, Inv, TypeOK
  <2>3. \A r \in Runs : r # work[p].run => record'[r] = record[r]
    BY <2>1 DEF Stops, Inv, TypeOK
  <2>4. ASSUME NEW r \in Runs, r = work[p].run, record'[r].status \in {"new", "awaiting"}
        PROVE  made[r] <= record'[r].calls
    <3>1. record'[r].status = status /\ record'[r].calls = work[p].used
      BY <2>1, <2>4 DEF Stops, Inv, TypeOK
    <3> QED
      BY <1>1, <2>1, <2>4, <3>1 DEF BudgetOf
  <2> QED
    BY <2>2, <2>3, <2>4, LeavesRun
<1>5. ASSUME NEW p \in Procs, Crash(p) PROVE BudgetInv'
  <2>1. OnlyMoved(p) /\ awaits'[p] = "idle" /\ work'[p].run = NoRun /\ made' = made
    BY <1>5 DEF Crash, To, Works, OnlyMoved, Executing, Inv, TypeOK
  <2>2. \A r \in Runs : r # work[p].run => record'[r] = record[r]
    BY <1>5 DEF Crash
  <2>3. \A r \in Runs : r = work[p].run => record'[r].status = "ended"
    BY <1>5 DEF Crash, Inv, TypeOK, Records
  <2> QED
    BY <2>1, <2>2, <2>3, LeavesRun
<1>6. ASSUME NEW p \in Procs, Ask(p) PROVE BudgetInv'
  <2>1. /\ OnlyMoved(p) /\ awaits[p] = "ready" /\ awaits'[p] = "reserving"
        /\ work'[p] = [work[p] EXCEPT !.purpose = "choose"]
        /\ work[p].reserved < PerRun /\ record' = record /\ made' = made
    BY <1>6 DEF Ask, StartReserving, RunAllows, At, To, Works, OnlyMoved, Inv, TypeOK
  <2>2. /\ work'[p].run = work[p].run /\ work'[p].reserved = work[p].reserved
        /\ work'[p].used = work[p].used
    BY <1>1, <2>1 DEF Working
  <2> QED
    BY <1>1, <2>1, <2>2, GoesOn DEF BudgetOf
<1>7. ASSUME NEW p \in Procs, NotReserved(p) PROVE BudgetInv'
  <2>1. /\ OnlyMoved(p) /\ awaits[p] = "reserving" /\ awaits'[p] = "ready" /\ work' = work
        /\ record' = record /\ made' = made
    BY <1>7 DEF NotReserved, At, To, OnlyMoved, Inv, TypeOK
  <2> QED
    BY <1>1, <2>1, GoesOn DEF BudgetOf
<1>8. ASSUME NEW p \in Procs, SendReserved(p) PROVE BudgetInv'
  <2>1. /\ OnlyMoved(p) /\ awaits[p] = "reserving" /\ awaits'[p] = "calling"
        /\ work'[p] = [work[p] EXCEPT !.reserved = work[p].reserved + 1, !.attempt = 1]
        /\ record' = record
    BY <1>8 DEF SendReserved, Reserved, At, To, Works, OnlyMoved, Inv, TypeOK
  <2>2. /\ work'[p].run = work[p].run /\ work'[p].reserved = work[p].reserved + 1
        /\ work'[p].used = work[p].used
    BY <1>1, <2>1 DEF Working
  <2>3. work[p].run \in Runs /\ made[work[p].run] <= work[p].reserved
    BY <1>1, <2>1 DEF BudgetOf
  <2>4. /\ made'[work[p].run] = made[work[p].run] + 1
        /\ \A r \in Runs : r # work[p].run => made'[r] = made[r]
    BY <1>8, <2>3 DEF SendReserved, Inv, TypeOK
  <2>5. made'[work[p].run] <= work'[p].reserved
    BY <1>1, <2>2, <2>3, <2>4 DEF Inv, TypeOK
  <2>6. work'[p].used + 1 = work'[p].reserved
    BY <1>1, <2>1, <2>2 DEF BudgetOf
  <2> QED
    BY <2>1, <2>2, <2>4, <2>5, <2>6, GoesOn
<1>9. ASSUME NEW p \in Procs, RefuseReserved(p) PROVE BudgetInv'
  <2>1. /\ OnlyMoved(p) /\ awaits[p] = "reserving" /\ awaits'[p] = "ready"
        /\ work'[p] = [work[p] EXCEPT !.reserved = work[p].reserved + 1,
                                      !.used = work[p].used + 1]
        /\ record' = record /\ made' = made
    BY <1>9 DEF RefuseReserved, Reserved, At, To, Works, OnlyMoved, Inv, TypeOK
  <2>2. /\ work'[p].run = work[p].run /\ work'[p].reserved = work[p].reserved + 1
        /\ work'[p].used = work[p].used + 1
    BY <1>1, <2>1 DEF Working
  <2>3. made'[work[p].run] <= work'[p].reserved /\ work'[p].used = work'[p].reserved
    BY <1>1, <2>1, <2>2 DEF BudgetOf, Inv, TypeOK
  <2> QED
    BY <2>1, <2>2, <2>3, GoesOn
<1>10. ASSUME NEW p \in Procs, Retry(p) PROVE BudgetInv'
  <2>1. /\ OnlyMoved(p) /\ awaits[p] = "calling" /\ awaits' = awaits
        /\ work'[p] = [work[p] EXCEPT !.attempt = work[p].attempt + 1]
        /\ record' = record /\ made' = made
    BY <1>10 DEF Retry, At, Works, OnlyMoved, Inv, TypeOK
  <2>2. /\ work'[p].run = work[p].run /\ work'[p].reserved = work[p].reserved
        /\ work'[p].used = work[p].used
    BY <1>1, <2>1 DEF Working
  <2> QED
    BY <1>1, <2>1, <2>2, GoesOn DEF BudgetOf
<1>11. ASSUME NEW p \in Procs,
              ReplyArrives(p) \/ ProviderFails(p) \/ CallTimesOut(p) \/ Repairs(p)
       PROVE  BudgetInv'
  <2>1. /\ OnlyMoved(p) /\ awaits[p] = "calling" /\ record' = record /\ made' = made
        /\ awaits'[p] \in {"ready", "reserving"}
        /\ awaits'[p] = "reserving" => work[p].reserved < PerRun
    BY <1>11 DEF ReplyArrives, ProviderFails, CallTimesOut, Repairs, UsageRecorded, StartReserving,
      RunAllows, At, To, Works, OnlyMoved, Inv, TypeOK
  <2>2. \/ work'[p] = [work[p] EXCEPT !.used = work[p].used + 1, !.attempt = 0]
        \/ work'[p] = [work[p] EXCEPT !.used = work[p].used + 1, !.attempt = 0,
                                      !.purpose = "repair"]
    BY <1>11 DEF ReplyArrives, ProviderFails, CallTimesOut, Repairs, UsageRecorded, Works, Inv, TypeOK
  <2>3. /\ work'[p].run = work[p].run /\ work'[p].reserved = work[p].reserved
        /\ work'[p].used = work[p].used + 1
    <3>1. ASSUME NEW w \in Working, NEW n
          PROVE  /\ [w EXCEPT !.used = n, !.attempt = 0].run = w.run
                 /\ [w EXCEPT !.used = n, !.attempt = 0].reserved = w.reserved
                 /\ [w EXCEPT !.used = n, !.attempt = 0].used = n
                 /\ [w EXCEPT !.used = n, !.attempt = 0, !.purpose = "repair"].run = w.run
                 /\ [w EXCEPT !.used = n, !.attempt = 0, !.purpose = "repair"].reserved
                      = w.reserved
                 /\ [w EXCEPT !.used = n, !.attempt = 0, !.purpose = "repair"].used = n
      BY DEF Working
    <3>2. work[p] \in Working
      BY <1>1
    <3>3. CASE work'[p] = [work[p] EXCEPT !.used = work[p].used + 1, !.attempt = 0]
      BY <3>1, <3>2, <3>3
    <3>4. CASE work'[p] = [work[p] EXCEPT !.used = work[p].used + 1, !.attempt = 0,
                                          !.purpose = "repair"]
      BY <3>1, <3>2, <3>4
    <3> QED
      BY <2>2, <3>3, <3>4
  <2> QED
    BY <1>1, <2>1, <2>3, GoesOn DEF BudgetOf
<1>12. ASSUME NEW p \in Procs,
              \/ TakesLock(p) \/ FindsUsedUp(p) \/ Counts(p) \/ LedgerFails(p)
              \/ SyncFails(p) \/ Discarded(p) \/ PauseEnds(p)
       PROVE  BudgetInv'
  BY <1>2, <1>12 DEF TakesLock, FindsUsedUp, Counts, LedgerFails, SyncFails, Returns,
    Discarded, PauseEnds
<1>13. CASE Midnight \/ UNCHANGED callsVars
  BY <1>2, <1>13 DEF Midnight, callsVars
<1> QED
  BY <1>3, <1>4, <1>5, <1>6, <1>7, <1>8, <1>9, <1>10, <1>11, <1>12, <1>13 DEF CallsNext

-----------------------------------------------------------------------------

LEMMA Invariance == CallsSpec => []Inv
<1>1. Inv /\ [CallsNext]_callsVars => Inv'
  BY TypeStep, LedgerStep, BudgetStep DEF Inv
<1> QED
  BY InitInv, <1>1, PTL DEF CallsSpec

\* Every variable keeps its type; in particular no day and no run counts more
\* calls than it allows, and no call takes more requests than it may
\* (FileUsageLedger, RunModelBudget, ModelHttpClient).
THEOREM CallsTypeCorrect == CallsSpec => []TypeOK
<1>1. Inv => TypeOK
  BY DEF Inv
<1> QED
  BY Invariance, <1>1, PTL

\* Every call that is sent was counted before, on a count of its own, whatever
\* processes reserve together, are cancelled and die (FileUsageLedger._reserve).
THEOREM EveryCallIsCounted == CallsSpec => []CallsAreCounted
<1>1. Inv => CallsAreCounted
  BY DEF Inv, LedgerInv
<1> QED
  BY Invariance, <1>1, PTL

\* A run never sends more calls than it may, over all its executions
\* (RunModelBudget.reserve, resume.py).
THEOREM RunsKeepTheirBudget == CallsSpec => []RunWithinBudget
<1>1. Inv => RunWithinBudget
  BY DEF Inv, BudgetInv
<1> QED
  BY Invariance, <1>1, PTL

\* A paused run's record names every call it sent (rung3._call, _final).
THEOREM PausesNameTheirCalls == CallsSpec => []UsageIsComplete
<1>1. Inv => UsageIsComplete
  BY DEF Inv, BudgetInv, UsageIsComplete
<1> QED
  BY Invariance, <1>1, PTL
\* No budget is passed, no call is uncounted, and no pause forgets one, for any
\* processes, runs, days and limits.
THEOREM BudgetsAreKept == CallsSpec => []BudgetsHold
<1>1. CallsAreCounted /\ RunWithinBudget /\ UsageIsComplete => BudgetsHold
  BY DEF BudgetsHold
<1> QED
  BY EveryCallIsCounted, RunsKeepTheirBudget, PausesNameTheirCalls, <1>1, PTL
=============================================================================
