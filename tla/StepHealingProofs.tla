-------------------------- MODULE StepHealingProofs --------------------------
(***************************************************************************)
(* For any pages, in any order, and for any step: nothing a healed step did *)
(* is done again that must not be, and what it acts on is what it read.     *)
(*                                                                         *)
(* The invariant has two parts.  StepInv is about the step's progress and   *)
(* never mentions the page: what is held, excluded and counted at each of   *)
(* the code's awaits.  ReadInv is about what was read: where the epoch has  *)
(* not moved, the reading is still what the page shows.                     *)
(***************************************************************************)
EXTENDS StepHealingProperties, FiniteSetTheorems, TLAPS

-----------------------------------------------------------------------------
(* The values a step's progress and its readings take.                     *)

PageLooks == {p.looks : p \in Pages}
AnyLook == {p.looks[e] : p \in Pages, e \in Elements} \cup {Gone}
Names == {look.name : look \in AnyLook} \cup {"none"}
Signatures == {Signature(look) : look \in AnyLook}
Identities == {Identity(look) : look \in AnyLook} \cup {<<>>}

StepRecord ==
  [trying : {"recorded", "patch", "again"}, via : {"none", "recorded", "patch", "healed"},
   elem : Elements \cup {NoElement}, name : Names, judged : AnyLook, rung : 0..3,
   healing : BOOLEAN, used : 0..MaxAttempts, excluded : SUBSET Signatures,
   pinned : SUBSET Elements, held : SUBSET Elements, proposal : Identities,
   end : {"none", "succeeded", "failed", "awaiting", "needs_review", "unreadable"},
   acts : Nat, logins : Nat, failed : SUBSET Signatures, replayed : BOOLEAN]

ReadRecord ==
  [verdict : {"none", "agreement", "disagreement", "several", "no_match"},
   elem : Elements \cup {NoElement}, looks : PageLooks \cup {<<>>}, quiet : BOOLEAN,
   last : {"never_stable", "resolved", "drifted", "ambiguous", "not_found"}]

-----------------------------------------------------------------------------
(* The invariant.                                                          *)

Holding == {"look0", "look1", "confirm2", "ask3", "judge3", "gate"}

\* Elements are held only between a reading and its use.
HeldInv(p, s) ==
  /\ (s.end = "none") = (p # "done")
  /\ p \notin Holding /\ s.end # "unreadable" => s.held = {}
  /\ p = "done" => s.pinned = {}
  /\ p = "gate" => s.elem \in Elements

\* What failed is excluded, and what is excluded is not acted on.
ExcludedInv(p, s) ==
  /\ s.failed \subseteq s.excluded
  /\ p = "gate" \/ (p \in {"ready", "act"} /\ s.via = "healed") =>
       Signature(s.judged) \notin s.excluded

\* A healed target that is acted on has an attempt left and its approval.
HealedInv(p, s, t) ==
  p \in {"ready", "act", "verify"} /\ s.via = "healed" =>
    /\ s.used < Limit(t, s.judged.login)
    /\ Irreversible(t) => Identity(s.judged) = t.approved

\* A login or an irreversible action is the last thing a step does.
ActedInv(p, s, t) ==
  /\ \/ s.logins = 0
     \/ /\ s.logins = 1 /\ p \in {"verify", "done"}
        /\ p = "verify" /\ s.via = "healed" => t.authenticates \/ s.judged.login
  /\ Irreversible(t) => s.acts = 0 \/ (s.acts = 1 /\ p \in {"verify", "done"})
  /\ s.end = "awaiting" => Irreversible(t) /\ s.acts = 0
  /\ s.replayed => MayReplay(t)

StepInv(p, s, t) ==
  s \in StepRecord /\ HeldInv(p, s) /\ ExcludedInv(p, s) /\ HealedInv(p, s, t) /\ ActedInv(p, s, t)

\* An agreed reading has an element, on which the selectors agree while the
\* page stays as it is.
AgreedInv(finds) ==
  read.verdict = "agreement" =>
    read.elem \in Elements /\ (Stable => AgreeOn(finds, read.elem))

LooksInv ==
  /\ read.looks \in PageLooks
  /\ Stable => read.looks = page.looks

ReadInv ==
  /\ read \in ReadRecord
  /\ pc = "look0" => AgreedInv(Trying)
  /\ pc = "look1" => AgreedInv(page.alternate)
  /\ pc \in {"confirm2", "ask3", "judge3"} => LooksInv
  /\ pc = "confirm2" =>
       /\ read.elem \in Ranked(read.looks)
       /\ Leads(read.looks, Ranked(read.looks), read.elem)
  /\ pc = "judge3" => read.elem \in Eligible(read.looks)

OwnInv ==
  /\ page \in Pages /\ task \in Tasks /\ pc \in Location
  /\ {moved, late, over} \subseteq BOOLEAN

Inv == OwnInv /\ StepInv(pc, st, task) /\ ReadInv
-----------------------------------------------------------------------------
(* Facts about the model's operators.                                      *)

\* A limit is in range, and a step that submits a login has one attempt at most.
LEMMA Limits ==
  ASSUME NEW t, NEW login
  PROVE  /\ Limit(t, login) \in 0..MaxAttempts
         /\ t.authenticates \/ login => Limit(t, login) <= 1
  BY HealingAssumption DEF Limit

\* What a page's selectors find are sets of its elements.
LEMMA Selectors ==
  ASSUME NEW p \in Pages
  PROVE  /\ p.recorded \in Seq(SUBSET Elements)
         /\ p.alternate \in Seq(SUBSET Elements)
         /\ p.patch \in Seq(SUBSET Elements)
  BY PagesAssumption

LEMMA FoundElements ==
  ASSUME NEW finds \in Seq(SUBSET Elements)
  PROVE  /\ \A rank \in DOMAIN finds : finds[rank] \in SUBSET Elements
         /\ Found(finds) \in SUBSET Elements
<1>1. \A rank \in DOMAIN finds : finds[rank] \in SUBSET Elements
  OBVIOUS
<1> QED
  BY <1>1 DEF Found, Hits

\* The selectors agree exactly when those that find one element find the same.
LEMMA AgreementIsOne ==
  ASSUME NEW finds \in Seq(SUBSET Elements), Cardinality(Found(finds)) = 1
  PROVE  \E e \in Elements : Found(finds) = {e} /\ AgreeOn(finds, e)
<1>1. IsFiniteSet(Found(finds))
  BY FoundElements, FS_Subset, PagesAssumption
<1>2. PICK e : Found(finds) = {e}
  BY <1>1, FS_Singleton
<1>3. e \in Elements
  BY <1>2, FoundElements
<1>4. ASSUME NEW rank \in DOMAIN finds, Cardinality(finds[rank]) = 1
      PROVE  finds[rank] = {e}
  <2>1. IsFiniteSet(finds[rank])
    BY FoundElements, FS_Subset, PagesAssumption
  <2>2. PICK x : finds[rank] = {x}
    BY <1>4, <2>1, FS_Singleton
  <2>3. rank \in Hits(finds)
    BY <1>4 DEF Hits
  <2>4. x \in Found(finds)
    BY <2>2, <2>3 DEF Found
  <2> QED
    BY <1>2, <2>2, <2>4
<1>5. PICK rank \in Hits(finds) : e \in finds[rank]
  BY <1>2 DEF Found
<1>6. rank \in DOMAIN finds /\ finds[rank] = {e}
  BY <1>4, <1>5 DEF Hits
<1>7. AgreeOn(finds, e)
  BY <1>4, <1>6 DEF AgreeOn
<1> QED
  BY <1>2, <1>3, <1>7

\* What a rung reads when it tries the selectors.
LEMMA MatchedReads ==
  ASSUME NEW finds \in Seq(SUBSET Elements), NEW r \in ReadRecord
  PROVE  /\ Matched(r, finds) \in ReadRecord
         /\ Matched(r, finds).verdict = "agreement" =>
              Matched(r, finds).elem \in Elements /\ AgreeOn(finds, Matched(r, finds).elem)
<1> DEFINE verdict == Verdict(finds)
           chosen == IF verdict = "agreement"
                     THEN CHOOSE e \in Elements : Found(finds) = {e} ELSE NoElement
<1>1. verdict \in {"agreement", "disagreement", "several", "no_match"}
  BY DEF Verdict
<1>2. verdict = "agreement" => Cardinality(Found(finds)) = 1
  BY DEF Verdict
<1>3. verdict = "agreement" => chosen \in Elements /\ AgreeOn(finds, chosen)
  <2>1. SUFFICES ASSUME verdict = "agreement"
                 PROVE  chosen \in Elements /\ AgreeOn(finds, chosen)
    OBVIOUS
  <2>2. PICK e \in Elements : Found(finds) = {e} /\ AgreeOn(finds, e)
    BY <1>2, <2>1, AgreementIsOne
  <2>3. chosen \in Elements /\ Found(finds) = {chosen}
    BY <2>1, <2>2
  <2>4. chosen = e
    BY <2>2, <2>3
  <2> QED
    BY <2>2, <2>4
<1>4. chosen \in Elements \cup {NoElement}
  BY <1>3
<1>5. Matched(r, finds) = [r EXCEPT !.verdict = verdict, !.elem = chosen]
  BY DEF Matched
<1> HIDE DEF verdict, chosen
<1> QED
  BY <1>1, <1>3, <1>4, <1>5 DEF ReadRecord
-----------------------------------------------------------------------------
(* How a step's progress may go on.                                        *)

Ends == {"succeeded", "failed", "awaiting", "needs_review", "unreadable"}
Awaits == Location \ {"verify", "done"}
Between == Location \ {"gate", "ready", "act", "verify", "done"}

LEMMA EmptyStep == \A t : StepInv("settle0", NoStep, t)
<1>1. Gone \in AnyLook /\ "none" \in Names /\ <<>> \in Identities
  BY DEF AnyLook, Names, Identities
<1>2. MaxAttempts \in Nat
  BY HealingAssumption
<1>3. NoStep \in StepRecord
  <2>1. 0 \in 0..MaxAttempts
    BY <1>2
  <2> HIDE DEF Gone
  <2> QED
    BY <1>1, <2>1 DEF NoStep, StepRecord
<1>4. /\ NoStep.end = "none" /\ NoStep.held = {} /\ NoStep.failed = {} /\ NoStep.via = "none"
      /\ NoStep.logins = 0 /\ NoStep.acts = 0 /\ NoStep.replayed = FALSE
  BY DEF NoStep
<1> QED
  BY <1>3, <1>4 DEF StepInv, HeldInv, ExcludedInv, HealedInv, ActedInv, Holding

\* Before its action is verified, a step may go anywhere that needs no target.
LEMMA GoesOn ==
  ASSUME NEW p \in Awaits, NEW q \in Between, NEW t, NEW s, NEW z \in StepRecord,
         StepInv(p, s, t),
         z.end = "none", q \notin Holding => z.held = {},
         z.failed = s.failed, s.excluded \subseteq z.excluded,
         z.logins = s.logins, z.acts = s.acts, z.replayed => MayReplay(t)
  PROVE  StepInv(q, z, t)
<1>1. HeldInv(q, z)
  BY DEF HeldInv, Between
<1>2. ExcludedInv(q, z)
  BY DEF StepInv, ExcludedInv, Between
<1>3. HealedInv(q, z, t)
  BY DEF HealedInv, Between
<1>4. z.logins = 0 /\ (Irreversible(t) => z.acts = 0)
  BY DEF StepInv, ActedInv, Awaits
<1>5. ActedInv(q, z, t)
  BY <1>4 DEF ActedInv
<1> QED
  BY <1>1, <1>2, <1>3, <1>5 DEF StepInv

\* A step may end wherever it holds no element of the page.
LEMMA MayEnd ==
  ASSUME NEW t, NEW s \in StepRecord, NEW end \in Ends,
         s.held = {} \/ end = "unreadable",
         s.failed \subseteq s.excluded,
         s.logins \in {0, 1},
         Irreversible(t) => s.acts \in {0, 1},
         end = "awaiting" => Irreversible(t) /\ s.acts = 0,
         s.replayed => MayReplay(t)
  PROVE  StepInv("done", Ended(s, end), t)
<1> DEFINE z == Ended(s, end)
<1>1. /\ z \in StepRecord /\ z.end = end /\ z.pinned = {} /\ z.held = s.held
      /\ z.failed = s.failed /\ z.excluded = s.excluded /\ z.logins = s.logins
      /\ z.acts = s.acts /\ z.replayed = s.replayed
  BY DEF Ended, StepRecord, Ends
<1> HIDE DEF z
<1>2. HeldInv("done", z)
  BY <1>1 DEF HeldInv, Ends
<1>3. ExcludedInv("done", z) /\ HealedInv("done", z, t)
  BY <1>1 DEF ExcludedInv, HealedInv
<1>4. ActedInv("done", z, t)
  BY <1>1 DEF ActedInv
<1>5. StepInv("done", z, t)
  BY <1>1, <1>2, <1>3, <1>4 DEF StepInv
<1> QED
  BY <1>5 DEF z

\* A step that gives up at one of the code's awaits releases what it holds.
LEMMA GivesUp ==
  ASSUME NEW p \in Awaits, NEW t, NEW s, StepInv(p, s, t)
  PROVE  /\ StepInv("done", Ended(Released(s), "failed"), t)
         /\ StepInv("done", Ended(s, "unreadable"), t)
         /\ p \notin Holding => StepInv("done", Ended(s, "failed"), t)
<1>1. /\ s \in StepRecord /\ s.failed \subseteq s.excluded /\ s.logins = 0
      /\ Irreversible(t) => s.acts = 0
      /\ s.replayed => MayReplay(t)
      /\ p \notin Holding => s.held = {}
  BY DEF StepInv, ExcludedInv, ActedInv, Awaits, HeldInv
<1> DEFINE z == Released(s)
<1>2. /\ z \in StepRecord /\ z.held = {} /\ z.failed = s.failed /\ z.excluded = s.excluded
      /\ z.logins = s.logins /\ z.acts = s.acts /\ z.replayed = s.replayed
  BY <1>1 DEF Released, StepRecord
<1>3. StepInv("done", Ended(z, "failed"), t)
  <2> HIDE DEF z
  <2> QED
    BY <1>1, <1>2, MayEnd DEF Ends
<1>4. StepInv("done", Ended(s, "unreadable"), t)
  BY <1>1, MayEnd DEF Ends
<1>5. p \notin Holding => StepInv("done", Ended(s, "failed"), t)
  BY <1>1, MayEnd DEF Ends
<1> QED
  BY <1>3, <1>4, <1>5

\* A step releases what it holds and goes on.
LEMMA Releases ==
  ASSUME NEW p \in Awaits, NEW q \in Between, NEW t, NEW s, StepInv(p, s, t)
  PROVE  StepInv(q, Released(s), t)
<1>1. s \in StepRecord /\ s.end = "none" /\ (s.replayed => MayReplay(t))
  BY DEF StepInv, ActedInv, HeldInv, Awaits
<1> DEFINE z == Released(s)
<1>2. /\ z \in StepRecord /\ z.held = {} /\ z.failed = s.failed /\ z.excluded = s.excluded
      /\ z.logins = s.logins /\ z.acts = s.acts /\ z.replayed = s.replayed /\ z.end = s.end
  BY <1>1 DEF Released, StepRecord
<1> HIDE DEF z
<1>3. StepInv(q, z, t)
  BY <1>1, <1>2, GoesOn
<1> QED
  BY <1>3 DEF z

\* A step goes on with the same progress, if it holds nothing it may not hold.
LEMMA Keeps ==
  ASSUME NEW p \in Awaits, NEW q \in Between, NEW t, NEW s, StepInv(p, s, t),
         p \notin Holding \/ q \in Holding
  PROVE  StepInv(q, s, t)
<1>1. s \in StepRecord /\ s.end = "none" /\ (s.replayed => MayReplay(t))
  BY DEF StepInv, ActedInv, HeldInv, Awaits
<1>2. q \notin Holding => s.held = {}
  BY <1>1 DEF StepInv, HeldInv
<1> QED
  BY <1>1, <1>2, GoesOn

\* A step holds what a rung reads.
LEMMA Holds ==
  ASSUME NEW p \in Awaits, NEW q \in Between \cap Holding, NEW t, NEW s, StepInv(p, s, t),
         NEW elements \in SUBSET Elements
  PROVE  StepInv(q, [s EXCEPT !.held = elements], t)
<1>1. s \in StepRecord /\ s.end = "none" /\ (s.replayed => MayReplay(t))
  BY DEF StepInv, ActedInv, HeldInv, Awaits
<1> DEFINE z == [s EXCEPT !.held = elements]
<1>2. /\ z \in StepRecord /\ z.failed = s.failed /\ z.excluded = s.excluded
      /\ z.logins = s.logins /\ z.acts = s.acts /\ z.replayed = s.replayed /\ z.end = s.end
  BY <1>1 DEF StepRecord
<1> HIDE DEF z
<1>3. StepInv(q, z, t)
  BY <1>1, <1>2, GoesOn
<1> QED
  BY <1>3 DEF z
-----------------------------------------------------------------------------
(* Steps that read nothing on the page.                                    *)

Attending == {"look0", "look1", "confirm2", "ask3", "judge3"}

LEMMA NothingRead ==
  NoReading \in ReadRecord
  BY DEF NoReading, ReadRecord

\* Away from the awaits that use a reading, only the progress matters.
LEMMA MovesOn ==
  ASSUME Inv, page' \in Pages, task' = task, moved' \in BOOLEAN, late' \in BOOLEAN,
         over' \in BOOLEAN, pc' \in Location \ Attending, StepInv(pc', st', task),
         read' \in ReadRecord
  PROVE  Inv'
<1>1. OwnInv'
  BY DEF Inv, OwnInv
<1>2. ReadInv'
  BY DEF ReadInv, Attending
<1>3. StepInv(pc, st, task)'
  OBVIOUS
<1> QED
  BY <1>1, <1>2, <1>3 DEF Inv

LEMMA Proceeds ==
  ASSUME Inv, NEW from, NEW to \in Location \ Attending, NEW s, NEW r \in ReadRecord,
         Proceed(from, to, s, r), StepInv(to, s, task)
  PROVE  Inv'
  BY MovesOn DEF Proceed, Goto, Inv, OwnInv

LEMMA Settles ==
  ASSUME Inv, NEW from \in Awaits, NEW to \in Between \ Attending, Settle(from, to),
         from \notin Holding
  PROVE  Inv'
<1>1. pc = from /\ st' = st /\ read' = read /\ pc' = to
  BY DEF Settle, Goto
<1>2. StepInv(to, st, task)
  BY <1>1, Keeps DEF Inv
<1> QED
  BY <1>1, <1>2, MovesOn DEF Settle, Inv, OwnInv, ReadInv, Between

LEMMA Declined ==
  ASSUME Inv, NEW from \in Awaits, Declines(from)
  PROVE  Inv'
  BY Proceeds, GivesUp, NothingRead DEF Declines, Finish, Proceed, Goto, Inv, Location, Attending

LEMMA ReadsAgain ==
  ASSUME Inv, NEW from \in Awaits, NEW settle \in Between \ Attending, ReadAgain(from, settle)
  PROVE  Inv'
<1>1. CASE Finish(from, Released(st), "failed")
  BY <1>1, Declined DEF Declines
<1>2. CASE Proceed(from, settle, Released(st), NoReading)
  BY <1>2, Proceeds, Releases, NothingRead DEF Proceed, Goto, Inv, Between
<1> QED
  BY <1>1, <1>2 DEF ReadAgain

-----------------------------------------------------------------------------
(* The ladder's rungs keep the invariant.                                  *)

LEMMA LooksAt ==
  ASSUME NEW p \in Pages, NEW e \in Elements
  PROVE  p.looks[e] \in AnyLook /\ p.looks[e].name \in Names
  BY DEF AnyLook, Names

\* What a rung accepted goes to the gate, and was not excluded.
LEMMA Accepted ==
  ASSUME Inv, NEW from \in Awaits, NEW rung \in 1..3, NEW elem \in Elements,
         NEW judged \in AnyLook, NEW confirmed \in Names, Signature(judged) \notin st.excluded,
         Accept(from, rung, elem, judged, confirmed)
  PROVE  Inv'
<1> DEFINE z == [st EXCEPT !.rung = rung, !.elem = elem, !.judged = judged, !.name = confirmed,
                           !.held = {elem}]
<1>1. Proceed(from, "gate", z, NoReading)
  BY DEF Accept
<1>2. pc = from /\ st \in StepRecord /\ StepInv(from, st, task)
  BY <1>1 DEF Proceed, Goto, Inv, StepInv
<1>3. /\ z \in StepRecord /\ z.judged = judged /\ z.elem = elem /\ z.failed = st.failed
      /\ z.excluded = st.excluded /\ z.logins = st.logins /\ z.acts = st.acts
      /\ z.replayed = st.replayed /\ z.end = st.end
  <2>1. {elem} \in SUBSET Elements /\ elem \in Elements \cup {NoElement} /\ rung \in 0..3
    OBVIOUS
  <2>2. z \in StepRecord
    BY <1>2, <2>1 DEF StepRecord
  <2> QED
    BY <1>2, <2>2 DEF StepRecord
<1> HIDE DEF z
<1>4. st.end = "none" /\ st.logins = 0 /\ (Irreversible(task) => st.acts = 0)
  BY <1>2 DEF StepInv, HeldInv, ActedInv, Awaits
<1>5. HeldInv("gate", z) /\ HealedInv("gate", z, task)
  BY <1>3, <1>4 DEF HeldInv, HealedInv, Holding
<1>6. ExcludedInv("gate", z) /\ ActedInv("gate", z, task)
  BY <1>2, <1>3, <1>4 DEF StepInv, ExcludedInv, ActedInv
<1>7. StepInv("gate", z, task)
  BY <1>3, <1>5, <1>6 DEF StepInv
<1> QED
  BY <1>1, <1>7, Proceeds, NothingRead DEF Location, Attending

LEMMA MatchedStep ==
  ASSUME Inv, NEW from \in Awaits, NEW to \in {"look0", "look1"},
         NEW finds \in Seq(SUBSET Elements),
         Proceed(from, to, [st EXCEPT !.held = Found(finds)], Matched(read, finds)),
         (to = "look0" => finds = Trying /\ Trying' = Trying), to = "look1" => finds = page.alternate
  PROVE  Inv'
<1>1. pc = from /\ pc' = to /\ read' = Matched(read, finds) /\ read \in ReadRecord
  BY DEF Proceed, Goto, Inv, ReadInv
<1>2. st' = [st EXCEPT !.held = Found(finds)] /\ page' = page /\ task' = task
  BY DEF Proceed
<1>3. StepInv(to, st', task)
  BY <1>1, <1>2, Holds, FoundElements DEF Inv, Between, Location, Holding
<1>4. read' \in ReadRecord /\ (read'.verdict = "agreement" =>
        read'.elem \in Elements /\ AgreeOn(finds, read'.elem))
  BY <1>1, MatchedReads
<1>5. ReadInv'
  <2>1. pc' = "look0" => AgreedInv(Trying)'
    BY <1>1, <1>4 DEF AgreedInv
  <2>2. pc' = "look1" => AgreedInv(page.alternate)'
    BY <1>1, <1>2, <1>4 DEF AgreedInv
  <2> QED
    BY <1>1, <1>4, <2>1, <2>2 DEF ReadInv
<1>6. OwnInv'
  BY <1>1, <1>2 DEF Inv, OwnInv, Proceed, Location
<1> QED
  BY <1>1, <1>2, <1>3, <1>5, <1>6 DEF Inv
LEMMA TryingSelectors ==
  ASSUME Inv
  PROVE  Trying \in Seq(SUBSET Elements)
  BY Selectors DEF Trying, Inv, OwnInv

LEMMA Outcomes ==
  Outcome0 \in {"resolved", "drifted", "ambiguous", "not_found"}
  BY DEF Outcome0

LEMMA Resolve0Inv ==
  ASSUME Inv, Resolve0
  PROVE  Inv'
<1> DEFINE name == page.looks[read.elem].name
           z == Target(st, read.elem, name)
<1>1. pc = "look0" /\ pc' = "ready" /\ st' = z /\ read' = NoReading
  BY DEF Resolve0, Goto
<1>2. st \in StepRecord /\ StepInv("look0", st, task) /\ page \in Pages
  BY <1>1 DEF Inv, StepInv, OwnInv
<1>3. read.verdict = "agreement"
  BY DEF Resolve0, Outcome0
<1>4. read.elem \in Elements
  BY <1>1, <1>3 DEF Inv, ReadInv, AgreedInv
<1>5. name \in Names
  BY <1>2, <1>4, LooksAt
<1> HIDE DEF name
<1>6. /\ z \in StepRecord /\ z.via # "healed" /\ z.held = {} /\ z.failed = st.failed
      /\ z.excluded = st.excluded /\ z.logins = st.logins /\ z.acts = st.acts
      /\ z.replayed = st.replayed /\ z.end = st.end
  <2> DEFINE via == IF st.trying = "patch" THEN "patch" ELSE "recorded"
             pinned == st.pinned \cup {read.elem}
             y == [st EXCEPT !.held = {}]
  <2>1. y \in StepRecord /\ y.held = {} /\ y.failed = st.failed /\ y.trying = st.trying
        /\ y.pinned = st.pinned
        /\ y.excluded = st.excluded /\ y.logins = st.logins /\ y.acts = st.acts
        /\ y.replayed = st.replayed /\ y.end = st.end
    BY <1>2 DEF StepRecord
  <2>2. z = [y EXCEPT !.elem = read.elem, !.name = name, !.pinned = pinned, !.via = via]
    <3>1. z = [y EXCEPT !.elem = read.elem, !.name = name, !.pinned = @ \cup {read.elem}, !.via = via]
      BY <2>1 DEF Target, Released
    <3> HIDE DEF y
    <3> QED
      BY <3>1, <2>1 DEF StepRecord
  <2>3. /\ via \in {"none", "recorded", "patch", "healed"} /\ via # "healed"
        /\ pinned \in SUBSET Elements /\ read.elem \in Elements \cup {NoElement}
    BY <1>2, <1>4 DEF StepRecord
  <2> HIDE DEF via, pinned, y, z
  <2>4. z \in StepRecord
    BY <1>5, <2>1, <2>2, <2>3 DEF StepRecord
  <2> QED
    BY <2>1, <2>2, <2>3, <2>4 DEF StepRecord
<1> HIDE DEF z
<1>7. /\ st.end = "none" /\ st.logins = 0 /\ (Irreversible(task) => st.acts = 0)
      /\ st.failed \subseteq st.excluded /\ (st.replayed => MayReplay(task))
  BY <1>2 DEF StepInv, HeldInv, ActedInv, ExcludedInv
<1>8. HeldInv("ready", z) /\ HealedInv("ready", z, task)
  BY <1>6, <1>7 DEF HeldInv, HealedInv, Holding
<1>9. ExcludedInv("ready", z) /\ ActedInv("ready", z, task)
  BY <1>6, <1>7 DEF ExcludedInv, ActedInv
<1>10. StepInv("ready", st', task)
  BY <1>1, <1>6, <1>8, <1>9 DEF StepInv
<1>11. late' \in BOOLEAN
  BY DEF Resolve0, Inv, OwnInv
<1> QED
  BY <1>1, <1>10, <1>11, MovesOn, NothingRead DEF Resolve0, Inv, OwnInv, Location, Attending

LEMMA Wait0Inv ==
  ASSUME Inv, Wait0
  PROVE  Inv'
<1>1. pc = "look0" /\ pc' = "wait0" /\ st' = Released(st)
  BY DEF Wait0, Goto
<1>2. StepInv("wait0", st', task)
  BY <1>1, Releases DEF Inv, Awaits, Between, Location
<1>3. read' \in ReadRecord
  <2>1. read.last \in {"never_stable", "resolved", "drifted", "ambiguous", "not_found"}
    BY DEF Inv, ReadInv, ReadRecord
  <2> QED
    BY <2>1, Outcomes, NothingRead DEF Wait0, ReadRecord
<1> QED
  BY <1>1, <1>2, <1>3, MovesOn DEF Wait0, Inv, OwnInv, Location, Attending

LEMMA Fail0Inv ==
  ASSUME Inv, Fail0
  PROVE  Inv'
<1> DEFINE failing == Released(st)
<1>1. CASE Proceed("look0", "climb", failing, NoReading)
  BY <1>1, Proceeds, Releases, NothingRead
     DEF Proceed, Goto, Inv, Awaits, Between, Location, Attending
<1>2. CASE Finish("look0", failing, "failed")
  BY <1>2, Declined DEF Declines, Awaits, Location
<1>3. ASSUME Goto("look0", "settle0"), st' = [failing EXCEPT !.trying = "patch"],
             read' = NoReading, late' = FALSE, UNCHANGED <<page, moved, task, over>>
      PROVE  Inv'
  <2>1. pc = "look0" /\ pc' = "settle0" /\ StepInv("look0", st, task)
    BY <1>3 DEF Goto, Inv
  <2>2. StepInv("settle0", failing, task)
    BY <2>1, Releases DEF Awaits, Between, Location
  <2> HIDE DEF failing
  <2>3. failing \in StepRecord /\ failing.end = "none" /\ failing.held = {}
        /\ (failing.replayed => MayReplay(task))
    BY <2>2 DEF StepInv, HeldInv, Holding, ActedInv
  <2>4. /\ st' \in StepRecord /\ st'.end = failing.end /\ st'.held = failing.held
        /\ st'.failed = failing.failed /\ st'.excluded = failing.excluded
        /\ st'.logins = failing.logins /\ st'.acts = failing.acts
        /\ st'.replayed = failing.replayed
    BY <1>3, <2>3 DEF StepRecord
  <2>5. StepInv("settle0", st', task)
    BY <2>2, <2>3, <2>4, GoesOn DEF Awaits, Between, Location
  <2> QED
    BY <1>3, <2>1, <2>5, MovesOn, NothingRead DEF Inv, OwnInv, Location, Attending
<1> HIDE DEF failing
<1>4. \/ Proceed("look0", "climb", failing, NoReading)
      \/ Finish("look0", failing, "failed")
      \/ /\ Goto("look0", "settle0") /\ st' = [failing EXCEPT !.trying = "patch"]
         /\ read' = NoReading /\ late' = FALSE /\ UNCHANGED <<page, moved, task, over>>
  BY DEF Fail0, failing
<1> QED
  BY <1>1, <1>2, <1>3, <1>4

LEMMA Rung0Inv ==
  ASSUME Inv, Rung0
  PROVE  Inv'
<1>1. CASE Settle0
  <2>1. pc = "settle0" /\ pc' = "match0" /\ st' = st /\ StepInv("settle0", st, task)
    BY <1>1 DEF Settle0, Goto, Inv
  <2>2. StepInv("match0", st', task)
    BY <2>1, Keeps DEF Awaits, Between, Location, Holding
  <2>3. read' \in ReadRecord
    BY <1>1 DEF Settle0, Inv, ReadInv, ReadRecord
  <2> QED
    BY <1>1, <2>1, <2>2, <2>3, MovesOn DEF Settle0, Inv, OwnInv, Location, Attending
<1>2. CASE Match0
  <2>1. Trying' = Trying
    BY <1>2 DEF Match0, Proceed, Trying, Inv, StepInv, StepRecord
  <2> QED
    BY <1>2, <2>1, MatchedStep, TryingSelectors DEF Match0, Awaits, Location
<1>3. CASE Waited0
  <2>1. Proceed("wait0", "settle0", st, read)
    BY <1>3 DEF Waited0
  <2>2. StepInv("settle0", st, task)
    BY <2>1, Keeps DEF Proceed, Goto, Inv, Awaits, Between, Location, Holding
  <2> QED
    BY <2>1, <2>2, Proceeds DEF Inv, ReadInv, Location, Attending
<1> QED
  BY <1>1, <1>2, <1>3, Resolve0Inv, Wait0Inv, Fail0Inv DEF Rung0
\* A step without its target keeps everything else.
LEMMA TargetForgotten ==
  ASSUME NEW s \in StepRecord
  PROVE  /\ NoTarget(s) \in StepRecord
         /\ NoTarget(s).end = s.end /\ NoTarget(s).held = s.held /\ NoTarget(s).failed = s.failed
         /\ NoTarget(s).excluded = s.excluded /\ NoTarget(s).logins = s.logins
         /\ NoTarget(s).acts = s.acts /\ NoTarget(s).replayed = s.replayed
<1> DEFINE y == [s EXCEPT !.trying = "again", !.via = "none", !.elem = NoElement]
           z == [y EXCEPT !.name = "none", !.judged = Gone, !.rung = 0]
<1>1. Gone \in AnyLook /\ "none" \in Names /\ 0 \in 0..3
  BY DEF AnyLook, Names
<1>2. /\ y \in StepRecord /\ y.end = s.end /\ y.held = s.held /\ y.failed = s.failed
      /\ y.excluded = s.excluded /\ y.logins = s.logins /\ y.acts = s.acts
      /\ y.replayed = s.replayed
  BY DEF StepRecord
<1>3. NoTarget(s) = z
  BY DEF NoTarget
<1> HIDE DEF y, Gone
<1>4. /\ z \in StepRecord /\ z.end = y.end /\ z.held = y.held /\ z.failed = y.failed
      /\ z.excluded = y.excluded /\ z.logins = y.logins /\ z.acts = y.acts
      /\ z.replayed = y.replayed
  BY <1>1, <1>2 DEF StepRecord
<1> HIDE DEF z
<1> QED
  BY <1>2, <1>3, <1>4

LEMMA ClimbInv ==
  ASSUME Inv, Climb
  PROVE  Inv'
<1>1. CASE Finish("climb", st, "failed")
  <2>1. StepInv("done", Ended(st, "failed"), task)
    BY <1>1, GivesUp DEF Finish, Proceed, Goto, Inv, Awaits, Location, Holding
  <2> QED
    BY <1>1, <2>1, Proceeds, NothingRead DEF Finish, Location, Attending
<1>2. CASE ~over
  <2> DEFINE y == NoTarget(st)
             z == [y EXCEPT !.healing = TRUE]
  <2>1. pc = "climb" /\ pc' = "settle1" /\ st' = z /\ read' = NoReading /\ late' = FALSE
    BY <1>2 DEF Climb, Goto
  <2>2. st \in StepRecord /\ StepInv("climb", st, task)
    BY <2>1 DEF Inv, StepInv
  <2>3. /\ y \in StepRecord /\ y.end = st.end /\ y.held = st.held /\ y.failed = st.failed
        /\ y.excluded = st.excluded /\ y.logins = st.logins /\ y.acts = st.acts
        /\ y.replayed = st.replayed
    BY <2>2, TargetForgotten
  <2> HIDE DEF y
  <2>4. /\ z \in StepRecord /\ z.end = y.end /\ z.held = y.held /\ z.failed = y.failed
        /\ z.excluded = y.excluded /\ z.logins = y.logins /\ z.acts = y.acts
        /\ z.replayed = y.replayed
    BY <2>3 DEF StepRecord
  <2>5. st.end = "none" /\ st.held = {} /\ (st.replayed => MayReplay(task))
    BY <2>2 DEF StepInv, HeldInv, Holding, ActedInv
  <2> HIDE DEF z
  <2>6. StepInv("settle1", z, task)
    BY <2>2, <2>3, <2>4, <2>5, GoesOn DEF Awaits, Between, Location
  <2> QED
    BY <1>2, <2>1, <2>6, MovesOn, NothingRead DEF Climb, Inv, OwnInv, Location, Attending
<1> QED
  BY <1>1, <1>2 DEF Climb

LEMMA Rung1Inv ==
  ASSUME Inv, Rung1
  PROVE  Inv'
<1>1. CASE Settle("settle1", "match1")
  BY <1>1, Settles DEF Awaits, Between, Location, Holding, Attending
<1>2. CASE Match1
  BY <1>2, MatchedStep, Selectors DEF Match1, Awaits, Location, Inv, OwnInv
<1>3. CASE ReadAgain("look1", "settle1")
  BY <1>3, ReadsAgain DEF Awaits, Between, Location, Attending
<1>4. ASSUME pc = "look1", read.verdict = "agreement", Rung1Accepts(page.looks[read.elem]),
             Accept("look1", 1, read.elem, page.looks[read.elem], page.looks[read.elem].name)
      PROVE  Inv'
  <2>1. read.elem \in Elements
    BY <1>4 DEF Inv, ReadInv, AgreedInv
  <2>2. Signature(page.looks[read.elem]) \notin st.excluded
    BY <1>4 DEF Rung1Accepts, Excluded
  <2>3. page.looks[read.elem] \in AnyLook /\ page.looks[read.elem].name \in Names
    BY <2>1, LooksAt DEF Inv, OwnInv
  <2> QED
    BY <1>4, <2>1, <2>2, <2>3, Accepted DEF Awaits, Location
<1>5. CASE Proceed("look1", "settle2", Released(st), NoReading)
  BY <1>5, Proceeds, Releases, NothingRead
     DEF Proceed, Goto, Inv, Awaits, Between, Location, Attending
<1> QED
  BY <1>1, <1>2, <1>3, <1>4, <1>5 DEF Rung1

\* What is held after the scan was read with the looks the page shows.
LEMMA Scanned ==
  ASSUME Inv, NEW to \in {"confirm2", "ask3"}, NEW r \in ReadRecord, r.looks = page.looks,
         Proceed("scan2", to, [st EXCEPT !.held = Ranked(page.looks)], r),
         to = "confirm2" => /\ r.elem \in Ranked(page.looks)
                            /\ Leads(page.looks, Ranked(page.looks), r.elem)
  PROVE  Inv'
<1> DEFINE looks == page.looks
           ranked == Ranked(looks)
<1>1. /\ pc = "scan2" /\ pc' = to /\ st' = [st EXCEPT !.held = ranked] /\ page' = page
      /\ task' = task /\ read' = r
      /\ moved' \in BOOLEAN /\ late' = late /\ over' = over
  BY DEF Proceed, Goto, Inv, OwnInv
<1>2. st \in StepRecord /\ StepInv("scan2", st, task) /\ looks \in PageLooks
  BY <1>1 DEF Inv, StepInv, OwnInv, PageLooks
<1>3. ranked \in SUBSET Elements
  BY DEF Ranked
<1>4. st'.excluded = st.excluded
  BY <1>1, <1>2 DEF StepRecord
<1>5. Ranked(looks)' = ranked
  BY <1>1, <1>4 DEF Ranked, Excluded
<1> HIDE DEF ranked
<1>6. StepInv(to, st', task)
  BY <1>1, <1>2, <1>3, Holds DEF Awaits, Between, Location, Holding
<1>7. read' \in ReadRecord /\ read'.looks = looks
  BY <1>1
<1>8. LooksInv'
  BY <1>1, <1>2, <1>7 DEF LooksInv
<1>9. pc' = "confirm2" =>
        read'.elem \in Ranked(read.looks)' /\ Leads(read.looks, Ranked(read.looks), read.elem)'
  <2>1. Ranked(read.looks)' = ranked
    BY <1>1, <1>5, <1>7 DEF Ranked, Excluded
  <2> QED
    BY <1>1, <1>7, <2>1 DEF Leads, ranked
<1>10. ReadInv'
  BY <1>1, <1>7, <1>8, <1>9 DEF ReadInv
<1>11. OwnInv'
  BY <1>1 DEF Inv, OwnInv, Location
<1> QED
  BY <1>1, <1>6, <1>10, <1>11 DEF Inv

LEMMA AcceptedLead ==
  ASSUME NEW p \in Pages, NEW ranked \in SUBSET Elements, NEW top \in ranked,
         Decision(p.looks, ranked, top) = "accepted"
  PROVE  p.looks[top].safe /\ Leads(p.looks, ranked, top)
<1>1. p.looks[top].score \in Nat /\ p.looks[top].safe \in BOOLEAN
  BY PagesAssumption
<1>2. Threshold \in Nat
  BY HealingAssumption
<1> QED
  BY <1>1, <1>2 DEF Decision

LEMMA Scan2Inv ==
  ASSUME Inv, Scan2
  PROVE  Inv'
<1> DEFINE shown == page.looks
           ranked == Ranked(shown)
           holding == [st EXCEPT !.held = ranked]
           scanned == [NoReading EXCEPT !.looks = shown]
<1>1. ranked \in SUBSET Elements /\ page \in Pages
  BY DEF Ranked, Inv, OwnInv
<1>2. scanned \in ReadRecord /\ scanned.looks = shown
  <2>1. shown \in PageLooks
    BY <1>1 DEF PageLooks
  <2> HIDE DEF shown
  <2> QED
    BY <2>1, NothingRead DEF ReadRecord
<1>3. CASE Declines("scan2")
  BY <1>3, Declined DEF Awaits, Location
<1>4. ASSUME NEW top \in Tops(shown, ranked), Decision(shown, ranked, top) = "accepted",
             Proceed("scan2", "confirm2", holding, [scanned EXCEPT !.elem = top])
      PROVE  Inv'
  <2>1. top \in ranked /\ top \in Elements
    BY <1>1 DEF Tops
  <2>2. Leads(shown, ranked, top)
    BY <1>1, <1>4, <2>1, AcceptedLead
  <2> DEFINE r == [scanned EXCEPT !.elem = top]
  <2>3. r \in ReadRecord /\ r.looks = shown /\ r.elem = top
    BY <1>2, <2>1 DEF ReadRecord
  <2> HIDE DEF scanned, r
  <2>4. Proceed("scan2", "confirm2", holding, r)
    BY <1>4 DEF r
  <2> QED
    BY <2>1, <2>2, <2>3, <2>4, Scanned
<1>5. ASSUME Proceed("scan2", "ask3", holding, scanned)
      PROVE  Inv'
  <2> HIDE DEF scanned
  <2> QED
    BY <1>5, <1>2, Scanned
<1> HIDE DEF shown, ranked, holding, scanned
<1>6. \/ Declines("scan2")
      \/ \E top \in Tops(shown, ranked) :
           \/ /\ Decision(shown, ranked, top) = "accepted"
              /\ Proceed("scan2", "confirm2", holding, [scanned EXCEPT !.elem = top])
           \/ Proceed("scan2", "ask3", holding, scanned)
           \/ Declines("scan2")
  BY DEF Scan2, shown, ranked, holding, scanned
<1> QED
  BY <1>3, <1>4, <1>5, <1>6
LEMMA Confirm2Inv ==
  ASSUME Inv, pc = "confirm2", Confirm2
  PROVE  Inv'
<1> DEFINE then == read.looks[read.elem]
           now == page.looks[read.elem]
<1>1. CASE Declines("confirm2")
  BY <1>1, Declined DEF Awaits, Location
<1>2. CASE Accept("confirm2", 2, read.elem, then, now.name)
  <2>1. read.elem \in Ranked(read.looks) /\ read.looks \in PageLooks
    BY DEF Inv, ReadInv, LooksInv
  <2>2. read.elem \in Elements /\ Signature(then) \notin st.excluded
    BY <2>1 DEF Ranked, Excluded
  <2>3. then \in AnyLook
    BY <2>1, <2>2 DEF PageLooks, AnyLook
  <2>4. now.name \in Names
    BY <2>2, LooksAt DEF Inv, OwnInv
  <2> HIDE DEF then, now
  <2> QED
    BY <1>2, <2>2, <2>3, <2>4, Accepted DEF Awaits, Location
<1> QED
  BY <1>1, <1>2 DEF Confirm2

LEMMA Rung2Inv ==
  ASSUME Inv, Rung2
  PROVE  Inv'
<1>1. CASE Settle("settle2", "scan2")
  BY <1>1, Settles DEF Awaits, Between, Location, Holding, Attending
<1>2. CASE ReadAgain("scan2", "settle2")
  BY <1>2, ReadsAgain DEF Awaits, Between, Location, Attending
<1> QED
  BY <1>1, <1>2, Scan2Inv, Confirm2Inv DEF Rung2

LEMMA PickInv ==
  ASSUME Inv, NEW e \in Eligible(read.looks), Pick(e)
  PROVE  Inv'
<1>1. /\ pc = "ask3" /\ pc' = "judge3" /\ st' = st /\ read' = [read EXCEPT !.elem = e]
      /\ page' = page /\ task' = task /\ late' = late /\ over' = over /\ moved' = moved
  BY DEF Pick, Proceed, Goto, Comparing, Inv, OwnInv
<1>2. e \in Elements
  BY DEF Eligible, Ranked
<1>3. read' \in ReadRecord /\ read'.looks = read.looks /\ read'.elem = e
  BY <1>1, <1>2 DEF Inv, ReadInv, ReadRecord
<1>4. LooksInv'
  BY <1>1, <1>3 DEF Inv, ReadInv, LooksInv, Stable
<1>5. Eligible(read.looks)' = Eligible(read.looks)
  BY <1>1, <1>3 DEF Eligible, Ranked, Excluded
<1>6. ReadInv'
  BY <1>1, <1>3, <1>4, <1>5 DEF ReadInv
<1>7. StepInv(pc, st, task)'
  BY <1>1, Keeps DEF Inv, Awaits, Between, Location, Holding
<1>8. OwnInv'
  BY <1>1 DEF Inv, OwnInv, Location
<1> QED
  BY <1>6, <1>7, <1>8 DEF Inv

LEMMA Ask3Inv ==
  ASSUME Inv, Ask3
  PROVE  Inv'
<1>1. CASE Declines("ask3")
  BY <1>1, Declined DEF Awaits, Location
<1>2. CASE \E e \in Eligible(read.looks) : Pick(e)
  BY <1>2, PickInv
<1>3. (\E s \in Shown(read.looks), e \in Elements : e \in s /\ Pick(e)) =>
        \E e \in Eligible(read.looks) : Pick(e)
  BY DEF Shown
<1> QED
  BY <1>1, <1>2, <1>3 DEF Ask3

LEMMA Judge3Inv ==
  ASSUME Inv, Judge3
  PROVE  Inv'
<1> DEFINE then == read.looks[read.elem]
           now == page.looks[read.elem]
<1>1. CASE Declines("judge3")
  BY <1>1, Declined DEF Awaits, Location
<1>2. ASSUME pc = "judge3", Accept("judge3", 3, read.elem, then, now.name)
      PROVE  Inv'
  <2>1. read.elem \in Eligible(read.looks) /\ read.looks \in PageLooks
    BY <1>2 DEF Inv, ReadInv, LooksInv
  <2>2. read.elem \in Elements /\ Signature(then) \notin st.excluded
    BY <2>1 DEF Eligible, Ranked, Excluded
  <2>3. then \in AnyLook
    BY <2>1, <2>2 DEF PageLooks, AnyLook
  <2>4. now.name \in Names
    BY <2>2, LooksAt DEF Inv, OwnInv
  <2> HIDE DEF then, now
  <2> QED
    BY <1>2, <2>2, <2>3, <2>4, Accepted DEF Awaits, Location
<1> QED
  BY <1>1, <1>2 DEF Judge3

-----------------------------------------------------------------------------
(* The gate, the action, and the recovery keep the invariant.              *)

LEMMA GateInv ==
  ASSUME Inv, Gate
  PROVE  Inv'
<1> DEFINE proposed == [Released(st) EXCEPT !.proposal = Identity(st.judged)]
           pinned == st.pinned \cup {st.elem}
           healed == [st EXCEPT !.via = "healed", !.pinned = @ \cup {st.elem}, !.held = {}]
<1>1. pc = "gate" /\ st \in StepRecord /\ StepInv("gate", st, task)
  BY DEF Gate, Inv, StepInv
<1>2. /\ st.end = "none" /\ st.logins = 0 /\ (Irreversible(task) => st.acts = 0)
      /\ st.failed \subseteq st.excluded /\ (st.replayed => MayReplay(task))
      /\ Signature(st.judged) \notin st.excluded
  BY <1>1 DEF StepInv, HeldInv, ActedInv, ExcludedInv
<1>3. CASE Finish("gate", Released(st), "failed")
  BY <1>3, Declined DEF Declines, Awaits, Location
<1>4. ASSUME Irreversible(task), Finish("gate", proposed, "awaiting")
      PROVE  Inv'
  <2> DEFINE y == Released(st)
             identity == Identity(st.judged)
  <2>1. identity \in Identities
    BY <1>1 DEF StepRecord, Identities
  <2>2. /\ y \in StepRecord /\ y.held = {} /\ y.failed = st.failed /\ y.excluded = st.excluded
        /\ y.logins = st.logins /\ y.acts = st.acts /\ y.replayed = st.replayed
    BY <1>1 DEF Released, StepRecord
  <2> HIDE DEF identity, y
  <2>3. proposed = [y EXCEPT !.proposal = identity]
    BY DEF y, identity
  <2> HIDE DEF proposed
  <2>4. /\ proposed \in StepRecord /\ proposed.held = y.held /\ proposed.failed = y.failed
        /\ proposed.excluded = y.excluded /\ proposed.logins = y.logins
        /\ proposed.acts = y.acts /\ proposed.replayed = y.replayed
    BY <2>1, <2>2, <2>3 DEF StepRecord
  <2>5. StepInv("done", Ended(proposed, "awaiting"), task)
    BY <1>2, <1>4, <2>2, <2>4, MayEnd DEF Ends
  <2> QED
    BY <1>4, <2>5, Proceeds, NothingRead DEF Finish, Location, Attending
<1>5. ASSUME ~Stale(st, task), ~(Irreversible(task) /\ task.approved = <<>>),
             ~OverLimit(st, task), Goto("gate", "ready"), st' = healed, late' = FALSE,
             UNCHANGED <<page, moved, task, read, over>>
      PROVE  Inv'
  <2>1. pinned \in SUBSET Elements
    BY <1>1 DEF StepRecord, StepInv, HeldInv
  <2>2. healed = [st EXCEPT !.via = "healed", !.pinned = pinned, !.held = {}]
    BY <1>1 DEF StepRecord
  <2> HIDE DEF pinned, healed
  <2>3. /\ healed \in StepRecord /\ healed.end = st.end /\ healed.held = {}
        /\ healed.failed = st.failed /\ healed.excluded = st.excluded
        /\ healed.logins = st.logins /\ healed.acts = st.acts /\ healed.judged = st.judged
        /\ healed.replayed = st.replayed /\ healed.used = st.used
    BY <1>1, <2>1, <2>2 DEF StepRecord
  <2>4. st.used < Limit(task, st.judged.login)
    <3>1. st.used \in 0..MaxAttempts /\ Limit(task, st.judged.login) \in 0..MaxAttempts
      BY <1>1, Limits DEF StepRecord
    <3>2. MaxAttempts \in Nat
      BY HealingAssumption
    <3> QED
      BY <1>5, <3>1, <3>2 DEF OverLimit
  <2>5. Irreversible(task) => Identity(st.judged) = task.approved
    BY <1>5 DEF Stale, IsApproved
  <2>6. HeldInv("ready", healed) /\ HealedInv("ready", healed, task)
    BY <1>2, <2>3, <2>4, <2>5 DEF HeldInv, HealedInv
  <2>7. ExcludedInv("ready", healed) /\ ActedInv("ready", healed, task)
    BY <1>2, <2>3 DEF ExcludedInv, ActedInv
  <2>8. StepInv("ready", healed, task)
    BY <2>3, <2>6, <2>7 DEF StepInv
  <2> QED
    BY <1>5, <2>8, MovesOn DEF Goto, Inv, OwnInv, ReadInv, Location, Attending
<1> QED
  BY <1>3, <1>4, <1>5 DEF Gate
LEMMA ReadyInv ==
  ASSUME Inv, Ready
  PROVE  Inv'
<1>1. pc = "ready" /\ StepInv("ready", st, task) /\ read \in ReadRecord
  BY DEF Ready, Inv, ReadInv
<1>2. StepInv("act", st, task)
  BY <1>1 DEF StepInv, HeldInv, ExcludedInv, HealedInv, ActedInv, Holding
<1> QED
  BY <1>1, <1>2, Proceeds DEF Ready, Location, Attending

LEMMA BeforeActionErrorInv ==
  ASSUME Inv, BeforeActionError
  PROVE  Inv'
<1>1. pc \in {"ready", "act"} /\ st \in StepRecord /\ StepInv(pc, st, task) /\ read \in ReadRecord
  BY DEF BeforeActionError, Inv, StepInv, ReadInv
<1>2. st.end = "none" /\ st.held = {} /\ (st.replayed => MayReplay(task))
  BY <1>1 DEF StepInv, HeldInv, ActedInv, Holding
<1> DEFINE y == Unpinned(st)
           excluded == y.excluded \cup {Signature(st.judged)}
           z == [y EXCEPT !.excluded = excluded]
<1>3. /\ y \in StepRecord /\ y.end = st.end /\ y.held = st.held /\ y.failed = st.failed
      /\ y.excluded = st.excluded /\ y.logins = st.logins /\ y.acts = st.acts
      /\ y.replayed = st.replayed
  BY <1>1 DEF Unpinned, StepRecord
<1>4. excluded \in SUBSET Signatures /\ st.excluded \subseteq excluded
  BY <1>1, <1>3 DEF StepRecord, Signatures
<1>5. StepInv("climb", y, task)
  <2> HIDE DEF y
  <2> QED
    BY <1>1, <1>2, <1>3, GoesOn DEF Awaits, Between, Location, Holding
<1>6. StepInv("climb", z, task)
  <2> HIDE DEF y, excluded
  <2>1. /\ z \in StepRecord /\ z.end = y.end /\ z.held = y.held /\ z.failed = y.failed
        /\ z.excluded = excluded /\ z.logins = y.logins /\ z.acts = y.acts
        /\ z.replayed = y.replayed
    BY <1>3, <1>4 DEF StepRecord
  <2> HIDE DEF z
  <2> QED
    BY <1>1, <1>2, <1>3, <1>4, <2>1, GoesOn DEF Awaits, Between, Location, Holding
<1>7. CASE Finish(pc, st, "failed")
  <2>1. StepInv("done", Ended(st, "failed"), task)
    BY <1>1, GivesUp DEF Awaits, Location, Holding
  <2> QED
    BY <1>7, <2>1, Proceeds, NothingRead DEF Finish, Location, Attending
<1>8. CASE Proceed(pc, "climb", y, read)
  BY <1>1, <1>5, <1>8, Proceeds DEF Location, Attending
<1>9. CASE Proceed(pc, "climb", z, read)
  BY <1>1, <1>6, <1>9, Proceeds DEF Location, Attending
<1> QED
  BY <1>7, <1>8, <1>9 DEF BeforeActionError

LEMMA ActInv ==
  ASSUME Inv, Act
  PROVE  Inv'
<1> DEFINE count == st.acts + 1
           authenticating == task.authenticates \/ Acting.login
           tries == IF authenticating THEN st.logins + 1 ELSE st.logins
<1>1. /\ pc = "act" /\ pc' = "verify" /\ st \in StepRecord /\ StepInv("act", st, task)
      /\ st' = [st EXCEPT !.acts = count, !.logins = tries]
  BY DEF Act, Goto, Inv, StepInv
<1>2. /\ st.end = "none" /\ st.held = {} /\ st.logins = 0
      /\ Irreversible(task) => st.acts = 0
      /\ st.failed \subseteq st.excluded /\ (st.replayed => MayReplay(task))
  BY <1>1 DEF StepInv, HeldInv, ActedInv, ExcludedInv, Holding
<1>3. count \in Nat /\ tries \in {0, 1} /\ (Irreversible(task) => count = 1)
  BY <1>1, <1>2 DEF StepRecord
<1>4. tries = 1 /\ st.via = "healed" => task.authenticates \/ st.judged.login
  BY <1>2 DEF Acting
<1> HIDE DEF count, tries
<1>5. /\ st' \in StepRecord /\ st'.end = st.end /\ st'.held = st.held /\ st'.failed = st.failed
      /\ st'.excluded = st.excluded /\ st'.logins = tries /\ st'.acts = count
      /\ st'.replayed = st.replayed /\ st'.via = st.via /\ st'.judged = st.judged
      /\ st'.used = st.used
  <2>1. tries \in Nat
    BY <1>3
  <2>2. st' \in StepRecord
    BY <1>1, <1>3, <2>1 DEF StepRecord
  <2> QED
    BY <1>1, <2>2 DEF StepRecord
<1>6. HeldInv("verify", st') /\ ExcludedInv("verify", st')
  BY <1>2, <1>5 DEF HeldInv, ExcludedInv
<1>7. HealedInv("verify", st', task)
  BY <1>1, <1>5 DEF StepInv, HealedInv
<1>8. ActedInv("verify", st', task)
  BY <1>2, <1>3, <1>4, <1>5 DEF ActedInv
<1>9. StepInv(pc', st', task)
  BY <1>1, <1>5, <1>6, <1>7, <1>8 DEF StepInv
<1> QED
  BY <1>1, <1>9, MovesOn DEF Act, Inv, OwnInv, ReadInv, Location, Attending

\* A healed action uses one attempt, and one that failed is excluded.
LEMMA CountedStep ==
  ASSUME NEW t, NEW s, StepInv("verify", s, t), s.via = "healed"
  PROVE  /\ s.used + 1 \in 0..MaxAttempts
         /\ Counted(s) \in StepRecord /\ Counted(s).used = s.used + 1
         /\ \A f \in {Counted(s), Disproved(s)} :
              /\ f \in StepRecord /\ f.used = s.used + 1 /\ f.held = {}
              /\ f.failed \subseteq f.excluded /\ f.logins = s.logins /\ f.acts = s.acts
              /\ f.replayed = s.replayed /\ f.judged = s.judged /\ f.end = "none"
<1>1. s \in StepRecord /\ s.held = {} /\ s.end = "none" /\ s.failed \subseteq s.excluded
  BY DEF StepInv, HeldInv, ExcludedInv, Holding
<1>2. s.used + 1 \in 0..MaxAttempts
  <2>1. s.used < Limit(t, s.judged.login)
    BY DEF StepInv, HealedInv
  <2>2. s.used \in 0..MaxAttempts /\ MaxAttempts \in Nat
    BY <1>1, HealingAssumption DEF StepRecord
  <2> QED
    BY <2>1, <2>2, Limits
<1> DEFINE more == s.used + 1
           y == [s EXCEPT !.used = more]
           excluded == y.excluded \cup {Signature(s.judged)}
           failed == y.failed \cup {Signature(s.judged)}
           z == [y EXCEPT !.excluded = excluded, !.failed = failed]
<1> HIDE DEF more
<1>3. /\ y \in StepRecord /\ y.used = more /\ y.held = s.held /\ y.failed = s.failed
      /\ y.excluded = s.excluded /\ y.logins = s.logins /\ y.acts = s.acts
      /\ y.replayed = s.replayed /\ y.judged = s.judged /\ y.end = s.end
  BY <1>1, <1>2 DEF StepRecord, more
<1>4. excluded \in SUBSET Signatures /\ failed \in SUBSET Signatures /\ failed \subseteq excluded
  BY <1>1, <1>3 DEF StepRecord, Signatures
<1>5. Counted(s) = y
  BY DEF Counted, more
<1>6. Disproved(s) = z
  <2>1. Disproved(s) = [y EXCEPT !.excluded = @ \cup {Signature(y.judged)},
                                 !.failed = @ \cup {Signature(y.judged)}]
    BY <1>3, <1>5 DEF Disproved
  <2> HIDE DEF y
  <2> QED
    BY <1>3, <2>1 DEF StepRecord
<1> HIDE DEF y, excluded, failed
<1>7. /\ z \in StepRecord /\ z.used = y.used /\ z.held = y.held /\ z.failed = failed
      /\ z.excluded = excluded /\ z.logins = y.logins /\ z.acts = y.acts
      /\ z.replayed = y.replayed /\ z.judged = y.judged /\ z.end = y.end
  BY <1>3, <1>4 DEF StepRecord
<1> HIDE DEF z
<1> QED
  BY <1>1, <1>2, <1>3, <1>4, <1>5, <1>6, <1>7 DEF more
\* What a step at its verification has done.
LEMMA Verifying ==
  ASSUME Inv, pc = "verify"
  PROVE  /\ st \in StepRecord /\ StepInv("verify", st, task)
         /\ st.end = "none" /\ st.held = {} /\ st.logins \in {0, 1}
         /\ st.logins = 1 /\ st.via = "healed" => task.authenticates \/ st.judged.login
         /\ Irreversible(task) => st.acts \in {0, 1}
         /\ st.failed \subseteq st.excluded /\ (st.replayed => MayReplay(task))
  BY DEF Inv, StepInv, HeldInv, ExcludedInv, ActedInv, Holding

LEMMA ChecksEnd ==
  ASSUME Inv, pc = "verify", NEW end \in Ends \ {"awaiting"},
         \/ Finish("verify", st, end)
         \/ Finish("verify", Counted(st), end)
         \/ st.via = "healed" /\ Finish("verify", Disproved(st), end)
  PROVE  Inv'
<1>1. StepInv("done", Ended(st, end), task)
  BY Verifying, MayEnd
<1>2. ASSUME st.via = "healed", NEW f \in {Counted(st), Disproved(st)}
      PROVE  StepInv("done", Ended(f, end), task)
  <2>1. /\ f \in StepRecord /\ f.held = {} /\ f.failed \subseteq f.excluded
        /\ f.logins = st.logins /\ f.acts = st.acts /\ f.replayed = st.replayed
    BY <1>2, Verifying, CountedStep
  <2> QED
    BY <2>1, Verifying, MayEnd
<1>3. st.via # "healed" => Counted(st) = st
  BY DEF Counted
<1>4. StepInv("done", Ended(Counted(st), end), task)
  BY <1>1, <1>2, <1>3
<1>5. st.via = "healed" => StepInv("done", Ended(Disproved(st), end), task)
  BY <1>2
<1> QED
  BY <1>1, <1>4, <1>5, Proceeds, NothingRead DEF Finish, Location, Attending

\* A heal that failed may be recovered from only if it submitted no login and
\* was not irreversible.
LEMMA Recovers ==
  ASSUME Inv, pc = "verify", st.via = "healed", ~Irreversible(task),
         ~OverLimit(Disproved(st), task)
  PROVE  StepInv("restore", Disproved(st), task)
<1> DEFINE f == Disproved(st)
<1>1. /\ f \in StepRecord /\ f.used = st.used + 1 /\ f.held = {} /\ f.failed \subseteq f.excluded
      /\ f.logins = st.logins /\ f.judged = st.judged /\ f.replayed = st.replayed
      /\ f.end = "none"
  BY Verifying, CountedStep
<1>2. st.logins = 0
  <2>1. SUFFICES ASSUME st.logins = 1 PROVE FALSE
    BY Verifying
  <2>2. Limit(task, st.judged.login) <= 1 /\ Limit(task, st.judged.login) \in 0..MaxAttempts
    BY <2>1, Verifying, Limits
  <2>3. st.used \in 0..MaxAttempts /\ MaxAttempts \in Nat
    BY Verifying, HealingAssumption DEF StepRecord
  <2>4. ~(st.used + 1 >= Limit(task, st.judged.login))
    BY <1>1 DEF OverLimit
  <2> QED
    BY <2>2, <2>3, <2>4
<1> HIDE DEF f
<1>3. HeldInv("restore", f) /\ ExcludedInv("restore", f) /\ HealedInv("restore", f, task)
  BY <1>1 DEF HeldInv, ExcludedInv, HealedInv
<1>4. ActedInv("restore", f, task)
  BY <1>1, <1>2, Verifying DEF ActedInv
<1>5. StepInv("restore", f, task)
  BY <1>1, <1>3, <1>4 DEF StepInv
<1> QED
  BY <1>5 DEF f

LEMMA ChecksFailInv ==
  ASSUME Inv, ChecksFail
  PROVE  Inv'
<1>1. pc = "verify"
  BY DEF ChecksFail, Finish, Proceed, Goto
<1>2. CASE st.via # "healed"
  BY <1>1, <1>2, ChecksEnd DEF ChecksFail, Ends
<1>3. CASE st.via = "healed" /\ (Irreversible(task) \/ OverLimit(Disproved(st), task))
  BY <1>1, <1>3, ChecksEnd DEF ChecksFail, Ends
<1>4. CASE st.via = "healed" /\ ~Irreversible(task) /\ ~OverLimit(Disproved(st), task)
  <2>1. Proceed("verify", "restore", Disproved(st), NoReading)
    BY <1>4 DEF ChecksFail
  <2>2. StepInv("restore", Disproved(st), task)
    BY <1>1, <1>4, Recovers
  <2> QED
    BY <2>1, <2>2, Proceeds, NothingRead DEF Location, Attending
<1> QED
  BY <1>2, <1>3, <1>4

LEMMA PerformInv ==
  ASSUME Inv, Perform
  PROVE  Inv'
<1>1. CASE ChecksPass
  BY <1>1, ChecksEnd DEF ChecksPass, Finish, Proceed, Goto, Ends
<1>2. CASE PageProblem
  BY <1>2, ChecksEnd DEF PageProblem, Finish, Proceed, Goto, Ends
<1> QED
  BY <1>1, <1>2, ReadyInv, BeforeActionErrorInv, ActInv, ChecksFailInv DEF Perform

LEMMA RecoverInv ==
  ASSUME Inv, Recover
  PROVE  Inv'
<1> DEFINE y == Unpinned(st)
<1>1. pc = "restore" /\ st \in StepRecord /\ StepInv("restore", st, task)
  BY DEF Recover, Restore, RestoreFails, Finish, Proceed, Goto, Inv, StepInv
<1>2. st.end = "none" /\ st.held = {} /\ (st.replayed => MayReplay(task))
  BY <1>1 DEF StepInv, HeldInv, ActedInv, Holding
<1>3. /\ y \in StepRecord /\ y.end = st.end /\ y.held = st.held /\ y.failed = st.failed
      /\ y.excluded = st.excluded /\ y.logins = st.logins /\ y.acts = st.acts
      /\ y.replayed = st.replayed
  BY <1>1 DEF Unpinned, StepRecord
<1>4. CASE Restore
  <2> DEFINE x == NoTarget(y)
             repeated == task.before # "none"
             z == [x EXCEPT !.replayed = repeated]
  <2>1. pc' = "settle0" /\ st' = z /\ MayReplay(task) /\ late' = FALSE
    BY <1>4 DEF Restore, Goto
  <2> HIDE DEF y
  <2>2. /\ x \in StepRecord /\ x.end = y.end /\ x.held = y.held /\ x.failed = y.failed
        /\ x.excluded = y.excluded /\ x.logins = y.logins /\ x.acts = y.acts
    BY <1>3, TargetForgotten
  <2>3. repeated \in BOOLEAN
    OBVIOUS
  <2> HIDE DEF x, repeated
  <2>4. /\ z \in StepRecord /\ z.end = x.end /\ z.held = x.held /\ z.failed = x.failed
        /\ z.excluded = x.excluded /\ z.logins = x.logins /\ z.acts = x.acts
    BY <2>2, <2>3 DEF StepRecord
  <2> HIDE DEF z
  <2>5. StepInv("settle0", z, task)
    BY <1>1, <1>2, <1>3, <2>1, <2>2, <2>4, GoesOn DEF Awaits, Between, Location, Holding
  <2>6. page' \in Pages /\ task' = task /\ moved' = moved /\ read' = read /\ over' = over
    BY <1>4 DEF Restore
  <2> QED
    BY <2>1, <2>5, <2>6, MovesOn DEF Inv, OwnInv, ReadInv, Location, Attending
<1>5. CASE RestoreFails
  <2> HIDE DEF y
  <2>1. StepInv("restore", y, task)
    BY <1>1, <1>2, <1>3, GoesOn DEF Awaits, Between, Location, Holding
  <2>2. StepInv("done", Ended(y, "failed"), task)
    BY <2>1, GivesUp DEF Awaits, Location, Holding
  <2>3. Finish("restore", y, "failed")
    BY <1>5 DEF RestoreFails, y
  <2> QED
    BY <2>2, <2>3, Proceeds, NothingRead DEF Finish, Location, Attending
<1> QED
  BY <1>4, <1>5 DEF Recover

-----------------------------------------------------------------------------
(* The page, the clock and the browser keep the invariant.                 *)

LEMMA UnreadableInv ==
  ASSUME Inv, Unreadable
  PROVE  Inv'
<1>1. pc \in Awaits /\ Proceed(pc, "done", Ended(st, "unreadable"), NoReading)
  BY DEF Unreadable, Reading, Awaits, Location
<1>2. StepInv("done", Ended(st, "unreadable"), task)
  BY <1>1, GivesUp DEF Inv
<1> QED
  BY <1>1, <1>2, Proceeds, NothingRead DEF Location, Attending

\* A page that changes where an epoch is compared is noticed.
LEMMA ChangeInv ==
  ASSUME Inv, Change
  PROVE  Inv'
<1>1. /\ page' \in Pages /\ moved' = (pc \in Comparing) /\ pc' = pc /\ task' = task
      /\ st' = st /\ read' = read /\ late' = late /\ over' = over
  BY DEF Change
<1>2. pc \in {"look0", "look1", "confirm2", "ask3", "judge3"} => ~Stable'
  BY <1>1 DEF Comparing, Stable
<1>3. Ranked(read.looks)' = Ranked(read.looks) /\ Eligible(read.looks)' = Eligible(read.looks)
  BY <1>1 DEF Eligible, Ranked, Excluded
<1>4. ReadInv'
  <2>1. pc' = "look0" => AgreedInv(Trying)'
    BY <1>1, <1>2 DEF Inv, ReadInv, AgreedInv
  <2>2. pc' = "look1" => AgreedInv(page.alternate)'
    BY <1>1, <1>2 DEF Inv, ReadInv, AgreedInv
  <2>3. pc' \in {"confirm2", "ask3", "judge3"} => LooksInv'
    BY <1>1, <1>2 DEF Inv, ReadInv, LooksInv
  <2>4. pc' = "confirm2" => Leads(read.looks, Ranked(read.looks), read.elem)'
    BY <1>1, <1>3 DEF Inv, ReadInv, Leads
  <2> QED
    BY <1>1, <1>3, <2>1, <2>2, <2>3, <2>4 DEF Inv, ReadInv
<1>5. OwnInv'
  BY <1>1 DEF Inv, OwnInv
<1> QED
  BY <1>1, <1>4, <1>5 DEF Inv

\* Nothing but a deadline passes, or nothing at all.
LEMMA DeadlineInv ==
  ASSUME Inv, UNCHANGED <<page, moved, pc, task, st, read>>, late' \in BOOLEAN, over' \in BOOLEAN
  PROVE  Inv'
<1>1. OwnInv'
  BY DEF Inv, OwnInv
<1>2. StepInv(pc, st, task)'
  BY DEF Inv
<1>3. ReadInv'
  BY DEF Inv, ReadInv, AgreedInv, LooksInv, Leads, Ranked, Eligible, Excluded, Trying, Stable
<1> QED
  BY <1>1, <1>2, <1>3 DEF Inv
-----------------------------------------------------------------------------
(* The invariant holds.                                                    *)

LEMMA InitInv ==
  ASSUME Init
  PROVE  Inv
<1>1. StepInv("settle0", st, task)
  BY EmptyStep DEF Init
<1> QED
  BY <1>1, NothingRead DEF Init, Inv, OwnInv, ReadInv, Location

LEMMA NextInv ==
  ASSUME Inv, [Next]_vars
  PROVE  Inv'
<1>1. CASE Work
  <2>1. CASE Rung3
    BY <2>1, Ask3Inv, Judge3Inv DEF Rung3
  <2> QED
    BY <1>1, <2>1, Rung0Inv, ClimbInv, Rung1Inv, Rung2Inv, GateInv, PerformInv, RecoverInv DEF Work
<1>2. CASE StepDeadline
  BY <1>2, DeadlineInv DEF StepDeadline, Inv, OwnInv
<1>3. CASE HealDeadline
  BY <1>3, DeadlineInv DEF HealDeadline, Inv, OwnInv
<1>4. CASE Done
  BY <1>4, DeadlineInv DEF Done, vars, Inv, OwnInv
<1>5. CASE UNCHANGED vars
  BY <1>5, DeadlineInv DEF vars, Inv, OwnInv
<1> QED
  BY <1>1, <1>2, <1>3, <1>4, <1>5, UnreadableInv, ChangeInv DEF Next

LEMMA InvAlways == Spec => []Inv
<1>1. Init => Inv
  BY InitInv
<1>2. Inv /\ [Next]_vars => Inv'
  BY NextInv
<1> QED
  BY <1>1, <1>2, PTL DEF Spec

\* NothingRepeated: for any pages and any step, an element that failed the
\* step's checkpoints is never acted on again, a login is submitted once at
\* most, an irreversible action is performed once at most and on a heal only if
\* it was approved, and no element stays pinned when the step has ended.
THEOREM NothingIsRepeated == Spec => []NothingRepeated
<1>1. Inv => NothingRepeated
  <2> SUFFICES ASSUME Inv PROVE NothingRepeated
    OBVIOUS
  <2>1. TypeOK
    BY DEF Inv, OwnInv, StepInv, HeldInv, StepRecord, ReadInv, ReadRecord, TypeOK
  <2>2. FailedNeverRetried
    BY DEF Inv, StepInv, ExcludedInv, FailedNeverRetried
  <2>3. AuthenticatesOnce
    BY DEF Inv, StepInv, ActedInv, AuthenticatesOnce
  <2>4. IrreversibleOnce
    BY DEF Inv, StepInv, HealedInv, ActedInv, IrreversibleOnce, MayReplay
  <2>5. NothingPinned
    BY DEF Inv, StepInv, HeldInv, NothingPinned, Holding
  <2> QED
    BY <2>1, <2>2, <2>3, <2>4, <2>5 DEF NothingRepeated
<1> QED
  BY <1>1, InvAlways, PTL

-----------------------------------------------------------------------------
(* What is acted on is what was read.                                      *)

\* How a step comes to a target, to the gate and to the action.
LEMMA ComesToReady ==
  ASSUME Next, pc = "look0", pc' = "ready"
  PROVE  Resolve0
<1>1. CASE Fail0
  BY <1>1 DEF Fail0, Proceed, Finish, Goto
<1> QED
  BY <1>1 DEF Next, Work, Rung0, Settle0, Match0, Wait0, Waited0, Climb, Rung1, Match1, Settle,
       ReadAgain, Accept, Rung2, Scan2, Confirm2, Declines, Rung3, Ask3, Pick, Judge3, Gate,
       Perform, Ready, BeforeActionError, Act, ChecksPass, PageProblem, ChecksFail, Recover,
       Restore, RestoreFails, Unreadable, Change, StepDeadline, HealDeadline, Done, Proceed,
       Finish, Goto, vars

LEMMA ComesToAct ==
  ASSUME Next, pc = "ready", pc' = "act"
  PROVE  Ready
<1>1. CASE BeforeActionError
  BY <1>1 DEF BeforeActionError, Proceed, Finish, Goto
<1> QED
  BY <1>1 DEF Next, Work, Rung0, Settle0, Match0, Resolve0, Wait0, Waited0, Fail0, Climb, Rung1,
       Match1, Settle, ReadAgain, Accept, Rung2, Scan2, Confirm2, Declines, Rung3, Ask3, Pick,
       Judge3, Gate, Perform, Act, ChecksPass, PageProblem, ChecksFail, Recover, Restore,
       RestoreFails, Unreadable, Change, StepDeadline, HealDeadline, Done, Proceed, Finish,
       Goto, vars

LEMMA ComesToGate ==
  ASSUME Next, pc' = "gate"
  PROVE  /\ pc = "look1" => Rung1
         /\ pc = "confirm2" => Confirm2
         /\ pc = "judge3" => Judge3
<1>1. CASE Rung0 \/ Climb
  BY <1>1 DEF Rung0, Settle0, Match0, Resolve0, Wait0, Waited0, Fail0, Climb, Proceed, Finish, Goto
<1>2. CASE Rung1
  BY <1>2 DEF Rung1, Match1, Settle, ReadAgain, Accept, Proceed, Finish, Goto
<1>3. CASE Rung2
  BY <1>3 DEF Rung2, Settle, ReadAgain, Scan2, Declines, Proceed, Finish, Goto
<1>4. CASE Rung3
  BY <1>4 DEF Rung3, Ask3, Pick, Judge3, Declines, Proceed, Finish, Goto
<1>5. CASE Gate \/ Perform \/ Recover
  BY <1>5 DEF Gate, Perform, Ready, BeforeActionError, Act, ChecksPass, PageProblem, ChecksFail,
       Recover, Restore, RestoreFails, Proceed, Finish, Goto
<1>6. CASE Unreadable \/ Change \/ StepDeadline \/ HealDeadline \/ Done
  BY <1>6 DEF Unreadable, Change, StepDeadline, HealDeadline, Done, Proceed, Goto, vars
<1> QED
  BY <1>1, <1>2, <1>3, <1>4, <1>5, <1>6 DEF Next, Work
\* What Accept leaves for the gate.
LEMMA Leaves ==
  ASSUME Inv, NEW from, NEW rung, NEW elem, NEW judged, NEW confirmed,
         Accept(from, rung, elem, judged, confirmed)
  PROVE  st'.rung = rung /\ st'.elem = elem /\ st'.judged = judged
  BY DEF Accept, Proceed, Inv, StepInv, StepRecord

\* Rung 0's target and rung 1's are what the selectors agree on now.
LEMMA OneReadingStep ==
  ASSUME Inv, Next
  PROVE  /\ pc = "look0" /\ pc' = "ready" =>
              AgreeOn(Trying, st'.elem) /\ SameAs(Expected, page.looks[st'.elem])
         /\ Accepts("look1") => AgreeOn(page.alternate, st'.elem)
         /\ Accepts("look1") \/ Accepts("judge3") => st'.judged = page.looks[st'.elem]
<1>1. ASSUME pc = "look0", pc' = "ready"
      PROVE  AgreeOn(Trying, st'.elem) /\ SameAs(Expected, page.looks[st'.elem])
  <2>1. Resolve0
    BY <1>1, ComesToReady
  <2>2. read.verdict = "agreement" /\ SameAs(Expected, page.looks[read.elem]) /\ Stable
    BY <2>1 DEF Resolve0, Outcome0
  <2>3. AgreeOn(Trying, read.elem)
    BY <1>1, <2>2 DEF Inv, ReadInv, AgreedInv
  <2>4. st'.elem = read.elem
    BY <2>1 DEF Resolve0, Target, Released, Inv, StepInv, StepRecord
  <2> QED
    BY <2>2, <2>3, <2>4
<1>2. ASSUME Accepts("look1")
      PROVE  AgreeOn(page.alternate, st'.elem) /\ st'.judged = page.looks[st'.elem]
  <2> DEFINE now == page.looks[read.elem]
  <2>1. pc = "look1" /\ pc' = "gate" /\ Rung1
    BY <1>2, ComesToGate DEF Accepts
  <2>2. read.verdict = "agreement" /\ Stable /\ Accept("look1", 1, read.elem, now, now.name)
    BY <2>1 DEF Rung1, Match1, Settle, ReadAgain, Proceed, Finish, Goto
  <2>3. AgreeOn(page.alternate, read.elem)
    BY <2>1, <2>2 DEF Inv, ReadInv, AgreedInv
  <2> HIDE DEF now
  <2>4. st'.elem = read.elem /\ st'.judged = now
    BY <2>2, Leaves
  <2> QED
    BY <2>3, <2>4 DEF now
<1>3. ASSUME Accepts("judge3")
      PROVE  st'.judged = page.looks[st'.elem]
  <2> DEFINE then == read.looks[read.elem]
             now == page.looks[read.elem]
  <2>1. pc = "judge3" /\ pc' = "gate" /\ Judge3
    BY <1>3, ComesToGate DEF Accepts
  <2>2. Stable /\ Accept("judge3", 3, read.elem, then, now.name)
    BY <2>1 DEF Judge3, Declines, Finish, Proceed, Goto
  <2>3. read.looks = page.looks
    BY <2>1, <2>2 DEF Inv, ReadInv, LooksInv
  <2> HIDE DEF then, now
  <2>4. st'.elem = read.elem /\ st'.judged = then
    BY <2>2, Leaves
  <2> QED
    BY <2>3, <2>4 DEF then
<1> QED
  BY <1>1, <1>2, <1>3

\* A look that is gone is not safe, so a safe element of the reading that was
\* not excluded was a candidate.
LEMMA Candidate ==
  ASSUME NEW looks, NEW e \in Elements, Signature(looks[e]) \notin st.excluded, looks[e].safe
  PROVE  e \in Ranked(looks)
<1>1. Gone.safe = FALSE
  BY DEF Gone
<1>2. looks[e] # Gone
  BY <1>1
<1> QED
  BY <1>2 DEF Ranked, Excluded

LEMMA NotAGuessStep ==
  ASSUME Inv, Next, Accepts("confirm2") \/ Accepts("judge3"), NEW e \in Elements \ {st'.elem},
         Signature(read.looks[e]) \notin st.excluded, read.looks[e].safe
  PROVE  IF st'.rung = 2 THEN st'.judged.score >= read.looks[e].score + Margin
         ELSE read.looks[e].shares => Describe(read.looks[e]) # Describe(st'.judged)
<1> DEFINE then == read.looks[read.elem]
           now == page.looks[read.elem]
<1>1. e \in Ranked(read.looks)
  BY Candidate
<1>2. ASSUME Accepts("confirm2")
      PROVE  st'.rung = 2 /\ st'.judged.score >= read.looks[e].score + Margin
  <2>1. pc = "confirm2" /\ pc' = "gate" /\ Confirm2
    BY <1>2, ComesToGate DEF Accepts
  <2>2. Accept("confirm2", 2, read.elem, then, now.name)
    BY <2>1 DEF Confirm2, Declines, Finish, Proceed, Goto
  <2> HIDE DEF then, now
  <2>3. st'.rung = 2 /\ st'.elem = read.elem /\ st'.judged = then
    BY <2>2, Leaves
  <2>4. Leads(read.looks, Ranked(read.looks), read.elem)
    BY <2>1 DEF Inv, ReadInv
  <2>5. then.score >= read.looks[e].score + Margin
    BY <1>1, <2>3, <2>4 DEF Leads, then
  <2> QED
    BY <2>3, <2>5
<1>3. ASSUME Accepts("judge3")
      PROVE  /\ st'.rung = 3
             /\ read.looks[e].shares => Describe(read.looks[e]) # Describe(st'.judged)
  <2>1. pc = "judge3" /\ pc' = "gate" /\ Judge3
    BY <1>3, ComesToGate DEF Accepts
  <2>2. ~LookAlike(read.looks, read.elem) /\ Accept("judge3", 3, read.elem, then, now.name)
    BY <2>1 DEF Judge3, Declines, Finish, Proceed, Goto
  <2> HIDE DEF then, now
  <2>3. st'.rung = 3 /\ st'.elem = read.elem /\ st'.judged = then
    BY <2>2, Leaves
  <2>4. read.looks[e].shares => e \in Eligible(read.looks)
    BY <1>1 DEF Eligible
  <2>5. read.looks[e].shares => Describe(read.looks[e]) # Describe(then)
    BY <2>2, <2>3, <2>4 DEF LookAlike, then
  <2> QED
    BY <2>3, <2>5
<1> QED
  BY <1>2, <1>3

LEMMA VerifiedIsReadyStep ==
  ASSUME Next, pc = "ready", pc' = "act"
  PROVE  page.looks[st.elem].name = st.name
  BY ComesToAct DEF Ready, Unsuitable, Look

\* ActsOnWhatItRead: for any pages, however they change at any await, a target
\* comes from one reading of one moment; a ranking's winner led every other
\* candidate by the margin and a model's pick had no look-alike; and the element
\* acted on still has the name it was confirmed under.
THEOREM ActsOnWhatWasRead == Spec => ActsOnWhatItRead
<1>1. Inv /\ [Next]_vars =>
        [/\ pc = "look0" /\ pc' = "ready" =>
              AgreeOn(Trying, st'.elem) /\ SameAs(Expected, page.looks[st'.elem])
         /\ Accepts("look1") => AgreeOn(page.alternate, st'.elem)
         /\ Accepts("look1") \/ Accepts("judge3") => st'.judged = page.looks[st'.elem]]_vars
  BY OneReadingStep
<1>2. Inv /\ [Next]_vars =>
        [Accepts("confirm2") \/ Accepts("judge3") =>
           \A e \in Elements \ {st'.elem} :
             LET other == read.looks[e]
             IN Signature(other) \notin st.excluded /\ other.safe =>
                  IF st'.rung = 2 THEN st'.judged.score >= other.score + Margin
                  ELSE other.shares => Describe(other) # Describe(st'.judged)]_vars
  BY NotAGuessStep
<1>3. Inv /\ [Next]_vars =>
        [pc = "ready" /\ pc' = "act" => page.looks[st.elem].name = st.name]_vars
  BY VerifiedIsReadyStep
<1>4. Spec => OneReading
  BY <1>1, InvAlways, PTL DEF Spec, OneReading
<1>5. Spec => NotAGuess
  BY <1>2, InvAlways, PTL DEF Spec, NotAGuess
<1>6. Spec => VerifiedIsReady
  BY <1>3, InvAlways, PTL DEF Spec, VerifiedIsReady
<1> QED
  BY <1>4, <1>5, <1>6 DEF ActsOnWhatItRead
=============================================================================
