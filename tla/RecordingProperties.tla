------------------------ MODULE RecordingProperties ------------------------
(* What a recording promises of the steps it hands over.                   *)
EXTENDS Recording

Places ==
  {"start", "open", "next", "handle", "pin", "target", "before", "arm", "act", "settle", "checks",
   "field", "examine", "read", "flushed", "drain", "ended", "write", "verify", "exited"}

\* Types: the page, the channel and the recorder hold what their code can.
TypeOK ==
  /\ page.doc \in 0..MaxDocs /\ page.value \in [Inputs -> Nat]
  /\ page.dirty \subseteq Fields /\ page.masked \subseteq Inputs
  /\ page.busy \in 0..page.sent /\ {page.armed, page.open} \subseteq BOOLEAN
  /\ person.left \in [Kinds -> Nat] /\ person.stopped \in BOOLEAN
  /\ Committed = page.doc /\ nav.requested \in BOOLEAN
  /\ nav.coming => nav.requested
  /\ \A w \in chan.waiting : w[1] \in 1..MaxDocs
  /\ rec.pc \in Places /\ rec.before \in 0..MaxDocs
  /\ ignored \subseteq 1..MaxDocs /\ through \in 0..MaxDocs
  /\ out.file \in {"none", "other", "ours"}

\* A gesture recorded as a step comes after fills that hold at least what the
\* page's fields held when the person made it: the page reports edited fields
\* first, the channel keeps one document's order, and merging moves no fill.
EditsComeFirst ==
  \A i \in DOMAIN steps : steps[i].kind = "gesture" =>
    \A f \in Inputs : steps[i].edits[f] > 0 =>
      \E j \in 1..(i - 1) :
        /\ steps[j].kind \in {"fill", "select"} /\ steps[j].key = <<steps[i].key[1], f>>
        /\ steps[j].secret \/ steps[j].value >= steps[i].edits[f]

\* Stopping loses no edit: what the fields held when the page was asked to
\* commit is in the steps, unless the wait for the messages ran out or the
\* window closed under it.
StopKeepsEdits ==
  rec.end = "recorded" /\ rec.left # <<>> /\ ~rec.late =>
    \A f \in Inputs : rec.left.value[f] > 0 =>
      \E j \in DOMAIN steps :
        /\ steps[j].kind \in {"fill", "select"} /\ steps[j].key = <<rec.left.doc, f>>
        /\ steps[j].secret \/ steps[j].value >= rec.left.value[f]

\* Every document committed up to `through` is in one step or one notice, and
\* in no more than one: a navigation is neither recorded twice nor forgotten.
NavigationsCountedOnce ==
  /\ \A i, j \in DOMAIN steps : i # j => steps[i].navs \cap steps[j].navs = {}
  /\ \A i \in DOMAIN steps : steps[i].navs \cap ignored = {}
  /\ rec.end = "recorded" =>
       1..through = ignored \cup UNION {steps[i].navs : i \in DOMAIN steps}

\* A field's text is never stored when the page masked it as it was read.
SecretsStayOnPage == \A i \in DOMAIN steps : steps[i].hidden => steps[i].secret

\* The steps are what the person did: edits before the gestures that depend on
\* them, none lost by stopping, and no masked text in them.
StepsAreFaithful == TypeOK /\ EditsComeFirst /\ StopKeepsEdits /\ SecretsStayOnPage

\* A gesture the page holds back is answered, unless its page goes away: the
\* person is never kept from working in the page.
GestureIsAnswered == page.busy # 0 ~> page.busy = 0

-----------------------------------------------------------------------------
(* What happens while one field, one list and one control are recorded.    *)

Of(happens) ==
  [k \in Kinds |-> IF k \in DOMAIN happens THEN happens[k] ELSE 0]

MCScenarios ==
  {Of([type |-> 2, gesture |-> 1, stop |-> 1]),
   Of([type |-> 1, gesture |-> 1, mask |-> 1, stop |-> 1]),
   Of([type |-> 1, gesture |-> 1, request |-> 1, stop |-> 2]),
   Of([gesture |-> 1, request |-> 1, drop |-> 1, browse |-> 1, close |-> 1]),
   Of([browse |-> 2, gesture |-> 1, stop |-> 1]),
   Of([choose |-> 1, type |-> 1, mask |-> 1, close |-> 1]),
   Of([gesture |-> 2, stop |-> 1, close |-> 1]),
   Of([type |-> 1, restore |-> 1, stop |-> 1])}
=============================================================================
