------------------------------ MODULE Recording ------------------------------
(***************************************************************************)
(* `mendwork record`: a person works in a page, the page's script holds    *)
(* clicks and keys back and reports them, a channel puts one document's    *)
(* messages in order, and the recorder turns one event after the other     *)
(* into draft steps, performing the held-back gestures itself.  The page,  *)
(* the person and the recorder interleave freely.                          *)
(***************************************************************************)
EXTENDS Naturals, FiniteSets, Sequences, FiniteSetsExt

CONSTANTS
  Fields,       \* elements a person types into
  Lists,        \* select elements
  Targets,      \* elements a person clicks, or presses a key on
  Nothing,      \* no element: a key pressed with nothing focused
  MaxDocs,      \* documents the main frame commits
  Scenarios     \* how often each of Kinds happens of itself

\* What the person and the site do of themselves.
Kinds == {"type", "choose", "gesture", "mask", "request", "drop", "browse", "restore", "stop", "close"}

ASSUME RecordingAssumption ==
  /\ Fields \cap Lists = {} /\ Nothing \notin Fields \cup Lists \cup Targets
  /\ MaxDocs \in Nat /\ Scenarios \subseteq [Kinds -> Nat]

VARIABLES
  page,    \* the document shown, with the state of recorder.js in it
  person,  \* what is left of the scenario, and whether stop was pressed
  nav,     \* navigations: those committed, and what the log makes of them
  chan,    \* RecorderChannel: messages on their way, held, queued, unanswered
  rec,     \* the recorder's place, the event it handles, what it noted on the way
           \* (late: the flush ran out of time, or the window closed under it)
  steps,   \* progress.steps
  ignored, \* the navigations a notice says were ignored
  through, \* progress.attributed_through
  out      \* whose file --out names, and the command's exit code

vars == <<page, person, nav, chan, rec, steps, ignored, through, out>>

Inputs == Fields \cup Lists

\* A document as it is when it commits: nothing edited, recorder.js idle.
Fresh(doc) ==
  [doc |-> doc, value |-> [f \in Inputs |-> 0], dirty |-> {}, masked |-> {},
   busy |-> 0, armed |-> FALSE, sent |-> 0, open |-> TRUE]

Idle(event) ==
  [pc |-> "next", ev |-> event, before |-> 0, navs |-> {}, masked |-> FALSE,
   drained |-> FALSE, backlog |-> <<>>, upto |-> 0, left |-> <<>>, late |-> FALSE, end |-> "none"]

NoMessages ==
  [flight |-> {}, next |-> [d \in 1..MaxDocs |-> 1], held |-> {}, queue |-> <<>>,
   waiting |-> {}, closed |-> FALSE]

NoEvent == [kind |-> "none"]

Init ==
  /\ page = Fresh(0)
  /\ \E scenario \in Scenarios : person = [left |-> scenario, stopped |-> FALSE]
  /\ nav = [log |-> <<>>, requested |-> FALSE, coming |-> FALSE]
  /\ chan = NoMessages
  /\ rec = [Idle(NoEvent) EXCEPT !.pc = "start"]
  /\ steps = <<>> /\ ignored = {} /\ through = 0
  /\ out = [file |-> "none", code |-> "none"]

Committed == Len(nav.log)
NavsAfter(n) == {i \in 1..Committed : i > n}

-----------------------------------------------------------------------------
(* recorder.js: what the page's script posts.                              *)

\* The fill messages that commit the edited fields, in some order.
Fills(order, sent) ==
  {[kind |-> "fill", doc |-> page.doc, seq |-> sent + i, el |-> order[i]] : i \in DOMAIN order}

Orders(S) == {o \in [1..Cardinality(S) -> S] : \A i, j \in DOMAIN o : i # j => o[i] # o[j]}

\* Playwright's binding carries messages; the channel may see them in any order.
Post(messages) == chan' = [chan EXCEPT !.flight = @ \cup messages]

\* The recorder has not ended, and the page shows a document of the site.
Working == page.open /\ page.doc > 0

\* One of the things the scenario lets happen.
Acting(kind) ==
  /\ Working /\ person.left[kind] > 0
  /\ person' = [person EXCEPT !.left[kind] = @ - 1]

Type(f) ==
  /\ Acting("type")
  /\ page' = [page EXCEPT !.value[f] = @ + 1, !.dirty = @ \cup {f}]
  /\ UNCHANGED <<nav, chan, rec, steps, ignored, through>>

\* A change event: the person leaves a field edited since its last report.
Commit(f) ==
  /\ Working /\ f \in page.dirty
  /\ page' = [page EXCEPT !.dirty = @ \ {f}, !.sent = @ + 1]
  /\ Post(Fills(<<f>>, page.sent))
  /\ UNCHANGED <<person, nav, rec, steps, ignored, through>>

\* A select reports its change at once.
Choose(l) ==
  /\ Acting("choose")
  /\ page' = [page EXCEPT !.value[l] = @ + 1, !.sent = @ + 1]
  /\ Post({[kind |-> "select", doc |-> page.doc, seq |-> page.sent + 1, el |-> l]})
  /\ UNCHANGED <<nav, rec, steps, ignored, through>>

\* flushDirty as a report's first step.
Flushed == Orders(page.dirty)

\* report: the edited fields, then the gesture; the page is busy until it is answered.
Report(e, order) ==
  LET seq == page.sent + Len(order) + 1
  IN  /\ page' = [page EXCEPT !.dirty = {}, !.sent = seq, !.busy = seq]
      /\ Post(Fills(order, page.sent) \cup
                {[kind |-> "gesture", doc |-> page.doc, seq |-> seq, el |-> e,
                  edits |-> page.value]})

\* A click or key held back and reported, edited fields first; or, while an
\* earlier one is being recorded, held back and reported as ignored.
Gesture(e) ==
  /\ Acting("gesture")
  /\ IF page.busy # 0
     THEN /\ page' = [page EXCEPT !.sent = @ + 1]
          /\ Post({[kind |-> "ignored", doc |-> page.doc, seq |-> page.sent + 1]})
     ELSE \E order \in Flushed : Report(e, order)
  /\ UNCHANGED <<nav, rec, steps, ignored, through>>

\* The binding call of the reported gesture returned: the page is idle again.
Answered ==
  /\ Working /\ page.busy # 0
  /\ \A m \in chan.flight : <<m.doc, m.seq>> # <<page.doc, page.busy>>
  /\ <<page.doc, page.busy>> \notin chan.waiting
  /\ page' = [page EXCEPT !.busy = 0, !.armed = FALSE]
  /\ UNCHANGED <<person, nav, chan, rec, steps, ignored, through>>

\* The page hides a field's text, or shows it again.
ToggleMask(f) ==
  /\ Acting("mask")
  /\ page' = [page EXCEPT !.masked = IF f \in @ THEN @ \ {f} ELSE @ \cup {f}]
  /\ UNCHANGED <<nav, chan, rec, steps, ignored, through>>

-----------------------------------------------------------------------------
(* NavigationLog: who started a navigation is told by a request before it. *)

PageRequests ==
  /\ Acting("request") /\ ~nav.coming
  /\ nav' = [nav EXCEPT !.requested = TRUE, !.coming = TRUE]
  /\ UNCHANGED <<page, chan, rec, steps, ignored, through>>

\* The requested navigation commits no document: a download, a 204, a stop.
RequestDropped ==
  /\ Acting("drop") /\ nav.coming
  /\ nav' = [nav EXCEPT !.coming = FALSE]
  /\ UNCHANGED <<page, chan, rec, steps, ignored, through>>

Put(queue, event) == IF chan.closed THEN queue ELSE Append(queue, event)

Navigated(seq, by) == [kind |-> "navigated", seq |-> seq, by |-> by]

\* _on_navigated: a document commits; the log and the queue get its record.
CommitDocument(by, restored) ==
  LET seen  == IF nav.requested THEN "page" ELSE "browser"
      queue == IF restored THEN Put(chan.queue, [kind |-> "restored"]) ELSE chan.queue
      event == Navigated(Committed + 1, seen)
  IN  /\ page.doc < MaxDocs
      /\ page' = Fresh(page.doc + 1)
      /\ nav' = [log |-> Append(nav.log, [by |-> by, seen |-> seen]),
                 requested |-> FALSE, coming |-> FALSE]
      /\ chan' = [chan EXCEPT !.queue = IF chan.closed THEN @ ELSE Append(queue, event)]

PageNavigates ==
  /\ Working /\ nav.coming
  /\ CommitDocument("page", FALSE)
  /\ UNCHANGED <<person, rec, steps, ignored, through>>

\* The address bar, reload, back or forward, perhaps out of the back-forward cache.
BrowserNavigates ==
  /\ \/ Acting("browse") /\ CommitDocument("browser", FALSE)
     \/ Acting("restore") /\ CommitDocument("browser", TRUE)
  /\ UNCHANGED <<rec, steps, ignored, through>>

\* The held messages that can be released, and the number after the last.
Upto(held, doc, from) ==
  Min({n \in from..(from + Cardinality(held)) : \A m \in held : <<m.doc, m.seq>> # <<doc, n>>})

Release(held, doc, from) == Upto(held, doc, from)

InOrder(messages) ==
  LET seqs == {m.seq : m \in messages}
      Nth(i) == CHOOSE m \in messages : Cardinality({n \in seqs : n < m.seq}) = i - 1
  IN  [i \in 1..Cardinality(messages) |-> Nth(i)]

\* _on_binding and _accept.
Deliver(m) ==
  LET held == chan.held \cup {m}
      next == Release(held, m.doc, chan.next[m.doc])
      ready == {h \in held : h.doc = m.doc /\ h.seq < next}
  IN  /\ m \in chan.flight
      /\ chan' = [chan EXCEPT
                     !.flight = @ \ {m},
                     !.waiting = IF m.kind = "gesture" /\ ~chan.closed
                                 THEN @ \cup {<<m.doc, m.seq>>} ELSE @,
                     !.held = held \ ready,
                     !.next[m.doc] = next,
                     !.queue = IF chan.closed THEN @ ELSE @ \o InOrder(ready)]
      /\ UNCHANGED <<page, person, nav, rec, steps, ignored, through>>

\* A document that is gone takes its undelivered messages with it.
Lost(m) ==
  /\ m \in chan.flight /\ m.doc # page.doc
  /\ chan' = [chan EXCEPT !.flight = @ \ {m}]
  /\ UNCHANGED <<page, person, nav, rec, steps, ignored, through>>

\* close(): every waiting call is answered, and the session is reported closed.
Closed == [chan EXCEPT !.waiting = {}, !.closed = TRUE, !.queue = Append(@, [kind |-> "closed"])]

\* finish(): the held-back gesture's call is answered.
MutFinished == chan.waiting

Finished == chan.waiting \ {<<rec.ev.doc, rec.ev.seq>>}

-----------------------------------------------------------------------------
(* The person ends it.                                                     *)

CloseWindow ==
  /\ Acting("close")
  /\ page' = [page EXCEPT !.open = FALSE]
  /\ chan' = Closed
  /\ UNCHANGED <<nav, rec, steps, ignored, through>>

Stop ==
  /\ Working /\ person.left["stop"] > 0 /\ ~person.stopped
  /\ person' = [person EXCEPT !.stopped = TRUE, !.left["stop"] = @ - 1]
  /\ UNCHANGED <<page, nav, chan, rec, steps, ignored, through>>

-----------------------------------------------------------------------------
(* Recorder: one event after the other.                                    *)

\* recording_session ends, and with it the page.
Over(outcome) ==
  /\ rec' = [Idle(NoEvent) EXCEPT !.pc = "ended", !.end = outcome, !.late = rec.late, !.left = rec.left]
  /\ page' = [Fresh(page.doc) EXCEPT !.open = FALSE]
  /\ chan' = [NoMessages EXCEPT !.closed = TRUE]
  /\ person' = [left |-> [k \in Kinds |-> 0], stopped |-> FALSE]
  /\ UNCHANGED <<nav, steps, ignored, through>>

Unusable == Over("unusable")

\* SessionClosed, or everything drained: what was recorded is returned.
Returned == Over(IF Len(steps) < 2 THEN "nothing" ELSE "recorded")

At(pc) == rec.pc = pc

\* On to the next await of the event at hand.
Await(r) ==
  /\ rec' = r
  /\ UNCHANGED <<page, person, nav, chan, steps, ignored, through>>

NextEvent == [rec EXCEPT !.pc = "next", !.ev = NoEvent, !.before = 0, !.navs = {}, !.masked = FALSE]

\* A closed page makes whatever reads it next fail.
BrowserClosed ==
  /\ ~page.open /\ rec.pc \notin {"next", "handle", "flushed", "drain", "ended"}
  /\ Over("closed")

\* A second Ctrl+C cancels the recording.
Abort ==
  /\ person.stopped /\ person.left["stop"] > 0 /\ page.open
  /\ Over("aborted")

\* An element that could not be recorded, a page that never settles, a new tab.
CannotRecord ==
  /\ page.open /\ rec.pc \in {"start", "target", "settle", "examine", "read", "open"}
  /\ Unusable

StartOpens ==
  /\ At("start") /\ page.open
  /\ CommitDocument("browser", FALSE)
  /\ rec' = [rec EXCEPT !.pc = "open", !.ev = Navigated(0, "browser")]
  /\ UNCHANGED <<person, steps, ignored, through>>

\* merge_fill: a fill that repeats the last step's element replaces it.
Merged(draft) ==
  IF steps # <<>> /\ draft.kind = "fill" /\ steps[Len(steps)].kind = "fill" /\ steps[Len(steps)].key = draft.key
  THEN [steps EXCEPT ![Len(steps)] = draft]
  ELSE Append(steps, draft)

Draft(kind) ==
  [kind |-> kind, key |-> <<0, Nothing>>, value |-> 0, secret |-> FALSE, hidden |-> FALSE,
   edits |-> <<>>, navs |-> {}]

Key == <<rec.ev.doc, rec.ev.el>>

\* _page_step: settled on a page nobody opened by a step, the recorder makes
\* a step of it; whatever committed while it settled is accounted for too.
PageStep ==
  LET navs == {rec.ev.seq} \cup NavsAfter(rec.ev.seq)
  IN  /\ At("open") /\ page.open
      /\ steps' = Merged([Draft("navigate") EXCEPT !.navs = navs \ {0}])
      /\ through' = Max({rec.ev.seq, through, Committed})
      /\ rec' = NextEvent
      /\ UNCHANGED <<page, person, nav, chan, ignored>>

\* classify_outside.
MutAttributed(seq) == seq < through

Attributed(seq) == seq <= through

\* next_event: the next event queued, or of those the flush left.
Take ==
  /\ At("next")
  /\ IF rec.drained
     THEN /\ rec.backlog # <<>>
          /\ rec' = [rec EXCEPT !.pc = "handle", !.ev = Head(rec.backlog), !.backlog = Tail(@)]
          /\ UNCHANGED chan
     ELSE /\ chan.queue # <<>>
          /\ rec' = [rec EXCEPT !.pc = "handle", !.ev = Head(chan.queue)]
          /\ chan' = [chan EXCEPT !.queue = Tail(@)]
  /\ UNCHANGED <<page, person, nav, steps, ignored, through>>

Handling(kinds) == At("handle") /\ rec.ev.kind \in kinds

HandleGesture ==
  /\ Handling({"gesture"})
  /\ Await([rec EXCEPT !.pc = IF rec.ev.el = Nothing THEN "before" ELSE "pin"])

HandleField ==
  /\ Handling({"fill", "select"})
  /\ Await([rec EXCEPT !.pc = "field"])

\* A notice, or a navigation that is part of a step already.
HandleNoted ==
  /\ Handling({"ignored", "navigated"})
  /\ rec.ev.kind = "navigated" => Attributed(rec.ev.seq)
  /\ Await(NextEvent)

HandleBrowserNavigation ==
  /\ Handling({"navigated"}) /\ ~Attributed(rec.ev.seq) /\ rec.ev.by = "browser"
  /\ Await([rec EXCEPT !.pc = "open"])

\* The page navigated by itself, or what was opened is not a web page.
HandleIgnoredNavigation ==
  /\ Handling({"navigated"}) /\ ~Attributed(rec.ev.seq)
  /\ ignored' = ignored \cup {rec.ev.seq}
  /\ through' = rec.ev.seq
  /\ rec' = NextEvent
  /\ UNCHANGED <<page, person, nav, chan, steps>>

HandleEnd ==
  \/ Handling({"restored"}) /\ Unusable
  \/ Handling({"closed"}) /\ Returned

-----------------------------------------------------------------------------
(* capture_gesture: verify the target, act, and observe what that did.     *)

SameDocument == page.open /\ rec.ev.doc = page.doc

Gone == page.open /\ rec.ev.doc # page.doc

\* The event's element, or its whole document, left before it was recorded.
ElementGone ==
  /\ rec.pc \in {"pin", "target", "arm", "field", "examine", "read"} /\ Gone
  /\ Unusable

\* finish_capture, and the notice of a gesture that did nothing.
GestureIgnored ==
  /\ \/ At("pin") /\ SameDocument
     \/ At("act") /\ page.open /\ rec.ev.el # Nothing
  /\ chan' = [chan EXCEPT !.waiting = Finished]
  /\ page' = [page EXCEPT !.armed = FALSE]
  /\ rec' = NextEvent
  /\ UNCHANGED <<person, nav, steps, ignored, through>>

Pin ==
  /\ At("pin") /\ SameDocument
  /\ Await([rec EXCEPT !.pc = "target"])

\* TargetRecorder.record: selectors verified on one reading, proven by rung 0.
RecordTarget ==
  /\ At("target") /\ SameDocument
  /\ Await([rec EXCEPT !.pc = "before"])

ObserveBefore ==
  /\ At("before") /\ page.open
  /\ Await([rec EXCEPT !.pc = "arm", !.before = Committed])

Arm ==
  /\ At("arm") /\ SameDocument
  /\ page' = [page EXCEPT !.armed = TRUE]
  /\ rec' = [rec EXCEPT !.pc = "act"]
  /\ UNCHANGED <<person, nav, chan, steps, ignored, through>>

\* click or press, then disarm.  A key pressed with nothing focused goes to
\* whatever document is shown, and one that is not armed holds it back as if
\* the person had pressed it.
Act ==
  /\ At("act") /\ page.open
  /\ \/ /\ page.armed
        /\ \/ UNCHANGED nav
           \/ ~nav.coming /\ nav' = [nav EXCEPT !.requested = TRUE, !.coming = TRUE]
        /\ page' = [page EXCEPT !.armed = FALSE]
        /\ UNCHANGED chan
     \/ /\ ~page.armed /\ rec.ev.el = Nothing
        /\ \E order \in Flushed : Report(Nothing, order)
        /\ UNCHANGED nav
  /\ rec' = [rec EXCEPT !.pc = "settle"]
  /\ UNCHANGED <<person, steps, ignored, through>>

\* The page settled: what committed since the step began belongs to it, and
\* none of it may be the person's going elsewhere.
Settle ==
  LET navs == NavsAfter(rec.before)
  IN  /\ At("settle") /\ page.open
      /\ IF \E i \in navs : nav.log[i].seen = "browser"
         THEN Unusable
         ELSE Await([rec EXCEPT !.pc = "checks", !.navs = navs])

Through == Max({through, rec.before} \cup rec.navs)

\* The proposed checkpoints were evaluated: the step is added and the page
\* is let go.
AddGesture ==
  /\ At("checks") /\ page.open
  /\ steps' = Merged([Draft("gesture") EXCEPT !.key = Key, !.navs = rec.navs, !.edits = rec.ev.edits])
  /\ through' = Through
  /\ chan' = [chan EXCEPT !.waiting = Finished]
  /\ rec' = NextEvent
  /\ UNCHANGED <<page, person, nav, ignored>>

-----------------------------------------------------------------------------
(* capture_field: the credential rule decides before the content is read.  *)

PinField ==
  /\ At("field") /\ SameDocument
  /\ Await([rec EXCEPT !.pc = "examine"])

\* The element's markup may declare a credential, and the page may mask it.
Examine ==
  /\ At("examine") /\ SameDocument
  /\ \E declared \in BOOLEAN :
       Await([rec EXCEPT !.pc = "read", !.masked = declared \/ rec.ev.el \in page.masked])

\* field_text.js checks the mask in the call that reads.
IsMasked(f) == f \in page.masked

ReadField ==
  LET f == rec.ev.el
      unread == rec.masked \/ IsMasked(f)
      read == [Draft("fill") EXCEPT !.key = Key, !.value = page.value[f], !.secret = unread,
                                    !.hidden = f \in page.masked]
  IN  /\ At("read") /\ SameDocument
      /\ IF rec.ev.kind = "select" /\ unread
         THEN Unusable
         ELSE /\ steps' = Merged([read EXCEPT !.kind = rec.ev.kind])
              /\ rec' = NextEvent
              /\ UNCHANGED <<page, person, nav, chan, ignored, through>>

-----------------------------------------------------------------------------
(* Stopping: the fields still being edited are committed and recorded.     *)

\* flush_pending asks the page to commit; a page between documents, or one
\* that is closed, does not answer.
Flush ==
  /\ At("next") /\ ~rec.drained /\ chan.queue = <<>> /\ person.stopped
  /\ \/ /\ page.open
        /\ \E order \in Flushed :
             LET upto == page.sent + Len(order)
             IN  /\ page' = [page EXCEPT !.dirty = {}, !.sent = upto]
                 /\ Post(Fills(order, page.sent))
                 /\ rec' = [rec EXCEPT !.pc = "flushed", !.upto = upto, !.ev = [doc |-> page.doc],
                                       !.left = [doc |-> page.doc, value |-> page.value]]
     \/ /\ ~page.open \/ nav.coming
        /\ rec' = [rec EXCEPT !.pc = "drain", !.late = TRUE]
        /\ UNCHANGED <<page, chan>>
  /\ UNCHANGED <<person, nav, steps, ignored, through>>

MutDelivered == TRUE

Delivered == chan.next[rec.ev.doc] > rec.upto

\* wait_delivered: everything up to the flush arrived, or the time is up.
WaitDelivered ==
  /\ At("flushed")
  /\ \/ Delivered /\ Await([rec EXCEPT !.pc = "drain"])
     \/ ~Delivered /\ Await([rec EXCEPT !.pc = "drain", !.late = TRUE])

Drain ==
  /\ At("drain")
  /\ rec' = [NextEvent EXCEPT !.drained = TRUE, !.backlog = chan.queue, !.late = @ \/ chan.closed]
  /\ chan' = [chan EXCEPT !.queue = <<>>]
  /\ UNCHANGED <<page, person, nav, steps, ignored, through>>

Drained ==
  /\ At("next") /\ rec.drained /\ rec.backlog = <<>>
  /\ Returned

-----------------------------------------------------------------------------
(* RecordCommand: name, assemble, write and verify what was recorded.      *)

Command(pc, file, code) ==
  /\ rec' = [rec EXCEPT !.pc = pc]
  /\ out' = [file |-> file, code |-> code]
  /\ UNCHANGED <<page, person, nav, chan, steps, ignored, through>>

Exit(code) == Command("exited", out.file, code)

\* What a recording that did not end well comes to.
Fail ==
  /\ At("ended") /\ rec.end # "recorded"
  /\ Exit(IF rec.end = "closed" THEN "infrastructure" ELSE "invalid")

\* decide_names and assemble; both may end the command.
Name ==
  /\ At("ended") /\ rec.end = "recorded"
  /\ Command("write", out.file, "none") \/ Exit("invalid")

\* write_new_file never replaces a file that appeared while recording.
WriteFile ==
  /\ At("write")
  /\ \/ Command("exited", "other", "invalid")
     \/ Exit("infrastructure")
     \/ Command("exited", "ours", "unverified")
     \/ Command("verify", "ours", "none")

\* The replay in a fresh browser: a secret it lacks, no browser, its outcome.
Verify ==
  /\ At("verify")
  /\ \E code \in {"invalid", "infrastructure", "failed", "verified"} : Exit(code)
-----------------------------------------------------------------------------
Person ==
  \/ \E f \in Fields : Type(f) \/ Commit(f)
  \/ \E l \in Lists : Choose(l)
  \/ \E e \in Targets \cup {Nothing} : Gesture(e)
  \/ BrowserNavigates \/ CloseWindow \/ Stop

Site == PageRequests \/ RequestDropped \/ PageNavigates \/ \E f \in Inputs : ToggleMask(f)

Channel == Answered \/ \E m \in chan.flight : Deliver(m) \/ Lost(m)

Gesturing ==
  GestureIgnored \/ Pin \/ RecordTarget \/ ObserveBefore \/ Arm \/ Act \/ Settle \/ AddGesture

Events ==
  \/ StartOpens \/ PageStep \/ Take \/ HandleGesture \/ HandleField \/ HandleNoted
  \/ HandleBrowserNavigation \/ HandleIgnoredNavigation \/ HandleEnd

Failing == BrowserClosed \/ CannotRecord \/ ElementGone

Recorder ==
  \/ Events \/ Gesturing \/ PinField \/ Examine \/ ReadField
  \/ Flush \/ WaitDelivered \/ Drain \/ Drained \/ Failing

CommandLine == Fail \/ Name \/ WriteFile \/ Verify

Next ==
  \/ (Person \/ Site \/ Channel \/ Recorder \/ Abort) /\ UNCHANGED out
  \/ CommandLine

Spec == Init /\ [][Next]_vars

\* Messages travel and every await of the recorder has a timeout; the person
\* and the site may do nothing for ever.
FairSpec == Spec /\ WF_vars((Channel \/ Recorder) /\ UNCHANGED out)
=============================================================================
