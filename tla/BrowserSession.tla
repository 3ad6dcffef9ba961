--------------------------- MODULE BrowserSession ---------------------------
(* One run's browser session: the steps that act on the page and verify what *)
(* happened, while the page loads, changes, opens tabs, downloads and asks   *)
(* for more, and the trace that must never hold a typed secret.              *)
(*                                                                           *)
(* A step is [act, url, effects, checks]: what it does, the page it names,   *)
(* what the site does because of it, and its checkpoints. A scenario is      *)
(* [steps, site, changes, traced, late, faults, interrupts], with `site`     *)
(* giving every URL its redirect, its statuses and what its page asks for,   *)
(* and `changes` what the page turns into, one change of its document after  *)
(* the other. Finding the element a step acts on is in StepHealing.          *)
EXTENDS Egress

CONSTANTS MaxAttempts

\* What an action leads to: the page leaves, asks for data, opens another page,
\* or a download starts and is saved or fails.
Effects ==
  [k : {"leave", "fetch"}, url : DOMAIN Written] \cup [k : {"open", "download"}, url : STRING]

\* Steps name URLs that occur, and so do redirects and what a page asks for.
ASSUME ScenariosAssumption ==
  /\ MaxAttempts \in Nat \ {0} /\ {"blank", "error"} \cap DOMAIN Written = {}
  /\ \A s \in Scenarios :
       /\ {s.late, s.faults, s.interrupts} \subseteq Nat /\ s.traced \in BOOLEAN
       /\ s.changes \in Seq([shown : BOOLEAN, banner : BOOLEAN])
       /\ s.steps \in Seq(ToSet(s.steps))
       /\ \A step \in ToSet(s.steps) :
            /\ step.effects \subseteq Effects
            /\ step.act = "navigate" => step.url \in DOMAIN Written
       /\ \A name \in DOMAIN Written :
            /\ s.site[name].to \in DOMAIN Written \cup {"none"}
            /\ s.site[name].status \subseteq Nat
            /\ s.site[name].asks \in Seq({"frame", "sub"} \X DOMAIN Written)

VARIABLES
  eng,      \* the run: where its coroutine stands and what it remembers
  page,     \* the page: its document, what it shows and what it is loading
  tracer,   \* the trace: its state, the tainted document, what the chunk saw
  watch,    \* the step's watch, and the tabs its context opened
  typed,    \* the documents a secret was typed into
  stop      \* what is up besides the gateway, the interrupts still to come, and
            \* the starts and the teardowns that one, or a failure, cut short

sessionVars == <<eng, page, tracer, watch, typed, stop>>
vars == <<netVars, sessionVars>>

Init ==
  /\ NetInit
  /\ eng = [pc |-> "preflight", step |-> 1, attempt |-> 1, mark |-> 0, load |-> 0, then |-> "none",
            seen |-> <<0, 0>>, read |-> <<0, 0>>, check |-> 1, expired |-> FALSE, pinned |-> 0,
            looked |-> 0, typedAt |-> 0, late |-> scenario.late, refused |-> FALSE, result |-> "none"]
  /\ page = [doc |-> 1, muts |-> 0, url |-> "blank", nav |-> 0, subs |-> {}, status |-> 0,
             shown |-> FALSE, banner |-> FALSE, due |-> {}, changes |-> scenario.changes]
  /\ tracer = [state |-> "off", tainted |-> 0, docs |-> {}, saved |-> {}, withheld |-> "none", shots |-> {}]
  /\ watch = [on |-> {}, responses |-> <<>>, arrived |-> FALSE, downloads |-> <<>>, opened |-> 0]
  /\ typed = {}
  /\ stop = [interrupts |-> scenario.interrupts, driver |-> FALSE, browser |-> FALSE,
             workdir |-> FALSE, context |-> FALSE, cut |-> {}]

Step == scenario.steps[eng.step]
Loaded == page.nav = 0 /\ page.subs = {}
Epoch == <<page.doc, page.muts>>
To(pc) == eng' = [eng EXCEPT !.pc = pc]

\* A wait of the browser that may run out before what it waits for, as often
\* as this behaviour allows. Checkpoints have a deadline of their own.
Late == eng.late > 0

----------------------------------------------------------------------------
(* The page.                                                                *)

pageRest == <<tracer, typed, stop>>

\* A main-frame navigation begins; the one that was on its way is abandoned.
StartMain(kind, name) ==
  /\ reqs' = Append(Dropped({page.nav}), Request(kind, name))
  /\ page' = [page EXCEPT !.nav = Len(reqs) + 1,
                          !.due = @ \ {[k |-> "leave", url |-> name]}]

\* A response event reaches the watch, if it listens for responses.
Heard(i) ==
  IF "response" \in watch.on
  THEN [watch EXCEPT !.responses = Append(@, <<reqs[i].url, reqs[i].status>>), !.arrived = TRUE]
  ELSE watch

\* A document replaces another: what the old one was loading is dropped, and
\* the chunk being recorded sees the new one.
Commit ==
  /\ page.nav # 0 /\ reqs[page.nav].stage \in {"answered", "failed"}
  /\ LET r == reqs[page.nav]
         asked == IF r.stage = "failed" THEN <<>> ELSE scenario.site[r.url].asks
         first == Len(reqs)
     IN  /\ reqs' = Dropped(page.subs) \o [i \in DOMAIN asked |-> Request(asked[i][1], asked[i][2])]
         /\ page' = [page EXCEPT !.doc = @ + 1, !.muts = 0, !.nav = 0,
                                 !.url = IF r.stage = "failed" THEN "error" ELSE r.url,
                                 !.subs = {first + i : i \in DOMAIN asked},
                                 !.status = r.status, !.shown = FALSE, !.banner = FALSE]
         /\ watch' = IF r.stage = "failed" THEN watch ELSE Heard(page.nav)
         /\ tracer' = IF tracer.state = "recording"
                      THEN [tracer EXCEPT !.docs = @ \cup {page.doc + 1}] ELSE tracer
  /\ UNCHANGED <<scenario, faults, log, open, eng, typed, stop>>

\* A subresource or a frame of the document arrives, or fails.
Arrive ==
  \E i \in page.subs :
    /\ reqs[i].stage \in {"answered", "failed"}
    /\ page' = [page EXCEPT !.subs = @ \ {i}]
    /\ watch' = IF reqs[i].stage = "answered" THEN Heard(i) ELSE watch
    /\ UNCHANGED <<netVars, eng, pageRest>>

\* What the last action led to happens in any order and at any time: the page
\* leaves, asks for data, opens another page or starts a download.
Effect(kind) == {e \in page.due : e.k = kind}
Spent(e) == [page EXCEPT !.due = @ \ {e}]

LeavePage ==
  \E e \in Effect("leave") : StartMain("leave", e.url) /\ UNCHANGED watch

Fetch ==
  \E e \in Effect("fetch") :
    /\ reqs' = Append(reqs, Request("sub", e.url))
    /\ page' = [Spent(e) EXCEPT !.subs = @ \cup {Len(reqs) + 1}] /\ UNCHANGED watch

OpenPage ==
  \E e \in Effect("open") :
    /\ page' = Spent(e) /\ watch' = [watch EXCEPT !.opened = @ + 1] /\ UNCHANGED reqs

StartDownload ==
  \E e \in Effect("download") :
    /\ page' = Spent(e) /\ UNCHANGED reqs
    /\ watch' = IF "download" \in watch.on THEN [watch EXCEPT !.downloads = Append(@, e.url)]
                                           ELSE watch

Happen ==
  /\ LeavePage \/ Fetch \/ OpenPage \/ StartDownload
  /\ UNCHANGED <<scenario, faults, log, open, eng, pageRest>>

\* The document changes under whoever reads it.
Change ==
  /\ page.changes # <<>> /\ page.nav = 0
  /\ page' = [page EXCEPT !.muts = @ + 1, !.changes = Tail(@), !.shown = Head(page.changes).shown,
                          !.banner = Head(page.changes).banner]
  /\ UNCHANGED <<netVars, eng, watch, pageRest>>

PageStep == stop.context /\ (Commit \/ Arrive \/ Happen \/ Change)

----------------------------------------------------------------------------
(* Reading the page, and the trace.                                         *)

\* Reading the epoch, in `then`'s name: a document replaced under the read is
\* read again once the new one has loaded, and a second time it is an error.
ReadPage ==
  /\ eng.pc \in {"epoch", "again"}
  /\ \/ /\ eng.pc = "again" => (Loaded \/ Late)
        /\ eng' = [eng EXCEPT !.pc = "observe", !.seen = Epoch,
                              !.late = IF eng.pc = "again" /\ ~Loaded THEN @ - 1 ELSE @]
     \/ /\ page.nav # 0
        /\ eng' = IF eng.pc = "epoch" THEN [eng EXCEPT !.pc = "again"]
                  ELSE IF eng.then = "export" THEN [eng EXCEPT !.pc = "release"]
                  ELSE [eng EXCEPT !.pc = "failing", !.result = "page_unreadable"]
  /\ UNCHANGED <<netVars, page, tracer, watch, typed, stop>>

\* Mutant: any document resumes the trace, the tainted one included.
MutResumes(document) == tracer.state = "paused"

\* What a paused trace does with the document a read found: another one than
\* the tainted one lets it record again, from what the page shows then.
Resumes(document) == tracer.state = "paused" /\ document # tracer.tainted

Observe ==
  /\ eng.pc = "observe"
  /\ To(eng.then)
  /\ tracer' = IF Resumes(eng.seen[1])
               THEN [tracer EXCEPT !.state = "recording", !.tainted = 0, !.docs = {page.doc}]
               ELSE tracer
  /\ UNCHANGED <<netVars, page, watch, typed, stop>>

\* Reading first when the trace waits for a clean document.
Resuming(then) ==
  eng' = IF tracer.state = "paused" THEN [eng EXCEPT !.pc = "epoch", !.then = then]
                                    ELSE [eng EXCEPT !.pc = then]

\* The chunk is discarded before the secret is typed.
PauseForSecret ==
  /\ eng.pc = "pause"
  /\ To("type")
  /\ tracer' = IF tracer.state \in {"recording", "paused"}
               THEN [tracer EXCEPT !.state = "paused", !.tainted = eng.seen[1], !.docs = {}]
               ELSE tracer
  /\ UNCHANGED <<netVars, page, watch, typed, stop>>

----------------------------------------------------------------------------
(* Navigating.                                                              *)

Transient(reason, status) ==
  \/ reason \in {"timeout", "connection_reset", "name_not_resolved", "refused"}
  \/ reason = "http_status" /\ status \in {502, 503, 504}

Failed(e, reason) == [e EXCEPT !.pc = "failing", !.result = reason]
Failing(reason) == Failed(eng, reason)

\* A failed navigation is tried again when its reason is a passing one, the
\* attempts are not used up and the run's time is not.
Retried(e, reason, status) ==
  IF e.attempt < MaxAttempts /\ Transient(reason, status)
  THEN [e EXCEPT !.pc = "guard", !.attempt = @ + 1] ELSE Failed(e, reason)

\* What the policy says of a URL, and of the addresses its host has now.
GuardAnswers(url) ==
  IF CheckNavigation(url, TRUE) # Passed THEN {"refused"}
  ELSE IF url.host.address # NoAddress THEN {"passed"}
  ELSE {IF found = <<>> THEN "unresolved"
        ELSE IF CheckConnection(url.host, url.port, found) = Passed THEN "passed" ELSE "refused" :
          found \in Lookups(url.host)}

\* Every step's URL is asked about before anything is started. A name that does
\* not resolve is no refusal yet.
Preflight ==
  /\ eng.pc = "preflight"
  /\ IF eng.step > Len(scenario.steps)
     THEN eng' = [eng EXCEPT !.pc = "start", !.step = 1] /\ UNCHANGED faults
     ELSE IF Step.act # "navigate" THEN eng' = [eng EXCEPT !.step = @ + 1] /\ UNCHANGED faults
     ELSE \E answer \in GuardAnswers(Url[Step.url]) :
            /\ IF answer = "unresolved" THEN Fault ELSE UNCHANGED faults
            /\ eng' = IF answer = "refused"
                      THEN [eng EXCEPT !.pc = "ended", !.result = "egress_blocked"]
                      ELSE [eng EXCEPT !.step = @ + 1]
  /\ UNCHANGED <<scenario, log, reqs, open, page, tracer, watch, typed, stop>>

\* The same is asked again before the browser is sent there.
Guard ==
  /\ eng.pc = "guard"
  /\ \E answer \in GuardAnswers(Url[Step.url]) :
       /\ IF answer = "unresolved" THEN Fault ELSE UNCHANGED faults
       /\ eng' = CASE answer = "refused" -> Failing("egress_blocked")
                   [] answer = "unresolved" -> Retried(eng, "name_not_resolved", 0)
                   [] OTHER -> [eng EXCEPT !.pc = "goto"]
  /\ UNCHANGED <<scenario, log, reqs, open, page, tracer, watch, typed, stop>>

Goto ==
  /\ eng.pc = "goto"
  /\ StartMain("goto", Step.url)
  /\ eng' = [eng EXCEPT !.pc = "loading", !.mark = log.seq, !.load = Len(reqs) + 1]
  /\ UNCHANGED <<scenario, faults, log, open, tracer, watch, typed, stop>>

\* A refusal on the way is reported as the refusal; else what the gateway knows
\* of the failure is its reason.
GotoFailed(e, reason) ==
  LET upstream == FailureSince(e.mark)
      told == IF reason = "socks_failed" /\ upstream # "none" THEN upstream ELSE reason
  IN  /\ eng' = IF log.blocks # <<>> THEN Failed(e, "egress_blocked") ELSE Retried(e, told, 0)
      /\ log' = Taken

\* The load ends: the page is there, it failed, another navigation took its
\* place, or the wait ran out.
Goes ==
  LET load == reqs[eng.load]
  IN  /\ eng.pc = "loading"
      /\ \/ Loaded /\ load.stage = "answered" /\ Resuming("status") /\ UNCHANGED log
         \/ load.stage = "failed" /\ GotoFailed([eng EXCEPT !.refused = load.refused], load.code)
         \/ ~load.live /\ GotoFailed(eng, "interrupted")
         \/ Late /\ GotoFailed([eng EXCEPT !.late = @ - 1], "timeout")
      /\ UNCHANGED <<scenario, faults, reqs, open, page, tracer, watch, typed, stop>>

Status ==
  /\ eng.pc = "status"
  /\ LET status == reqs[eng.load].status
     IN  eng' = IF status >= 400 THEN Retried(eng, "http_status", status)
                                 ELSE [eng EXCEPT !.pc = "settle"]
  /\ UNCHANGED <<netVars, page, tracer, watch, typed, stop>>

----------------------------------------------------------------------------
(* Acting.                                                                  *)

WatchKinds(checks) == ToSet(checks) \cap {"response", "download"}

\* A step begins: it listens before it acts.
Begin ==
  /\ eng.pc = "step"
  /\ IF eng.step > Len(scenario.steps) THEN To("detach") /\ UNCHANGED watch
     ELSE LET e == [eng EXCEPT !.attempt = 1, !.check = 1, !.refused = FALSE, !.pinned = page.doc]
          IN  /\ watch' = [watch EXCEPT !.on = WatchKinds(Step.checks), !.responses = <<>>,
                                        !.arrived = FALSE, !.downloads = <<>>]
              /\ eng' = CASE Step.act = "navigate" -> [e EXCEPT !.pc = "guard"]
                          [] Step.act = "secret" -> [e EXCEPT !.pc = "epoch", !.then = "pause", !.typedAt = eng.step]
                          [] OTHER -> IF tracer.state = "paused"
                                      THEN [e EXCEPT !.pc = "epoch", !.then = "act"]
                                      ELSE [e EXCEPT !.pc = "act"]
  /\ UNCHANGED <<netVars, page, tracer, typed, stop>>

\* Acting on an element of a document that is gone does nothing; a call that
\* ran out of time may have acted all the same.
Act ==
  /\ eng.pc \in {"act", "type"}
  /\ \/ /\ eng.pinned = page.doc
        /\ eng' = [eng EXCEPT !.pc = "settle"]
        /\ page' = [page EXCEPT !.due = @ \cup Step.effects]
        /\ typed' = IF eng.pc = "type" THEN typed \cup {page.doc} ELSE typed
     \/ /\ eng.pinned # page.doc
        /\ eng' = Failing("detached_before_action") /\ UNCHANGED <<page, typed>>
     \/ /\ eng.pinned = page.doc /\ Late
        /\ eng' = Failed([eng EXCEPT !.late = @ - 1], "timeout")
        /\ \/ UNCHANGED <<page, typed>>
           \/ /\ page' = [page EXCEPT !.due = @ \cup Step.effects]
              /\ typed' = IF eng.pc = "type" THEN typed \cup {page.doc} ELSE typed
  /\ UNCHANGED <<netVars, tracer, watch, stop>>

\* The load is waited for, then a quiet moment, which is when it is read.
Settle ==
  /\ eng.pc = "settle"
  /\ \/ Loaded /\ eng' = [eng EXCEPT !.pc = "epoch", !.then = "look"]
     \/ ~Loaded /\ Late /\ eng' = [eng EXCEPT !.pc = "epoch", !.then = "look", !.late = @ - 1]
  /\ UNCHANGED <<netVars, page, tracer, watch, typed, stop>>

\* Tabs that opened, then refusals, fail the step before and after its checks.
Looks == {"look", "lookfail", "lookpass"}
Look ==
  /\ eng.pc \in Looks
  /\ LET e == [eng EXCEPT !.looked = log.seq]
     IN  IF watch.opened > 0
         THEN /\ watch' = [watch EXCEPT !.opened = 0]
              /\ eng' = Failing("new_page_opened") /\ UNCHANGED log
         ELSE /\ log' = Taken /\ UNCHANGED watch
              /\ eng' = IF log.blocks # <<>> THEN Failed(e, "egress_blocked")
                        ELSE CASE eng.pc = "look" -> [e EXCEPT !.pc = "verify"]
                               [] eng.pc = "lookfail" -> Failed(e, "checkpoint_failed")
                               [] eng.pc = "lookpass" -> [e EXCEPT !.pc = "passed"]
  /\ UNCHANGED <<scenario, faults, reqs, open, page, tracer, typed, stop>>

----------------------------------------------------------------------------
(* Verifying.                                                               *)

\* Checkpoints as written, banners last.
EvaluationOrder(checks) ==
  SelectSeq(checks, LAMBDA c : c # "banner") \o SelectSeq(checks, LAMBDA c : c = "banner")

Checks == EvaluationOrder(Step.checks)
NextCheck == [eng EXCEPT !.pc = "verify", !.check = @ + 1]
FailCheck == [eng EXCEPT !.pc = "lookfail"]

verifyRest == <<netVars, page, tracer, typed, stop>>

Verify ==
  /\ eng.pc = "verify"
  /\ LET e == [eng EXCEPT !.expired = FALSE]
     IN  \/ eng.check > Len(Checks) /\ eng' = [e EXCEPT !.pc = "lookpass"]
         \/ /\ eng.check <= Len(Checks) /\ Checks[eng.check] \in {"text", "element"}
            /\ eng' = [e EXCEPT !.pc = "epoch", !.then = "text"]
         \/ \E kind \in {"url", "response", "download", "banner", "field"} :
              /\ eng.check <= Len(Checks) /\ Checks[eng.check] = kind
              /\ eng' = [e EXCEPT !.pc = kind]
  /\ UNCHANGED <<watch, verifyRest>>

\* Mutant: the epoch is read after the check it is meant to precede.
MutText ==
  /\ eng.pc = "text"
  /\ eng' = IF page.shown THEN NextCheck
            ELSE IF eng.expired THEN FailCheck
            ELSE [eng EXCEPT !.pc = "epoch", !.then = "asleep", !.read = Epoch]
  /\ UNCHANGED <<watch, verifyRest>>

NotShown == eng' = IF eng.expired THEN FailCheck ELSE [eng EXCEPT !.pc = "asleep", !.read = Epoch]

\* The text or element is looked for, after the epoch was read. When another
\* document came in between, a text is read as none and an element is an error.
Text ==
  /\ eng.pc = "text"
  /\ \/ page.shown /\ eng' = NextCheck
     \/ ~page.shown /\ NotShown
     \/ page.doc # eng.seen[1] /\ Checks[eng.check] = "text" /\ NotShown
     \/ page.doc # eng.seen[1] /\ Checks[eng.check] = "element" /\ eng' = Failing("page_unreadable")
  /\ UNCHANGED <<watch, verifyRest>>

\* Mutant: only a change of the page ends the sleep.
MutWake ==
  /\ eng.pc = "asleep" /\ Epoch # eng.seen
  /\ eng' = [eng EXCEPT !.pc = "epoch", !.then = "text"]
  /\ UNCHANGED <<watch, verifyRest>>

\* A change since the epoch ends the sleep, and so does the deadline; either
\* way the page is read and looked at once more.
Wake ==
  /\ eng.pc = "asleep" /\ (Epoch # eng.seen \/ eng.expired)
  /\ eng' = [eng EXCEPT !.pc = "epoch", !.then = "text"]
  /\ UNCHANGED <<watch, verifyRest>>

UrlMatches ==
  /\ eng.pc = "url"
  /\ \/ page.url = Step.want /\ eng' = NextCheck
     \/ page.url # Step.want /\ eng.expired /\ eng' = FailCheck
  /\ UNCHANGED <<watch, verifyRest>>

Matching == {i \in DOMAIN watch.responses : /\ watch.responses[i][1] = Step.want
                                            /\ watch.responses[i][2] < 400}

\* The responses are looked through, and the event cleared, in one go.
Scan ==
  /\ eng.pc = "response"
  /\ IF Matching # {} THEN eng' = NextCheck /\ UNCHANGED watch
     ELSE To("listening") /\ watch' = [watch EXCEPT !.arrived = FALSE]
  /\ UNCHANGED verifyRest

Listen ==
  /\ eng.pc = "listening"
  /\ \/ watch.arrived /\ To("response")
     \/ eng.expired /\ eng' = FailCheck
  /\ UNCHANGED <<watch, verifyRest>>

\* The first download since the watch began: saved, failed or misnamed.
NextDownload ==
  /\ eng.pc = "download"
  /\ \/ /\ watch.downloads # <<>>
        /\ watch' = [watch EXCEPT !.downloads = Tail(@)]
        /\ eng' = IF Head(watch.downloads) = "saved" THEN NextCheck ELSE FailCheck
     \/ eng.expired /\ eng' = FailCheck /\ UNCHANGED watch
  /\ UNCHANGED verifyRest

BannerShows == page.banner

\* A banner is looked for once, after everything else passed; a page that is
\* being replaced cannot be asked.
Banner ==
  /\ eng.pc = "banner"
  /\ \/ BannerShows /\ eng' = FailCheck
     \/ ~BannerShows /\ eng' = NextCheck
     \/ page.nav # 0 /\ eng' = Failing("page_unreadable")
  /\ UNCHANGED <<watch, verifyRest>>

\* A field is compared in the document it is in, which may be gone.
FieldMatches == eng.pinned = page.doc

Field ==
  /\ eng.pc = "field" /\ eng' = IF FieldMatches THEN NextCheck ELSE FailCheck
  /\ UNCHANGED <<watch, verifyRest>>

Waits == {"text", "asleep", "url", "response", "listening", "download"}
Rereads == eng.pc \in {"epoch", "again", "observe"} /\ eng.then = "text"

Expire ==
  /\ eng.pc \in Waits \/ Rereads
  /\ ~eng.expired /\ eng' = [eng EXCEPT !.expired = TRUE]
  /\ UNCHANGED <<watch, verifyRest>>

\* The watch ends with its step, whichever way it ended.
Unwatched == [watch EXCEPT !.on = {}, !.responses = <<>>, !.downloads = <<>>]

Pass == eng.pc = "passed" /\ To("shoot") /\ watch' = Unwatched /\ UNCHANGED verifyRest

----------------------------------------------------------------------------
(* The end of the run, and of the session.                                  *)

Fail == eng.pc = "failing" /\ To("shoot") /\ watch' = Unwatched /\ UNCHANGED verifyRest

\* Every step ends with a picture, in which the fields that took a secret are
\* masked; a picture that cannot be taken is done without.
Shoot ==
  /\ eng.pc = "shoot" /\ To(IF eng.result = "none" THEN "release" ELSE "snapshot")
  /\ \/ tracer' = [tracer EXCEPT !.shots = @ \cup {[secret |-> page.doc \in typed, masked |-> eng.typedAt # 0]}]
     \/ page.nav # 0 /\ UNCHANGED tracer
  /\ UNCHANGED <<netVars, page, watch, typed, stop>>

\* A step that failed keeps the document too, scrubbed, if it can be read, and
\* then the trace.
Snapshot ==
  /\ eng.pc = "snapshot" /\ Resuming("export")
  /\ UNCHANGED <<netVars, page, tracer, watch, typed, stop>>

\* The trace is kept if it records a clean page; one in which the scan finds a
\* secret all the same is deleted, and a paused one is withheld.
Exported ==
  CASE tracer.state = "recording" ->
         \/ tracer' = [tracer EXCEPT !.state = "finished", !.saved = tracer.docs, !.docs = {}]
         \/ /\ typed # {}
            /\ tracer' = [tracer EXCEPT !.state = "finished", !.withheld = "secret_detected", !.docs = {}]
    [] tracer.state = "paused" -> tracer' = [tracer EXCEPT !.withheld = "secret_bearing_page"]
    [] OTHER -> UNCHANGED tracer

Export ==
  /\ eng.pc = "export" /\ To("release") /\ Exported
  /\ UNCHANGED <<netVars, page, watch, typed, stop>>

\* A step lets go of what it pinned, whichever way it ended; the run goes on to
\* the next one if this one passed.
Release ==
  /\ eng.pc = "release"
  /\ eng' = IF eng.result = "none" THEN [eng EXCEPT !.pc = "step", !.step = @ + 1, !.pinned = 0]
                                   ELSE [eng EXCEPT !.pc = "detach", !.pinned = 0]
  /\ UNCHANGED <<netVars, page, tracer, watch, typed, stop>>

\* The gateway listens before the context exists, and the filter decides before
\* the page is asked for anything.
enterRest == <<scenario, log, reqs, page, watch, typed>>

\* Nothing is started before a run needs it: the driver, then the browser.
StartDriver ==
  /\ eng.pc = "start" /\ To("launch") /\ stop' = [stop EXCEPT !.driver = TRUE]
  /\ UNCHANGED <<faults, open, tracer, enterRest>>

Launch ==
  /\ eng.pc = "launch" /\ To("enter") /\ stop' = [stop EXCEPT !.browser = TRUE]
  /\ UNCHANGED <<faults, open, tracer, enterRest>>

\* A browser that does not launch takes its driver with it.
LaunchFails ==
  /\ eng.pc = "launch" /\ Fault /\ stop' = [stop EXCEPT !.driver = FALSE]
  /\ eng' = [eng EXCEPT !.pc = "ended", !.result = "browser_unavailable"]
  /\ UNCHANGED <<open, tracer, enterRest>>

MakeWorkdir ==
  /\ eng.pc = "enter" /\ To("gateway") /\ stop' = [stop EXCEPT !.workdir = TRUE]
  /\ UNCHANGED <<faults, open, tracer, enterRest>>

OpenGateway ==
  /\ eng.pc = "gateway" /\ To("context") /\ open' = [open EXCEPT !.gateway = TRUE]
  /\ UNCHANGED <<faults, tracer, stop, enterRest>>

OpenContext ==
  /\ eng.pc = "context" /\ To("trace") /\ stop' = [stop EXCEPT !.context = TRUE]
  /\ UNCHANGED <<faults, open, tracer, enterRest>>

StartTrace ==
  /\ eng.pc = "trace" /\ To("attach")
  /\ tracer' = IF scenario.traced
               THEN [tracer EXCEPT !.state = "recording", !.docs = {page.doc}] ELSE tracer
  /\ UNCHANGED <<faults, open, stop, enterRest>>

Attach ==
  /\ eng.pc = "attach" /\ To("step") /\ open' = [open EXCEPT !.filter = TRUE]
  /\ UNCHANGED <<faults, tracer, stop, enterRest>>

\* What fails to start is followed by the teardown of what stands.
AfterFailure(pc) ==
  CASE pc = "enter" -> "unbrowser"
    [] pc = "gateway" -> "unwork"
    [] pc = "context" -> "ungate"
    [] OTHER -> "detach"

Unavailable ==
  /\ eng.pc \in {"enter", "gateway", "context", "attach"} \/ (eng.pc = "trace" /\ scenario.traced)
  /\ Fault
  /\ eng' = [eng EXCEPT !.pc = AfterFailure(@),
                        !.result = IF eng.pc \in {"context", "attach"} THEN "browser_unavailable"
                                   ELSE "unexpected"]
  /\ UNCHANGED <<open, tracer, stop, enterRest>>

\* The teardown, from the filter out to the gateway. A failure that is not a
\* closed browser's skips the rest of what the context needs, not the gateway.
leaveRest == <<scenario, log, page, watch, typed>>

Detach ==
  /\ eng.pc = "detach" /\ To("untrace") /\ open' = [open EXCEPT !.filter = FALSE]
  /\ UNCHANGED <<faults, reqs, tracer, stop, leaveRest>>

StopTrace ==
  /\ eng.pc = "untrace" /\ To("uncontext")
  /\ tracer' = [tracer EXCEPT !.state = "off", !.docs = {}]
  /\ UNCHANGED <<faults, reqs, open, stop, leaveRest>>

CloseContext ==
  /\ eng.pc = "uncontext" /\ To("ungate") /\ stop' = [stop EXCEPT !.context = FALSE]
  /\ UNCHANGED <<faults, reqs, open, tracer, leaveRest>>

FailToClose ==
  /\ eng.pc \in {"untrace", "uncontext"} /\ Fault /\ To("ungate")
  /\ stop' = [stop EXCEPT !.cut = @ \cup {eng.pc}] /\ UNCHANGED <<reqs, open, tracer, leaveRest>>

CloseGateway ==
  /\ eng.pc = "ungate" /\ To("unwork") /\ open' = [open EXCEPT !.gateway = FALSE]
  /\ reqs' = [i \in DOMAIN reqs |-> [reqs[i] EXCEPT !.live = FALSE,
                !.stage = IF @ \in {"answered", "failed"} THEN @ ELSE "cut"]]
  /\ UNCHANGED <<faults, tracer, stop, leaveRest>>

RemoveWorkdir ==
  /\ eng.pc = "unwork" /\ To("unbrowser") /\ stop' = [stop EXCEPT !.workdir = FALSE]
  /\ UNCHANGED <<faults, reqs, open, tracer, leaveRest>>

\* A directory that cannot be removed stays, which is logged and no failure.
FailToRemove ==
  /\ eng.pc = "unwork" /\ Fault /\ To("unbrowser")
  /\ stop' = [stop EXCEPT !.cut = @ \cup {"unwork"}] /\ UNCHANGED <<reqs, open, tracer, leaveRest>>

\* The command's end closes the browser, its contexts with it, and then the
\* driver, which a browser that fails to close leaves running.
CloseBrowser ==
  /\ eng.pc = "unbrowser" /\ To("undrive")
  /\ stop' = [stop EXCEPT !.browser = FALSE, !.context = FALSE]
  /\ UNCHANGED <<faults, reqs, open, tracer, leaveRest>>

FailToCloseBrowser ==
  /\ eng.pc = "unbrowser" /\ Fault /\ To("ended")
  /\ stop' = [stop EXCEPT !.cut = @ \cup {"unbrowser"}] /\ UNCHANGED <<reqs, open, tracer, leaveRest>>

StopDriver ==
  /\ eng.pc = "undrive" /\ To("ended") /\ stop' = [stop EXCEPT !.driver = FALSE]
  /\ UNCHANGED <<faults, reqs, open, tracer, leaveRest>>

Closing == {"detach", "untrace", "uncontext", "ungate"}
Quitting == {"start", "launch", "unbrowser", "undrive"}

\* Mutant: an interrupt of the teardown leaves the gateway behind.
MutAfterInterrupt(pc) ==
  CASE pc \in Quitting \cup Closing \cup {"preflight"} -> "ended"
    [] pc \in {"enter", "unwork"} -> "unbrowser"
    [] pc = "gateway" -> "unwork"
    [] pc = "context" -> "ungate"
    [] OTHER -> "detach"

\* Where an interrupt leads: out of the steps to the teardown, out of what is
\* being put up or torn down to what encloses it. A launch it cuts short was
\* not noted yet by the launcher, which then closes nothing.
AfterInterrupt(pc) ==
  CASE pc \in Quitting \cup {"preflight"} -> "ended"
    [] pc \in {"enter", "unwork"} -> "unbrowser"
    [] pc = "gateway" -> "unwork"
    [] pc \in Closing \cup {"context"} -> "ungate"
    [] OTHER -> "detach"

\* The awaits that put something up or take it down.
Standing == Quitting \cup Closing \cup {"enter", "gateway", "context", "unwork"}

\* The call an interrupt cuts short, by a thread, a server or the browser, may
\* have done its work all the same; what it made is then known to nobody. The
\* gateway is closed before its teardown first waits.
Interrupt ==
  \E done \in {{}, {eng.pc}} :
    /\ stop.interrupts > 0 /\ eng.pc \notin {"ungate", "ended"}
    /\ stop' = [interrupts |-> stop.interrupts - 1,
                driver |-> (stop.driver \/ "start" \in done) /\ "undrive" \notin done,
                browser |-> (stop.browser \/ "launch" \in done) /\ "unbrowser" \notin done,
                workdir |-> (stop.workdir \/ "enter" \in done) /\ "unwork" \notin done,
                context |-> /\ stop.context \/ "context" \in done
                            /\ done \cap {"uncontext", "unbrowser"} = {},
                cut |-> stop.cut \cup ({eng.pc} \cap Standing)]
    /\ open' = [gateway |-> open.gateway \/ "gateway" \in done,
                filter |-> open.filter /\ "detach" \notin done]
    /\ eng' = [eng EXCEPT !.pc = AfterInterrupt(@),
                          !.result = IF @ = "none" THEN "interrupted" ELSE @]
    /\ UNCHANGED <<scenario, faults, log, reqs, page, tracer, watch, typed>>

EngineStep ==
  \/ ReadPage \/ Observe \/ PauseForSecret
  \/ Preflight \/ Guard \/ Goto \/ Goes \/ Status
  \/ Begin \/ Act \/ Settle \/ Look
  \/ Verify \/ Text \/ Wake \/ UrlMatches \/ Scan \/ Listen \/ NextDownload \/ Banner \/ Field
  \/ Pass \/ Fail \/ Shoot \/ Snapshot \/ Export \/ Release
  \/ StartDriver \/ Launch \/ LaunchFails
  \/ MakeWorkdir \/ OpenGateway \/ OpenContext \/ StartTrace \/ Attach \/ Unavailable
  \/ Detach \/ StopTrace \/ CloseContext \/ FailToClose \/ CloseGateway
  \/ RemoveWorkdir \/ FailToRemove \/ CloseBrowser \/ FailToCloseBrowser \/ StopDriver

NetSteps == NetStep /\ UNCHANGED sessionVars

Next == EngineStep \/ Expire \/ PageStep \/ NetSteps \/ Interrupt

Spec == Init /\ [][Next]_vars

\* Every call of the browser returns, every reply arrives and time passes;
\* what the page does of itself and the interrupts need not happen.
FairSpec == Spec /\ WF_vars(EngineStep) /\ WF_vars(Expire) /\ WF_vars(PageStep) /\ WF_vars(NetSteps)
=============================================================================
