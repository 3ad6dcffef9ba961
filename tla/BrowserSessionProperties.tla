---------------------- MODULE BrowserSessionProperties ----------------------
(* What a run's browser session promises of its steps and of its evidence.  *)
EXTENDS BrowserSession

Stages == {"paused", "asked", "connecting", "open", "told", "answered", "failed", "cut"}

\* Types: the session, the page and the requests hold what their code can.
TypeOK ==
  /\ eng.step \in 1..(Len(scenario.steps) + 1) /\ eng.attempt \in 1..MaxAttempts
  /\ eng.check \in Nat \ {0} /\ eng.late \in Nat /\ faults \in Nat
  /\ eng.load \in 0..Len(reqs) /\ page.nav \in 0..Len(reqs) /\ page.subs \subseteq DOMAIN reqs
  /\ \A i \in DOMAIN reqs : reqs[i].url \in DOMAIN Url /\ reqs[i].stage \in Stages
  /\ \A i \in DOMAIN log.blocks : log.blocks[i].at \in 1..log.seq
  /\ tracer.state \in {"off", "recording", "paused", "finished"} /\ tracer.tainted \in 0..page.doc
  /\ typed \subseteq 1..page.doc /\ watch.on \subseteq {"response", "download"}
  /\ eng.pinned \in 0..page.doc /\ eng.typedAt \in 0..eng.step
  /\ tracer.withheld \in {"none", "secret_bearing_page", "secret_detected"}
  /\ stop.interrupts \in Nat
  /\ {stop.driver, stop.browser, stop.workdir, stop.context, open.gateway, open.filter}
       \subseteq BOOLEAN
  /\ stop.cut \subseteq Standing

\* The browser reaches no address the policy refuses, whatever a name resolves
\* to from one lookup to the next: the gateway connects to what it checked.
Refusable(address) ==
  \/ address.lies # {}
  \/ \E i \in DOMAIN address.carries : address.carries[i].lies # {}

ReachesOnlyAllowed ==
  \A i \in DOMAIN reqs : \A address \in reqs[i].via :
    Refusable(address) => \E port \in {u.port : u \in Range(Url)} : <<address, port>> \in Exceptions

\* A main document comes from the allowlist only, redirect hops included.
ShowsOnlyAllowed ==
  page.url \in DOMAIN Url =>
    LET host == Url[page.url].host
    IN  \/ \E p \in Allowed : IF p.wild THEN IsSuffix(p.base, Tail(host.text)) ELSE p.base = host.text
        \/ <<host.address, Url[page.url].port>> \in Exceptions

\* A step that passed had no refusal waiting when it last looked, and a
\* navigation that a refusal ended is told as refused and not tried again.
RefusalsAreTold ==
  /\ eng.pc = "passed" => \A i \in DOMAIN log.blocks : log.blocks[i].at > eng.looked
  /\ eng.refused => eng.result \in {"egress_blocked", "interrupted"}

\* Only allowed addresses are reached and shown, and what is refused is told.
EgressIsHeld == TypeOK /\ ReachesOnlyAllowed /\ ShowsOnlyAllowed /\ RefusalsAreTold

\* The chunk that is recorded, and the trace that is saved, hold no document a
\* secret was typed into, a picture of one is masked, and a trace that is
\* withheld for its page names the step that typed the secret.
EvidenceIsClean ==
  /\ (tracer.docs \cup tracer.saved) \cap typed = {}
  /\ \A shot \in tracer.shots : shot.secret => shot.masked
  /\ tracer.withheld # "none" => tracer.saved = {}
  /\ tracer.withheld = "secret_bearing_page" => eng.typedAt # 0

\* A sleeping check knows an epoch from before it looked, and a listening one
\* has looked at every response that did not wake it: neither sleeps through
\* what it waits for.
NothingSleptThrough ==
  /\ eng.pc = "asleep" =>
       \/ eng.seen[1] < eng.read[1]
       \/ eng.seen[1] = eng.read[1] /\ eng.seen[2] <= eng.read[2]
  /\ eng.pc = "asleep" /\ Epoch = eng.seen => ~page.shown
  /\ eng.pc = "listening" /\ ~watch.arrived =>
       \A i \in DOMAIN watch.responses :
         watch.responses[i][1] # Step.want \/ watch.responses[i][2] >= 400

\* The browser is never without its driver, nor a context without its gateway
\* unless opening it, or closing it, was cut short. A session that ended left
\* nothing behind but what one of its own starts or teardowns, cut short by an
\* interrupt or a failure, was about to note or remove: each thing names the
\* awaits that can leave it, where the docstring of open_session has no
\* exception (launcher.py:235-236). Nothing connects for an ended session.
CutShortAt(awaits) == \E await \in awaits : await \in stop.cut

NothingLeftBehind ==
  /\ stop.browser => stop.driver
  /\ stop.context => stop.browser /\ (open.gateway \/ CutShortAt({"context"} \cup Closing))
  /\ eng.pc = "ended" =>
       /\ stop.driver => CutShortAt({"start", "launch", "unbrowser", "undrive"})
       /\ stop.browser => CutShortAt({"launch", "unbrowser"})
       /\ stop.context => CutShortAt({"unbrowser"}) /\ CutShortAt({"context"} \cup Closing)
       /\ open.gateway => CutShortAt({"gateway"})
       /\ open.filter => CutShortAt({"detach"})
       /\ stop.workdir => CutShortAt({"enter", "unwork"})
       /\ \A i \in DOMAIN reqs : reqs[i].stage \notin {"connecting", "open"}

\* Every session ends: each wait is bounded and each retry counted.
SessionEnds == <>(eng.pc = "ended")
=============================================================================
