------------------------ MODULE BrowserSessionProofs ------------------------
(* Proofs about a run's browser session, for every workflow, every site,     *)
(* every answer of the name service and every policy.                        *)
EXTENDS BrowserSessionProperties, FiniteSetTheorems, WellFoundedInduction, TLAPS

----------------------------------------------------------------------------
(* Where the run stands.                                                    *)

Navigating == {"guard", "goto", "loading", "status"}
Reading == {"epoch", "again", "observe"}
Verifying == {"verify", "text", "asleep", "url", "response", "listening", "download", "banner", "field"}
Ending == {"failing", "shoot", "snapshot", "export", "release"}

InStep == Navigating \cup Reading \cup Verifying \cup Ending \cup Looks
            \cup {"pause", "type", "act", "settle", "passed"}
Starting == {"preflight", "start", "launch", "enter", "gateway", "context", "trace", "attach"}
Leaving == {"detach", "untrace", "uncontext", "ungate", "unwork", "unbrowser", "undrive", "ended"}
Places == InStep \cup Starting \cup Leaving \cup {"step"}

\* What the page is read for.
Purposes == {"none", "status", "look", "pause", "act", "text", "export"}

\* The run does this next, or reads the page to do it.
Heading(then) == eng.pc = then \/ (eng.pc \in Reading /\ eng.then = then)

----------------------------------------------------------------------------
(* What every state is made of.                                             *)

\* The addresses a connection can be made to: those hosts are and lookups give,
\* of which the refusable ones are excepted at the port of some URL.
Known ==
  {Url[name].host.address : name \in {n \in DOMAIN Written : Url[n].host.address # NoAddress}}
    \cup UNION {ToSet(found) : found \in UNION {Dns[text] : text \in DOMAIN Dns}}

Reachable ==
  {address \in Known :
     Refusable(address) => \E name \in DOMAIN Written : <<address, Url[name].port>> \in Exceptions}

Rules == {Passed, "malformed_url", "scheme", "blocked_address", "not_allowlisted"}
Reasons == {"name_not_resolved", "refused", "unreachable"}
Codes == {Passed, "blocked_by_client", "socks_failed", "connection_reset"}
Results ==
  Reasons \cup Codes \cup
    {"interrupted", "timeout", "http_status", "egress_blocked", "page_unreadable", "new_page_opened",
     "detached_before_action", "checkpoint_failed", "browser_unavailable", "unexpected"}

Requests ==
  [kind : {"goto", "leave", "frame", "sub"}, url : DOMAIN Written, stage : Stages, live : BOOLEAN,
   left : Seq(Reachable), via : SUBSET Reachable, code : Codes, refused : BOOLEAN, status : Nat]

Blocks == [layer : {"document", "connection"}, rule : Rules, at : Nat]
Failures == [reason : Reasons, at : Nat]
Logs == [seq : Nat, blocks : Seq(Blocks), failures : Seq(Failures)]

Engines ==
  [pc : Places, step : Nat \ {0}, attempt : 1..MaxAttempts, mark : Nat, load : Nat, then : Purposes,
   seen : Nat \X Nat, read : Nat \X Nat, check : Nat \ {0}, expired : BOOLEAN, pinned : Nat,
   looked : Nat, typedAt : Nat, late : Nat, refused : BOOLEAN, result : Results]

Pages ==
  [doc : Nat \ {0}, muts : Nat, url : DOMAIN Written \cup {"blank", "error"}, nav : Nat,
   subs : SUBSET Nat, status : Nat, shown : BOOLEAN, banner : BOOLEAN, due : SUBSET Effects,
   changes : Seq([shown : BOOLEAN, banner : BOOLEAN])]

Tracers ==
  [state : {"off", "recording", "paused", "finished"}, tainted : Nat, docs : SUBSET Nat,
   saved : SUBSET Nat, withheld : {"none", "secret_bearing_page", "secret_detected"},
   shots : SUBSET [secret : BOOLEAN, masked : BOOLEAN]]

Watches ==
  [on : SUBSET {"response", "download"}, responses : Seq((DOMAIN Written) \X Nat), arrived : BOOLEAN,
   downloads : Seq({e.url : e \in Effects}), opened : Nat]

Stops ==
  [interrupts : Nat, driver : BOOLEAN, browser : BOOLEAN, workdir : BOOLEAN, context : BOOLEAN,
   cut : SUBSET Standing]

NetTypes ==
  /\ scenario \in Scenarios /\ faults \in Nat
  /\ log \in Logs /\ \A i \in DOMAIN log.blocks : log.blocks[i].at \in 1..log.seq
  /\ reqs \in Seq(Requests) /\ \A i \in DOMAIN reqs : reqs[i].stage = "connecting" => reqs[i].left # <<>>
  /\ open \in [gateway : BOOLEAN, filter : BOOLEAN]

\* What the run remembers is of a step, a request and a document there are.
EngTypes ==
  /\ eng \in Engines
  /\ eng.step <= Len(scenario.steps) + 1 /\ (eng.pc \in InStep => eng.step <= Len(scenario.steps))
  /\ eng.load <= Len(reqs) /\ (eng.pc = "loading" => eng.load # 0)
  /\ eng.pinned <= page.doc /\ eng.seen[1] <= page.doc /\ eng.typedAt <= eng.step
  /\ eng.pc = "preflight" => eng.typedAt = 0
  /\ eng.pc \in Reading => eng.then # "none"
  /\ eng.pc \in Navigating \/ Heading("status") => Step.act = "navigate"

PageTypes ==
  /\ page \in Pages /\ page.nav <= Len(reqs) /\ page.subs \subseteq DOMAIN reqs
  /\ watch \in Watches /\ typed \subseteq 1..page.doc
  /\ tracer \in Tracers /\ tracer.tainted <= page.doc
  /\ stop \in Stops

Types == NetTypes /\ EngTypes /\ PageTypes

----------------------------------------------------------------------------
(* Of the network.                                                          *)

Passing(name) == CheckNavigation(Url[name], TRUE) = Passed

\* A main document that got past the filter is one the policy lets be shown,
\* and only such a one is.
Filtered ==
  /\ \A i \in DOMAIN reqs :
       reqs[i].kind \in MainDocuments /\ reqs[i].stage \in {"asked", "connecting", "open", "answered"}
         => Passing(reqs[i].url)
  /\ page.nav # 0 => reqs[page.nav].kind \in MainDocuments
  /\ page.url \in DOMAIN Written => Passing(page.url)

\* What is refused is in the log until the run looks, and is told then.
Told ==
  /\ eng.pc = "loading" /\ reqs[eng.load].refused => log.blocks # <<>>
  /\ eng.refused => /\ eng.pc \in Ending \cup Leaving \/ Heading("export")
                    /\ eng.result \in {"egress_blocked", "interrupted"}
  /\ eng.looked <= log.seq
  /\ eng.pc = "passed" => \A i \in DOMAIN log.blocks : log.blocks[i].at > eng.looked

\* A closed gateway has no connection.
Closed == ~open.gateway => \A i \in DOMAIN reqs : reqs[i].stage \notin {"connecting", "open"}

NetInv == Filtered /\ Told /\ Closed

----------------------------------------------------------------------------
(* Of the evidence.                                                         *)

\* The step has failed: something is to be kept.
Explained ==
  /\ \A i \in DOMAIN reqs : reqs[i].stage \in {"told", "failed"} => reqs[i].code # "none"
  /\ eng.pc \in {"failing", "snapshot"} \/ Heading("export") => eng.result # "none"

\* Secrets are typed into documents the run has read, in a step it remembers.
Secrets ==
  /\ typed \subseteq 1..eng.seen[1]
  /\ eng.pc \in Starting => typed = {}
  /\ eng.pc \in {"observe", "pause", "type"} => eng.pinned <= eng.seen[1]
  /\ typed # {} \/ tracer.state = "paused" \/ Heading("pause") \/ eng.pc = "type" => eng.typedAt # 0

\* A paused trace keeps nothing until a document later than every secret's.
Paused ==
  /\ tracer.state # "recording" => tracer.docs = {}
  /\ tracer.state = "paused" => typed \subseteq 1..tracer.tainted /\ tracer.tainted <= eng.seen[1]
  /\ eng.pc = "type" => /\ tracer.state # "recording"
                        /\ tracer.state = "paused" => tracer.tainted = eng.seen[1]

\* What is kept is kept at the end, once.
Kept ==
  /\ (tracer.docs \cup tracer.saved) \cap typed = {}
  /\ tracer.saved # {} \/ tracer.withheld # "none"
       => eng.result # "none" /\ eng.pc \in Leaving \cup {"release"}
  /\ tracer.withheld # "none" => tracer.saved = {}
  /\ tracer.withheld = "secret_bearing_page" => eng.typedAt # 0
  /\ \A shot \in tracer.shots : shot.secret => shot.masked

EvidenceInv == Explained /\ Secrets /\ Paused /\ Kept

----------------------------------------------------------------------------
(* Of the waits, and of what is up.                                         *)

NoLater(a, b) == a[1] < b[1] \/ (a[1] = b[1] /\ a[2] <= b[2])

WaitInv ==
  /\ NoLater(eng.seen, Epoch)
  /\ eng.pc = "asleep" => NoLater(eng.seen, eng.read) /\ (Epoch = eng.seen => ~page.shown)
  /\ eng.pc = "listening" /\ ~watch.arrived => Matching = {}

\* Where there is no gateway to speak of, and no directory: not yet, or no
\* more. Where no context has been asked for yet; and where it may be.
Before == {"preflight", "start", "launch", "enter", "gateway"}
After == {"unwork", "unbrowser", "undrive", "ended"}
NoGateway == Before \cup After
NoWorkdir == NoGateway \ {"gateway", "unwork"}
InContext == InStep \cup {"step", "trace", "attach", "detach", "untrace", "uncontext"}

\* The driver and the browser are up from their start to their end, and the
\* browser is not up alone.
ChromiumInv ==
  /\ eng.pc \in {"preflight", "start"} => ~stop.driver
  /\ eng.pc \notin {"preflight", "start", "ended"} => stop.driver
  /\ eng.pc \in {"preflight", "start", "launch", "undrive"} => ~stop.browser
  /\ eng.pc \notin {"preflight", "start", "launch", "undrive", "ended"} => stop.browser
  /\ stop.browser => stop.driver
  /\ eng.pc = "ended" /\ stop.driver => CutShortAt({"start", "launch", "unbrowser", "undrive"})
  /\ eng.pc = "ended" /\ stop.browser => CutShortAt({"launch", "unbrowser"})

\* So are the directory, the gateway and the filter, unless one was cut short.
GatewayInv ==
  /\ eng.pc \in NoWorkdir /\ stop.workdir => CutShortAt({"enter", "unwork"})
  /\ eng.pc \in InContext \cup {"context"} => open.gateway
  /\ eng.pc \in NoGateway /\ open.gateway => "gateway" \in stop.cut
  /\ open.filter => eng.pc \in InStep \cup {"step", "detach"} \/ "detach" \in stop.cut

\* A context outlives its place only where it was cut short, and the browser
\* takes it along. The gateway that nobody knows of never had one.
ContextInv ==
  /\ eng.pc \in Before \cup {"context", "undrive"} => ~stop.context
  /\ stop.context => stop.browser
  /\ stop.context /\ eng.pc \notin InContext => CutShortAt({"context"} \cup Closing)
  /\ stop.context /\ eng.pc = "ended" => "unbrowser" \in stop.cut
  /\ "gateway" \in stop.cut => ~stop.context /\ eng.pc \in After

\* Nothing was asked before there was a context.
Unasked == eng.pc \in Before \/ "gateway" \in stop.cut => reqs = <<>>

UpInv == ChromiumInv /\ GatewayInv /\ ContextInv /\ Unasked

----------------------------------------------------------------------------
(* The policy.                                                              *)

\* A set of numbers has a least: the initial segments up to its members, ordered
\* by inclusion, are finite sets.
LEMMA LeastOf ==
  ASSUME NEW T \in SUBSET Nat, T # {}
  PROVE  \E n \in T : \A m \in T : n <= m
<1> DEFINE below == {0..n : n \in T}
           R == StrictSubsetOrdering(Nat)
<1>1. \A n \in T : IsFiniteSet(0..n)
  <2> TAKE n \in T
  <2>1. 0 \in Int /\ n \in Int OBVIOUS
  <2> QED BY <2>1, FS_Interval
<1>2. below \subseteq FiniteSubsetsOf(Nat) /\ below # {}
  <2>1. \A n \in T : 0..n \in SUBSET Nat OBVIOUS
  <2>2. \A n \in T : 0..n \in FiniteSubsetsOf(Nat)
    BY <1>1, <2>1 DEF FiniteSubsetsOf
  <2> QED BY <2>2
<1>3. PICK U \in below : \A V \in below : ~(<<V, U>> \in R)
  <2>1. IsWellFoundedOn(R, FiniteSubsetsOf(Nat))
    BY FS_StrictSubsetOrderingWellFounded
  <2> HIDE DEF below, R
  <2> QED BY <1>2, <2>1, WFMin
<1>4. PICK n \in T : U = 0..n BY <1>3
<1>5. ASSUME NEW m \in T, m < n PROVE FALSE
  <2>1. 0..m \in below /\ 0..m \subseteq 0..n /\ 0..m # 0..n
    <3>1. n \in 0..n /\ n \notin 0..m BY <1>5
    <3> QED BY <1>5, <3>1
  <2>2. <<0..m, U>> \in R
    <3>1. 0..m \in SUBSET Nat /\ 0..n \in SUBSET Nat OBVIOUS
    <3> QED BY <1>4, <2>1, <3>1 DEF StrictSubsetOrdering
  <2> HIDE DEF below, R
  <2> QED BY <1>3, <2>1, <2>2
<1> QED BY <1>5

\* The least of a set of numbers is one of them, and so is the greatest of a
\* set of the numbers up to another.
LEMMA MinIn ==
  ASSUME NEW T \in SUBSET Nat, T # {}
  PROVE  Min(T) \in T
BY LeastOf DEF Min

LEMMA MaxIn ==
  ASSUME NEW bound \in Nat, NEW T \in SUBSET (1..bound), T # {}
  PROVE  Max(T) \in T
<1> DEFINE above == {n \in Nat : \A m \in T : n >= m}
<1>1. above # {} /\ above \in SUBSET Nat
  BY bound \in above
<1>2. PICK n \in above : \A m \in above : n <= m BY <1>1, LeastOf
<1>3. n \in T
  <2>1. CASE n = 0
    <3>1. PICK m \in T : TRUE OBVIOUS
    <3> QED BY <1>2, <2>1, <3>1
  <2>2. CASE n # 0
    <3>1. n - 1 \in Nat /\ n - 1 \notin above BY <1>2, <2>2
    <3>2. PICK m \in T : ~(n - 1 >= m) BY <3>1
    <3> QED BY <1>2, <3>1, <3>2
  <2> QED BY <2>1, <2>2
<1> QED BY <1>2, <1>3 DEF Max

\* An address that no rule blocks lies in no range of the policy, nor does any
\* that it carries.
LEMMA OwnRangePassed ==
  ASSUME NEW address, address.lies \subseteq ToSet(Ranges)
  PROVE  OwnRange(address) = Passed <=> address.lies = {}
<1> DEFINE hits == {i \in DOMAIN Ranges : Ranges[i] \in address.lies}
<1>1. DOMAIN Ranges = 1..8 /\ \A i \in 1..8 : Ranges[i] # Passed
  BY DEF Ranges, Passed
<1>2. hits = {} <=> address.lies = {} BY <1>1 DEF ToSet
<1>3. hits # {} => Min(hits) \in 1..8 BY <1>1, MinIn
<1> QED BY <1>1, <1>2, <1>3 DEF OwnRange

LEMMA BlockedRangePassed ==
  ASSUME NEW address, IsAddress(address), BlockedRange(address) = Passed
  PROVE  ~Refusable(address)
<1> DEFINE carried == {i \in DOMAIN address.carries : OwnRange(address.carries[i]) # Passed}
<1>1. carried \in SUBSET Nat BY DEF IsAddress
<1>2. carried = {}
  <2>1. carried # {} => Min(carried) \in carried BY <1>1, MinIn
  <2> QED BY <2>1 DEF BlockedRange
<1>3. address.lies = {}
  BY <1>2, OwnRangePassed DEF BlockedRange, IsAddress
<1>4. \A i \in DOMAIN address.carries : address.carries[i].lies = {}
  BY <1>2, OwnRangePassed DEF IsAddress
<1> QED BY <1>3, <1>4 DEF Refusable

\* A host that is written as an address is one of the policy's.
LEMMA HostsAreAddresses ==
  ASSUME NEW name \in DOMAIN Written, Url[name].host.address # NoAddress
  PROVE  IsAddress(Url[name].host.address)
<1> DEFINE host == Written[name].host
           dotted == Len(host.labels) > 1 /\ Last(host.labels) = Empty
           labels == IF dotted THEN Front(host.labels) ELSE host.labels
<1>1. Url[name].host = ParseHost(host) BY EgressAssumption DEF Url
<1>2. CASE "v6" \in DOMAIN host
  BY <1>1, <1>2, EgressAssumption DEF ParseHost, AtAddress
<1>3. CASE "v6" \notin DOMAIN host
  <2>1. ParseHost(host).address \in {NoAddress, Address(Ipv4(labels))}
    BY <1>3 DEF ParseHost, AtAddress, NoHost
  <2>2. Url[name].host.address = Address(Ipv4(labels)) BY <1>1, <2>1
  <2>3. \A b : IsAddress(Address(b))
    BY DEF IsAddress, Address
  <2> QED BY <2>2, <2>3
<1> QED BY <1>2, <1>3

\* What a connection that passed the check would use can be reached.
LEMMA CheckedIsReachable ==
  ASSUME NEW name \in DOMAIN Written, NEW found \in Lookups(Url[name].host), found # <<>>,
         CheckConnection(Url[name].host, Url[name].port, found) = Passed
  PROVE  found \in Seq(Reachable)
<1> DEFINE host == Url[name].host
<1>1. found \in Seq(ToSet(found)) /\ ToSet(found) \subseteq Known
      /\ \A a \in ToSet(found) : IsAddress(a)
  <2>1. CASE host.address # NoAddress
    <3>1. found = <<host.address>> /\ IsAddress(host.address) BY <2>1, HostsAreAddresses DEF Lookups
    <3>2. ToSet(found) = {host.address} BY <3>1 DEF ToSet
    <3> QED BY <2>1, <3>1, <3>2 DEF Known
  <2>2. CASE host.address = NoAddress
    <3>1. host.text \in DOMAIN Dns /\ found \in Dns[host.text] BY <2>2 DEF Lookups
    <3>2. ToSet(found) \subseteq Known BY <3>1 DEF Known
    <3> QED BY <3>1, <3>2, EgressAssumption
  <2> QED BY <2>1, <2>2
<1>2. ASSUME NEW a \in ToSet(found), Refusable(a)
      PROVE  \E n \in DOMAIN Written : <<a, Url[n].port>> \in Exceptions
  <2>1. BlockedRange(a) # Passed BY <1>1, <1>2, BlockedRangePassed
  <2>2. CASE IsLoopbackException(host, Url[name].port)
    <3>1. found = <<host.address>> BY <2>2 DEF Lookups, IsLoopbackException
    <3>2. a = host.address BY <3>1, <1>2 DEF ToSet
    <3> QED BY <2>2, <3>2 DEF IsLoopbackException
  <2>3. CASE ~IsLoopbackException(host, Url[name].port)
    <3>1. a \in IF host.address # NoAddress THEN {host.address} ELSE ToSet(found)
      <4>1. host.address # NoAddress => found = <<host.address>> BY DEF Lookups
      <4> QED BY <4>1, <1>2 DEF ToSet
    <3> QED BY <2>1, <2>3, <3>1 DEF CheckConnection, Passed
  <2> QED BY <2>2, <2>3
<1>3. ToSet(found) \subseteq Reachable BY <1>1, <1>2 DEF Reachable
<1> QED BY <1>1, <1>3

\* A name that ends in a shorter one still does without its first label.
LEMMA SuffixOfTail ==
  ASSUME NEW S, NEW base \in Seq(S), NEW text \in Seq(S), Len(text) > Len(base), IsSuffix(base, text)
  PROVE  IsSuffix(base, Tail(text))
<1> DEFINE n == Len(text)
           k == Len(base)
<1>1. \A s \in Seq(S) : Reverse(s) \in Seq(S) /\ Len(Reverse(s)) = Len(s)
                        /\ \A i \in 1..Len(s) : Reverse(s)[i] = s[(Len(s) - i) + 1]
  BY DEF Reverse
<1>2. /\ n \in Nat /\ k \in Nat /\ k <= n - 1
      /\ Tail(text) \in Seq(S) /\ Len(Tail(text)) = n - 1
      /\ \A i \in 1..(n - 1) : Tail(text)[i] = text[i + 1]
  OBVIOUS
<1>3. /\ Reverse(base) \in Seq(S) /\ Len(Reverse(base)) = k
      /\ Reverse(text) \in Seq(S) /\ Len(Reverse(text)) = n
      /\ \A i \in 1..n : Reverse(text)[i] = text[(n - i) + 1]
      /\ Reverse(Tail(text)) \in Seq(S) /\ Len(Reverse(Tail(text))) = n - 1
      /\ \A i \in 1..(n - 1) : Reverse(Tail(text))[i] = Tail(text)[((n - 1) - i) + 1]
  <2>1. \A s \in Seq(S) : \A m \in Nat : Len(s) = m =>
          /\ Reverse(s) \in Seq(S) /\ Len(Reverse(s)) = m
          /\ \A i \in 1..m : Reverse(s)[i] = s[(m - i) + 1]
    BY <1>1
  <2>2. n - 1 \in Nat BY <1>2
  <2> HIDE DEF n, k
  <2>3. /\ Reverse(Tail(text)) \in Seq(S) /\ Len(Reverse(Tail(text))) = n - 1
        /\ \A i \in 1..(n - 1) : Reverse(Tail(text))[i] = Tail(text)[((n - 1) - i) + 1]
    BY <1>2, <2>1, <2>2
  <2>4. /\ Reverse(base) \in Seq(S) /\ Len(Reverse(base)) = k
        /\ Reverse(text) \in Seq(S) /\ Len(Reverse(text)) = n
        /\ \A i \in 1..n : Reverse(text)[i] = text[(n - i) + 1]
    BY <1>2, <2>1 DEF n, k
  <2> QED BY <2>3, <2>4
<1> HIDE DEF n, k
<1>4. \A i \in 1..k : Reverse(base)[i] = Reverse(text)[i]
  <2>1. SubSeq(Reverse(base), 1, k) = SubSeq(Reverse(text), 1, k) BY <1>3 DEF IsSuffix, IsPrefix
  <2>2. \A i \in 1..k : /\ SubSeq(Reverse(base), 1, k)[i] = Reverse(base)[i]
                        /\ SubSeq(Reverse(text), 1, k)[i] = Reverse(text)[i]
    BY <1>2, <1>3
  <2> QED BY <2>1, <2>2
<1>5. \A i \in 1..k : Reverse(Tail(text))[i] = Reverse(text)[i]
  <2> TAKE i \in 1..k
  <2>1. i \in 1..(n - 1) /\ i \in 1..n /\ n - i \in 1..(n - 1) BY <1>2
  <2>2. Tail(text)[n - i] = text[(n - i) + 1] BY <2>1, <1>2
  <2>3. ((n - 1) - i) + 1 = n - i BY <1>2
  <2> QED BY <2>1, <2>2, <2>3, <1>3
<1>6. SubSeq(Reverse(base), 1, k) = SubSeq(Reverse(Tail(text)), 1, k)
  <2>1. SubSeq(Reverse(base), 1, k) = [i \in 1..k |-> Reverse(base)[i]] BY <1>2, <1>3
  <2>2. SubSeq(Reverse(Tail(text)), 1, k) = [i \in 1..k |-> Reverse(Tail(text))[i]] BY <1>2, <1>3
  <2> QED BY <2>1, <2>2, <1>4, <1>5
<1> QED BY <1>2, <1>3, <1>6 DEF IsSuffix, IsPrefix

\* A host's name is a sequence of labels.
LEMMA NamesAreSequences ==
  ASSUME NEW name \in DOMAIN Written, Url[name].host.address = NoAddress, Url[name].host # NoHost
  PROVE  \E S : Url[name].host.text \in Seq(S)
<1> DEFINE host == Written[name].host
           dotted == Len(host.labels) > 1 /\ Last(host.labels) = Empty
           labels == IF dotted THEN Front(host.labels) ELSE host.labels
           texts == {labels[i].text : i \in DOMAIN labels}
<1>1. Url[name].host = ParseHost(host) BY EgressAssumption DEF Url
<1>2. CASE "v6" \in DOMAIN host
  <2>1. Url[name].host.text = <<"address">> BY <1>1, <1>2 DEF ParseHost, AtAddress
  <2>2. <<"address">> \in Seq({"address"}) OBVIOUS
  <2> QED BY <2>1, <2>2
<1>3. CASE "v6" \notin DOMAIN host
  <2>1. ParseHost(host).text \in {<<>>, <<"address">>, [i \in DOMAIN labels |-> labels[i].text]}
    BY <1>3 DEF ParseHost, AtAddress, NoHost
  <2>2. labels \in Seq(ToSet(host.labels))
    <3>1. host.labels \in Seq(ToSet(host.labels)) BY <1>3, EgressAssumption
    <3> HIDE DEF host
    <3>2. CASE ~dotted BY <3>1, <3>2
    <3>3. CASE dotted
      <4>1. labels = SubSeq(host.labels, 1, Len(host.labels) - 1) BY <3>3 DEF Front
      <4> HIDE DEF labels
      <4> QED BY <3>1, <4>1
    <3> QED BY <3>2, <3>3
  <2>3. [i \in DOMAIN labels |-> labels[i].text] \in Seq(texts) BY <2>2
  <2>4. <<"address">> \in Seq({"address"}) /\ <<>> \in Seq({}) OBVIOUS
  <2> QED BY <1>1, <2>1, <2>3, <2>4
<1> QED BY <1>2, <1>3

\* What passes the check of a main document may be shown.
LEMMA PassingIsAllowed ==
  ASSUME NEW name \in DOMAIN Written, Passing(name)
  PROVE  LET host == Url[name].host
         IN  \/ \E p \in Allowed : IF p.wild THEN IsSuffix(p.base, Tail(host.text)) ELSE p.base = host.text
             \/ <<host.address, Url[name].port>> \in Exceptions
<1> DEFINE host == Url[name].host
<1>1. ReadUrl(Url[name]) = Passed /\ host # NoHost
  BY DEF Passing, CheckNavigation, ReadUrl, Passed
<1>2. IsLoopbackException(host, Url[name].port) \/ DomainAllowed(host)
  BY <1>1 DEF Passing, CheckNavigation, Passed
<1>3. ASSUME DomainAllowed(host)
      PROVE  \E p \in Allowed : IF p.wild THEN IsSuffix(p.base, Tail(host.text)) ELSE p.base = host.text
  <2>1. PICK p \in Allowed : IF p.wild THEN Len(host.text) > Len(p.base) /\ IsSuffix(p.base, host.text)
                                       ELSE host.text = p.base
    BY <1>3 DEF DomainAllowed
  <2>2. CASE ~p.wild BY <2>1, <2>2
  <2>3. CASE p.wild
    <3>1. PICK S : host.text \in Seq(S) BY <1>1, <1>3, NamesAreSequences DEF DomainAllowed
    <3>2. p.base \in Seq(ToSet(p.base)) BY EgressAssumption
    <3>3. host.text \in Seq(S \cup ToSet(p.base)) /\ p.base \in Seq(S \cup ToSet(p.base)) BY <3>1, <3>2
    <3> QED BY <2>1, <2>3, <3>3, SuffixOfTail
  <2> QED BY <2>2, <2>3
<1> QED BY <1>2, <1>3 DEF IsLoopbackException

----------------------------------------------------------------------------
(* What the steps do to the log and the requests.                           *)

\* What a sequence holds once it has grown by an element.
LEMMA Appended ==
  ASSUME NEW S, NEW s \in Seq(S), NEW x \in S
  PROVE  /\ Append(s, x) \in Seq(S) /\ Append(s, x) # <<>> /\ Len(Append(s, x)) = Len(s) + 1
         /\ \A i \in DOMAIN Append(s, x) :
              (i \in DOMAIN s /\ Append(s, x)[i] = s[i]) \/ (i = Len(s) + 1 /\ Append(s, x)[i] = x)
OBVIOUS

\* The log's operations give a log, in which every refusal has its place.
LEMMA LogsStay ==
  ASSUME NetTypes
  PROVE  /\ \A layer \in {"document", "connection"}, rule \in Rules :
              /\ WithBlock(layer, rule) \in Logs /\ WithBlock(layer, rule).seq = log.seq + 1
              /\ WithBlock(layer, rule).blocks # <<>>
              /\ \A i \in DOMAIN WithBlock(layer, rule).blocks :
                   \/ i \in DOMAIN log.blocks /\ WithBlock(layer, rule).blocks[i] = log.blocks[i]
                   \/ WithBlock(layer, rule).blocks[i].at = log.seq + 1
         /\ \A reason \in Reasons :
              /\ WithFailure(reason) \in Logs /\ WithFailure(reason).seq = log.seq + 1
              /\ WithFailure(reason).blocks = log.blocks
         /\ Taken \in Logs /\ Taken.seq = log.seq /\ Taken.blocks = <<>>
<1>1. log \in Logs /\ log.seq \in Nat /\ log.blocks \in Seq(Blocks) /\ log.failures \in Seq(Failures)
  BY DEF NetTypes, Logs
<1>2. ASSUME NEW layer \in {"document", "connection"}, NEW rule \in Rules
      PROVE  /\ WithBlock(layer, rule) \in Logs /\ WithBlock(layer, rule).seq = log.seq + 1
             /\ WithBlock(layer, rule).blocks # <<>>
             /\ \A i \in DOMAIN WithBlock(layer, rule).blocks :
                  \/ i \in DOMAIN log.blocks /\ WithBlock(layer, rule).blocks[i] = log.blocks[i]
                  \/ WithBlock(layer, rule).blocks[i].at = log.seq + 1
  <2> DEFINE block == [layer |-> layer, rule |-> rule, at |-> log.seq + 1]
             blocks == Append(log.blocks, block)
  <2>1. block \in Blocks /\ block.at = log.seq + 1 BY <1>1 DEF Blocks
  <2>2. WithBlock(layer, rule) = [seq |-> log.seq + 1, blocks |-> blocks, failures |-> log.failures]
    <3>1. WithBlock(layer, rule) = [log EXCEPT !.seq = log.seq + 1, !.blocks = blocks] BY DEF WithBlock
    <3> HIDE DEF blocks
    <3> QED BY <1>1, <3>1 DEF Logs
  <2> HIDE DEF block
  <2>3. blocks \in Seq(Blocks) /\ blocks # <<>>
        /\ \A i \in DOMAIN blocks : (i \in DOMAIN log.blocks /\ blocks[i] = log.blocks[i]) \/ blocks[i] = block
    BY <1>1, <2>1, Appended
  <2> HIDE DEF blocks
  <2> QED BY <1>1, <2>1, <2>2, <2>3 DEF Logs
<1>3. ASSUME NEW reason \in Reasons
      PROVE  /\ WithFailure(reason) \in Logs /\ WithFailure(reason).seq = log.seq + 1
             /\ WithFailure(reason).blocks = log.blocks
  <2> DEFINE failure == [reason |-> reason, at |-> log.seq + 1]
  <2>1. failure \in Failures BY <1>1 DEF Failures
  <2>2. WithFailure(reason) = [seq |-> log.seq + 1, blocks |-> log.blocks,
                               failures |-> Append(log.failures, failure)]
    <3> DEFINE failures == Append(log.failures, failure)
    <3>1. WithFailure(reason) = [log EXCEPT !.seq = log.seq + 1, !.failures = failures] BY DEF WithFailure
    <3> HIDE DEF failures
    <3>2. WithFailure(reason) = [seq |-> log.seq + 1, blocks |-> log.blocks, failures |-> failures]
      BY <1>1, <3>1 DEF Logs
    <3> QED BY <3>2 DEF failures
  <2> HIDE DEF failure
  <2> QED BY <1>1, <2>1, <2>2 DEF Logs
<1>4. Taken \in Logs /\ Taken.seq = log.seq /\ Taken.blocks = <<>>
  <2>1. Taken = [seq |-> log.seq, blocks |-> <<>>, failures |-> log.failures] BY <1>1 DEF Taken, Logs
  <2>2. <<>> \in Seq(Blocks) OBVIOUS
  <2> QED BY <1>1, <2>1, <2>2 DEF Logs
<1> QED BY <1>2, <1>3, <1>4

LEMMA FailureIsNamed ==
  ASSUME NetTypes, NEW mark
  PROVE  FailureSince(mark) \in Reasons \cup {"none"}
<1> DEFINE later == {i \in DOMAIN log.failures : log.failures[i].at > mark}
<1>1. later \in SUBSET (1..Len(log.failures)) /\ Len(log.failures) \in Nat BY DEF NetTypes, Logs
<1>2. later # {} => Max(later) \in DOMAIN log.failures BY <1>1, MaxIn
<1>3. log.failures \in Seq(Failures) /\ \A f \in Failures : f.reason \in Reasons
  BY DEF NetTypes, Logs, Failures
<1>4. \A i \in DOMAIN log.failures : log.failures[i].reason \in Reasons BY <1>3
<1> HIDE DEF later
<1>5. later = {} \/ log.failures[Max(later)].reason \in Reasons BY <1>2, <1>4
<1> QED BY <1>5 DEF FailureSince, later

LEMMA RulesAreNamed ==
  /\ \A url, main : CheckNavigation(url, main) \in Rules
  /\ \A host, port, found : CheckConnection(host, port, found) \in Rules
BY DEF CheckNavigation, CheckConnection, ReadUrl, Rules

\* Requests keep their places.
LEMMA RequestsStay ==
  ASSUME NetTypes
  PROVE  /\ \A i \in DOMAIN reqs : reqs[i] \in Requests
         /\ \A i \in DOMAIN reqs, r \in Requests : Becomes(i, r) =>
              /\ reqs' \in Seq(Requests) /\ DOMAIN reqs' = DOMAIN reqs /\ Len(reqs') = Len(reqs)
              /\ \A j \in DOMAIN reqs : reqs'[j] = IF j = i THEN r ELSE reqs[j]
         /\ \A ids : /\ Dropped(ids) \in Seq(Requests) /\ Len(Dropped(ids)) = Len(reqs)
                     /\ \A j \in DOMAIN reqs : Dropped(ids)[j] \in {reqs[j], [reqs[j] EXCEPT !.live = FALSE]}
         /\ \A kind \in {"goto", "leave", "frame", "sub"}, name \in DOMAIN Written :
              Request(kind, name) \in Requests
<1>1. reqs \in Seq(Requests) BY DEF NetTypes
<1>2. \A i \in DOMAIN reqs : reqs[i] \in Requests BY <1>1
<1>3. ASSUME NEW i \in DOMAIN reqs, NEW r \in Requests, Becomes(i, r)
      PROVE  /\ reqs' \in Seq(Requests) /\ DOMAIN reqs' = DOMAIN reqs /\ Len(reqs') = Len(reqs)
             /\ \A j \in DOMAIN reqs : reqs'[j] = IF j = i THEN r ELSE reqs[j]
  BY <1>1, <1>3 DEF Becomes
<1>4. ASSUME NEW ids
      PROVE  /\ Dropped(ids) \in Seq(Requests) /\ Len(Dropped(ids)) = Len(reqs)
             /\ \A j \in DOMAIN reqs : Dropped(ids)[j] \in {reqs[j], [reqs[j] EXCEPT !.live = FALSE]}
  <2>1. \A r \in Requests : [r EXCEPT !.live = FALSE] \in Requests BY DEF Requests
  <2> QED BY <1>1, <1>2, <2>1 DEF Dropped
<1>5. \A kind \in {"goto", "leave", "frame", "sub"}, name \in DOMAIN Written :
        Request(kind, name) \in Requests
  BY DEF Request, Requests, Stages, Documents, Codes
<1> QED BY <1>2, <1>3, <1>4, <1>5

\* Past the filter and not yet at its end.
Underway == {"asked", "connecting", "open", "answered"}

\* What a step of the network makes of a request, and of the log.
MovesOn(i, r) ==
  /\ Becomes(i, r) /\ r.kind = reqs[i].kind
  /\ r.stage \in Underway =>
       /\ r.url = reqs[i].url
       /\ \/ reqs[i].stage \in Underway
          \/ CheckNavigation(Url[r.url], r.kind \in MainDocuments) = Passed
  /\ r.stage \in {"connecting", "open"} => open.gateway
  /\ r.stage = "connecting" => r.left # <<>>
  /\ r.stage \in {"told", "failed"} =>
       r.code # "none" \/ (reqs[i].stage \in {"told", "failed"} /\ r.code = reqs[i].code)
  /\ r.refused => reqs[i].refused \/ log'.blocks # <<>>

LogsMore ==
  \/ log' = log
  \/ \E layer \in {"document", "connection"}, rule \in Rules : log' = WithBlock(layer, rule)
  \/ \E reason \in Reasons : log' = WithFailure(reason)

\* A URL of a page, and what the site answers to a request for it.
LEMMA SitesAreKnown ==
  ASSUME NetTypes, NEW name \in DOMAIN Written
  PROVE  /\ scenario.site[name].to # "none" => scenario.site[name].to \in DOMAIN Written
         /\ scenario.site[name].status \subseteq Nat
         /\ scenario.site[name].asks \in Seq({"frame", "sub"} \X DOMAIN Written)
BY ScenariosAssumption DEF NetTypes

LEMMA NetMoves ==
  ASSUME NetTypes, NEW i \in DOMAIN reqs,
         Decide(i) \/ Resolve(i) \/ Connect(i) \/ Tell(i) \/ Answer(i)
  PROVE  /\ \E r \in Requests : MovesOn(i, r)
         /\ LogsMore /\ faults' \in Nat /\ UNCHANGED <<scenario, open>>
<1>1. reqs[i] \in Requests BY RequestsStay
<1>2. faults \in Nat BY DEF NetTypes
<1>3. Fault => faults' \in Nat BY <1>2 DEF Fault
<1>4. ASSUME NEW layer \in {"document", "connection"}, NEW rule \in Rules,
             NEW code \in {"blocked_by_client", "socks_failed"}, Refuse(i, layer, rule, code)
      PROVE  (\E r \in Requests : MovesOn(i, r)) /\ LogsMore /\ faults' \in Nat /\ UNCHANGED <<scenario, open>>
  <2> DEFINE r == [reqs[i] EXCEPT !.stage = "told", !.code = code, !.refused = TRUE]
  <2>1. r \in Requests /\ r.kind = reqs[i].kind /\ r.stage = "told" /\ r.code = code
    BY <1>1 DEF Requests, Stages, Codes
  <2>2. Becomes(i, r) /\ log' = WithBlock(layer, rule) BY <1>4 DEF Refuse
  <2>3. log'.blocks # <<>> BY <2>2, LogsStay
  <2> HIDE DEF r
  <2>4. MovesOn(i, r) BY <2>1, <2>2, <2>3 DEF MovesOn, Underway
  <2> QED BY <1>2, <1>4, <2>1, <2>2, <2>4 DEF Refuse, LogsMore
<1>5. ASSUME NEW reason \in Reasons, Upstream(i, reason)
      PROVE  (\E r \in Requests : MovesOn(i, r)) /\ LogsMore
  <2> DEFINE r == [reqs[i] EXCEPT !.stage = "told", !.code = "socks_failed"]
  <2>1. r \in Requests /\ r.kind = reqs[i].kind /\ r.stage = "told" /\ r.code = "socks_failed"
        /\ r.refused = reqs[i].refused
    BY <1>1 DEF Requests, Stages, Codes
  <2>2. Becomes(i, r) /\ log' = WithFailure(reason) BY <1>5 DEF Upstream
  <2> HIDE DEF r
  <2>3. MovesOn(i, r) BY <2>1, <2>2 DEF MovesOn, Underway
  <2> QED BY <2>1, <2>2, <2>3 DEF LogsMore
<1>6. CASE Decide(i)
  <2> DEFINE rule == CheckNavigation(Url[reqs[i].url], reqs[i].kind \in MainDocuments)
             r == [reqs[i] EXCEPT !.stage = "asked"]
  <2>1. rule \in Rules BY RulesAreNamed
  <2>2. CASE rule # Passed
    <3>1. Refuse(i, "document", rule, "blocked_by_client") BY <1>6, <2>2 DEF Decide
    <3> QED BY <1>4, <2>1, <3>1
  <2>3. CASE rule = Passed
    <3>1. r \in Requests /\ r.kind = reqs[i].kind /\ r.stage = "asked" /\ r.url = reqs[i].url
          /\ r.refused = reqs[i].refused
      BY <1>1 DEF Requests, Stages
    <3>2. Becomes(i, r) /\ UNCHANGED <<scenario, faults, log, open>> BY <1>6, <2>3 DEF Decide
    <3>3. CheckNavigation(Url[r.url], r.kind \in MainDocuments) = Passed BY <2>3, <3>1
    <3> HIDE DEF r
    <3>4. MovesOn(i, r) BY <3>1, <3>2, <3>3 DEF MovesOn
    <3> QED BY <1>2, <3>1, <3>2, <3>4 DEF LogsMore
  <2> QED BY <2>2, <2>3
<1>7. CASE Resolve(i)
  <2> DEFINE url == Url[reqs[i].url]
  <2>1. PICK found \in Lookups(url.host) :
          LET rule == CheckConnection(url.host, url.port, found)
          IN  \/ found = <<>> /\ Fault /\ Upstream(i, "name_not_resolved") /\ UNCHANGED <<scenario, open>>
              \/ found # <<>> /\ rule # Passed /\ Refuse(i, "connection", rule, "socks_failed")
              \/ found # <<>> /\ rule = Passed
                 /\ Becomes(i, [reqs[i] EXCEPT !.stage = "connecting", !.left = found])
                 /\ UNCHANGED <<scenario, faults, log, open>>
    BY <1>7 DEF Resolve
  <2> DEFINE rule == CheckConnection(url.host, url.port, found)
             r == [reqs[i] EXCEPT !.stage = "connecting", !.left = found]
  <2>2. CASE Fault /\ Upstream(i, "name_not_resolved") /\ UNCHANGED <<scenario, open>>
    BY <1>3, <1>5, <2>2 DEF Reasons
  <2>3. CASE Refuse(i, "connection", rule, "socks_failed")
    <3>1. rule \in Rules BY RulesAreNamed
    <3> QED BY <1>4, <2>3, <3>1
  <2>4. CASE /\ found # <<>> /\ rule = Passed /\ Becomes(i, r) /\ UNCHANGED <<scenario, faults, log, open>>
    <3>1. reqs[i].url \in DOMAIN Written BY <1>1 DEF Requests
    <3>2. found \in Seq(Reachable) BY <2>4, <3>1, CheckedIsReachable
    <3>3. r \in Requests /\ r.kind = reqs[i].kind /\ r.stage = "connecting" /\ r.url = reqs[i].url
          /\ r.refused = reqs[i].refused /\ r.left = found
      <4> HIDE DEF rule, url
      <4> QED BY <1>1, <3>2 DEF Requests, Stages
    <3>4. reqs[i].stage = "asked" /\ open.gateway BY <1>7 DEF Resolve
    <3>5. Becomes(i, r) BY <2>4
    <3> HIDE DEF r
    <3>6. MovesOn(i, r) BY <2>4, <3>3, <3>4, <3>5 DEF MovesOn, Underway
    <3> QED BY <1>2, <2>4, <3>3, <3>6 DEF LogsMore
  <2> QED BY <2>1, <2>2, <2>3, <2>4
<1>8. CASE Connect(i)
  <2>1. reqs[i].stage = "connecting" /\ open.gateway /\ UNCHANGED <<scenario, open>> BY <1>8 DEF Connect
  <2>2. reqs[i].left \in Seq(Reachable) /\ reqs[i].left # <<>> /\ reqs[i].via \subseteq Reachable
    BY <1>1, <2>1 DEF Requests, NetTypes
  <2>3. CASE /\ Becomes(i, [reqs[i] EXCEPT !.stage = "open", !.via = @ \cup {Head(reqs[i].left)}])
             /\ UNCHANGED <<faults, log>>
    <3> DEFINE via == reqs[i].via \cup {Head(reqs[i].left)}
               r == [reqs[i] EXCEPT !.stage = "open", !.via = via]
    <3>1. via \subseteq Reachable BY <2>2
    <3>2. Becomes(i, r) BY <2>3
    <3> HIDE DEF via
    <3>3. r \in Requests /\ r.kind = reqs[i].kind /\ r.stage = "open" /\ r.url = reqs[i].url
          /\ r.refused = reqs[i].refused
      BY <1>1, <3>1 DEF Requests, Stages
    <3> HIDE DEF r
    <3>4. MovesOn(i, r) BY <2>1, <3>2, <3>3 DEF MovesOn, Underway
    <3> QED BY <1>2, <2>1, <2>3, <3>3, <3>4 DEF LogsMore
  <2>4. CASE /\ Fault /\ Len(reqs[i].left) > 1
             /\ Becomes(i, [reqs[i] EXCEPT !.left = Tail(@)]) /\ UNCHANGED log
    <3> DEFINE rest == Tail(reqs[i].left)
               r == [reqs[i] EXCEPT !.left = rest]
    <3>1. rest \in Seq(Reachable) /\ rest # <<>>
      <4>1. ASSUME NEW q \in Seq(Reachable), Len(q) > 1
            PROVE  Tail(q) \in Seq(Reachable) /\ Len(Tail(q)) \in Nat \ {0}
        <5>1. Len(q) \in Nat /\ Tail(q) \in Seq(Reachable) /\ Len(Tail(q)) = Len(q) - 1 BY <4>1
        <5> QED BY <4>1, <5>1
      <4>2. rest \in Seq(Reachable) /\ Len(rest) \in Nat \ {0} BY <2>2, <2>4, <4>1
      <4> HIDE DEF rest
      <4> QED BY <4>2
    <3>2. Becomes(i, r) BY <2>4
    <3> HIDE DEF rest
    <3>3. r \in Requests /\ r.kind = reqs[i].kind /\ r.stage = reqs[i].stage /\ r.url = reqs[i].url
          /\ r.refused = reqs[i].refused /\ r.left = rest
      BY <1>1, <3>1 DEF Requests, Stages
    <3> HIDE DEF r
    <3>4. MovesOn(i, r) BY <2>1, <3>1, <3>2, <3>3 DEF MovesOn, Underway
    <3> QED BY <1>3, <2>1, <2>4, <3>3, <3>4 DEF LogsMore
  <2>5. CASE Fault /\ \E reason \in {"refused", "unreachable"} : Upstream(i, reason)
    BY <1>3, <1>5, <2>1, <2>5 DEF Reasons
  <2> QED BY <1>8, <2>3, <2>4, <2>5 DEF Connect
<1>9. CASE Tell(i)
  <2> DEFINE r == [reqs[i] EXCEPT !.stage = "failed"]
  <2>1. r \in Requests /\ r.kind = reqs[i].kind /\ r.stage = "failed" /\ r.code = reqs[i].code
        /\ r.refused = reqs[i].refused
    BY <1>1 DEF Requests, Stages
  <2>2. reqs[i].stage = "told" /\ Becomes(i, r) /\ UNCHANGED <<scenario, faults, log, open>> BY <1>9 DEF Tell
  <2> HIDE DEF r
  <2>3. MovesOn(i, r) BY <2>1, <2>2 DEF MovesOn, Underway
  <2> QED BY <1>2, <2>1, <2>2, <2>3 DEF LogsMore
<1>10. CASE Answer(i)
  <2> DEFINE site == scenario.site[reqs[i].url]
  <2>1. reqs[i].stage = "open" /\ UNCHANGED <<scenario, log, open>> BY <1>10 DEF Answer
  <2>2. reqs[i].url \in DOMAIN Written BY <1>1 DEF Requests
  <2>3. (site.to # "none" => site.to \in DOMAIN Written) /\ site.status \subseteq Nat BY <2>2, SitesAreKnown
  <2>4. ASSUME NEW r \in Requests, Becomes(i, r), r.kind = reqs[i].kind, r.refused = reqs[i].refused,
               \/ r.stage = "paused"
               \/ r.stage = "answered" /\ r.url = reqs[i].url
               \/ r.stage = "failed" /\ r.code # "none",
               faults' \in Nat
        PROVE  (\E q \in Requests : MovesOn(i, q)) /\ LogsMore /\ faults' \in Nat /\ UNCHANGED <<scenario, open>>
    <3>1. MovesOn(i, r) BY <2>1, <2>4 DEF MovesOn, Underway
    <3> QED BY <2>1, <2>4, <3>1 DEF LogsMore
  <2>5. CASE /\ site.to # "none"
             /\ Becomes(i, [reqs[i] EXCEPT !.url = site.to, !.stage = "paused"]) /\ UNCHANGED faults
    <3> DEFINE r == [reqs[i] EXCEPT !.url = site.to, !.stage = "paused"]
    <3>1. r \in Requests /\ r.kind = reqs[i].kind /\ r.stage = "paused" /\ r.refused = reqs[i].refused
      <4> HIDE DEF site
      <4> QED BY <1>1, <2>3, <2>5 DEF Requests, Stages
    <3> HIDE DEF r
    <3> QED BY <1>2, <2>4, <2>5, <3>1 DEF r
  <2>6. CASE /\ \E status \in site.status : Becomes(i, [reqs[i] EXCEPT !.stage = "answered", !.status = status])
             /\ UNCHANGED faults
    <3>1. PICK status \in site.status : Becomes(i, [reqs[i] EXCEPT !.stage = "answered", !.status = status])
      BY <2>6
    <3> DEFINE r == [reqs[i] EXCEPT !.stage = "answered", !.status = status]
    <3>2. status \in Nat BY <2>3, <3>1
    <3>3. r \in Requests /\ r.kind = reqs[i].kind /\ r.stage = "answered" /\ r.refused = reqs[i].refused
          /\ r.url = reqs[i].url
      <4> HIDE DEF site
      <4> QED BY <1>1, <3>2 DEF Requests, Stages
    <3> HIDE DEF r
    <3> QED BY <1>2, <2>4, <2>6, <3>1, <3>3 DEF r
  <2>7. CASE Fault /\ Becomes(i, [reqs[i] EXCEPT !.stage = "failed", !.code = "connection_reset"])
    <3> DEFINE r == [reqs[i] EXCEPT !.stage = "failed", !.code = "connection_reset"]
    <3>1. r \in Requests /\ r.kind = reqs[i].kind /\ r.stage = "failed" /\ r.refused = reqs[i].refused
          /\ r.code = "connection_reset"
      BY <1>1 DEF Requests, Stages, Codes
    <3> HIDE DEF r
    <3> QED BY <1>3, <2>4, <2>7, <3>1 DEF r
  <2> QED BY <1>10, <2>5, <2>6, <2>7 DEF Answer
<1> QED BY <1>6, <1>7, <1>8, <1>9, <1>10

----------------------------------------------------------------------------
(* The types hold.                                                          *)

LEMMA TypesOfNet ==
  ASSUME NetTypes, NetStep
  PROVE  NetTypes' /\ LogsMore /\ UNCHANGED <<scenario, open>> /\ Len(reqs') = Len(reqs) /\ DOMAIN reqs' = DOMAIN reqs
<1>1. PICK i \in DOMAIN reqs : Decide(i) \/ Resolve(i) \/ Connect(i) \/ Tell(i) \/ Answer(i)
  BY DEF NetStep
<1>2. PICK r \in Requests : MovesOn(i, r) BY <1>1, NetMoves
<1>3. LogsMore /\ faults' \in Nat /\ UNCHANGED <<scenario, open>> BY <1>1, NetMoves
<1>4. /\ reqs' \in Seq(Requests) /\ DOMAIN reqs' = DOMAIN reqs /\ Len(reqs') = Len(reqs)
      /\ \A j \in DOMAIN reqs : reqs'[j] = IF j = i THEN r ELSE reqs[j]
  BY <1>1, <1>2, RequestsStay DEF MovesOn
<1>5. \A j \in DOMAIN reqs' : reqs'[j].stage = "connecting" => reqs'[j].left # <<>>
  BY <1>2, <1>4 DEF MovesOn, NetTypes
<1>6. log' \in Logs /\ \A j \in DOMAIN log'.blocks : log'.blocks[j].at \in 1..log'.seq
  <2>1. log.seq \in Nat /\ \A j \in DOMAIN log.blocks : log.blocks[j].at \in 1..log.seq BY DEF NetTypes, Logs
  <2>2. CASE log' = log BY <2>2 DEF NetTypes
  <2>3. ASSUME NEW layer \in {"document", "connection"}, NEW rule \in Rules, log' = WithBlock(layer, rule)
        PROVE  log' \in Logs /\ \A j \in DOMAIN log'.blocks : log'.blocks[j].at \in 1..log'.seq
    BY <2>1, <2>3, LogsStay
  <2>4. ASSUME NEW reason \in Reasons, log' = WithFailure(reason)
        PROVE  log' \in Logs /\ \A j \in DOMAIN log'.blocks : log'.blocks[j].at \in 1..log'.seq
    BY <2>1, <2>4, LogsStay
  <2> QED BY <1>3, <2>2, <2>3, <2>4 DEF LogsMore
<1> QED BY <1>3, <1>4, <1>5, <1>6 DEF NetTypes

LEMMA NetStays ==
  ASSUME NetTypes, UNCHANGED netVars
  PROVE  NetTypes'
BY DEF NetTypes, netVars

LEMMA TypesOfNetSteps ==
  ASSUME Types, NetSteps
  PROVE  Types'
<1>1. NetTypes' /\ UNCHANGED scenario /\ Len(reqs') = Len(reqs) /\ DOMAIN reqs' = DOMAIN reqs
  BY TypesOfNet DEF Types, NetSteps
<1>2. EngTypes'
  BY <1>1 DEF Types, EngTypes, NetSteps, sessionVars, Heading, Step
<1>3. PageTypes'
  BY <1>1 DEF Types, PageTypes, NetSteps, sessionVars
<1> QED BY <1>1, <1>2, <1>3 DEF Types

----------------------------------------------------------------------------
(* How the run moves.                                                       *)

\* The run stays at its step and request, and with what it remembers of them;
\* and it does so without a new look at the page or the log.
Stays(e, f) ==
  f \in Engines /\ f.step = e.step /\ f.load = e.load /\ f.pinned = e.pinned /\ f.typedAt = e.typedAt
Recalls(e, f) ==
  f.seen = e.seen /\ f.read = e.read /\ f.looked = e.looked /\ f.refused = e.refused

LEMMA PlacesAre ==
  {"guard", "goto", "loading", "status", "epoch", "again", "observe", "verify", "text", "asleep", "url",
   "response", "listening", "download", "banner", "field", "failing", "shoot", "snapshot", "export",
   "release", "look", "lookfail", "lookpass", "pause", "type", "act", "settle", "passed", "preflight",
   "start", "launch", "enter", "gateway", "context", "trace", "attach", "detach", "untrace", "uncontext",
   "ungate", "unwork", "unbrowser", "undrive", "ended", "step"} = Places
BY DEF Places, InStep, Navigating, Reading, Verifying, Ending, Looks, Starting, Leaving

LEMMA StepsAre ==
  ASSUME NetTypes
  PROVE  Len(scenario.steps) \in Nat /\ \A n \in 1..Len(scenario.steps) : scenario.steps[n] \in ToSet(scenario.steps)
<1>1. scenario.steps \in Seq(ToSet(scenario.steps)) BY ScenariosAssumption DEF NetTypes
<1> QED BY <1>1

\* What becomes of a run's state when it is updated in the ways the steps do.
LEMMA MovesPc ==
  ASSUME NEW e \in Engines, NEW pc \in Places
  PROVE  LET f == [e EXCEPT !.pc = pc]
         IN  Stays(e, f) /\ Recalls(e, f) /\ f.pc = pc /\ f.then = e.then /\ f.result = e.result
BY DEF Engines, Stays, Recalls

LEMMA ExpiresOnly ==
  ASSUME NEW e \in Engines, NEW expired \in BOOLEAN
  PROVE  LET f == [e EXCEPT !.expired = expired]
         IN  Stays(e, f) /\ Recalls(e, f) /\ f.pc = e.pc /\ f.then = e.then /\ f.result = e.result
BY DEF Engines, Stays, Recalls

LEMMA WaitsOnly ==
  ASSUME NEW e \in Engines, e.late > 0
  PROVE  LET f == [e EXCEPT !.late = @ - 1]
         IN  Stays(e, f) /\ Recalls(e, f) /\ f.pc = e.pc /\ f.then = e.then /\ f.result = e.result
<1>1. e.late - 1 \in Nat BY DEF Engines
<1> QED BY <1>1 DEF Engines, Stays, Recalls

LEMMA FailedMoves ==
  ASSUME NEW e \in Engines, NEW reason \in Results
  PROVE  LET f == Failed(e, reason)
         IN  Stays(e, f) /\ Recalls(e, f) /\ f.pc = "failing" /\ f.then = e.then /\ f.result = reason
<1>1. "failing" \in Places BY PlacesAre
<1> QED BY <1>1 DEF Failed, Engines, Stays, Recalls

LEMMA RetriedMoves ==
  ASSUME NEW e \in Engines, NEW reason \in Results, NEW status
  PROVE  LET f == Retried(e, reason, status)
         IN  /\ Stays(e, f) /\ Recalls(e, f) /\ f.then = e.then
             /\ \/ f.pc = "failing" /\ f.result = reason
                \/ f.pc = "guard" /\ f.result = e.result
<1>1. CASE Retried(e, reason, status) = Failed(e, reason) BY <1>1, FailedMoves
<1>2. CASE Retried(e, reason, status) # Failed(e, reason)
  <2> DEFINE f == [e EXCEPT !.pc = "guard", !.attempt = e.attempt + 1]
  <2>1. Retried(e, reason, status) = f /\ e.attempt < MaxAttempts BY <1>2 DEF Retried
  <2>2. "guard" \in Places BY PlacesAre
  <2>3. e.attempt + 1 \in 1..MaxAttempts BY <2>1, ScenariosAssumption DEF Engines
  <2>4. Stays(e, f) /\ Recalls(e, f) /\ f.then = e.then /\ f.pc = "guard" /\ f.result = e.result
    BY <2>2, <2>3 DEF Engines, Stays, Recalls
  <2> HIDE DEF f
  <2> QED BY <2>1, <2>4
<1> QED BY <1>1, <1>2

\* The checks go on to the next one, or fail.
LEMMA CheckMoves ==
  ASSUME eng \in Engines
  PROVE  /\ Stays(eng, NextCheck) /\ Recalls(eng, NextCheck) /\ NextCheck.pc = "verify"
         /\ NextCheck.then = eng.then /\ NextCheck.result = eng.result
         /\ Stays(eng, FailCheck) /\ Recalls(eng, FailCheck) /\ FailCheck.pc = "lookfail"
         /\ FailCheck.then = eng.then /\ FailCheck.result = eng.result
<1>1. "verify" \in Places /\ "lookfail" \in Places BY PlacesAre
<1>2. /\ Stays(eng, FailCheck) /\ Recalls(eng, FailCheck) /\ FailCheck.pc = "lookfail"
      /\ FailCheck.then = eng.then /\ FailCheck.result = eng.result
  <2>1. LET f == [eng EXCEPT !.pc = "lookfail"]
        IN  Stays(eng, f) /\ Recalls(eng, f) /\ f.pc = "lookfail" /\ f.then = eng.then /\ f.result = eng.result
    BY <1>1, MovesPc
  <2> QED BY <2>1 DEF FailCheck
<1>3. /\ Stays(eng, NextCheck) /\ Recalls(eng, NextCheck) /\ NextCheck.pc = "verify"
      /\ NextCheck.then = eng.then /\ NextCheck.result = eng.result
  <2>1. NextCheck = [eng EXCEPT !.pc = "verify", !.check = eng.check + 1] BY DEF NextCheck
  <2>2. eng.check + 1 \in Nat \ {0} BY DEF Engines
  <2> QED BY <1>1, <2>1, <2>2 DEF Engines, Stays, Recalls
<1> QED BY <1>2, <1>3

\* Where each step of the run leads.
LEMMA ReadPageMoves ==
  ASSUME eng \in Engines, page \in Pages, ReadPage
  PROVE  /\ Stays(eng, eng') /\ eng'.then = eng.then
         /\ eng'.read = eng.read /\ eng'.looked = eng.looked /\ eng'.refused = eng.refused
         /\ eng.pc \in {"epoch", "again"}
         /\ \/ eng'.pc = "observe" /\ eng'.seen = Epoch /\ eng'.result = eng.result
            \/ eng'.seen = eng.seen /\
                 \/ eng.pc = "epoch" /\ eng'.pc = "again" /\ eng'.result = eng.result
                 \/ eng.then = "export" /\ eng'.pc = "release" /\ eng'.result = eng.result
                 \/ eng.then # "export" /\ eng'.pc = "failing" /\ eng'.result = "page_unreadable"
<1>1. {"observe", "again", "release", "failing"} \subseteq Places BY PlacesAre
<1>2. Epoch \in Nat \X Nat BY DEF Epoch, Pages
<1>3. eng.pc \in {"epoch", "again"} BY DEF ReadPage
<1>4. ASSUME NEW late \in Nat, eng' = [eng EXCEPT !.pc = "observe", !.seen = Epoch, !.late = late]
      PROVE  /\ Stays(eng, eng') /\ eng'.then = eng.then
             /\ eng'.read = eng.read /\ eng'.looked = eng.looked /\ eng'.refused = eng.refused
             /\ eng'.pc = "observe" /\ eng'.seen = Epoch /\ eng'.result = eng.result
  <2> HIDE DEF Epoch
  <2> QED BY <1>1, <1>2, <1>4 DEF Engines, Stays
<1>5. CASE eng' = [eng EXCEPT !.pc = "observe", !.seen = Epoch,
                              !.late = IF eng.pc = "again" /\ ~Loaded THEN @ - 1 ELSE @]
           /\ (eng.pc = "again" => Loaded \/ Late)
  <2> DEFINE late == IF eng.pc = "again" /\ ~Loaded THEN eng.late - 1 ELSE eng.late
  <2>1. late \in Nat BY <1>5 DEF Engines, Late
  <2>2. eng' = [eng EXCEPT !.pc = "observe", !.seen = Epoch, !.late = late] BY <1>5
  <2> HIDE DEF late
  <2> QED BY <1>3, <1>4, <2>1, <2>2
<1>6. CASE eng' = IF eng.pc = "epoch" THEN [eng EXCEPT !.pc = "again"]
                  ELSE IF eng.then = "export" THEN [eng EXCEPT !.pc = "release"]
                  ELSE [eng EXCEPT !.pc = "failing", !.result = "page_unreadable"]
  <2>1. CASE eng.pc = "epoch"
    <3>1. eng' = [eng EXCEPT !.pc = "again"] BY <1>6, <2>1
    <3> QED BY <1>1, <1>3, <2>1, <3>1, MovesPc DEF Recalls
  <2>2. CASE eng.pc # "epoch" /\ eng.then = "export"
    <3>1. eng' = [eng EXCEPT !.pc = "release"] BY <1>6, <2>2
    <3> QED BY <1>1, <1>3, <2>2, <3>1, MovesPc DEF Recalls
  <2>3. CASE eng.pc # "epoch" /\ eng.then # "export"
    <3>1. eng' = Failed(eng, "page_unreadable") BY <1>6, <2>3 DEF Failed
    <3>2. "page_unreadable" \in Results BY DEF Results
    <3> QED BY <1>3, <2>3, <3>1, <3>2, FailedMoves DEF Recalls
  <2> QED BY <2>1, <2>2, <2>3
<1> QED BY <1>5, <1>6 DEF ReadPage

\* Steps that only go on to the next place.
LEMMA PlainMoves ==
  ASSUME EngTypes,
         Observe \/ PauseForSecret \/ Shoot \/ Export \/ Pass \/ Fail \/ UrlMatches \/ Scan \/ Listen
           \/ NextDownload \/ Field
  PROVE  /\ Stays(eng, eng') /\ Recalls(eng, eng') /\ eng'.result = eng.result /\ eng'.then = eng.then
         /\ \/ Observe /\ eng.pc = "observe" /\ eng'.pc = eng.then
            \/ PauseForSecret /\ eng.pc = "pause" /\ eng'.pc = "type"
            \/ Shoot /\ eng.pc = "shoot" /\ eng'.pc = IF eng.result = "none" THEN "release" ELSE "snapshot"
            \/ Export /\ eng.pc = "export" /\ eng'.pc = "release"
            \/ Pass /\ eng.pc = "passed" /\ eng'.pc = "shoot"
            \/ Fail /\ eng.pc = "failing" /\ eng'.pc = "shoot"
            \/ /\ UrlMatches \/ Scan \/ Listen \/ NextDownload \/ Field
               /\ eng.pc \in Verifying /\ eng'.pc \in {"verify", "lookfail", "listening", "response"}
               /\ eng'.pc = "listening" => Scan /\ Matching = {}
<1>1. eng \in Engines BY DEF EngTypes
<1>2. {"type", "shoot", "release", "snapshot", "export", "response", "listening"} \subseteq Places BY PlacesAre
<1>3. ASSUME NEW pc \in Places, To(pc)
      PROVE  /\ Stays(eng, eng') /\ Recalls(eng, eng') /\ eng'.result = eng.result /\ eng'.then = eng.then
             /\ eng'.pc = pc
  BY <1>1, <1>3, MovesPc DEF To
<1>4. CASE Observe
  <2>1. eng.pc = "observe" /\ To(eng.then) BY <1>4 DEF Observe
  <2>2. eng.then \in Purposes \ {"none"} BY <1>1, <2>1 DEF EngTypes, Engines, Reading
  <2>3. eng.then \in Places BY <2>2, PlacesAre DEF Purposes
  <2> QED BY <1>3, <1>4, <2>1, <2>3
<1>5. CASE PauseForSecret
  <2>1. eng.pc = "pause" /\ To("type") BY <1>5 DEF PauseForSecret
  <2> QED BY <1>2, <1>3, <1>5, <2>1
<1>6. CASE Shoot
  <2> DEFINE pc == IF eng.result = "none" THEN "release" ELSE "snapshot"
  <2>1. eng.pc = "shoot" /\ To(pc) BY <1>6 DEF Shoot
  <2>2. pc \in Places BY <1>2
  <2> QED BY <1>3, <1>6, <2>1, <2>2
<1>7. CASE Export
  <2>1. eng.pc = "export" /\ To("release") BY <1>7 DEF Export
  <2> QED BY <1>2, <1>3, <1>7, <2>1
<1>8. CASE Pass
  <2>1. eng.pc = "passed" /\ To("shoot") BY <1>8 DEF Pass
  <2> QED BY <1>2, <1>3, <1>8, <2>1
<1>9. CASE Fail
  <2>1. eng.pc = "failing" /\ To("shoot") BY <1>9 DEF Fail
  <2> QED BY <1>2, <1>3, <1>9, <2>1
<1>10. ASSUME eng' = NextCheck \/ eng' = FailCheck
       PROVE  /\ Stays(eng, eng') /\ Recalls(eng, eng') /\ eng'.result = eng.result /\ eng'.then = eng.then
              /\ eng'.pc \in {"verify", "lookfail"}
  BY <1>1, <1>10, CheckMoves
<1>11. CASE UrlMatches
  <2>1. eng.pc = "url" /\ (eng' = NextCheck \/ eng' = FailCheck) BY <1>11 DEF UrlMatches
  <2> QED BY <1>10, <1>11, <2>1 DEF Verifying
<1>12. CASE Scan
  <2>1. eng.pc = "response" /\ (eng' = NextCheck \/ (Matching = {} /\ To("listening"))) BY <1>12 DEF Scan
  <2>2. CASE eng' = NextCheck BY <1>10, <1>12, <2>1, <2>2 DEF Verifying
  <2>3. CASE Matching = {} /\ To("listening") BY <1>2, <1>3, <1>12, <2>1, <2>3 DEF Verifying
  <2> QED BY <2>1, <2>2, <2>3
<1>13. CASE Listen
  <2>1. eng.pc = "listening" /\ (eng' = FailCheck \/ To("response")) BY <1>13 DEF Listen
  <2>2. CASE eng' = FailCheck BY <1>10, <1>13, <2>1, <2>2 DEF Verifying
  <2>3. CASE To("response") BY <1>2, <1>3, <1>13, <2>1, <2>3 DEF Verifying
  <2> QED BY <2>1, <2>2, <2>3
<1>14. CASE NextDownload
  <2>1. eng.pc = "download" /\ (eng' = NextCheck \/ eng' = FailCheck) BY <1>14 DEF NextDownload
  <2> QED BY <1>10, <1>14, <2>1 DEF Verifying
<1>15. CASE Field
  <2>1. eng.pc = "field" /\ (eng' = NextCheck \/ eng' = FailCheck) BY <1>15 DEF Field
  <2> QED BY <1>10, <1>15, <2>1 DEF Verifying
<1> QED BY <1>4, <1>5, <1>6, <1>7, <1>8, <1>9, <1>11, <1>12, <1>13, <1>14, <1>15

\* Steps that go on to read the page, or go on at once.
LEMMA ReadingMoves ==
  ASSUME EngTypes, Settle \/ Snapshot \/ Verify \/ Wake
  PROVE  /\ Stays(eng, eng') /\ Recalls(eng, eng') /\ eng'.result = eng.result
         /\ \/ Settle /\ eng.pc = "settle" /\ eng'.pc = "epoch" /\ eng'.then = "look"
            \/ Snapshot /\ eng.pc = "snapshot" /\
                 \/ eng'.pc = "epoch" /\ eng'.then = "export"
                 \/ tracer.state # "paused" /\ eng'.pc = "export" /\ eng'.then = eng.then
            \/ Verify /\ eng.pc = "verify" /\
                 \/ eng'.pc = "epoch" /\ eng'.then = "text"
                 \/ eng'.then = eng.then
                    /\ eng'.pc \in {"lookpass", "url", "response", "download", "banner", "field"}
            \/ Wake /\ eng.pc = "asleep" /\ eng'.pc = "epoch" /\ eng'.then = "text"
<1>1. eng \in Engines BY DEF EngTypes
<1>2. {"epoch", "export", "lookpass", "url", "response", "download", "banner", "field"} \subseteq Places BY PlacesAre
<1>3. {"look", "export", "text"} \subseteq Purposes BY DEF Purposes
<1>4. ASSUME NEW then \in Purposes, eng' = [eng EXCEPT !.pc = "epoch", !.then = then]
      PROVE  Stays(eng, eng') /\ Recalls(eng, eng') /\ eng'.result = eng.result /\ eng'.pc = "epoch" /\ eng'.then = then
  BY <1>1, <1>2, <1>4 DEF Engines, Stays, Recalls
<1>5. CASE Settle
  <2>1. CASE eng' = [eng EXCEPT !.pc = "epoch", !.then = "look"]
    BY <1>3, <1>4, <1>5, <2>1 DEF Settle
  <2>2. CASE Late /\ eng' = [eng EXCEPT !.pc = "epoch", !.then = "look", !.late = @ - 1]
    <3>1. eng.late - 1 \in Nat BY <1>1, <2>2 DEF Engines, Late
    <3>2. Stays(eng, eng') /\ Recalls(eng, eng') /\ eng'.result = eng.result /\ eng'.pc = "epoch" /\ eng'.then = "look"
      BY <1>1, <1>2, <1>3, <2>2, <3>1 DEF Engines, Stays, Recalls
    <3> QED BY <1>5, <3>2 DEF Settle
  <2> QED BY <1>5, <2>1, <2>2 DEF Settle
<1>6. CASE Snapshot
  <2>1. CASE tracer.state = "paused"
    <3>1. eng' = [eng EXCEPT !.pc = "epoch", !.then = "export"] BY <1>6, <2>1 DEF Snapshot, Resuming
    <3> QED BY <1>3, <1>4, <1>6, <3>1 DEF Snapshot
  <2>2. CASE tracer.state # "paused"
    <3>1. eng' = [eng EXCEPT !.pc = "export"] BY <1>6, <2>2 DEF Snapshot, Resuming
    <3> QED BY <1>1, <1>2, <1>6, <2>2, <3>1, MovesPc DEF Snapshot
  <2> QED BY <2>1, <2>2
<1>7. CASE Verify
  <2> DEFINE e == [eng EXCEPT !.expired = FALSE]
  <2>1. Stays(eng, e) /\ Recalls(eng, e) /\ e.pc = eng.pc /\ e.then = eng.then /\ e.result = eng.result
    BY <1>1, ExpiresOnly
  <2>2. ASSUME NEW pc \in {"lookpass", "url", "response", "download", "banner", "field"}, eng' = [e EXCEPT !.pc = pc]
        PROVE  Stays(eng, eng') /\ Recalls(eng, eng') /\ eng'.result = eng.result /\ eng'.pc = pc /\ eng'.then = eng.then
    <3>1. pc \in Places BY <1>2
    <3>2. e \in Engines BY <2>1 DEF Stays
    <3> HIDE DEF e
    <3> QED BY <2>1, <2>2, <3>1, <3>2, MovesPc DEF Stays, Recalls
  <2>3. CASE eng' = [e EXCEPT !.pc = "epoch", !.then = "text"]
    <3>1. e \in Engines BY <2>1 DEF Stays
    <3> HIDE DEF e
    <3>2. Stays(e, eng') /\ Recalls(e, eng') /\ eng'.result = e.result /\ eng'.pc = "epoch" /\ eng'.then = "text"
      BY <1>2, <1>3, <2>3, <3>1 DEF Engines, Stays, Recalls
    <3>3. Stays(eng, eng') /\ Recalls(eng, eng') /\ eng'.result = eng.result BY <2>1, <3>2 DEF Stays, Recalls
    <3> QED BY <1>7, <3>2, <3>3 DEF Verify
  <2>4. eng.pc = "verify" BY <1>7 DEF Verify
  <2>5. \/ eng' = [e EXCEPT !.pc = "epoch", !.then = "text"]
        \/ \E pc \in {"lookpass", "url", "response", "download", "banner", "field"} : eng' = [e EXCEPT !.pc = pc]
    BY <1>7 DEF Verify
  <2> HIDE DEF e
  <2> QED BY <1>7, <2>2, <2>3, <2>4, <2>5
<1>8. CASE Wake
  BY <1>3, <1>4, <1>8 DEF Wake
<1> QED BY <1>5, <1>6, <1>7, <1>8

\* Steps of a navigation that stay with it.
LEMMA NavigatingMoves ==
  ASSUME NetTypes, EngTypes, Guard \/ Status \/ Goes
  PROVE  /\ Stays(eng, eng') /\ eng'.seen = eng.seen /\ eng'.read = eng.read /\ eng'.looked = eng.looked
         /\ \/ Guard /\ eng.pc = "guard" /\ eng'.refused = eng.refused /\ eng'.then = eng.then /\
                 \/ eng'.pc = "failing" /\ eng'.result # "none"
                 \/ eng'.pc \in {"guard", "goto"} /\ eng'.result = eng.result
            \/ Status /\ eng.pc = "status" /\ eng'.refused = eng.refused /\ eng'.then = eng.then /\
                 \/ eng'.pc = "failing" /\ eng'.result # "none"
                 \/ eng'.pc \in {"guard", "settle"} /\ eng'.result = eng.result
            \/ /\ Goes /\ eng.pc = "loading" /\ eng'.refused = eng.refused /\ eng'.result = eng.result
               /\ log' = log
               /\ \/ eng'.pc = "status" /\ eng'.then = eng.then
                  \/ eng'.pc = "epoch" /\ eng'.then = "status"
            \/ /\ Goes /\ eng.pc = "loading" /\ eng'.refused \in {eng.refused, reqs[eng.load].refused}
               /\ eng'.then = eng.then /\ log' = Taken
               /\ log.blocks # <<>> => eng'.pc = "failing" /\ eng'.result = "egress_blocked"
               /\ \/ eng'.pc = "guard" /\ eng'.result = eng.result
                  \/ eng'.pc = "failing" /\
                       \/ eng'.result # "none"
                       \/ reqs[eng.load].stage = "failed" /\ reqs[eng.load].code = "none"
<1>1. eng \in Engines BY DEF EngTypes
<1>2. {"goto", "settle", "status", "epoch"} \subseteq Places /\ "status" \in Purposes BY PlacesAre DEF Purposes
<1>3. {"egress_blocked", "name_not_resolved", "http_status", "interrupted", "timeout"} \subseteq Results \ {"none"}
  BY DEF Results, Reasons, Codes, Passed
<1>4. CASE Guard
  <2>1. eng.pc = "guard" BY <1>4 DEF Guard
  <2>2. \/ eng' = Failed(eng, "egress_blocked") \/ eng' = Retried(eng, "name_not_resolved", 0)
        \/ eng' = [eng EXCEPT !.pc = "goto"]
    BY <1>4 DEF Guard, Failing
  <2>3. CASE eng' = Failed(eng, "egress_blocked")
    BY <1>1, <1>3, <1>4, <2>1, <2>3, FailedMoves DEF Recalls
  <2>4. CASE eng' = Retried(eng, "name_not_resolved", 0)
    <3>1. /\ Stays(eng, eng') /\ Recalls(eng, eng') /\ eng'.then = eng.then
          /\ \/ eng'.pc = "failing" /\ eng'.result = "name_not_resolved"
             \/ eng'.pc = "guard" /\ eng'.result = eng.result
      BY <1>1, <1>3, <2>4, RetriedMoves
    <3> QED BY <1>3, <1>4, <2>1, <3>1 DEF Recalls
  <2>5. CASE eng' = [eng EXCEPT !.pc = "goto"]
    BY <1>1, <1>2, <1>4, <2>1, <2>5, MovesPc DEF Recalls
  <2> QED BY <2>2, <2>3, <2>4, <2>5
<1>5. CASE Status
  <2> DEFINE status == reqs[eng.load].status
  <2>1. eng.pc = "status" BY <1>5 DEF Status
  <2>2. eng' = Retried(eng, "http_status", status) \/ eng' = [eng EXCEPT !.pc = "settle"]
    BY <1>5 DEF Status
  <2>3. CASE eng' = Retried(eng, "http_status", status)
    <3>1. /\ Stays(eng, eng') /\ Recalls(eng, eng') /\ eng'.then = eng.then
          /\ \/ eng'.pc = "failing" /\ eng'.result = "http_status"
             \/ eng'.pc = "guard" /\ eng'.result = eng.result
      BY <1>1, <1>3, <2>3, RetriedMoves
    <3> QED BY <1>3, <1>5, <2>1, <3>1 DEF Recalls
  <2>4. CASE eng' = [eng EXCEPT !.pc = "settle"]
    BY <1>1, <1>2, <1>5, <2>1, <2>4, MovesPc DEF Recalls
  <2> QED BY <2>2, <2>3, <2>4
<1>6. CASE Goes
  <2> DEFINE load == reqs[eng.load]
  <2>1. eng.pc = "loading" BY <1>6 DEF Goes
  <2>2. ASSUME Resuming("status"), UNCHANGED log
        PROVE  /\ Stays(eng, eng') /\ Recalls(eng, eng') /\ eng'.result = eng.result /\ log' = log
               /\ \/ eng'.pc = "status" /\ eng'.then = eng.then
                  \/ eng'.pc = "epoch" /\ eng'.then = "status"
    <3>1. CASE eng' = [eng EXCEPT !.pc = "epoch", !.then = "status"]
      BY <1>1, <1>2, <2>2, <3>1 DEF Engines, Stays, Recalls
    <3>2. CASE eng' = [eng EXCEPT !.pc = "status"]
      BY <1>1, <1>2, <2>2, <3>2, MovesPc
    <3> QED BY <2>2, <3>1, <3>2 DEF Resuming
  <2>3. ASSUME NEW e \in Engines, NEW reason \in Results, GotoFailed(e, reason),
               reason = "none" => load.stage = "failed" /\ load.code = "none",
               Stays(eng, e), e.seen = eng.seen, e.read = eng.read, e.looked = eng.looked,
               e.refused \in {eng.refused, load.refused}, e.then = eng.then, e.result = eng.result
        PROVE  /\ Stays(eng, eng') /\ eng'.seen = eng.seen /\ eng'.read = eng.read /\ eng'.looked = eng.looked
               /\ eng'.refused \in {eng.refused, load.refused}
               /\ eng'.then = eng.then /\ log' = Taken
               /\ log.blocks # <<>> => eng'.pc = "failing" /\ eng'.result = "egress_blocked"
               /\ \/ eng'.pc = "guard" /\ eng'.result = eng.result
                  \/ eng'.pc = "failing" /\
                       \/ eng'.result # "none"
                       \/ load.stage = "failed" /\ load.code = "none"
    <3> DEFINE upstream == FailureSince(e.mark)
               told == IF reason = "socks_failed" /\ upstream # "none" THEN upstream ELSE reason
    <3>1. told \in Results /\ (told = "none" => load.stage = "failed" /\ load.code = "none")
      <4>1. upstream \in Reasons \cup {"none"} BY FailureIsNamed
      <4> HIDE DEF upstream
      <4> QED BY <2>3, <4>1 DEF Results
    <3>2. log' = Taken /\ eng' = IF log.blocks # <<>> THEN Failed(e, "egress_blocked") ELSE Retried(e, told, 0)
      BY <2>3 DEF GotoFailed
    <3> HIDE DEF told, load
    <3>3. CASE log.blocks # <<>>
      <4>1. /\ Stays(e, eng') /\ Recalls(e, eng') /\ eng'.pc = "failing" /\ eng'.then = e.then
            /\ eng'.result = "egress_blocked"
        BY <1>3, <2>3, <3>2, <3>3, FailedMoves
      <4> QED BY <1>3, <2>3, <3>2, <4>1 DEF Stays, Recalls
    <3>4. CASE log.blocks = <<>>
      <4>1. /\ Stays(e, eng') /\ Recalls(e, eng') /\ eng'.then = e.then
            /\ \/ eng'.pc = "failing" /\ eng'.result = told
               \/ eng'.pc = "guard" /\ eng'.result = e.result
        BY <2>3, <3>1, <3>2, <3>4, RetriedMoves
      <4> QED BY <2>3, <3>1, <3>2, <3>4, <4>1 DEF Stays, Recalls
    <3> QED BY <3>3, <3>4
  <2>4. load \in Requests
    <3>1. eng.load \in DOMAIN reqs BY <1>1, <2>1 DEF EngTypes, Engines, NetTypes
    <3> QED BY <3>1, RequestsStay
  <2>5. CASE load.stage = "failed" /\ GotoFailed([eng EXCEPT !.refused = load.refused], load.code)
    <3> DEFINE e == [eng EXCEPT !.refused = load.refused]
    <3>1. load.code \in Results /\ load.refused \in BOOLEAN BY <2>4 DEF Requests, Results
    <3> HIDE DEF load
    <3>2. /\ Stays(eng, e) /\ e.seen = eng.seen /\ e.read = eng.read /\ e.looked = eng.looked
          /\ e.refused = load.refused /\ e.then = eng.then /\ e.result = eng.result
      BY <1>1, <3>1 DEF Engines, Stays
    <3>3. e \in Engines BY <3>2 DEF Stays
    <3>4. GotoFailed(e, load.code) BY <2>5
    <3> HIDE DEF e
    <3> QED BY <1>6, <2>1, <2>3, <2>5, <3>1, <3>2, <3>3, <3>4 DEF load
  <2>6. CASE GotoFailed(eng, "interrupted")
    <3>1. Stays(eng, eng) BY <1>1 DEF Stays
    <3> QED BY <1>1, <1>3, <1>6, <2>1, <2>3, <2>6, <3>1
  <2>7. CASE Late /\ GotoFailed([eng EXCEPT !.late = @ - 1], "timeout")
    <3> DEFINE e == [eng EXCEPT !.late = @ - 1]
    <3>1. Stays(eng, e) /\ Recalls(eng, e) /\ e.then = eng.then /\ e.result = eng.result
      BY <1>1, <2>7, WaitsOnly DEF Late
    <3>2. GotoFailed(e, "timeout") BY <2>7
    <3> HIDE DEF e, load
    <3> QED BY <1>3, <1>6, <2>1, <2>3, <3>1, <3>2 DEF Stays, Recalls, load
  <2>8. CASE Resuming("status") /\ UNCHANGED log
    BY <1>6, <2>1, <2>2, <2>8 DEF Recalls
  <2> QED BY <1>6, <2>5, <2>6, <2>7, <2>8 DEF Goes
<1> QED BY <1>4, <1>5, <1>6

\* Steps that begin or end something the run remembers.
LEMMA PreflightMoves ==
  ASSUME NetTypes, EngTypes, Preflight
  PROVE  /\ eng' \in Engines /\ eng'.load = eng.load /\ eng'.pinned = eng.pinned /\ eng'.typedAt = eng.typedAt
         /\ Recalls(eng, eng') /\ eng'.then = eng.then /\ eng.pc = "preflight"
         /\ \/ eng'.pc = "start" /\ eng'.step = 1 /\ eng'.result = eng.result
            \/ eng'.pc = "preflight" /\ eng.step <= Len(scenario.steps) /\ eng'.step = eng.step + 1
               /\ eng'.result = eng.result
            \/ eng'.pc = "ended" /\ eng'.step = eng.step /\ eng'.result = "egress_blocked"
<1>1. eng \in Engines /\ eng.pc = "preflight" BY DEF EngTypes, Preflight
<1>2. {"start", "ended"} \subseteq Places /\ "egress_blocked" \in Results BY PlacesAre DEF Results
<1>3. \/ eng' = [eng EXCEPT !.pc = "start", !.step = 1]
      \/ ~(eng.step > Len(scenario.steps)) /\ eng' = [eng EXCEPT !.step = @ + 1]
      \/ eng' = [eng EXCEPT !.pc = "ended", !.result = "egress_blocked"]
  BY DEF Preflight
<1>4. eng.step + 1 \in Nat \ {0} /\ 1 \in Nat \ {0} /\ eng.step <= Len(scenario.steps) + 1
  BY <1>1 DEF Engines, EngTypes
<1>5. CASE eng' = [eng EXCEPT !.pc = "start", !.step = 1]
  BY <1>1, <1>2, <1>4, <1>5 DEF Engines, Recalls
<1>6. CASE ~(eng.step > Len(scenario.steps)) /\ eng' = [eng EXCEPT !.step = @ + 1]
  <2>1. eng' \in Engines /\ eng'.load = eng.load /\ eng'.pinned = eng.pinned /\ eng'.typedAt = eng.typedAt
        /\ Recalls(eng, eng') /\ eng'.then = eng.then /\ eng'.pc = eng.pc /\ eng'.step = eng.step + 1
        /\ eng'.result = eng.result
    BY <1>1, <1>4, <1>6 DEF Engines, Recalls
  <2>2. eng.step \in Nat BY <1>1 DEF Engines
  <2>3. Len(scenario.steps) \in Nat BY StepsAre
  <2>4. eng.step <= Len(scenario.steps) BY <1>6, <2>2, <2>3
  <2> QED BY <1>1, <2>1, <2>4
<1>7. CASE eng' = [eng EXCEPT !.pc = "ended", !.result = "egress_blocked"]
  BY <1>1, <1>2, <1>7 DEF Engines, Recalls
<1> QED BY <1>3, <1>5, <1>6, <1>7

LEMMA BeginMoves ==
  ASSUME NetTypes, EngTypes, page \in Pages, Begin
  PROVE  /\ eng' \in Engines /\ eng'.step = eng.step /\ eng'.load = eng.load /\ eng'.result = eng.result
         /\ eng'.seen = eng.seen /\ eng'.read = eng.read /\ eng'.looked = eng.looked /\ eng.pc = "step"
         /\ \/ /\ eng'.pc = "detach" /\ eng'.pinned = eng.pinned /\ eng'.typedAt = eng.typedAt
               /\ eng'.refused = eng.refused /\ watch' = watch
            \/ /\ eng.step <= Len(scenario.steps) /\ eng'.pinned = page.doc /\ eng'.refused = FALSE
               /\ watch' = [watch EXCEPT !.on = WatchKinds(Step.checks), !.responses = <<>>,
                                         !.arrived = FALSE, !.downloads = <<>>]
               /\ \/ eng'.pc = "guard" /\ Step.act = "navigate" /\ eng'.typedAt = eng.typedAt
                  \/ eng'.pc = "epoch" /\ eng'.then = "pause" /\ eng'.typedAt = eng.step
                  \/ eng'.pc = "epoch" /\ eng'.then = "act" /\ eng'.typedAt = eng.typedAt
                  \/ eng'.pc = "act" /\ eng'.typedAt = eng.typedAt
<1>1. eng \in Engines /\ eng.pc = "step" BY DEF EngTypes, Begin
<1>2. {"detach", "guard", "epoch", "act"} \subseteq Places /\ {"pause", "act"} \subseteq Purposes
  BY PlacesAre DEF Purposes
<1>3. CASE eng.step > Len(scenario.steps)
  <2>1. eng' = [eng EXCEPT !.pc = "detach"] /\ watch' = watch BY <1>3 DEF Begin, To
  <2> QED BY <1>1, <1>2, <2>1, MovesPc DEF Stays, Recalls
<1>4. CASE ~(eng.step > Len(scenario.steps))
  <2> DEFINE e == [eng EXCEPT !.attempt = 1, !.check = 1, !.refused = FALSE, !.pinned = page.doc]
  <2>1. eng.step \in Nat \ {0} /\ Len(scenario.steps) \in Nat BY <1>1, StepsAre DEF Engines
  <2>2. eng.step <= Len(scenario.steps) BY <1>4, <2>1
  <2>3. watch' = [watch EXCEPT !.on = WatchKinds(Step.checks), !.responses = <<>>,
                               !.arrived = FALSE, !.downloads = <<>>]
    BY <1>4 DEF Begin
  <2>4. 1 \in 1..MaxAttempts /\ 1 \in Nat \ {0} /\ page.doc \in Nat BY ScenariosAssumption DEF Pages
  <2>5. /\ e \in Engines /\ e.step = eng.step /\ e.load = eng.load /\ e.result = eng.result
        /\ e.seen = eng.seen /\ e.read = eng.read /\ e.looked = eng.looked
        /\ e.pinned = page.doc /\ e.refused = FALSE /\ e.typedAt = eng.typedAt
    BY <1>1, <2>4 DEF Engines
  <2>6. \/ Step.act = "navigate" /\ eng' = [e EXCEPT !.pc = "guard"]
        \/ eng' = [e EXCEPT !.pc = "epoch", !.then = "pause", !.typedAt = eng.step]
        \/ eng' = [e EXCEPT !.pc = "epoch", !.then = "act"]
        \/ eng' = [e EXCEPT !.pc = "act"]
    BY <1>4 DEF Begin
  <2> HIDE DEF e
  <2>7. CASE Step.act = "navigate" /\ eng' = [e EXCEPT !.pc = "guard"]
    BY <1>1, <1>2, <2>2, <2>3, <2>5, <2>7, MovesPc DEF Stays, Recalls
  <2>8. CASE eng' = [e EXCEPT !.pc = "epoch", !.then = "pause", !.typedAt = eng.step]
    <3>1. /\ eng' \in Engines /\ eng'.step = e.step /\ eng'.load = e.load /\ eng'.result = e.result
          /\ eng'.seen = e.seen /\ eng'.read = e.read /\ eng'.looked = e.looked
          /\ eng'.pinned = e.pinned /\ eng'.refused = e.refused /\ eng'.typedAt = eng.step
          /\ eng'.pc = "epoch" /\ eng'.then = "pause"
      BY <1>2, <2>1, <2>5, <2>8 DEF Engines
    <3> QED BY <1>1, <2>2, <2>3, <2>5, <3>1
  <2>9. CASE eng' = [e EXCEPT !.pc = "epoch", !.then = "act"]
    <3>1. /\ eng' \in Engines /\ eng'.step = e.step /\ eng'.load = e.load /\ eng'.result = e.result
          /\ eng'.seen = e.seen /\ eng'.read = e.read /\ eng'.looked = e.looked
          /\ eng'.pinned = e.pinned /\ eng'.refused = e.refused /\ eng'.typedAt = e.typedAt
          /\ eng'.pc = "epoch" /\ eng'.then = "act"
      BY <1>2, <2>5, <2>9 DEF Engines
    <3> QED BY <1>1, <2>2, <2>3, <2>5, <3>1
  <2>10. CASE eng' = [e EXCEPT !.pc = "act"]
    BY <1>1, <1>2, <2>2, <2>3, <2>5, <2>10, MovesPc DEF Stays, Recalls
  <2> QED BY <2>6, <2>7, <2>8, <2>9, <2>10
<1> QED BY <1>3, <1>4

LEMMA GotoMoves ==
  ASSUME NetTypes, EngTypes, Goto
  PROVE  /\ eng' \in Engines /\ eng'.step = eng.step /\ eng'.pinned = eng.pinned /\ eng'.typedAt = eng.typedAt
         /\ Recalls(eng, eng') /\ eng'.result = eng.result
         /\ eng.pc = "goto" /\ eng'.pc = "loading" /\ eng'.load = Len(reqs) + 1
<1>1. eng \in Engines /\ eng.pc = "goto" BY DEF EngTypes, Goto
<1>2. "loading" \in Places BY PlacesAre
<1>3. log.seq \in Nat /\ Len(reqs) + 1 \in Nat BY DEF NetTypes, Logs
<1>4. eng' = [eng EXCEPT !.pc = "loading", !.mark = log.seq, !.load = Len(reqs) + 1] BY DEF Goto
<1> QED BY <1>1, <1>2, <1>3, <1>4 DEF Engines, Recalls

LEMMA ActMoves ==
  ASSUME EngTypes, Act
  PROVE  /\ Stays(eng, eng') /\ Recalls(eng, eng') /\ eng.pc \in {"act", "type"}
         /\ \/ eng'.pc = "settle" /\ eng'.result = eng.result
            \/ eng'.pc = "failing" /\ eng'.result # "none"
<1>1. eng \in Engines /\ eng.pc \in {"act", "type"} BY DEF EngTypes, Act
<1>2. {"detached_before_action", "timeout"} \subseteq Results \ {"none"}
  BY DEF Results, Reasons, Codes, Passed
<1>3. CASE eng' = [eng EXCEPT !.pc = "settle"]
  BY <1>1, <1>3, MovesPc, PlacesAre
<1>4. CASE eng' = Failing("detached_before_action")
  <2>1. eng' = Failed(eng, "detached_before_action") BY <1>4 DEF Failing
  <2> QED BY <1>1, <1>2, <2>1, FailedMoves
<1>5. CASE Late /\ eng' = Failed([eng EXCEPT !.late = @ - 1], "timeout")
  <2> DEFINE e == [eng EXCEPT !.late = @ - 1]
  <2>1. Stays(eng, e) /\ Recalls(eng, e) BY <1>1, <1>5, WaitsOnly DEF Late
  <2>2. e \in Engines /\ eng' = Failed(e, "timeout") BY <1>5, <2>1 DEF Stays
  <2> HIDE DEF e
  <2>3. Stays(e, eng') /\ Recalls(e, eng') /\ eng'.pc = "failing" /\ eng'.result = "timeout"
    BY <1>2, <2>2, FailedMoves
  <2> QED BY <1>1, <2>1, <2>3 DEF Stays, Recalls
<1> QED BY <1>3, <1>4, <1>5 DEF Act

LEMMA LookMoves ==
  ASSUME NetTypes, EngTypes, Look
  PROVE  /\ Stays(eng, eng') /\ eng'.seen = eng.seen /\ eng'.read = eng.read /\ eng'.refused = eng.refused
         /\ eng.pc \in Looks
         /\ \/ /\ eng'.pc = "failing" /\ eng'.result = "new_page_opened" /\ eng'.looked = eng.looked
               /\ log' = log /\ watch' = [watch EXCEPT !.opened = 0]
            \/ /\ log' = Taken /\ watch' = watch /\ eng'.looked = log.seq
               /\ \/ eng'.pc = "failing" /\ eng'.result # "none"
                  \/ log.blocks = <<>> /\ eng'.pc \in {"verify", "passed"} /\ eng'.result = eng.result
<1>1. eng \in Engines /\ eng.pc \in Looks BY DEF EngTypes, Look
<1>2. {"new_page_opened", "egress_blocked", "checkpoint_failed"} \subseteq Results \ {"none"}
  BY DEF Results, Reasons, Codes, Passed
<1>3. {"verify", "passed"} \subseteq Places BY PlacesAre
<1>4. CASE watch.opened > 0
  <2>1. eng' = Failed(eng, "new_page_opened") /\ log' = log /\ watch' = [watch EXCEPT !.opened = 0]
    BY <1>4 DEF Look, Failing
  <2> QED BY <1>1, <1>2, <2>1, FailedMoves DEF Recalls
<1>5. CASE ~(watch.opened > 0)
  <2> DEFINE e == [eng EXCEPT !.looked = log.seq]
  <2>1. log.seq \in Nat BY DEF NetTypes, Logs
  <2>2. /\ Stays(eng, e) /\ e.seen = eng.seen /\ e.read = eng.read /\ e.refused = eng.refused
        /\ e.looked = log.seq /\ e.result = eng.result
    BY <1>1, <2>1 DEF Engines, Stays
  <2>3. /\ log' = Taken /\ watch' = watch
        /\ \/ eng' = Failed(e, "egress_blocked") \/ eng' = Failed(e, "checkpoint_failed")
           \/ log.blocks = <<>> /\ \E pc \in {"verify", "passed"} : eng' = [e EXCEPT !.pc = pc]
    <3>1. /\ log' = Taken /\ watch' = watch
          /\ eng' = IF log.blocks # <<>> THEN Failed(e, "egress_blocked")
                    ELSE CASE eng.pc = "look" -> [e EXCEPT !.pc = "verify"]
                           [] eng.pc = "lookfail" -> Failed(e, "checkpoint_failed")
                           [] eng.pc = "lookpass" -> [e EXCEPT !.pc = "passed"]
      BY <1>5 DEF Look
    <3> HIDE DEF e
    <3> QED BY <1>1, <3>1 DEF Looks
  <2>4. e \in Engines BY <2>2 DEF Stays
  <2> HIDE DEF e
  <2>5. ASSUME NEW reason \in Results \ {"none"}, eng' = Failed(e, reason)
        PROVE  /\ Stays(eng, eng') /\ eng'.seen = eng.seen /\ eng'.read = eng.read
               /\ eng'.refused = eng.refused /\ eng'.looked = log.seq
               /\ eng'.pc = "failing" /\ eng'.result # "none"
    BY <2>2, <2>4, <2>5, FailedMoves DEF Stays, Recalls
  <2>6. ASSUME NEW pc \in {"verify", "passed"}, eng' = [e EXCEPT !.pc = pc]
        PROVE  /\ Stays(eng, eng') /\ eng'.seen = eng.seen /\ eng'.read = eng.read
               /\ eng'.refused = eng.refused /\ eng'.looked = log.seq
               /\ eng'.pc = pc /\ eng'.result = eng.result
    <3>1. pc \in Places BY <1>3
    <3> QED BY <2>2, <2>4, <2>6, <3>1, MovesPc DEF Stays, Recalls
  <2>7. CASE eng' = Failed(e, "egress_blocked") \/ eng' = Failed(e, "checkpoint_failed")
    BY <1>1, <1>2, <2>3, <2>5, <2>7
  <2>8. CASE log.blocks = <<>> /\ \E pc \in {"verify", "passed"} : eng' = [e EXCEPT !.pc = pc]
    BY <1>1, <2>3, <2>6, <2>8
  <2> QED BY <2>3, <2>7, <2>8
<1> QED BY <1>4, <1>5

LEMMA LookedAtMoves ==
  ASSUME EngTypes, page \in Pages, Text \/ Banner
  PROVE  /\ Stays(eng, eng') /\ eng'.seen = eng.seen /\ eng'.looked = eng.looked /\ eng'.refused = eng.refused
         /\ eng.pc \in {"text", "banner"}
         /\ \/ eng'.pc \in {"verify", "lookfail"} /\ eng'.result = eng.result /\ eng'.read = eng.read
            \/ /\ eng'.pc = "asleep" /\ eng'.result = eng.result /\ eng'.read = Epoch
               /\ ~page.shown \/ page.doc # eng.seen[1]
            \/ eng'.pc = "failing" /\ eng'.result # "none" /\ eng'.read = eng.read
<1>1. eng \in Engines /\ eng.pc \in {"text", "banner"} BY DEF EngTypes, Text, Banner
<1>2. "page_unreadable" \in Results \ {"none"} BY DEF Results, Reasons, Codes, Passed
<1>3. CASE eng' = NextCheck \/ eng' = FailCheck
  BY <1>1, <1>3, CheckMoves DEF Recalls
<1>4. CASE eng' = Failing("page_unreadable")
  <2>1. eng' = Failed(eng, "page_unreadable") BY <1>4 DEF Failing
  <2> QED BY <1>1, <1>2, <2>1, FailedMoves DEF Recalls
<1>5. ASSUME eng' = [eng EXCEPT !.pc = "asleep", !.read = Epoch], ~page.shown \/ page.doc # eng.seen[1]
      PROVE  /\ Stays(eng, eng') /\ eng'.seen = eng.seen /\ eng'.looked = eng.looked
             /\ eng'.refused = eng.refused
             /\ eng'.pc = "asleep" /\ eng'.result = eng.result /\ eng'.read = Epoch
  <2>1. Epoch \in Nat \X Nat BY DEF Epoch, Pages
  <2>2. "asleep" \in Places BY PlacesAre
  <2> HIDE DEF Epoch
  <2> QED BY <1>1, <1>5, <2>1, <2>2 DEF Engines, Stays
<1>6. \/ eng' = NextCheck \/ eng' = FailCheck \/ eng' = Failing("page_unreadable")
      \/ /\ eng' = [eng EXCEPT !.pc = "asleep", !.read = Epoch]
         /\ ~page.shown \/ page.doc # eng.seen[1]
  BY DEF Text, Banner, NotShown
<1> QED BY <1>1, <1>3, <1>4, <1>5, <1>6

LEMMA ExpireMoves ==
  ASSUME EngTypes, Expire
  PROVE  /\ Stays(eng, eng') /\ Recalls(eng, eng')
         /\ eng'.pc = eng.pc /\ eng'.then = eng.then /\ eng'.result = eng.result
         /\ eng.pc \in Waits \cup Reading
<1>1. eng \in Engines /\ eng' = [eng EXCEPT !.expired = TRUE] BY DEF EngTypes, Expire
<1>2. eng.pc \in Waits \cup Reading BY DEF Expire, Rereads, Reading
<1> QED BY <1>1, <1>2, ExpiresOnly

LEMMA ReleaseMoves ==
  ASSUME EngTypes, Release
  PROVE  /\ eng' \in Engines /\ eng'.load = eng.load /\ eng'.typedAt = eng.typedAt /\ eng'.pinned = 0
         /\ Recalls(eng, eng') /\ eng'.result = eng.result /\ eng.pc = "release"
         /\ \/ eng.result = "none" /\ eng'.pc = "step" /\ eng'.step = eng.step + 1
            \/ eng.result # "none" /\ eng'.pc = "detach" /\ eng'.step = eng.step
<1>1. eng \in Engines /\ eng.pc = "release" BY DEF EngTypes, Release
<1>2. {"step", "detach"} \subseteq Places BY PlacesAre
<1>3. CASE eng.result = "none"
  <2>1. eng' = [eng EXCEPT !.pc = "step", !.step = eng.step + 1, !.pinned = 0] BY <1>3 DEF Release
  <2>2. eng.step + 1 \in Nat \ {0} BY <1>1 DEF Engines
  <2> QED BY <1>1, <1>2, <1>3, <2>1, <2>2 DEF Engines, Recalls
<1>4. CASE eng.result # "none"
  <2>1. eng' = [eng EXCEPT !.pc = "detach", !.pinned = 0] BY <1>4 DEF Release
  <2> QED BY <1>1, <1>2, <1>4, <2>1 DEF Engines, Recalls
<1> QED BY <1>3, <1>4

\* What the run is called on its way in and out.
Coming == StartDriver \/ Launch \/ MakeWorkdir \/ OpenGateway \/ OpenContext \/ StartTrace \/ Attach
Going ==
  \/ Detach \/ StopTrace \/ CloseContext \/ FailToClose \/ CloseGateway
  \/ RemoveWorkdir \/ FailToRemove \/ CloseBrowser \/ FailToCloseBrowser \/ StopDriver

LEMMA ComingGoingMoves ==
  ASSUME EngTypes, Coming \/ Going
  PROVE  /\ Stays(eng, eng') /\ Recalls(eng, eng') /\ eng'.result = eng.result
         /\ \/ eng.pc \in Starting /\ eng'.pc \in (Starting \ {"preflight"}) \cup {"step"}
            \/ eng.pc \in Leaving /\ eng'.pc \in Leaving
<1>1. eng \in Engines BY DEF EngTypes
<1>2. ASSUME NEW pc, To(pc), eng.pc \in Starting, pc \in (Starting \ {"preflight"}) \cup {"step"}
      PROVE  /\ Stays(eng, eng') /\ Recalls(eng, eng') /\ eng'.result = eng.result
             /\ eng.pc \in Starting /\ eng'.pc \in (Starting \ {"preflight"}) \cup {"step"}
  <2>1. pc \in Places BY <1>2 DEF Places
  <2> QED BY <1>1, <1>2, <2>1, MovesPc DEF To
<1>3. ASSUME NEW pc, To(pc), eng.pc \in Leaving, pc \in Leaving
      PROVE  /\ Stays(eng, eng') /\ Recalls(eng, eng') /\ eng'.result = eng.result
             /\ eng.pc \in Leaving /\ eng'.pc \in Leaving
  <2>1. pc \in Places BY <1>3 DEF Places
  <2> QED BY <1>1, <1>3, <2>1, MovesPc DEF To
<1>4. CASE Coming
  <2>1. /\ eng.pc \in {"start", "launch", "enter", "gateway", "context", "trace", "attach"}
        /\ \/ To("launch") \/ To("enter") \/ To("gateway") \/ To("context") \/ To("trace")
           \/ To("attach") \/ To("step")
    BY <1>4 DEF Coming, StartDriver, Launch, MakeWorkdir, OpenGateway, OpenContext, StartTrace, Attach
  <2>2. /\ eng.pc \in Starting
        /\ {"launch", "enter", "gateway", "context", "trace", "attach", "step"}
             \subseteq (Starting \ {"preflight"}) \cup {"step"}
    BY <2>1 DEF Starting
  <2> QED BY <1>2, <2>1, <2>2
<1>5. CASE Going
  <2>1. /\ eng.pc \in {"detach", "untrace", "uncontext", "ungate", "unwork", "unbrowser", "undrive"}
        /\ \/ To("untrace") \/ To("uncontext") \/ To("ungate") \/ To("unwork")
           \/ To("unbrowser") \/ To("undrive") \/ To("ended")
    BY <1>5 DEF Going, Detach, StopTrace, CloseContext, FailToClose, CloseGateway,
                RemoveWorkdir, FailToRemove, CloseBrowser, FailToCloseBrowser, StopDriver
  <2>2. /\ eng.pc \in Leaving
        /\ {"untrace", "uncontext", "ungate", "unwork", "unbrowser", "undrive", "ended"} \subseteq Leaving
    BY <2>1 DEF Leaving
  <2> QED BY <1>3, <2>1, <2>2
<1> QED BY <1>4, <1>5

\* An end before its time.
CutShort == LaunchFails \/ Unavailable \/ Interrupt

LEMMA CutShortMoves ==
  ASSUME EngTypes, CutShort
  PROVE  /\ Stays(eng, eng') /\ Recalls(eng, eng') /\ eng'.pc \in Leaving /\ eng'.result # "none"
         /\ \/ (LaunchFails \/ Unavailable) /\ eng.pc \in Starting
            \/ Interrupt /\ eng'.result = IF eng.result = "none" THEN "interrupted" ELSE eng.result
<1>1. eng \in Engines BY DEF EngTypes
<1>2. Leaving \subseteq Places /\ {"browser_unavailable", "unexpected", "interrupted"} \subseteq Results \ {"none"}
  BY DEF Places, Results, Reasons, Codes, Passed
<1>3. ASSUME NEW pc \in Leaving, NEW result \in Results \ {"none"},
             eng' = [eng EXCEPT !.pc = pc, !.result = result]
      PROVE  Stays(eng, eng') /\ Recalls(eng, eng') /\ eng'.pc = pc /\ eng'.result = result
  BY <1>1, <1>2, <1>3 DEF Engines, Stays, Recalls
<1>4. CASE LaunchFails \/ Unavailable
  <2>1. eng.pc \in Starting BY <1>4 DEF LaunchFails, Unavailable, Starting
  <2>2. \E pc \in Leaving, result \in {"browser_unavailable", "unexpected"} :
          eng' = [eng EXCEPT !.pc = pc, !.result = result]
    <3>1. CASE LaunchFails BY <3>1 DEF LaunchFails, Leaving
    <3>2. CASE Unavailable
      <4> DEFINE result == IF eng.pc \in {"context", "attach"} THEN "browser_unavailable" ELSE "unexpected"
      <4>1. AfterFailure(eng.pc) \in Leaving BY DEF AfterFailure, Leaving
      <4>2. eng' = [eng EXCEPT !.pc = AfterFailure(eng.pc), !.result = result] BY <3>2 DEF Unavailable
      <4>3. result \in {"browser_unavailable", "unexpected"} OBVIOUS
      <4> QED BY <4>1, <4>2, <4>3
    <3> QED BY <1>4, <3>1, <3>2
  <2> QED BY <1>2, <1>3, <1>4, <2>1, <2>2
<1>5. CASE Interrupt
  <2> DEFINE result == IF eng.result = "none" THEN "interrupted" ELSE eng.result
  <2>1. AfterInterrupt(eng.pc) \in Leaving BY <1>5 DEF AfterInterrupt, Leaving
  <2>2. result \in Results \ {"none"} BY <1>1, <1>2 DEF Engines
  <2>3. eng' = [eng EXCEPT !.pc = AfterInterrupt(eng.pc), !.result = result] BY <1>5 DEF Interrupt
  <2> QED BY <1>3, <1>5, <2>1, <2>2, <2>3
<1> QED BY <1>4, <1>5 DEF CutShort

----------------------------------------------------------------------------
(* What the session's steps leave of the requests.                          *)

\* A request that was there keeps what it is, unless its connection is cut; a
\* new one has gone nowhere yet.
Carried(r, q) ==
  /\ r.kind = q.kind /\ r.url = q.url /\ r.left = q.left /\ r.code = q.code /\ r.refused = q.refused
  /\ r.stage \in {q.stage, "cut"}
Fresh(r) ==
  /\ r.stage = IF r.kind \in MainDocuments THEN "paused" ELSE r.stage
  /\ r.stage \in {"paused", "asked"} /\ r.code = "none" /\ ~r.refused

Grown ==
  /\ reqs' \in Seq(Requests) /\ Len(reqs) <= Len(reqs') /\ DOMAIN reqs \subseteq DOMAIN reqs'
  /\ \A j \in DOMAIN reqs' :
       \/ j \in DOMAIN reqs /\ Carried(reqs'[j], reqs[j])
       \/ j \notin DOMAIN reqs /\ Fresh(reqs'[j])

Moved == NetTypes' /\ Grown /\ UNCHANGED scenario

LEMMA FreshRequests ==
  ASSUME NEW kind \in {"goto", "leave", "frame", "sub"}, NEW name \in DOMAIN Written
  PROVE  Request(kind, name) \in Requests /\ Request(kind, name).kind = kind /\ Fresh(Request(kind, name))
BY DEF Request, Requests, Stages, Documents, MainDocuments, Codes, Passed, Fresh

LEMMA GrownIsTyped ==
  ASSUME NetTypes, Grown, faults' \in Nat, UNCHANGED scenario, open' \in [gateway : BOOLEAN, filter : BOOLEAN],
         log' \in {log, Taken}
  PROVE  Moved
<1>1. \A j \in DOMAIN reqs' : reqs'[j].stage = "connecting" => reqs'[j].left # <<>>
  BY DEF NetTypes, Grown, Carried, Fresh
<1>2. log' \in Logs /\ \A i \in DOMAIN log'.blocks : log'.blocks[i].at \in 1..log'.seq
  BY LogsStay DEF NetTypes
<1> QED BY <1>1, <1>2 DEF Moved, NetTypes, Grown

LEMMA SameIsGrown ==
  ASSUME NetTypes, UNCHANGED reqs
  PROVE  Grown
BY DEF NetTypes, Grown, Carried

\* What is appended is fresh, and what was dropped is carried along.
LEMMA AppendedIsGrown ==
  ASSUME NetTypes, NEW ids, NEW fresh \in Seq(Requests), \A i \in DOMAIN fresh : Fresh(fresh[i]),
         reqs' = Dropped(ids) \o fresh
  PROVE  Grown /\ Len(reqs') = Len(reqs) + Len(fresh)
         /\ \A i \in DOMAIN fresh : reqs'[Len(reqs) + i] = fresh[i]
<1> DEFINE old == Dropped(ids)
<1>1. old \in Seq(Requests) /\ Len(old) = Len(reqs) /\ reqs \in Seq(Requests)
      /\ \A j \in DOMAIN reqs : old[j] \in {reqs[j], [reqs[j] EXCEPT !.live = FALSE]}
  BY RequestsStay DEF NetTypes
<1>2. \A j \in DOMAIN reqs : Carried(old[j], reqs[j])
  <2>1. \A r \in Requests : Carried(r, r) /\ Carried([r EXCEPT !.live = FALSE], r) BY DEF Requests, Carried
  <2>2. \A j \in DOMAIN reqs : reqs[j] \in Requests BY <1>1
  <2> QED BY <1>1, <2>1, <2>2
<1> HIDE DEF old
<1>3. /\ reqs' \in Seq(Requests) /\ Len(reqs') = Len(reqs) + Len(fresh)
      /\ \A j \in 1..Len(reqs) : reqs'[j] = old[j]
      /\ \A j \in 1..Len(reqs') : j \notin 1..Len(reqs) =>
           j - Len(reqs) \in DOMAIN fresh /\ reqs'[j] = fresh[j - Len(reqs)]
      /\ \A i \in DOMAIN fresh : reqs'[Len(reqs) + i] = fresh[i]
  <2>1. reqs' = old \o fresh BY DEF old
  <2>2. Len(reqs) \in Nat /\ Len(fresh) \in Nat /\ DOMAIN fresh = 1..Len(fresh) BY <1>1
  <2>3. reqs' \in Seq(Requests) /\ Len(reqs') = Len(reqs) + Len(fresh)
    <3>1. \A a, b \in Seq(Requests) : a \o b \in Seq(Requests) /\ Len(a \o b) = Len(a) + Len(b) OBVIOUS
    <3>2. old \o fresh \in Seq(Requests) /\ Len(old \o fresh) = Len(old) + Len(fresh) BY <1>1, <3>1
    <3> QED BY <1>1, <2>1, <3>2
  <2>4. \A j \in 1..Len(reqs) : reqs'[j] = old[j] BY <1>1, <2>1, <2>2
  <2>5. \A j \in 1..Len(reqs') : j \notin 1..Len(reqs) =>
          j - Len(reqs) \in DOMAIN fresh /\ reqs'[j] = fresh[j - Len(reqs)]
    BY <1>1, <2>1, <2>2, <2>3
  <2>6. \A i \in DOMAIN fresh : reqs'[Len(reqs) + i] = fresh[i] BY <1>1, <2>1, <2>2
  <2> QED BY <2>3, <2>4, <2>5, <2>6
<1>4. DOMAIN reqs = 1..Len(reqs) /\ DOMAIN reqs' = 1..Len(reqs') /\ Len(reqs) \in Nat /\ Len(fresh) \in Nat
  BY <1>1, <1>3
<1>5. Len(reqs) <= Len(reqs') /\ DOMAIN reqs \subseteq DOMAIN reqs' BY <1>3, <1>4
<1> QED BY <1>2, <1>3, <1>4, <1>5 DEF Grown

\* A page that is only asked for more stays the document it is.
SamePage ==
  /\ page' \in Pages /\ page'.doc = page.doc /\ page'.muts = page.muts /\ page'.url = page.url
  /\ page'.shown = page.shown /\ page'.subs \subseteq DOMAIN reqs' /\ page'.nav <= Len(reqs')
  /\ page'.nav # page.nav => page'.nav # 0 /\ reqs'[page'.nav].kind \in MainDocuments

LEMMA MainStarts ==
  ASSUME NetTypes, PageTypes, NEW kind \in MainDocuments, NEW name \in DOMAIN Written, StartMain(kind, name)
  PROVE  /\ Grown /\ SamePage /\ Len(reqs') = Len(reqs) + 1
         /\ ~reqs'[Len(reqs) + 1].refused
<1> DEFINE r == Request(kind, name)
<1>1. r \in Requests /\ r.kind = kind /\ Fresh(r) BY FreshRequests DEF MainDocuments
<1>2. reqs' = Append(Dropped({page.nav}), r) BY DEF StartMain
<1> HIDE DEF r
<1>3. /\ <<r>> \in Seq(Requests) /\ Len(<<r>>) = 1 /\ 1 \in DOMAIN <<r>> /\ <<r>>[1] = r
      /\ \A i \in DOMAIN <<r>> : Fresh(<<r>>[i])
  BY <1>1
<1>4. reqs' = Dropped({page.nav}) \o <<r>>
  <2>1. Dropped({page.nav}) \in Seq(Requests) BY RequestsStay
  <2> QED BY <1>1, <1>2, <2>1
<1>5. Grown /\ Len(reqs') = Len(reqs) + 1 /\ reqs'[Len(reqs) + 1] = r
  <2> DEFINE fresh == <<r>>
  <2>1. fresh \in Seq(Requests) /\ Len(fresh) = 1 /\ 1 \in DOMAIN fresh /\ fresh[1] = r
        /\ \A i \in DOMAIN fresh : Fresh(fresh[i])
    BY <1>3
  <2>2. reqs' = Dropped({page.nav}) \o fresh BY <1>4
  <2> HIDE DEF fresh
  <2> QED BY <2>1, <2>2, AppendedIsGrown
<1>6. SamePage
  <2>1. page \in Pages /\ page.subs \subseteq DOMAIN reqs /\ Len(reqs) \in Nat BY DEF PageTypes, NetTypes
  <2> DEFINE due == page.due \ {[k |-> "leave", url |-> name]}
             nav == Len(reqs) + 1
  <2>2. page' = [page EXCEPT !.nav = nav, !.due = due] BY DEF StartMain
  <2>3. due \subseteq Effects /\ nav \in Nat BY <2>1 DEF Pages
  <2>4. page.subs \subseteq DOMAIN reqs' BY <1>5, <2>1 DEF Grown
  <2>5. nav <= Len(reqs') /\ nav # 0 /\ reqs'[nav].kind \in MainDocuments BY <1>1, <1>5, <2>1
  <2> HIDE DEF due, nav
  <2>6. page' \in Pages /\ page'.doc = page.doc /\ page'.muts = page.muts /\ page'.url = page.url
        /\ page'.shown = page.shown /\ page'.subs = page.subs /\ page'.nav = nav
    BY <2>1, <2>2, <2>3 DEF Pages
  <2> QED BY <2>4, <2>5, <2>6 DEF SamePage
<1> QED BY <1>1, <1>5, <1>6 DEF Fresh

LEMMA FetchStarts ==
  ASSUME NetTypes, PageTypes, Fetch
  PROVE  Grown /\ SamePage
<1>1. PICK e \in Effect("fetch") : /\ reqs' = Append(reqs, Request("sub", e.url))
                                   /\ page' = [Spent(e) EXCEPT !.subs = @ \cup {Len(reqs) + 1}]
  BY DEF Fetch
<1>2. e \in page.due /\ page.due \subseteq Effects /\ e.k = "fetch" BY <1>1 DEF Effect, PageTypes, Pages
<1>3. e.url \in DOMAIN Written BY <1>2 DEF Effects
<1> DEFINE r == Request("sub", e.url)
           fresh == <<r>>
<1>4. r \in Requests /\ Fresh(r) BY <1>3, FreshRequests
<1>5. reqs' = Append(reqs, r) BY <1>1
<1>6. Dropped({}) = reqs BY DEF NetTypes, Dropped
<1> HIDE DEF r
<1>7. fresh \in Seq(Requests) /\ Len(fresh) = 1 /\ \A i \in DOMAIN fresh : Fresh(fresh[i])
  BY <1>4
<1>8. reqs' = Dropped({}) \o fresh BY <1>4, <1>5, <1>6 DEF NetTypes
<1> HIDE DEF fresh
<1>9. Grown /\ Len(reqs') = Len(reqs) + 1 BY <1>7, <1>8, AppendedIsGrown
<1>10. page \in Pages /\ page.subs \subseteq DOMAIN reqs /\ Len(reqs) \in Nat /\ page.nav <= Len(reqs)
  BY DEF PageTypes, NetTypes
<1> DEFINE due == page.due \ {e}
           nav == Len(reqs) + 1
           subs == page.subs \cup {nav}
<1>11. page' = [page EXCEPT !.due = due, !.subs = subs] BY <1>1, <1>10 DEF Spent, Pages
<1>12. due \subseteq Effects /\ nav \in Nat /\ subs \subseteq Nat BY <1>10 DEF Pages
<1>13. nav \in DOMAIN reqs' /\ DOMAIN reqs \subseteq DOMAIN reqs' BY <1>9, <1>10 DEF Grown
<1>14. subs \subseteq DOMAIN reqs' BY <1>10, <1>13
<1> HIDE DEF due, subs
<1>15. page' \in Pages /\ page'.doc = page.doc /\ page'.muts = page.muts /\ page'.url = page.url
       /\ page'.shown = page.shown /\ page'.subs = subs /\ page'.nav = page.nav
  BY <1>10, <1>11, <1>12 DEF Pages
<1>16. page.nav <= Len(reqs') BY <1>9, <1>10, <1>15 DEF Pages
<1> QED BY <1>9, <1>14, <1>15, <1>16 DEF SamePage

\* The document that replaces another, and what it asks for.
LEMMA CommitMoves ==
  ASSUME NetTypes, PageTypes, Commit
  PROVE  /\ Grown /\ page' \in Pages /\ page.nav \in DOMAIN reqs
         /\ page'.doc = page.doc + 1 /\ page'.nav = 0 /\ page'.subs \subseteq DOMAIN reqs'
         /\ \/ page'.url = "error"
            \/ page'.url = reqs[page.nav].url /\ reqs[page.nav].stage = "answered"
         /\ watch' \in {watch, Heard(page.nav)}
         /\ tracer' = IF tracer.state = "recording" THEN [tracer EXCEPT !.docs = @ \cup {page.doc + 1}] ELSE tracer
<1> DEFINE r == reqs[page.nav]
           asked == IF r.stage = "failed" THEN <<>> ELSE scenario.site[r.url].asks
           first == Len(reqs)
           fresh == [i \in DOMAIN asked |-> Request(asked[i][1], asked[i][2])]
           url == IF r.stage = "failed" THEN "error" ELSE r.url
           subs == {first + i : i \in DOMAIN asked}
<1>1. page \in Pages /\ page.nav <= Len(reqs) /\ page.nav # 0 /\ reqs \in Seq(Requests)
  BY DEF PageTypes, NetTypes, Commit
<1>2. page.nav \in DOMAIN reqs /\ r \in Requests /\ r.stage \in {"answered", "failed"}
  <2>1. page.nav \in DOMAIN reqs BY <1>1 DEF Pages
  <2>2. r.stage \in {"answered", "failed"} BY DEF Commit
  <2> QED BY <2>1, <2>2, RequestsStay
<1>3. /\ reqs' = Dropped(page.subs) \o fresh
      /\ page' = [page EXCEPT !.doc = page.doc + 1, !.muts = 0, !.nav = 0, !.url = url, !.subs = subs,
                              !.status = r.status, !.shown = FALSE, !.banner = FALSE]
      /\ watch' \in {watch, Heard(page.nav)}
      /\ tracer' = IF tracer.state = "recording" THEN [tracer EXCEPT !.docs = @ \cup {page.doc + 1}] ELSE tracer
  BY DEF Commit
<1>4. r.url \in DOMAIN Written /\ r.status \in Nat BY <1>2 DEF Requests
<1>5. asked \in Seq({"frame", "sub"} \X DOMAIN Written)
  <2>1. scenario.site[r.url].asks \in Seq({"frame", "sub"} \X DOMAIN Written) BY <1>4, SitesAreKnown
  <2>2. <<>> \in Seq({"frame", "sub"} \X DOMAIN Written) OBVIOUS
  <2> QED BY <2>1, <2>2
<1> HIDE DEF asked
<1>6. fresh \in Seq(Requests) /\ Len(fresh) = Len(asked) /\ \A i \in DOMAIN fresh : Fresh(fresh[i])
  <2>1. \A i \in DOMAIN asked : asked[i][1] \in {"frame", "sub"} /\ asked[i][2] \in DOMAIN Written
    BY <1>5
  <2>2. \A i \in DOMAIN asked : Request(asked[i][1], asked[i][2]) \in Requests
                                /\ Fresh(Request(asked[i][1], asked[i][2]))
    BY <2>1, FreshRequests
  <2>3. DOMAIN asked = 1..Len(asked) /\ Len(asked) \in Nat BY <1>5
  <2> QED BY <2>2, <2>3
<1> HIDE DEF fresh
<1>7. Grown /\ Len(reqs') = Len(reqs) + Len(asked) BY <1>3, <1>6, AppendedIsGrown
<1>8. subs \subseteq DOMAIN reqs' /\ subs \subseteq Nat
  <2>1. DOMAIN asked = 1..Len(asked) /\ Len(asked) \in Nat /\ first \in Nat BY <1>1, <1>5
  <2>2. DOMAIN reqs' = 1..Len(reqs') BY <1>7 DEF Grown
  <2> QED BY <1>7, <2>1, <2>2
<1>9. url \in DOMAIN Written \cup {"blank", "error"} BY <1>4
<1>10. url = "error" \/ (url = r.url /\ r.stage = "answered") BY <1>2
<1> HIDE DEF r, url, subs
<1>11. page.doc + 1 \in Nat \ {0} /\ 0 \in Nat BY <1>1 DEF Pages
<1>12. page' \in Pages /\ page'.doc = page.doc + 1 /\ page'.nav = 0 /\ page'.subs = subs /\ page'.url = url
  BY <1>1, <1>3, <1>4, <1>8, <1>9, <1>11 DEF Pages
<1> QED BY <1>2, <1>3, <1>7, <1>8, <1>10, <1>12 DEF r

\* The step the run is at is one of its workflow's.
LEMMA StepIsKnown ==
  ASSUME NetTypes, EngTypes, eng.pc \in InStep
  PROVE  Step.effects \subseteq Effects /\ (Step.act = "navigate" => Step.url \in DOMAIN Written)
<1>1. eng.step \in Nat \ {0} /\ eng.step <= Len(scenario.steps) BY DEF EngTypes, Engines
<1>2. Step \in ToSet(scenario.steps) BY <1>1, StepsAre DEF Step
<1> QED BY <1>2, ScenariosAssumption DEF NetTypes

\* What the page does of itself.
LEMMA PageMoves ==
  ASSUME Types, PageStep
  PROVE  /\ Moved /\ eng' = eng /\ open' = open /\ log' = log /\ stop' = stop /\ typed' = typed
         /\ \/ Commit
            \/ Arrive /\ tracer' = tracer /\ reqs' = reqs
            \/ Change /\ tracer' = tracer /\ reqs' = reqs
            \/ (LeavePage \/ Fetch \/ OpenPage \/ StartDownload) /\ SamePage /\ tracer' = tracer
<1>1. NetTypes /\ EngTypes /\ PageTypes BY DEF Types
<1>2. faults \in Nat /\ open \in [gateway : BOOLEAN, filter : BOOLEAN] BY <1>1 DEF NetTypes
<1>3. CASE Commit
  BY <1>1, <1>2, <1>3, CommitMoves, GrownIsTyped DEF Commit
<1>4. CASE Arrive \/ Change
  <2>1. UNCHANGED <<netVars, eng, pageRest>> BY <1>4 DEF Arrive, Change
  <2>2. Moved BY <1>1, <2>1, NetStays, SameIsGrown DEF Moved, netVars
  <2> QED BY <1>4, <2>1, <2>2 DEF netVars, pageRest
<1>5. CASE Happen
  <2>1. UNCHANGED <<scenario, faults, log, open, eng, pageRest>> BY <1>5 DEF Happen
  <2>2. (LeavePage \/ Fetch \/ OpenPage \/ StartDownload) => Grown /\ SamePage
    <3>1. CASE LeavePage
      <4>1. PICK e \in Effect("leave") : StartMain("leave", e.url) BY <3>1 DEF LeavePage
      <4>2. e \in page.due /\ page.due \subseteq Effects /\ e.k = "leave"
        BY <1>1, <4>1 DEF Effect, PageTypes, Pages
      <4>3. e.url \in DOMAIN Written BY <4>2 DEF Effects
      <4> QED BY <1>1, <4>1, <4>3, MainStarts DEF MainDocuments
    <3>2. CASE Fetch BY <1>1, <3>2, FetchStarts
    <3>3. CASE OpenPage \/ StartDownload
      <4>1. PICK e : page' = Spent(e) BY <3>3 DEF OpenPage, StartDownload
      <4>2. reqs' = reqs BY <3>3 DEF OpenPage, StartDownload
      <4> DEFINE due == page.due \ {e}
      <4>3. page' = [page EXCEPT !.due = due] BY <4>1 DEF Spent
      <4>4. page \in Pages /\ due \subseteq Effects BY <1>1 DEF PageTypes, Pages
      <4> HIDE DEF due
      <4>5. page' \in Pages /\ page'.doc = page.doc /\ page'.muts = page.muts /\ page'.url = page.url
            /\ page'.shown = page.shown /\ page'.subs = page.subs /\ page'.nav = page.nav
        BY <4>3, <4>4 DEF Pages
      <4>6. SamePage BY <1>1, <4>2, <4>5 DEF SamePage, PageTypes
      <4> QED BY <1>1, <4>2, <4>6, SameIsGrown
    <3> QED BY <3>1, <3>2, <3>3
  <2>3. LeavePage \/ Fetch \/ OpenPage \/ StartDownload BY <1>5 DEF Happen
  <2>4. Grown /\ SamePage BY <2>2, <2>3
  <2>5. Moved BY <1>1, <1>2, <2>1, <2>4, GrownIsTyped
  <2> QED BY <2>1, <2>3, <2>4, <2>5 DEF pageRest
<1> QED BY <1>3, <1>4, <1>5 DEF PageStep

\* What the run does with the network and its log.
Asking == Preflight \/ Guard
Quiet ==
  \/ ReadPage \/ Observe \/ PauseForSecret \/ Status \/ Begin \/ Act \/ Settle
  \/ Verify \/ Text \/ Wake \/ UrlMatches \/ Scan \/ Listen \/ NextDownload \/ Banner \/ Field
  \/ Pass \/ Fail \/ Shoot \/ Snapshot \/ Export \/ Release \/ Expire

LEMMA EngineMoves ==
  ASSUME Types, EngineStep \/ Expire \/ Interrupt
  PROVE  /\ Moved
         /\ \/ Quiet /\ UNCHANGED netVars
            \/ Asking /\ UNCHANGED <<log, reqs, open>>
            \/ Goto /\ UNCHANGED <<log, open>>
            \/ (Goes \/ Look) /\ UNCHANGED <<reqs, open>>
            \/ (Coming \/ Going) /\ log' = log
            \/ CutShort /\ UNCHANGED <<log, reqs>>
<1>1. NetTypes /\ EngTypes /\ PageTypes BY DEF Types
<1>2. faults \in Nat /\ open \in [gateway : BOOLEAN, filter : BOOLEAN] BY <1>1 DEF NetTypes
<1>3. Fault => faults' \in Nat BY <1>2 DEF Fault
<1>4. CASE Quiet
  <2>1. UNCHANGED netVars
    BY <1>4 DEF Quiet, ReadPage, Observe, PauseForSecret, Status, Begin, Act, Settle, Verify, Text, Wake,
                UrlMatches, Scan, Listen, NextDownload, Banner, Field, Pass, Fail, Shoot, Snapshot, Export,
                Release, Expire, verifyRest
  <2> QED BY <1>1, <1>4, <2>1, NetStays, SameIsGrown DEF Moved, netVars
<1>5. CASE Asking
  <2>1. UNCHANGED <<scenario, log, reqs, open>> BY <1>5 DEF Asking, Preflight, Guard
  <2>2. faults' \in Nat BY <1>2, <1>3, <1>5 DEF Asking, Preflight, Guard
  <2> QED BY <1>1, <1>2, <1>5, <2>1, <2>2, SameIsGrown, GrownIsTyped
<1>6. CASE Goto
  <2>1. StartMain("goto", Step.url) /\ UNCHANGED <<scenario, faults, log, open>> BY <1>6 DEF Goto
  <2>2. Step.url \in DOMAIN Written
    <3>1. eng.pc = "goto" BY <1>6 DEF Goto
    <3> QED BY <1>1, <3>1, StepIsKnown DEF EngTypes, Navigating, InStep
  <2>3. Grown BY <1>1, <2>1, <2>2, MainStarts DEF MainDocuments
  <2> QED BY <1>1, <1>2, <1>6, <2>1, <2>3, GrownIsTyped
<1>7. CASE Goes \/ Look
  <2>1. UNCHANGED <<scenario, faults, reqs, open>> BY <1>7 DEF Goes, Look
  <2>2. log' \in {log, Taken} BY <1>7 DEF Goes, GotoFailed, Look
  <2> QED BY <1>1, <1>2, <1>7, <2>1, <2>2, SameIsGrown, GrownIsTyped
<1>8. CASE Coming
  <2>1. UNCHANGED <<scenario, faults, log, reqs>>
    BY <1>8 DEF Coming, StartDriver, Launch, MakeWorkdir, OpenGateway, OpenContext, StartTrace, Attach, enterRest
  <2>2. open' \in {open, [open EXCEPT !.gateway = TRUE], [open EXCEPT !.filter = TRUE]}
    BY <1>8 DEF Coming, StartDriver, Launch, MakeWorkdir, OpenGateway, OpenContext, StartTrace, Attach
  <2>3. open' \in [gateway : BOOLEAN, filter : BOOLEAN] BY <1>2, <2>2
  <2> QED BY <1>1, <1>2, <1>8, <2>1, <2>3, SameIsGrown, GrownIsTyped
<1>9. CASE Going
  <2>1. UNCHANGED <<scenario, log>> /\ faults' \in Nat
    BY <1>2, <1>3, <1>9 DEF Going, Detach, StopTrace, CloseContext, FailToClose, CloseGateway,
                RemoveWorkdir, FailToRemove, CloseBrowser, FailToCloseBrowser, StopDriver, leaveRest
  <2>2. open' \in {open, [open EXCEPT !.gateway = FALSE], [open EXCEPT !.filter = FALSE]}
    BY <1>9 DEF Going, Detach, StopTrace, CloseContext, FailToClose, CloseGateway,
                RemoveWorkdir, FailToRemove, CloseBrowser, FailToCloseBrowser, StopDriver
  <2>3. open' \in [gateway : BOOLEAN, filter : BOOLEAN] BY <1>2, <2>2
  <2>4. CASE reqs' = reqs
    BY <1>1, <1>2, <1>9, <2>1, <2>3, <2>4, SameIsGrown, GrownIsTyped
  <2>5. CASE reqs' = [i \in DOMAIN reqs |-> [reqs[i] EXCEPT !.live = FALSE,
                        !.stage = IF @ \in {"answered", "failed"} THEN @ ELSE "cut"]]
    <3> DEFINE Cut(r) == [r EXCEPT !.live = FALSE, !.stage = IF @ \in {"answered", "failed"} THEN @ ELSE "cut"]
    <3>1. \A r \in Requests : Cut(r) \in Requests /\ Carried(Cut(r), r)
      BY DEF Requests, Stages, Carried
    <3>2. reqs \in Seq(Requests) /\ \A i \in DOMAIN reqs : reqs[i] \in Requests BY <1>1, RequestsStay DEF NetTypes
    <3>3. reqs' \in Seq(Requests) /\ Len(reqs') = Len(reqs) /\ DOMAIN reqs' = DOMAIN reqs
          /\ \A j \in DOMAIN reqs : Carried(reqs'[j], reqs[j])
      <4>1. reqs' = [i \in DOMAIN reqs |-> Cut(reqs[i])] BY <2>5
      <4> HIDE DEF Cut
      <4> QED BY <3>1, <3>2, <4>1
    <3>4. Grown BY <3>2, <3>3 DEF Grown
    <3> QED BY <1>1, <1>2, <1>9, <2>1, <2>3, <3>4, GrownIsTyped
  <2>6. \/ reqs' = reqs
        \/ reqs' = [i \in DOMAIN reqs |-> [reqs[i] EXCEPT !.live = FALSE,
                        !.stage = IF @ \in {"answered", "failed"} THEN @ ELSE "cut"]]
    BY <1>9 DEF Going, Detach, StopTrace, CloseContext, FailToClose, CloseGateway,
                RemoveWorkdir, FailToRemove, CloseBrowser, FailToCloseBrowser, StopDriver
  <2> QED BY <2>4, <2>5, <2>6
<1>10. CASE CutShort
  <2>1. UNCHANGED <<scenario, log, reqs>> /\ faults' \in Nat
    BY <1>2, <1>3, <1>10 DEF CutShort, LaunchFails, Unavailable, Interrupt, enterRest
  <2>2. open' \in [gateway : BOOLEAN, filter : BOOLEAN]
    <3>1. CASE LaunchFails \/ Unavailable BY <1>2, <3>1 DEF LaunchFails, Unavailable
    <3>2. CASE Interrupt
      <4>1. \E gateway, filter \in BOOLEAN : open' = [gateway |-> gateway, filter |-> filter]
        BY <3>2, Zenon DEF Interrupt
      <4> QED BY <4>1
    <3> QED BY <1>10, <3>1, <3>2 DEF CutShort
  <2> QED BY <1>1, <1>2, <1>10, <2>1, <2>2, SameIsGrown, GrownIsTyped
<1>11. Quiet \/ Asking \/ Goto \/ Goes \/ Look \/ Coming \/ Going \/ CutShort
  BY DEF EngineStep, Quiet, Asking, Coming, Going, CutShort
<1> QED BY <1>4, <1>5, <1>6, <1>7, <1>8, <1>9, <1>10, <1>11

\* The run never changes what the page shows.
LEMMA EnginePage ==
  ASSUME Types, EngineStep \/ Expire \/ Interrupt
  PROVE  SamePage /\ (page'.nav = page.nav \/ Goto)
<1>1. NetTypes /\ EngTypes /\ PageTypes /\ Grown BY EngineMoves DEF Types, Moved
<1>2. page \in Pages /\ page.subs \subseteq DOMAIN reqs' /\ page.nav <= Len(reqs')
  BY <1>1 DEF PageTypes, NetTypes, Grown, Pages
<1>3. CASE Goto
  <2>1. StartMain("goto", Step.url) BY <1>3 DEF Goto
  <2>2. Step.url \in DOMAIN Written
    <3>1. eng.pc = "goto" BY <1>3 DEF Goto
    <3> QED BY <1>1, <3>1, StepIsKnown DEF EngTypes, Navigating, InStep
  <2> QED BY <1>1, <1>3, <2>1, <2>2, MainStarts DEF MainDocuments
<1>4. CASE Act
  <2>1. eng.pc \in InStep BY <1>4 DEF Act, InStep
  <2> DEFINE due == page.due \cup Step.effects
  <2>2. due \subseteq Effects BY <1>1, <1>2, <2>1, StepIsKnown DEF Pages
  <2>3. page' = page \/ page' = [page EXCEPT !.due = due] BY <1>4 DEF Act
  <2> HIDE DEF due
  <2>4. page' \in Pages /\ page'.doc = page.doc /\ page'.muts = page.muts /\ page'.url = page.url
        /\ page'.shown = page.shown /\ page'.subs = page.subs /\ page'.nav = page.nav
    BY <1>2, <2>2, <2>3 DEF Pages
  <2> QED BY <1>2, <2>4 DEF SamePage
<1>5. CASE page' = page
  BY <1>2, <1>5 DEF SamePage
<1>6. Goto \/ Act \/ page' = page
  <2>1. CASE Quiet
    BY <2>1 DEF Quiet, ReadPage, Observe, PauseForSecret, Status, Begin, Settle, Verify, Text, Wake,
                UrlMatches, Scan, Listen, NextDownload, Banner, Field, Pass, Fail, Shoot, Snapshot, Export,
                Release, Expire, verifyRest
  <2>2. CASE Coming \/ Going \/ CutShort
    BY <2>2 DEF Coming, StartDriver, Launch, MakeWorkdir, OpenGateway, OpenContext, StartTrace, Attach, Going, Detach, StopTrace,
                CloseContext, FailToClose, CloseGateway, RemoveWorkdir, FailToRemove, CloseBrowser, FailToCloseBrowser,
                StopDriver, CutShort, LaunchFails, Unavailable, Interrupt, enterRest, leaveRest
  <2>3. CASE Asking \/ Goes \/ Look BY <2>3 DEF Asking, Preflight, Guard, Goes, Look
  <2> QED BY <2>1, <2>2, <2>3, EngineMoves
<1> QED BY <1>3, <1>4, <1>5, <1>6

LEMMA NamesOfPlaces ==
  /\ InStep \cap (Starting \cup Leaving \cup {"step"}) = {} /\ Starting \cap Leaving = {}
  /\ Reading \subseteq InStep /\ Navigating \subseteq InStep /\ Verifying \subseteq InStep
  /\ Ending \subseteq InStep /\ Looks \subseteq InStep /\ Purposes \ {"none"} \subseteq InStep
  /\ Reading \cap (Navigating \cup Purposes) = {}
  /\ {"pause", "type", "act", "settle", "passed"} \subseteq InStep
  /\ Waits \subseteq Verifying
BY DEF Purposes, InStep, Navigating, Reading, Verifying, Ending, Looks, Starting, Leaving, Waits

\* What the run remembers stays true of a step that goes on with it.
LEMMA EngTypesOn ==
  ASSUME NetTypes, EngTypes, page \in Pages, Grown, UNCHANGED scenario, page' \in Pages, page'.doc >= page.doc,
         Stays(eng, eng'), eng'.seen \in {eng.seen, Epoch},
         eng'.pc \in InStep => eng.pc \in InStep, eng'.pc # "preflight",
         eng'.pc = "loading" => eng.pc = "loading",
         eng'.pc \in Reading => eng'.then # "none",
         eng'.pc \in Navigating => eng.pc \in Navigating \/ Heading("status"),
         eng'.pc \in Reading /\ eng'.then = "status" => eng.pc \in Navigating \/ Heading("status")
  PROVE  EngTypes'
<1>1. eng' \in Engines /\ eng'.step = eng.step /\ eng'.load = eng.load /\ eng'.pinned = eng.pinned
      /\ eng'.typedAt = eng.typedAt /\ eng \in Engines
  BY DEF Stays, EngTypes
<1>2. scenario' = scenario /\ Step' = Step BY <1>1 DEF Step
<1>3. eng.load \in Nat /\ Len(reqs) \in Nat /\ Len(reqs') \in Nat /\ Len(reqs) <= Len(reqs')
  <2>1. eng.load \in Nat BY <1>1 DEF Engines
  <2>2. reqs \in Seq(Requests) /\ reqs' \in Seq(Requests) /\ Len(reqs) <= Len(reqs') BY DEF NetTypes, Grown
  <2> QED BY <2>1, <2>2
<1>4. page.doc \in Nat /\ page'.doc \in Nat /\ eng.pinned \in Nat /\ eng.seen[1] \in Nat
  BY <1>1 DEF Engines, Pages
<1>5. eng'.step <= Len(scenario'.steps) + 1 /\ (eng'.pc \in InStep => eng'.step <= Len(scenario'.steps))
  BY <1>1, <1>2 DEF EngTypes
<1>6. eng'.load <= Len(reqs') /\ (eng'.pc = "loading" => eng'.load # 0)
  BY <1>1, <1>3 DEF EngTypes
<1>7. eng'.pinned <= page'.doc /\ eng'.seen[1] <= page'.doc /\ eng'.typedAt <= eng'.step
  <2>1. eng'.seen = eng.seen \/ eng'.seen[1] = page.doc BY DEF Epoch
  <2> QED BY <1>1, <1>4, <2>1 DEF EngTypes
<1>8. eng'.pc \in Navigating \/ (eng'.pc = "status" \/ (eng'.pc \in Reading /\ eng'.then = "status"))
        => Step'.act = "navigate"
  <2>1. "status" \in Navigating BY DEF Navigating
  <2>2. eng.pc \in Navigating \/ Heading("status") => Step.act = "navigate" BY DEF EngTypes
  <2> QED BY <1>2, <2>1, <2>2
<1> QED BY <1>1, <1>5, <1>6, <1>7, <1>8 DEF EngTypes, Heading

\* Steps that go on from one place to another of the same step, or leave it.
Onward ==
  /\ Stays(eng, eng') /\ eng'.seen \in {eng.seen, Epoch}
  /\ eng'.pc # "preflight" /\ (eng'.pc \in InStep => eng.pc \in InStep)
  /\ eng'.pc = "loading" => eng.pc = "loading"
  /\ eng'.pc \in Reading => eng'.then # "none"
  /\ eng'.pc \in Navigating => eng.pc \in Navigating \/ Heading("status")
  /\ eng'.pc \in Reading /\ eng'.then = "status" => eng.pc \in Navigating \/ Heading("status")

Stepping == Preflight \/ Begin \/ Goto \/ Release

LEMMA OnwardMoves ==
  ASSUME Types, EngineStep \/ Expire \/ Interrupt, ~Stepping
  PROVE  Onward
<1>1. NetTypes /\ EngTypes /\ PageTypes /\ page \in Pages /\ eng \in Engines
  BY DEF Types, EngTypes, PageTypes
<1>2. eng.pc \in Reading => eng.then # "none" BY <1>1 DEF EngTypes
<1>3. CASE ReadPage
  BY <1>1, <1>2, <1>3, ReadPageMoves DEF Onward, InStep, Navigating, Reading, Verifying, Ending, Heading
<1>4. CASE Observe \/ PauseForSecret \/ Shoot \/ Export \/ Pass \/ Fail \/ UrlMatches \/ Scan \/ Listen
             \/ NextDownload \/ Field
  <2>1. CASE Observe
    <3>1. /\ Stays(eng, eng') /\ eng'.seen = eng.seen /\ eng.pc = "observe"
          /\ eng'.pc = eng.then /\ eng'.then = eng.then
      <4>1. eng.pc = "observe" BY <2>1 DEF Observe
      <4> QED BY <1>1, <2>1, <4>1, PlainMoves DEF Recalls, Verifying
    <3>2. eng.then \in Purposes \ {"none"} BY <1>1, <1>2, <3>1 DEF Engines, Reading
    <3> QED BY <3>1, <3>2 DEF Onward, InStep, Navigating, Reading, Heading, Purposes
  <2>2. CASE ~Observe
    BY <1>1, <1>4, <2>2, PlainMoves DEF Onward, Recalls, InStep, Navigating, Reading, Verifying, Ending
  <2> QED BY <2>1, <2>2
<1>5. CASE Settle \/ Snapshot \/ Verify \/ Wake
  BY <1>1, <1>5, ReadingMoves DEF Onward, Recalls, InStep, Navigating, Reading, Verifying, Ending
<1>6. CASE Guard \/ Status \/ Goes
  BY <1>1, <1>6, NavigatingMoves DEF Onward, InStep, Navigating, Reading, Ending
<1>7. CASE Act
  BY <1>1, <1>7, ActMoves DEF Onward, Recalls, InStep, Navigating, Reading, Ending
<1>8. CASE Look
  BY <1>1, <1>8, LookMoves DEF Onward, Recalls, InStep, Navigating, Reading, Verifying, Ending
<1>9. CASE Text \/ Banner
  BY <1>1, <1>9, LookedAtMoves DEF Onward, Recalls, InStep, Navigating, Reading, Verifying, Ending, Looks
<1>10. CASE Expire
  BY <1>1, <1>2, <1>10, ExpireMoves DEF Onward, Recalls, Navigating, Reading, Waits, Heading
<1>11. CASE Coming \/ Going
  BY <1>1, <1>11, ComingGoingMoves, NamesOfPlaces DEF Onward, Recalls, Navigating, Reading, Starting, Leaving
<1>12. CASE CutShort
  BY <1>1, <1>12, CutShortMoves, NamesOfPlaces DEF Onward, Recalls, Navigating, Reading, Leaving
<1> QED
  BY <1>3, <1>4, <1>5, <1>6, <1>7, <1>8, <1>9, <1>10, <1>11, <1>12, EngineMoves
  DEF Quiet, Asking, Stepping

LEMMA EngTypesStep ==
  ASSUME Types, EngineStep \/ Expire \/ Interrupt
  PROVE  EngTypes'
<1>1. NetTypes /\ EngTypes /\ PageTypes /\ page \in Pages /\ eng \in Engines
  BY DEF Types, EngTypes, PageTypes
<1>2. Grown /\ scenario' = scenario /\ page' \in Pages /\ page'.doc = page.doc
  BY EngineMoves, EnginePage DEF Moved, SamePage
<1>3. page.doc \in Nat /\ page'.doc >= page.doc BY <1>1, <1>2 DEF Pages
<1>4. CASE ~Stepping
  BY <1>1, <1>2, <1>3, <1>4, OnwardMoves, EngTypesOn DEF Onward
<1>5. reqs' \in Seq(Requests) /\ reqs \in Seq(Requests) /\ Len(reqs) <= Len(reqs')
  BY <1>1, <1>2 DEF NetTypes, Grown
<1>6. Len(reqs) \in Nat /\ Len(reqs') \in Nat BY <1>5
<1>7. Len(scenario.steps) \in Nat BY <1>1, StepsAre
<1>8. /\ eng.step \in Nat \ {0} /\ eng.load \in Nat /\ eng.pinned \in Nat /\ eng.typedAt \in Nat
      /\ eng.seen[1] \in Nat
  BY <1>1 DEF Engines
<1>9. /\ eng.step <= Len(scenario.steps) + 1 /\ eng.load <= Len(reqs) /\ eng.pinned <= page.doc
      /\ eng.seen[1] <= page.doc /\ eng.typedAt <= eng.step
  BY <1>1 DEF EngTypes
<1>10. eng.load <= Len(reqs') BY <1>5, <1>6, <1>8, <1>9
<1>11. CASE Preflight
  <2>1. eng.typedAt = 0 BY <1>1, <1>11 DEF EngTypes, Preflight
  <2>2. /\ eng' \in Engines /\ eng'.load = eng.load /\ eng'.pinned = eng.pinned /\ eng'.typedAt = eng.typedAt
        /\ eng'.seen = eng.seen /\ eng'.pc \in {"preflight", "start", "ended"}
    BY <1>1, <1>11, PreflightMoves DEF Recalls
  <2>3. eng'.step <= Len(scenario.steps) + 1 /\ 0 <= eng'.step
    BY <1>1, <1>7, <1>8, <1>9, <1>11, PreflightMoves
  <2>4. eng'.pc \notin InStep /\ eng'.pc \notin Reading /\ eng'.pc \notin Navigating /\ eng'.pc \notin {"loading", "status"}
    BY <2>2 DEF InStep, Navigating, Reading, Verifying, Ending, Looks
  <2> QED BY <1>2, <1>9, <1>10, <2>1, <2>2, <2>3, <2>4 DEF EngTypes, Heading
<1>12. CASE Begin
  <2>1. eng'.pc \in InStep => eng.step <= Len(scenario.steps)
    BY <1>1, <1>12, BeginMoves DEF InStep, Navigating, Reading, Verifying, Ending, Looks
  <2>2. eng'.pc \in Navigating \/ Heading("status")' => Step.act = "navigate"
    BY <1>1, <1>12, BeginMoves DEF Navigating, Reading, Heading
  <2>3. Step' = Step BY <1>1, <1>2, <1>12, BeginMoves DEF Step
  <2>4. eng'.pc \in Reading => eng'.then # "none" BY <1>1, <1>12, BeginMoves DEF Reading
  <2>5. /\ eng' \in Engines /\ eng'.step = eng.step /\ eng'.load = eng.load /\ eng'.seen = eng.seen
        /\ eng'.pinned \in {eng.pinned, page.doc} /\ eng'.typedAt \in {eng.typedAt, eng.step}
        /\ eng'.pc \notin {"loading", "preflight"}
    BY <1>1, <1>12, BeginMoves
  <2> QED BY <1>2, <1>3, <1>8, <1>9, <1>10, <2>1, <2>2, <2>3, <2>4, <2>5 DEF EngTypes
<1>13. CASE Goto
  <2>1. eng.pc \in Navigating /\ eng.pc \in InStep /\ eng'.pc \notin Reading
    BY <1>1, <1>13, GotoMoves DEF Navigating, InStep, Reading
  <2>2. /\ eng' \in Engines /\ eng'.step = eng.step /\ eng'.load = Len(reqs) + 1 /\ eng'.seen = eng.seen
        /\ eng'.pinned = eng.pinned /\ eng'.typedAt = eng.typedAt /\ eng'.pc = "loading"
    BY <1>1, <1>13, GotoMoves DEF Recalls
  <2>3. Step.act = "navigate" /\ eng.step <= Len(scenario.steps) BY <1>1, <2>1 DEF EngTypes
  <2>4. Step' = Step BY <1>2, <2>2 DEF Step
  <2>5. Len(reqs') = Len(reqs) + 1
    <3>1. StartMain("goto", Step.url) BY <1>13 DEF Goto
    <3>2. Step.url \in DOMAIN Written BY <1>1, <2>1, <2>3, StepIsKnown
    <3> QED BY <1>1, <3>1, <3>2, MainStarts DEF MainDocuments
  <2> QED BY <1>2, <1>6, <1>9, <2>1, <2>2, <2>3, <2>4, <2>5 DEF EngTypes
<1>14. CASE Release
  <2>1. eng.pc \in InStep BY <1>1, <1>14, ReleaseMoves DEF InStep, Ending
  <2>2. eng.step <= Len(scenario.steps) BY <1>1, <2>1 DEF EngTypes
  <2>3. eng'.pc \notin InStep /\ eng'.pc \notin Reading /\ eng'.pc \notin Navigating
        /\ eng'.pc \notin {"loading", "status", "preflight"}
    BY <1>1, <1>14, ReleaseMoves DEF InStep, Navigating, Reading, Verifying, Ending, Looks
  <2>4. /\ eng' \in Engines /\ eng'.step \in {eng.step, eng.step + 1} /\ eng'.load = eng.load
        /\ eng'.seen = eng.seen /\ eng'.pinned = 0 /\ eng'.typedAt = eng.typedAt
    BY <1>1, <1>14, ReleaseMoves DEF Recalls
  <2> QED BY <1>2, <1>3, <1>7, <1>8, <1>9, <1>10, <2>2, <2>3, <2>4 DEF EngTypes, Heading
<1> QED BY <1>4, <1>11, <1>12, <1>13, <1>14 DEF Stepping

\* What the run makes of its watch.
LEMMA EngineWatch ==
  ASSUME Types, EngineStep \/ Expire \/ Interrupt
  PROVE  /\ watch' \in Watches
         /\ \/ watch' = watch
            \/ Begin
            \/ Look /\ watch' = [watch EXCEPT !.opened = 0]
            \/ Scan /\ watch' = [watch EXCEPT !.arrived = FALSE]
            \/ NextDownload /\ watch' = [watch EXCEPT !.downloads = Tail(@)]
            \/ (Pass \/ Fail) /\ watch' = Unwatched
<1>1. watch \in Watches BY DEF Types, PageTypes
<1>2. watch.downloads \in Seq({e.url : e \in Effects}) BY <1>1 DEF Watches
<1>3. <<>> \in Seq({e.url : e \in Effects}) /\ <<>> \in Seq((DOMAIN Written) \X Nat) OBVIOUS
<1>4. \/ watch' = watch
      \/ Begin
      \/ Look /\ watch' = [watch EXCEPT !.opened = 0]
      \/ Scan /\ watch' = [watch EXCEPT !.arrived = FALSE]
      \/ NextDownload /\ watch.downloads # <<>> /\ watch' = [watch EXCEPT !.downloads = Tail(@)]
      \/ (Pass \/ Fail) /\ watch' = Unwatched
  <2>1. CASE Quiet
    BY <2>1 DEF Quiet, ReadPage, Observe, PauseForSecret, Status, Act, Settle, Verify, Text, Wake,
                UrlMatches, Scan, Listen, NextDownload, Banner, Field, Pass, Fail, Shoot, Snapshot, Export,
                Release, Expire
  <2>2. CASE Coming \/ Going \/ CutShort
    BY <2>2 DEF Coming, StartDriver, Launch, MakeWorkdir, OpenGateway, OpenContext, StartTrace, Attach, Going, Detach, StopTrace,
                CloseContext, FailToClose, CloseGateway, RemoveWorkdir, FailToRemove, CloseBrowser, FailToCloseBrowser,
                StopDriver, CutShort, LaunchFails, Unavailable, Interrupt, enterRest, leaveRest
  <2>3. CASE Asking \/ Goto \/ Goes \/ Look BY <2>3 DEF Asking, Preflight, Guard, Goto, Goes, Look
  <2> QED BY <2>1, <2>2, <2>3, EngineMoves
<1>5. CASE watch' = watch BY <1>1, <1>5
<1>6. CASE Begin
  <2> DEFINE on == WatchKinds(Step.checks)
             none == <<>>
  <2>1. on \subseteq {"response", "download"} BY DEF WatchKinds
  <2>2. watch' = watch \/ watch' = [watch EXCEPT !.on = on, !.responses = none, !.arrived = FALSE, !.downloads = none]
    BY <1>6 DEF Begin
  <2>3. none \in Seq({e.url : e \in Effects}) /\ none \in Seq((DOMAIN Written) \X Nat) BY <1>3
  <2> HIDE DEF on, none
  <2>4. watch' \in Watches BY <1>1, <2>1, <2>2, <2>3 DEF Watches
  <2> QED BY <1>6, <2>4
<1>7. CASE Look /\ watch' = [watch EXCEPT !.opened = 0] BY <1>1, <1>7 DEF Watches
<1>8. CASE Scan /\ watch' = [watch EXCEPT !.arrived = FALSE] BY <1>1, <1>8 DEF Watches
<1>9. CASE NextDownload /\ watch.downloads # <<>> /\ watch' = [watch EXCEPT !.downloads = Tail(@)]
  <2> DEFINE rest == Tail(watch.downloads)
  <2>1. rest \in Seq({e.url : e \in Effects}) BY <1>2, <1>9
  <2>2. watch' = [watch EXCEPT !.downloads = rest] BY <1>9
  <2> HIDE DEF rest
  <2>3. watch' \in Watches BY <1>1, <2>1, <2>2 DEF Watches
  <2> QED BY <1>9, <2>3
<1>10. CASE (Pass \/ Fail) /\ watch' = Unwatched
  <2> DEFINE none == <<>>
  <2>1. watch' = [watch EXCEPT !.on = {}, !.responses = none, !.downloads = none] BY <1>10 DEF Unwatched
  <2>2. none \in Seq({e.url : e \in Effects}) /\ none \in Seq((DOMAIN Written) \X Nat) BY <1>3
  <2> HIDE DEF none
  <2>3. watch' \in Watches BY <1>1, <2>1, <2>2 DEF Watches
  <2> QED BY <1>10, <2>3
<1> QED BY <1>4, <1>5, <1>6, <1>7, <1>8, <1>9, <1>10

\* What the run makes of the trace.
LEMMA EngineTracer ==
  ASSUME Types, EngineStep \/ Expire \/ Interrupt
  PROVE  /\ tracer' \in Tracers /\ tracer'.tainted <= page.doc
         /\ tracer' = tracer \/ Observe \/ PauseForSecret \/ Shoot \/ Export \/ StartTrace \/ StopTrace
<1>1. tracer \in Tracers /\ tracer.tainted <= page.doc /\ page \in Pages BY DEF Types, PageTypes
<1>2. page.doc \in Nat \ {0} /\ eng.seen[1] \in Nat /\ eng.seen[1] <= page.doc
  BY <1>1 DEF Pages, Types, EngTypes, Engines
<1>3. tracer' = tracer \/ Observe \/ PauseForSecret \/ Shoot \/ Export \/ StartTrace \/ StopTrace
  <2>1. CASE Quiet
    BY <2>1 DEF Quiet, ReadPage, Status, Begin, Act, Settle, Verify, Text, Wake,
                UrlMatches, Scan, Listen, NextDownload, Banner, Field, Pass, Fail, Snapshot,
                Release, Expire, verifyRest
  <2>2. CASE Coming \/ Going \/ CutShort
    BY <2>2 DEF Coming, StartDriver, Launch, MakeWorkdir, OpenGateway, OpenContext, Attach, Going, Detach,
                CloseContext, FailToClose, CloseGateway, RemoveWorkdir, FailToRemove, CloseBrowser, FailToCloseBrowser,
                StopDriver, CutShort, LaunchFails, Unavailable, Interrupt
  <2>3. CASE Asking \/ Goto \/ Goes \/ Look BY <2>3 DEF Asking, Preflight, Guard, Goto, Goes, Look
  <2> QED BY <2>1, <2>2, <2>3, EngineMoves
<1>4. CASE tracer' = tracer BY <1>1, <1>4
<1>5. CASE Observe
  <2> DEFINE docs == {page.doc}
  <2>1. tracer' = tracer \/ tracer' = [tracer EXCEPT !.state = "recording", !.tainted = 0, !.docs = docs]
    BY <1>5 DEF Observe
  <2>2. docs \subseteq Nat BY <1>2
  <2> HIDE DEF docs
  <2>3. CASE tracer' = [tracer EXCEPT !.state = "recording", !.tainted = 0, !.docs = docs]
    <3>1. 0 \in Nat /\ "recording" \in {"off", "recording", "paused", "finished"} OBVIOUS
    <3>2. tracer' \in Tracers BY <1>1, <2>2, <2>3, <3>1 DEF Tracers
    <3>3. tracer'.tainted = 0 BY <1>1, <2>3 DEF Tracers
    <3> QED BY <1>2, <1>5, <3>2, <3>3
  <2> QED BY <1>1, <1>5, <2>1, <2>3
<1>6. CASE PauseForSecret
  <2>1. tracer' = tracer \/ tracer' = [tracer EXCEPT !.state = "paused", !.tainted = eng.seen[1], !.docs = {}]
    BY <1>6 DEF PauseForSecret
  <2> QED BY <1>1, <1>2, <1>6, <2>1 DEF Tracers
<1>7. CASE Shoot
  <2> DEFINE shot == [secret |-> page.doc \in typed, masked |-> eng.typedAt # 0]
             shots == tracer.shots \cup {shot}
  <2>1. shot \in [secret : BOOLEAN, masked : BOOLEAN] OBVIOUS
  <2>2. tracer' = tracer \/ tracer' = [tracer EXCEPT !.shots = shots] BY <1>7 DEF Shoot
  <2> HIDE DEF shot
  <2>3. shots \subseteq [secret : BOOLEAN, masked : BOOLEAN] BY <1>1, <2>1 DEF Tracers
  <2> HIDE DEF shots
  <2>4. tracer' \in Tracers /\ tracer'.tainted = tracer.tainted BY <1>1, <2>2, <2>3 DEF Tracers
  <2> QED BY <1>1, <1>7, <2>4
<1>8. CASE Export
  <2>1. \/ tracer' = tracer
        \/ tracer' = [tracer EXCEPT !.state = "finished", !.saved = tracer.docs, !.docs = {}]
        \/ tracer' = [tracer EXCEPT !.state = "finished", !.withheld = "secret_detected", !.docs = {}]
        \/ tracer' = [tracer EXCEPT !.withheld = "secret_bearing_page"]
    BY <1>8 DEF Export, Exported
  <2>2. tracer' \in Tracers /\ tracer'.tainted = tracer.tainted BY <1>1, <2>1 DEF Tracers
  <2> QED BY <1>1, <1>8, <2>2
<1>9. CASE StartTrace \/ StopTrace
  <2> DEFINE docs == {page.doc}
  <2>1. \/ tracer' = tracer
        \/ tracer' = [tracer EXCEPT !.state = "recording", !.docs = docs]
        \/ tracer' = [tracer EXCEPT !.state = "off", !.docs = {}]
    BY <1>9 DEF StartTrace, StopTrace
  <2>2. docs \subseteq Nat BY <1>2
  <2> HIDE DEF docs
  <2>3. tracer' \in Tracers /\ tracer'.tainted = tracer.tainted BY <1>1, <2>1, <2>2 DEF Tracers
  <2> QED BY <1>1, <1>9, <2>3
<1> QED BY <1>3, <1>4, <1>5, <1>6, <1>7, <1>8, <1>9

\* What the run types, and what it starts and stops.
LEMMA EngineTyped ==
  ASSUME Types, EngineStep \/ Expire \/ Interrupt
  PROVE  typed' = typed \/ (Act /\ eng.pc = "type" /\ eng.pinned = page.doc /\ typed' = typed \cup {page.doc})
<1>1. CASE Quiet
  BY <1>1 DEF Quiet, ReadPage, Observe, PauseForSecret, Status, Begin, Act, Settle, Verify, Text, Wake,
              UrlMatches, Scan, Listen, NextDownload, Banner, Field, Pass, Fail, Shoot, Snapshot, Export,
              Release, Expire, verifyRest
<1>2. CASE Coming \/ Going \/ CutShort
  BY <1>2 DEF Coming, StartDriver, Launch, MakeWorkdir, OpenGateway, OpenContext, StartTrace, Attach, Going, Detach, StopTrace,
              CloseContext, FailToClose, CloseGateway, RemoveWorkdir, FailToRemove, CloseBrowser, FailToCloseBrowser,
              StopDriver, CutShort, LaunchFails, Unavailable, Interrupt, enterRest, leaveRest
<1>3. CASE Asking \/ Goto \/ Goes \/ Look BY <1>3 DEF Asking, Preflight, Guard, Goto, Goes, Look
<1> QED BY <1>1, <1>2, <1>3, EngineMoves

LEMMA EngineStop ==
  ASSUME Types, EngineStep \/ Expire \/ Interrupt
  PROVE  stop' \in Stops /\ (stop' = stop \/ Coming \/ Going \/ CutShort)
<1>1. stop \in Stops BY DEF Types, PageTypes
<1>2. CASE Quiet
  BY <1>1, <1>2 DEF Quiet, ReadPage, Observe, PauseForSecret, Status, Begin, Act, Settle, Verify, Text, Wake,
              UrlMatches, Scan, Listen, NextDownload, Banner, Field, Pass, Fail, Shoot, Snapshot, Export,
              Release, Expire, verifyRest
<1>3. CASE Asking \/ Goto \/ Goes \/ Look BY <1>1, <1>3 DEF Asking, Preflight, Guard, Goto, Goes, Look
<1>4. CASE Coming
  <2>1. \/ stop' = stop \/ stop' = [stop EXCEPT !.driver = TRUE] \/ stop' = [stop EXCEPT !.browser = TRUE]
        \/ stop' = [stop EXCEPT !.workdir = TRUE] \/ stop' = [stop EXCEPT !.context = TRUE]
    BY <1>4 DEF Coming, StartDriver, Launch, MakeWorkdir, OpenGateway, OpenContext, StartTrace, Attach
  <2> QED BY <1>1, <1>4, <2>1 DEF Stops
<1>5. CASE Going
  <2>1. \/ stop' = stop \/ stop' = [stop EXCEPT !.context = FALSE]
        \/ \E await \in Standing : stop' = [stop EXCEPT !.cut = stop.cut \cup {await}]
        \/ stop' = [stop EXCEPT !.workdir = FALSE] \/ stop' = [stop EXCEPT !.browser = FALSE, !.context = FALSE]
        \/ stop' = [stop EXCEPT !.driver = FALSE]
    <3>1. {"untrace", "uncontext", "unwork", "unbrowser"} \subseteq Standing BY DEF Standing, Closing, Quitting
    <3>2. CASE FailToClose \/ FailToRemove \/ FailToCloseBrowser
      BY <3>1, <3>2 DEF FailToClose, FailToRemove, FailToCloseBrowser
    <3>3. CASE Detach \/ StopTrace \/ CloseContext \/ CloseGateway
      BY <3>3 DEF Detach, StopTrace, CloseContext, CloseGateway
    <3>4. CASE RemoveWorkdir \/ CloseBrowser \/ StopDriver
      BY <3>4 DEF RemoveWorkdir, CloseBrowser, StopDriver
    <3> QED BY <1>5, <3>2, <3>3, <3>4 DEF Going
  <2> QED BY <1>1, <1>5, <2>1 DEF Stops
<1>6. CASE CutShort
  <2>1. CASE LaunchFails \/ Unavailable
    <3>1. stop' = stop \/ stop' = [stop EXCEPT !.driver = FALSE] BY <2>1 DEF LaunchFails, Unavailable
    <3> QED BY <1>1, <1>6, <3>1 DEF Stops
  <2>2. CASE Interrupt
    <3>1. stop.interrupts > 0 /\ stop'.interrupts = stop.interrupts - 1 BY <2>2 DEF Interrupt
    <3>2. stop.interrupts - 1 \in Nat BY <1>1, <3>1 DEF Stops
    <3>3. stop' \in Stops BY <1>1, <2>2, <3>2 DEF Interrupt, Stops
    <3> QED BY <1>6, <3>3
  <2> QED BY <1>6, <2>1, <2>2 DEF CutShort
<1> QED BY <1>2, <1>3, <1>4, <1>5, <1>6, EngineMoves

LEMMA TypesOfEngine ==
  ASSUME Types, EngineStep \/ Expire \/ Interrupt
  PROVE  Types'
<1>1. NetTypes' /\ EngTypes' BY EngineMoves, EngTypesStep DEF Moved
<1>2. page' \in Pages /\ page'.doc = page.doc /\ page'.nav <= Len(reqs') /\ page'.subs \subseteq DOMAIN reqs'
  BY EnginePage DEF SamePage
<1>3. typed' \subseteq 1..page'.doc
  <2>1. typed \subseteq 1..page.doc /\ page.doc \in Nat \ {0} BY DEF Types, PageTypes, Pages
  <2>2. typed' = typed \/ typed' = typed \cup {page.doc} BY EngineTyped
  <2>3. page.doc \in 1..page.doc /\ page'.doc = page.doc BY <1>2, <2>1
  <2> QED BY <2>1, <2>2, <2>3
<1> QED BY <1>1, <1>2, <1>3, EngineWatch, EngineTracer, EngineStop DEF Types, PageTypes

\* A response that is heard is one of a URL that occurs.
LEMMA HeardIsTyped ==
  ASSUME NetTypes, PageTypes, NEW i \in DOMAIN reqs
  PROVE  Heard(i) \in Watches
<1> DEFINE response == <<reqs[i].url, reqs[i].status>>
           responses == Append(watch.responses, response)
<1>1. watch \in Watches BY DEF PageTypes
<1>2. response \in (DOMAIN Written) \X Nat BY RequestsStay DEF Requests
<1>3. watch.responses \in Seq((DOMAIN Written) \X Nat) BY <1>1 DEF Watches
<1>4. responses \in Seq((DOMAIN Written) \X Nat)
  <2> HIDE DEF response
  <2> QED BY <1>2, <1>3
<1>5. Heard(i) = watch \/ Heard(i) = [watch EXCEPT !.responses = responses, !.arrived = TRUE]
  BY DEF Heard
<1> HIDE DEF responses
<1> QED BY <1>1, <1>4, <1>5 DEF Watches

LEMMA TypesOfPage ==
  ASSUME Types, PageStep
  PROVE  Types' /\ page'.doc >= page.doc
<1>1. NetTypes /\ EngTypes /\ PageTypes BY DEF Types
<1>2. NetTypes' /\ Grown /\ scenario' = scenario /\ eng' = eng /\ stop' = stop /\ typed' = typed
  BY PageMoves DEF Moved
<1>3. page \in Pages /\ page.doc \in Nat \ {0} /\ page.nav \in Nat /\ page.nav <= Len(reqs)
      /\ page.subs \subseteq DOMAIN reqs /\ reqs \in Seq(Requests) /\ watch \in Watches
  BY <1>1 DEF PageTypes, Pages, NetTypes
<1>4. page' \in Pages /\ page'.doc >= page.doc /\ page'.nav <= Len(reqs') /\ page'.subs \subseteq DOMAIN reqs'
  <2>1. CASE Commit
    <3>1. page' \in Pages /\ page'.doc = page.doc + 1 /\ page'.nav = 0 /\ page'.subs \subseteq DOMAIN reqs'
      BY <1>1, <2>1, CommitMoves
    <3>2. Len(reqs') \in Nat /\ page.doc + 1 >= page.doc BY <1>2, <1>3 DEF Grown
    <3> QED BY <3>1, <3>2
  <2>2. CASE Arrive /\ reqs' = reqs
    <3>1. PICK i \in page.subs : page' = [page EXCEPT !.subs = page.subs \ {i}] BY <2>2 DEF Arrive
    <3> DEFINE subs == page.subs \ {i}
    <3>2. subs \subseteq DOMAIN reqs /\ subs \subseteq Nat BY <1>3 DEF Pages
    <3>3. page' = [page EXCEPT !.subs = subs] BY <3>1
    <3> HIDE DEF subs
    <3>4. page' \in Pages /\ page'.doc = page.doc /\ page'.nav = page.nav /\ page'.subs = subs
      BY <1>3, <3>2, <3>3 DEF Pages
    <3> QED BY <1>3, <2>2, <3>2, <3>4
  <2>3. CASE Change /\ reqs' = reqs
    <3> DEFINE muts == page.muts + 1
               changes == Tail(page.changes)
               shown == Head(page.changes).shown
               banner == Head(page.changes).banner
    <3>1. page' = [page EXCEPT !.muts = muts, !.changes = changes, !.shown = shown, !.banner = banner]
      BY <2>3 DEF Change
    <3>2. page.changes # <<>> /\ page.changes \in Seq([shown : BOOLEAN, banner : BOOLEAN]) /\ page.muts \in Nat
      BY <1>3, <2>3 DEF Change, Pages
    <3>3. muts \in Nat /\ changes \in Seq([shown : BOOLEAN, banner : BOOLEAN])
          /\ Head(page.changes) \in [shown : BOOLEAN, banner : BOOLEAN]
      <4>1. ASSUME NEW S, NEW q \in Seq(S), q # <<>> PROVE Tail(q) \in Seq(S) /\ Head(q) \in S BY <4>1
      <4> DEFINE S == [shown : BOOLEAN, banner : BOOLEAN]
      <4>2. page.changes \in Seq(S) /\ page.changes # <<>> BY <3>2
      <4> HIDE DEF S
      <4>3. changes \in Seq(S) /\ Head(page.changes) \in S BY <4>1, <4>2
      <4> QED BY <3>2, <4>3 DEF S
    <3>4. shown \in BOOLEAN /\ banner \in BOOLEAN BY <3>3
    <3> HIDE DEF muts, changes, shown, banner
    <3>5. page' \in Pages /\ page'.doc = page.doc /\ page'.nav = page.nav /\ page'.subs = page.subs
      BY <1>3, <3>1, <3>3, <3>4 DEF Pages
    <3> QED BY <1>3, <2>3, <3>5
  <2>4. CASE SamePage
    BY <1>3, <2>4 DEF SamePage
  <2> QED BY <2>1, <2>2, <2>3, <2>4, PageMoves
<1>5. watch' \in Watches
  <2>1. CASE Commit BY <1>1, <1>3, <2>1, CommitMoves, HeardIsTyped
  <2>2. CASE Arrive
    <3>1. PICK i \in page.subs : watch' \in {watch, Heard(i)} BY <2>2 DEF Arrive
    <3> QED BY <1>1, <1>3, <3>1, HeardIsTyped
  <2>3. CASE Change \/ LeavePage \/ Fetch BY <1>3, <2>3 DEF Change, LeavePage, Fetch
  <2>4. CASE OpenPage
    <3>1. watch' = [watch EXCEPT !.opened = watch.opened + 1] BY <2>4 DEF OpenPage
    <3>2. watch.opened + 1 \in Nat BY <1>3 DEF Watches
    <3> QED BY <1>3, <3>1, <3>2 DEF Watches
  <2>5. CASE StartDownload
    <3>1. PICK e \in Effect("download") : watch' \in {watch, [watch EXCEPT !.downloads = Append(watch.downloads, e.url)]}
      BY <2>5 DEF StartDownload
    <3> DEFINE downloads == Append(watch.downloads, e.url)
    <3>2. e \in Effects BY <1>3, <3>1 DEF Effect, Pages
    <3>3. e.url \in {f.url : f \in Effects} BY <3>2
    <3>4. watch.downloads \in Seq({f.url : f \in Effects}) BY <1>3 DEF Watches
    <3>5. downloads \in Seq({f.url : f \in Effects}) BY <3>3, <3>4
    <3> HIDE DEF downloads
    <3>6. watch' = watch \/ watch' = [watch EXCEPT !.downloads = downloads] BY <3>1 DEF downloads
    <3> QED BY <1>3, <3>5, <3>6 DEF Watches
  <2> QED BY <2>1, <2>2, <2>3, <2>4, <2>5, PageMoves
<1>6. tracer' \in Tracers /\ tracer'.tainted <= page'.doc
  <2>1. tracer \in Tracers /\ tracer.tainted <= page.doc /\ tracer.tainted \in Nat BY <1>1 DEF PageTypes, Tracers
  <2> DEFINE docs == tracer.docs \cup {page.doc + 1}
  <2>2. docs \subseteq Nat BY <1>3, <2>1 DEF Tracers
  <2>3. tracer' = tracer \/ tracer' = [tracer EXCEPT !.docs = docs] BY <1>1, PageMoves, CommitMoves
  <2> HIDE DEF docs
  <2>4. tracer' \in Tracers /\ tracer'.tainted = tracer.tainted BY <2>1, <2>2, <2>3 DEF Tracers
  <2>5. page'.doc \in Nat BY <1>4 DEF Pages
  <2> QED BY <1>3, <1>4, <2>1, <2>4, <2>5
<1>7. typed' \subseteq 1..page'.doc
  <2>1. typed \subseteq 1..page.doc BY <1>1 DEF PageTypes
  <2>2. page'.doc \in Nat BY <1>4 DEF Pages
  <2> QED BY <1>2, <1>3, <1>4, <2>1, <2>2
<1>8. EngTypes'
  <2>1. eng \in Engines /\ Stays(eng, eng') /\ Step' = Step BY <1>1, <1>2 DEF EngTypes, Stays, Step
  <2>2. eng.load <= Len(reqs) /\ eng.load \in Nat /\ Len(reqs) \in Nat /\ Len(reqs') \in Nat /\ Len(reqs) <= Len(reqs')
    <3>1. reqs' \in Seq(Requests) /\ Len(reqs) <= Len(reqs') BY <1>2 DEF Grown
    <3>2. eng.load <= Len(reqs) /\ eng.load \in Nat BY <1>1 DEF EngTypes, Engines
    <3> QED BY <1>3, <3>1, <3>2
  <2>3. eng.load <= Len(reqs') BY <2>2
  <2>4. eng.pinned <= page'.doc /\ eng.seen[1] <= page'.doc
    <3>1. eng.pinned \in Nat /\ eng.seen[1] \in Nat BY <2>1 DEF Engines
    <3>2. page'.doc \in Nat BY <1>4 DEF Pages
    <3>3. eng.pinned <= page.doc /\ eng.seen[1] <= page.doc BY <1>1 DEF EngTypes
    <3> QED BY <1>3, <1>4, <3>1, <3>2, <3>3
  <2> QED BY <1>1, <1>2, <2>1, <2>3, <2>4 DEF EngTypes, Heading
<1>9. PageTypes' BY <1>1, <1>2, <1>4, <1>5, <1>6, <1>7 DEF PageTypes
<1> QED BY <1>2, <1>4, <1>8, <1>9 DEF Types

LEMMA TypesOfInit ==
  ASSUME Init
  PROVE  Types
<1>1. scenario \in Scenarios /\ {scenario.late, scenario.faults, scenario.interrupts} \subseteq Nat
      /\ scenario.changes \in Seq([shown : BOOLEAN, banner : BOOLEAN])
  BY ScenariosAssumption DEF Init, NetInit
<1>2. <<>> \in Seq(Requests) /\ <<>> \in Seq(Blocks) /\ <<>> \in Seq(Failures) /\ DOMAIN <<>> = {} /\ Len(<<>>) = 0
      /\ <<>> \in Seq((DOMAIN Written) \X Nat) /\ <<>> \in Seq({e.url : e \in Effects})
  OBVIOUS
<1>3. NetTypes
  <2>1. log \in Logs /\ DOMAIN log.blocks = {}
    BY <1>2 DEF Init, NetInit, EmptyLog, Logs
  <2>2. faults \in Nat /\ reqs = <<>> /\ open \in [gateway : BOOLEAN, filter : BOOLEAN]
    BY <1>1 DEF Init, NetInit
  <2> QED BY <1>1, <1>2, <2>1, <2>2 DEF NetTypes
<1>4. Len(scenario.steps) \in Nat BY <1>3, StepsAre
<1>5. eng \in Engines
  <2>1. "preflight" \in Places /\ "none" \in Purposes /\ "none" \in Results /\ 1 \in 1..MaxAttempts
    BY PlacesAre, ScenariosAssumption DEF Purposes, Results, Codes, Passed
  <2> QED BY <1>1, <2>1 DEF Init, Engines
<1>6. EngTypes
  <2>1. eng.pc = "preflight" /\ eng.step = 1 /\ eng.load = 0 /\ eng.pinned = 0 /\ eng.seen = <<0, 0>>
        /\ eng.typedAt = 0 /\ page.doc = 1 /\ reqs = <<>>
    BY DEF Init, NetInit
  <2>2. eng.pc \notin InStep /\ eng.pc \notin Reading /\ eng.pc \notin Navigating
    BY <2>1 DEF InStep, Navigating, Reading, Verifying, Ending, Looks
  <2> QED BY <1>2, <1>4, <1>5, <2>1, <2>2 DEF EngTypes, Heading
<1>7. PageTypes
  <2>1. page \in Pages /\ page.doc = 1 /\ page.nav = 0 /\ page.subs = {}
    BY <1>1 DEF Init, Pages
  <2>2. watch \in Watches BY <1>2 DEF Init, Watches
  <2>3. tracer \in Tracers /\ tracer.tainted = 0 BY DEF Init, Tracers
  <2>4. stop \in Stops BY <1>1 DEF Init, Stops
  <2>5. Len(reqs) = 0 /\ typed = {} BY <1>2 DEF Init, NetInit
  <2> QED BY <2>1, <2>2, <2>3, <2>4, <2>5 DEF PageTypes
<1> QED BY <1>3, <1>6, <1>7 DEF Types

\* Types: a run's session holds what its code can hold, for every workflow,
\* site and policy.
LEMMA TypesAlways == Spec => []Types
<1>1. Types /\ UNCHANGED vars => Types'
  BY DEF vars, netVars, sessionVars, Types, NetTypes, EngTypes, PageTypes, Heading, Step
<1>2. Types /\ [Next]_vars => Types'
  BY <1>1, TypesOfEngine, TypesOfPage, TypesOfNetSteps DEF Next
<1> QED BY TypesOfInit, <1>2, PTL DEF Spec

----------------------------------------------------------------------------
(* The network's invariant holds.                                           *)

LEMMA UnderwayIs == Underway = {"asked", "connecting", "open", "answered"} /\ {"goto", "leave"} = MainDocuments
BY DEF Underway, MainDocuments

LEMMA NetInvOfInit ==
  ASSUME Init
  PROVE  NetInv
<1>1. reqs = <<>> /\ page.nav = 0 /\ page.url = "blank" /\ log = EmptyLog
      /\ eng.pc = "preflight" /\ ~eng.refused /\ eng.looked = 0
  BY DEF Init, NetInit
<1>2. "blank" \notin DOMAIN Written BY ScenariosAssumption
<1>3. DOMAIN reqs = {} BY <1>1
<1>4. log.seq = 0 BY <1>1 DEF EmptyLog
<1> QED BY <1>1, <1>2, <1>3, <1>4 DEF NetInv, Filtered, Told, Closed

\* What the network does to a request and to the log keeps every refusal told.
LEMMA NetInvOfNetSteps ==
  ASSUME Types, NetInv, NetSteps
  PROVE  NetInv'
<1>1. NetTypes /\ EngTypes /\ PageTypes BY DEF Types
<1>2. NetStep /\ eng' = eng /\ page' = page BY DEF NetSteps, sessionVars
<1>3. PICK i \in DOMAIN reqs : Decide(i) \/ Resolve(i) \/ Connect(i) \/ Tell(i) \/ Answer(i)
  BY <1>2 DEF NetStep
<1>4. PICK r \in Requests : MovesOn(i, r) BY <1>1, <1>3, NetMoves
<1>5. LogsMore /\ UNCHANGED <<scenario, open>> BY <1>1, <1>3, NetMoves
<1>6. /\ DOMAIN reqs' = DOMAIN reqs /\ \A j \in DOMAIN reqs : reqs'[j] = IF j = i THEN r ELSE reqs[j]
  BY <1>1, <1>4, RequestsStay DEF MovesOn
<1>7. /\ log.seq \in Nat /\ log'.seq \in Nat /\ log.seq <= log'.seq
      /\ \A j \in DOMAIN log'.blocks :
           (j \in DOMAIN log.blocks /\ log'.blocks[j] = log.blocks[j]) \/ log'.blocks[j].at = log.seq + 1
      /\ log.blocks # <<>> => log'.blocks # <<>>
  <2>1. log.seq \in Nat BY <1>1 DEF NetTypes, Logs
  <2>2. CASE log' = log BY <2>1, <2>2
  <2>3. CASE \E layer \in {"document", "connection"}, rule \in Rules : log' = WithBlock(layer, rule)
    BY <1>1, <2>1, <2>3, LogsStay
  <2>4. CASE \E reason \in Reasons : log' = WithFailure(reason)
    BY <1>1, <2>1, <2>4, LogsStay
  <2> QED BY <1>5, <2>2, <2>3, <2>4 DEF LogsMore
<1>8. Filtered'
  <2>1. ASSUME NEW j \in DOMAIN reqs', reqs'[j].kind \in MainDocuments, reqs'[j].stage \in Underway
        PROVE  Passing(reqs'[j].url)
    <3>1. CASE j # i BY <1>6, <2>1, <3>1, UnderwayIs DEF NetInv, Filtered
    <3>2. CASE j = i
      <4>1. reqs'[j] = r BY <1>6, <2>1, <3>2
      <4>2. r.kind = reqs[i].kind /\ r.url = reqs[i].url
            /\ (reqs[i].stage \in Underway \/ CheckNavigation(Url[r.url], r.kind \in MainDocuments) = Passed)
        BY <1>4, <2>1, <4>1 DEF MovesOn
      <4>3. CASE reqs[i].stage \in Underway
        BY <2>1, <4>1, <4>2, <4>3, UnderwayIs DEF NetInv, Filtered
      <4>4. CASE CheckNavigation(Url[r.url], r.kind \in MainDocuments) = Passed
        <5>1. (r.kind \in MainDocuments) = TRUE BY <2>1, <4>1
        <5> QED BY <4>1, <4>4, <5>1 DEF Passing
      <4> QED BY <4>2, <4>3, <4>4
    <3> QED BY <3>1, <3>2
  <2>2. page'.nav # 0 => reqs'[page'.nav].kind \in MainDocuments
    <3>1. page.nav # 0 => page.nav \in DOMAIN reqs
      BY <1>1 DEF PageTypes, Pages, NetTypes
    <3> QED BY <1>2, <1>4, <1>6, <3>1 DEF NetInv, Filtered, MovesOn
  <2>3. page'.url \in DOMAIN Written => Passing(page'.url) BY <1>2 DEF NetInv, Filtered
  <2> QED BY <2>1, <2>2, <2>3, UnderwayIs DEF Filtered, Passing
<1>9. Told'
  <2>1. eng.pc = "loading" /\ reqs'[eng.load].refused => log'.blocks # <<>>
    <3>1. eng.pc = "loading" => eng.load \in DOMAIN reqs BY <1>1 DEF EngTypes, Engines, NetTypes
    <3> QED BY <1>4, <1>6, <1>7, <3>1 DEF NetInv, Told, MovesOn
  <2>2. eng.looked <= log'.seq
    <3>1. eng.looked \in Nat /\ eng.looked <= log.seq BY <1>1 DEF EngTypes, Engines, NetInv, Told
    <3> QED BY <1>7, <3>1
  <2>3. eng.pc = "passed" => \A j \in DOMAIN log'.blocks : log'.blocks[j].at > eng.looked
    <3>1. eng.looked \in Nat /\ eng.looked <= log.seq BY <1>1 DEF EngTypes, Engines, NetInv, Told
    <3>2. log.seq + 1 > eng.looked BY <1>7, <3>1
    <3> QED BY <1>7, <3>2 DEF NetInv, Told
  <2>4. eng.refused => /\ eng.pc \in Ending \cup Leaving \/ Heading("export")
                     /\ eng.result \in {"egress_blocked", "interrupted"}
    BY DEF NetInv, Told
  <2> QED BY <1>2, <2>1, <2>2, <2>3, <2>4 DEF Told, Heading
<1>10. Closed'
  BY <1>4, <1>5, <1>6 DEF NetInv, Closed, MovesOn
<1> QED BY <1>8, <1>9, <1>10 DEF NetInv

\* What the session does with its requests keeps the filter's promise.
LEMMA FilteredOn ==
  ASSUME Types, NetInv, Grown, SamePage \/ Commit
  PROVE  Filtered'
<1>1. NetTypes /\ PageTypes /\ EngTypes BY DEF Types
<1>2. ASSUME NEW j \in DOMAIN reqs', reqs'[j].kind \in MainDocuments,
             reqs'[j].stage \in {"asked", "connecting", "open", "answered"}
      PROVE  Passing(reqs'[j].url)
  <2>1. j \in DOMAIN reqs /\ Carried(reqs'[j], reqs[j]) BY <1>2 DEF Grown, Fresh
  <2>2. reqs[j].kind \in MainDocuments /\ reqs[j].stage = reqs'[j].stage /\ reqs[j].url = reqs'[j].url
    BY <1>2, <2>1 DEF Carried
  <2> QED BY <1>2, <2>1, <2>2 DEF NetInv, Filtered
<1>3. page.nav # 0 => page.nav \in DOMAIN reqs BY <1>1 DEF PageTypes, Pages, NetTypes
<1>4. page'.nav # 0 => reqs'[page'.nav].kind \in MainDocuments
  <2>1. CASE SamePage /\ page'.nav = page.nav
    <3>1. page.nav # 0 => page.nav \in DOMAIN reqs' /\ Carried(reqs'[page.nav], reqs[page.nav])
      BY <1>3 DEF Grown
    <3> QED BY <2>1, <3>1 DEF NetInv, Filtered, Carried
  <2>2. CASE SamePage /\ page'.nav # page.nav BY <2>2 DEF SamePage
  <2>3. CASE Commit BY <1>1, <2>3, CommitMoves
  <2> QED BY <2>1, <2>2, <2>3
<1>5. page'.url \in DOMAIN Written => Passing(page'.url)
  <2>1. CASE SamePage BY <2>1 DEF SamePage, NetInv, Filtered
  <2>2. CASE Commit
    <3>1. page.nav \in DOMAIN reqs /\ page.nav # 0 BY <1>1, <2>2, CommitMoves DEF Commit
    <3>2. page'.url = "error" \/ (page'.url = reqs[page.nav].url /\ reqs[page.nav].stage = "answered")
      BY <1>1, <2>2, CommitMoves
    <3>3. "error" \notin DOMAIN Written BY ScenariosAssumption
    <3> QED BY <3>1, <3>2, <3>3 DEF NetInv, Filtered
  <2> QED BY <2>1, <2>2
<1> QED BY <1>2, <1>4, <1>5 DEF Filtered, Passing

LEMMA NetInvOfPage ==
  ASSUME Types, NetInv, PageStep
  PROVE  NetInv'
<1>1. Grown /\ eng' = eng /\ open' = open /\ log' = log BY PageMoves DEF Moved
<1>2. SamePage \/ Commit \/ (Arrive /\ reqs' = reqs) \/ (Change /\ reqs' = reqs) BY PageMoves
<1>3. Filtered'
  <2>1. CASE SamePage \/ Commit BY <1>1, <2>1, FilteredOn
  <2>2. CASE reqs' = reqs /\ (Arrive \/ Change)
    <3>1. page'.nav = page.nav /\ page'.url = page.url
      BY <2>2 DEF Arrive, Change, Types, PageTypes, Pages
    <3> QED BY <2>2, <3>1 DEF NetInv, Filtered, Passing
  <2> QED BY <1>2, <2>1, <2>2
<1>4. Told'
  <2>1. eng.pc = "loading" => eng.load \in DOMAIN reqs BY DEF Types, EngTypes, Engines, NetTypes
  <2>2. eng.pc = "loading" /\ reqs'[eng.load].refused => log.blocks # <<>>
    BY <1>1, <2>1 DEF Grown, Carried, NetInv, Told
  <2> QED BY <1>1, <2>2 DEF NetInv, Told, Heading
<1>5. Closed' BY <1>1 DEF NetInv, Closed, Grown, Carried, Fresh
<1> QED BY <1>3, <1>4, <1>5 DEF NetInv

\* A load whose refusal the run has not yet seen left it in the log.
LEMMA LoadingIsTold ==
  ASSUME Types, NetInv, EngineStep \/ Expire \/ Interrupt
  PROVE  eng'.pc = "loading" /\ reqs'[eng'.load].refused => log'.blocks # <<>>
<1>1. NetTypes /\ EngTypes /\ PageTypes /\ eng \in Engines BY DEF Types, EngTypes
<1>2. Grown BY EngineMoves DEF Moved
<1>3. CASE Goto
  <2>1. eng.pc \in Navigating /\ eng.pc \in InStep BY <1>3 DEF Goto, Navigating, InStep
  <2>2. Step.url \in DOMAIN Written BY <1>1, <2>1, StepIsKnown DEF EngTypes
  <2>3. StartMain("goto", Step.url) BY <1>3 DEF Goto
  <2>4. ~reqs'[Len(reqs) + 1].refused BY <1>1, <2>2, <2>3, MainStarts DEF MainDocuments
  <2> QED BY <1>1, <1>3, <2>4, GotoMoves
<1>4. CASE Goes \/ Look
  BY <1>1, <1>4, NavigatingMoves, LookMoves DEF Goes, Guard, Status
<1>5. CASE ~Goto /\ ~Goes /\ ~Look
  <2>1. log' = log BY <1>5, EngineMoves DEF netVars
  <2>2. CASE Stepping
    <3>1. eng'.pc # "loading"
      BY <1>1, <1>5, <2>2, PreflightMoves, BeginMoves, ReleaseMoves DEF Stepping, PageTypes
    <3> QED BY <3>1
  <2>3. CASE ~Stepping
    <3>1. eng'.pc = "loading" => eng.pc = "loading" /\ eng'.load = eng.load
      BY <2>3, OnwardMoves DEF Onward, Stays
    <3>2. eng.pc = "loading" => eng.load \in DOMAIN reqs BY <1>1 DEF EngTypes, Engines, NetTypes
    <3> QED BY <1>2, <2>1, <3>1, <3>2 DEF Grown, Carried, NetInv, Told
  <2> QED BY <2>2, <2>3
<1> QED BY <1>3, <1>4, <1>5

\* A refusal that the run remembers of its load is what it ends with.
LEMMA RefusalIsTold ==
  ASSUME Types, NetInv, EngineStep \/ Expire \/ Interrupt
  PROVE  eng'.refused => /\ eng'.pc \in Ending \cup Leaving \/ (eng'.pc = "export" \/ (eng'.pc \in Reading /\ eng'.then = "export"))
                         /\ eng'.result \in {"egress_blocked", "interrupted"}
<1> DEFINE Ended(e) == /\ e.pc \in Ending \cup Leaving \/ (e.pc \in Reading /\ e.then = "export")
                       /\ e.result \in {"egress_blocked", "interrupted"}
<1>1. NetTypes /\ EngTypes /\ PageTypes /\ eng \in Engines /\ page \in Pages
  BY DEF Types, EngTypes, PageTypes
<1>2. eng.refused => Ended(eng)
  BY DEF NetInv, Told, Heading, Ending
<1>3. Ended(eng) => eng.pc \in Ending \cup Leaving \cup Reading /\ eng.result # "none"
  OBVIOUS
<1>4. Ending \cap (Navigating \cup Verifying \cup Looks \cup Starting \cup {"step", "act", "type", "settle", "pause", "passed"}) = {}
      /\ Reading \cap (Navigating \cup Verifying \cup Looks \cup Starting \cup {"step", "act", "type", "settle", "pause", "passed"}) = {}
      /\ Leaving \cap (Navigating \cup Verifying \cup Looks \cup Starting \cup {"step", "act", "type", "settle", "pause", "passed"}) = {}
  BY DEF Ending, Navigating, Verifying, Looks, Starting, Reading, Leaving
<1>5. eng.refused => eng.pc \notin Navigating \cup Verifying \cup Looks \cup Starting \cup {"step", "act", "type", "settle", "pause", "passed"}
  BY <1>2, <1>3, <1>4
<1>6. CASE ReadPage
  <2>1. eng'.refused = eng.refused /\ eng.pc \in Reading /\ eng'.then = eng.then
    BY <1>1, <1>6, ReadPageMoves DEF Reading
  <2>2. ASSUME eng.refused PROVE Ended(eng')
    <3>1. Ended(eng) BY <1>2, <2>2
    <3>2. eng.then = "export" BY <2>1, <3>1 DEF Ending, Leaving, Reading
    <3> QED BY <1>1, <1>6, <3>1, <3>2, ReadPageMoves DEF Reading, Ending
  <2> QED BY <2>1, <2>2
<1>7. CASE Observe \/ PauseForSecret \/ Shoot \/ Export \/ Pass \/ Fail \/ UrlMatches \/ Scan \/ Listen
             \/ NextDownload \/ Field
  <2>1. eng'.refused = eng.refused /\ eng'.result = eng.result BY <1>1, <1>7, PlainMoves DEF Recalls
  <2>2. ASSUME eng.refused PROVE eng'.pc \in Ending
    <3>1. Ended(eng) BY <1>2, <2>2
    <3>2. eng.pc = "observe" => eng.then = "export" BY <3>1 DEF Ending, Leaving
    <3> QED BY <1>1, <1>3, <1>5, <1>7, <2>2, <3>1, <3>2, PlainMoves DEF Ending
  <2> QED BY <1>2, <2>1, <2>2
<1>8. CASE Settle \/ Snapshot \/ Verify \/ Wake
  <2>1. eng'.refused = eng.refused /\ eng'.result = eng.result BY <1>1, <1>8, ReadingMoves DEF Recalls
  <2>2. ASSUME eng.refused PROVE eng'.pc \in Ending \/ (eng'.pc \in Reading /\ eng'.then = "export")
    <3>1. eng.pc \notin {"settle", "verify", "asleep"} BY <1>5, <2>2 DEF Verifying
    <3> QED BY <1>1, <1>8, <3>1, ReadingMoves DEF Ending, Reading
  <2> QED BY <1>2, <2>1, <2>2
<1>9. CASE Guard \/ Status
  <2>1. eng'.refused = eng.refused /\ eng.pc \in Navigating
    BY <1>1, <1>9, NavigatingMoves DEF Navigating, Guard, Status
  <2> QED BY <1>5, <2>1
<1>10. CASE Goes
  <2>1. eng.pc = "loading" /\ ~eng.refused BY <1>5, <1>10 DEF Goes, Navigating
  <2>2. \/ ~eng'.refused
        \/ eng'.refused = reqs[eng.load].refused
           /\ (log.blocks # <<>> => eng'.pc = "failing" /\ eng'.result = "egress_blocked")
    BY <1>1, <1>10, <2>1, NavigatingMoves DEF Guard, Status
  <2>3. reqs[eng.load].refused => log.blocks # <<>> BY <2>1 DEF NetInv, Told
  <2> QED BY <2>2, <2>3 DEF Ending
<1>11. CASE Look \/ Text \/ Banner \/ Act
  <2>1. eng'.refused = eng.refused /\ eng.pc \in Looks \cup Verifying \cup {"act", "type"}
    BY <1>1, <1>11, LookMoves, LookedAtMoves, ActMoves DEF Recalls, Verifying
  <2> QED BY <1>5, <2>1
<1>12. CASE Expire
  <2>1. eng'.refused = eng.refused /\ eng'.pc = eng.pc /\ eng'.then = eng.then /\ eng'.result = eng.result
    BY <1>1, <1>12, ExpireMoves DEF Recalls
  <2> QED BY <1>2, <2>1
<1>13. CASE Coming \/ Going
  <2>1. eng'.refused = eng.refused /\ eng'.result = eng.result /\ (eng.pc \in Starting \/ eng'.pc \in Leaving)
    BY <1>1, <1>13, ComingGoingMoves DEF Recalls
  <2> QED BY <1>2, <1>5, <2>1
<1>14. CASE CutShort
  <2>1. eng'.refused = eng.refused /\ eng'.pc \in Leaving
        /\ (eng.pc \in Starting \/ eng'.result = IF eng.result = "none" THEN "interrupted" ELSE eng.result)
    BY <1>1, <1>14, CutShortMoves DEF Recalls
  <2> QED BY <1>2, <1>5, <2>1
<1>15. CASE Preflight \/ Goto
  <2>1. eng'.refused = eng.refused /\ eng.pc \in Starting \cup Navigating
    BY <1>1, <1>15, PreflightMoves, GotoMoves DEF Recalls, Starting, Navigating
  <2> QED BY <1>5, <2>1
<1>16. CASE Begin
  <2>1. eng'.refused \in {eng.refused, FALSE} /\ eng.pc = "step" BY <1>1, <1>16, BeginMoves
  <2> QED BY <1>5, <2>1
<1>17. CASE Release
  <2>1. eng'.refused = eng.refused /\ eng'.result = eng.result
        /\ (eng.result = "none" \/ eng'.pc = "detach")
    BY <1>1, <1>17, ReleaseMoves DEF Recalls
  <2> QED BY <1>2, <1>3, <2>1 DEF Leaving
<1> QED
  BY <1>6, <1>7, <1>8, <1>9, <1>10, <1>11, <1>12, <1>13, <1>14, <1>15, <1>16, <1>17, EngineMoves
  DEF Quiet, Asking

\* A step has passed only when the run has just looked.
LEMMA PassedHasLooked ==
  ASSUME Types, EngineStep \/ Expire \/ Interrupt
  PROVE  /\ eng'.pc = "passed" => Look /\ log' = Taken
         /\ eng'.looked \in {eng.looked, log.seq}
<1>1. NetTypes /\ EngTypes /\ PageTypes /\ eng \in Engines /\ page \in Pages
  BY DEF Types, EngTypes, PageTypes
<1>2. CASE ReadPage BY <1>1, <1>2, ReadPageMoves
<1>3. CASE Observe \/ PauseForSecret \/ Shoot \/ Export \/ Pass \/ Fail \/ UrlMatches \/ Scan \/ Listen
             \/ NextDownload \/ Field
  <2>1. eng.then # "passed" BY <1>1 DEF Engines, Purposes
  <2> QED BY <1>1, <1>3, <2>1, PlainMoves DEF Recalls
<1>4. CASE Settle \/ Snapshot \/ Verify \/ Wake BY <1>1, <1>4, ReadingMoves DEF Recalls
<1>5. CASE Guard \/ Status \/ Goes BY <1>1, <1>5, NavigatingMoves
<1>6. CASE Look BY <1>1, <1>6, LookMoves
<1>7. CASE Text \/ Banner \/ Act BY <1>1, <1>7, LookedAtMoves, ActMoves DEF Recalls
<1>8. CASE Expire BY <1>1, <1>8, ExpireMoves DEF Recalls, Waits, Reading
<1>9. CASE Coming \/ Going \/ CutShort
  BY <1>1, <1>9, ComingGoingMoves, CutShortMoves DEF Recalls, Starting, Leaving
<1>10. CASE Preflight \/ Goto \/ Begin \/ Release
  BY <1>1, <1>10, PreflightMoves, GotoMoves, BeginMoves, ReleaseMoves DEF Recalls
<1> QED
  BY <1>2, <1>3, <1>4, <1>5, <1>6, <1>7, <1>8, <1>9, <1>10, EngineMoves DEF Quiet, Asking

LEMMA NetInvOfEngine ==
  ASSUME Types, NetInv, EngineStep \/ Expire \/ Interrupt
  PROVE  NetInv'
<1>1. NetTypes /\ EngTypes /\ Grown BY EngineMoves DEF Types, Moved
<1>2. Filtered' BY <1>1, EnginePage, FilteredOn
<1>3. log.seq \in Nat /\ log'.seq = log.seq
  <2>1. log' = log \/ log' = Taken
    BY EngineMoves DEF netVars, Goes, GotoFailed, Look
  <2> QED BY <1>1, <2>1, LogsStay DEF NetTypes, Logs
<1>4. Told'
  <2>1. eng'.looked <= log'.seq
    <3>1. eng.looked <= log.seq BY DEF NetInv, Told
    <3> QED BY <1>3, <3>1, PassedHasLooked
  <2>2. eng'.pc = "passed" => \A i \in DOMAIN log'.blocks : log'.blocks[i].at > eng'.looked
    BY <1>1, PassedHasLooked, LogsStay
  <2> QED BY <2>1, <2>2, LoadingIsTold, RefusalIsTold DEF Told, Heading
<1>5. Closed'
  <2>1. CASE ~open.gateway BY <1>1, <2>1 DEF NetInv, Closed, Grown, Carried, Fresh
  <2>2. CASE CloseGateway
    <3>1. \A j \in DOMAIN reqs : reqs[j] \in Requests BY <1>1, RequestsStay
    <3>2. reqs' = [j \in DOMAIN reqs |-> [reqs[j] EXCEPT !.live = FALSE,
                     !.stage = IF @ \in {"answered", "failed"} THEN @ ELSE "cut"]]
      BY <2>2 DEF CloseGateway
    <3>3. \A r \in Requests :
            [r EXCEPT !.live = FALSE, !.stage = IF @ \in {"answered", "failed"} THEN @ ELSE "cut"].stage
              \notin {"connecting", "open"}
      BY DEF Requests
    <3>4. \A j \in DOMAIN reqs' : reqs'[j].stage \notin {"connecting", "open"} BY <3>1, <3>2, <3>3
    <3> QED BY <3>4 DEF Closed
  <2>3. CASE open.gateway /\ CutShort
    <3>1. CASE LaunchFails \/ Unavailable
      <4>1. open' = open BY <3>1 DEF LaunchFails, Unavailable
      <4> QED BY <2>3, <4>1 DEF Closed
    <3>2. CASE Interrupt
      <4>1. \E gateway, filter \in BOOLEAN :
              (open.gateway => gateway) /\ open' = [gateway |-> gateway, filter |-> filter]
        BY <3>2, Zenon DEF Interrupt
      <4>2. open'.gateway BY <2>3, <4>1
      <4> QED BY <4>2 DEF Closed
    <3> QED BY <2>3, <3>1, <3>2 DEF CutShort
  <2>4. CASE open.gateway /\ ~CloseGateway /\ ~CutShort
    <3>1. open'.gateway
      <4>1. open' \in {open, [open EXCEPT !.gateway = TRUE], [open EXCEPT !.filter = TRUE],
                       [open EXCEPT !.filter = FALSE]}
        BY <2>4, EngineMoves
        DEF netVars, Coming, StartDriver, Launch, MakeWorkdir, OpenGateway, OpenContext, StartTrace, Attach, Going,
            Detach, StopTrace, CloseContext, FailToClose, RemoveWorkdir, FailToRemove, CloseBrowser,
            FailToCloseBrowser, StopDriver
      <4>2. open \in [gateway : BOOLEAN, filter : BOOLEAN] BY <1>1 DEF NetTypes
      <4> QED BY <2>4, <4>1, <4>2
    <3> QED BY <3>1 DEF Closed
  <2> QED BY <2>1, <2>2, <2>3, <2>4
<1> QED BY <1>2, <1>4, <1>5 DEF NetInv

LEMMA NetInvAlways == Spec => [](Types /\ NetInv)
<1>1. Types /\ NetInv /\ UNCHANGED vars => NetInv'
  BY DEF vars, netVars, sessionVars, NetInv, Filtered, Told, Closed, Heading, Passing
<1>2. Types /\ NetInv /\ [Next]_vars => NetInv'
  BY <1>1, NetInvOfEngine, NetInvOfPage, NetInvOfNetSteps DEF Next
<1> QED BY TypesAlways, NetInvOfInit, <1>2, PTL DEF Spec

LEMMA TypesAreOK ==
  ASSUME Types
  PROVE  TypeOK
<1>1. NetTypes /\ EngTypes /\ PageTypes BY DEF Types
<1>2. /\ eng.step \in Nat \ {0} /\ eng.attempt \in 1..MaxAttempts /\ eng.check \in Nat \ {0} /\ eng.late \in Nat
      /\ eng.load \in Nat /\ eng.pinned \in Nat /\ eng.typedAt \in Nat
  BY <1>1 DEF EngTypes, Engines
<1>3. /\ eng.step <= Len(scenario.steps) + 1 /\ eng.load <= Len(reqs) /\ eng.pinned <= page.doc
      /\ eng.typedAt <= eng.step
  BY <1>1 DEF EngTypes
<1>4. Len(scenario.steps) \in Nat /\ Len(reqs) \in Nat
  <2>1. reqs \in Seq(Requests) BY <1>1 DEF NetTypes
  <2> QED BY <1>1, <2>1, StepsAre
<1>5. page.doc \in Nat /\ page.nav \in Nat /\ page.nav <= Len(reqs) /\ page.subs \subseteq DOMAIN reqs
  BY <1>1 DEF PageTypes, Pages
<1>6. /\ eng.step \in 1..(Len(scenario.steps) + 1) /\ eng.load \in 0..Len(reqs) /\ page.nav \in 0..Len(reqs)
      /\ eng.pinned \in 0..page.doc /\ eng.typedAt \in 0..eng.step
  BY <1>2, <1>3, <1>4, <1>5
<1>7. \A i \in DOMAIN reqs : reqs[i].url \in DOMAIN Url /\ reqs[i].stage \in Stages
  BY <1>1, RequestsStay DEF Requests, Url
<1>8. faults \in Nat /\ \A i \in DOMAIN log.blocks : log.blocks[i].at \in 1..log.seq BY <1>1 DEF NetTypes
<1>9. /\ tracer.state \in {"off", "recording", "paused", "finished"} /\ tracer.tainted \in Nat
      /\ tracer.withheld \in {"none", "secret_bearing_page", "secret_detected"}
  BY <1>1 DEF PageTypes, Tracers
<1>10. tracer.tainted \in 0..page.doc BY <1>1, <1>5, <1>9 DEF PageTypes
<1>11. typed \subseteq 1..page.doc /\ watch.on \subseteq {"response", "download"}
  BY <1>1 DEF PageTypes, Watches
<1>12. stop.interrupts \in Nat
       /\ {stop.driver, stop.browser, stop.workdir, stop.context} \subseteq BOOLEAN
       /\ stop.cut \subseteq Standing
  BY <1>1 DEF PageTypes, Stops
<1>13. {open.gateway, open.filter} \subseteq BOOLEAN BY <1>1 DEF NetTypes
<1> QED BY <1>2, <1>5, <1>6, <1>7, <1>8, <1>9, <1>10, <1>11, <1>12, <1>13 DEF TypeOK

\* Whatever names resolve to, from one lookup to the next, and wherever sites
\* redirect: the gateway connects to addresses the policy allows, a main document
\* comes from the allowlist, and what was refused is what the run reports.
THEOREM EgressHolds == Spec => []EgressIsHeld
<1>1. ASSUME Types, NetInv PROVE EgressIsHeld
  <2>1. NetTypes /\ PageTypes BY <1>1 DEF Types
  <2>2. DOMAIN Url = DOMAIN Written BY DEF Url
  <2>3. ReachesOnlyAllowed
    <3> SUFFICES ASSUME NEW i \in DOMAIN reqs, NEW address \in reqs[i].via, Refusable(address)
                 PROVE  \E port \in {u.port : u \in Range(Url)} : <<address, port>> \in Exceptions
      BY DEF ReachesOnlyAllowed
    <3>1. address \in Reachable BY <2>1, RequestsStay DEF Requests
    <3>2. PICK name \in DOMAIN Written : <<address, Url[name].port>> \in Exceptions BY <3>1 DEF Reachable
    <3>3. Url[name] \in Range(Url) BY <2>2, <3>2 DEF Range
    <3> QED BY <3>2, <3>3
  <2>4. ShowsOnlyAllowed BY <1>1, <2>2, PassingIsAllowed DEF NetInv, Filtered, ShowsOnlyAllowed
  <2>5. RefusalsAreTold BY <1>1 DEF NetInv, Told, RefusalsAreTold
  <2> QED BY <1>1, <2>3, <2>4, <2>5, TypesAreOK DEF EgressIsHeld
<1> QED BY <1>1, NetInvAlways, PTL

----------------------------------------------------------------------------
(* The evidence's invariant holds.                                          *)

\* What a step of the run does to what its evidence rests on: the page it has
\* read, the step that typed a secret, and whether it has failed.
Remembers ==
  /\ eng'.typedAt = eng.typedAt \/ (Begin /\ eng'.typedAt = eng.step)
  /\ eng'.seen = eng.seen \/ (eng'.pc = "observe" /\ eng'.seen = Epoch)
  /\ eng'.pc \in Starting => eng.pc \in Starting
  /\ eng'.pc = "observe" => eng'.pinned = eng.pinned /\ (eng'.seen = Epoch \/ eng.pc = "observe")
  /\ eng'.pc = "pause" => Observe /\ eng'.pinned = eng.pinned
  /\ eng'.pc = "type" => PauseForSecret /\ eng'.pinned = eng.pinned
  /\ Heading("pause")' => Heading("pause") \/ (Begin /\ eng'.typedAt = eng.step)
  /\ eng.result # "none" => eng'.result # "none"
  /\ eng'.pc \in {"failing", "snapshot"} \/ Heading("export")' => eng'.result # "none"
  /\ eng.pc \in Leaving \cup {"release"} /\ eng.result # "none" => eng'.pc \in Leaving \cup {"release"}

LEMMA RunRemembers ==
  ASSUME Types, Explained, EngineStep \/ Expire \/ Interrupt
  PROVE  Remembers
<1>1. NetTypes /\ EngTypes /\ PageTypes /\ eng \in Engines /\ page \in Pages
  BY DEF Types, EngTypes, PageTypes
<1>2. eng.pc \in {"failing", "snapshot"} \/ Heading("export") => eng.result # "none" BY DEF Explained
<1>3. CASE ReadPage
  BY <1>1, <1>2, <1>3, ReadPageMoves DEF Remembers, Stays, Heading, Reading, Starting, Leaving
<1>4. CASE Observe
  <2>1. eng.pc = "observe" BY <1>4 DEF Observe
  <2>2. Stays(eng, eng') /\ Recalls(eng, eng') /\ eng'.result = eng.result /\ eng'.then = eng.then /\ eng'.pc = eng.then
    BY <1>1, <1>4, <2>1, PlainMoves DEF Verifying
  <2>3. eng.then \in Purposes BY <1>1 DEF Engines
  <2> QED BY <1>2, <1>4, <2>1, <2>2, <2>3 DEF Remembers, Stays, Recalls, Heading, Reading, Purposes, Starting, Leaving
<1>5. CASE PauseForSecret \/ Shoot \/ Export \/ Pass \/ Fail
  <2>1. eng.pc \in {"pause", "shoot", "export", "passed", "failing"}
    BY <1>5 DEF PauseForSecret, Shoot, Export, Pass, Fail
  <2>2. /\ Stays(eng, eng') /\ Recalls(eng, eng') /\ eng'.result = eng.result /\ eng'.then = eng.then
        /\ \/ PauseForSecret /\ eng.pc = "pause" /\ eng'.pc = "type"
           \/ eng'.pc = "snapshot" /\ eng.result # "none"
           \/ eng'.pc \in {"release", "shoot"}
    BY <1>1, <1>5, <2>1, PlainMoves DEF Verifying
  <2> QED BY <1>5, <2>1, <2>2 DEF Remembers, Stays, Recalls, Heading, Reading, Starting, Leaving
<1>6. CASE UrlMatches \/ Scan \/ Listen \/ NextDownload \/ Field
  <2>1. eng.pc \in Verifying
    BY <1>6 DEF UrlMatches, Scan, Listen, NextDownload, Field, Verifying
  <2>2. /\ Stays(eng, eng') /\ Recalls(eng, eng') /\ eng'.result = eng.result /\ eng'.then = eng.then
        /\ eng'.pc \in {"verify", "lookfail", "listening", "response"}
    BY <1>1, <1>6, <2>1, PlainMoves DEF Verifying
  <2> QED BY <2>1, <2>2 DEF Remembers, Stays, Recalls, Heading, Reading, Verifying, Starting, Leaving
<1>7. CASE Settle \/ Snapshot \/ Verify \/ Wake
  BY <1>1, <1>2, <1>7, ReadingMoves DEF Remembers, Stays, Recalls, Heading, Reading, Starting, Leaving
<1>8. CASE Guard \/ Status
  BY <1>1, <1>8, NavigatingMoves DEF Guard, Status, Goes, Remembers, Stays, Heading, Reading, Starting, Leaving
<1>9. CASE Goes
  <2>1. eng.pc = "loading" BY <1>9 DEF Goes
  <2>2. eng.load \in DOMAIN reqs BY <1>1, <2>1 DEF EngTypes, Engines, NetTypes
  <2>3. ~(reqs[eng.load].stage = "failed" /\ reqs[eng.load].code = "none") BY <2>2 DEF Explained
  <2> QED BY <1>1, <2>1, <2>3, <1>9, NavigatingMoves DEF Guard, Status, Remembers, Stays, Heading, Reading, Starting, Leaving
<1>10. CASE Act \/ Look \/ Text \/ Banner
  BY <1>1, <1>10, ActMoves, LookMoves, LookedAtMoves
  DEF Remembers, Stays, Recalls, Heading, Reading, Looks, Starting, Leaving
<1>11. CASE Expire
  BY <1>1, <1>2, <1>11, ExpireMoves DEF Remembers, Stays, Recalls, Heading, Reading, Waits, Starting, Leaving
<1>12. CASE Coming \/ Going
  BY <1>1, <1>12, ComingGoingMoves DEF Remembers, Stays, Recalls, Heading, Reading, Starting, Leaving
<1>13. CASE CutShort
  BY <1>1, <1>13, CutShortMoves DEF Remembers, Stays, Recalls, Heading, Reading, Starting, Leaving
<1>14. CASE Preflight
  BY <1>1, <1>14, PreflightMoves DEF Remembers, Recalls, Heading, Reading, Starting, Leaving
<1>15. CASE Goto
  BY <1>1, <1>15, GotoMoves DEF Remembers, Recalls, Heading, Reading, Starting, Leaving
<1>16. CASE Begin
  BY <1>1, <1>16, BeginMoves DEF Remembers, Heading, Reading, Starting, Leaving
<1>17. CASE Release
  BY <1>1, <1>17, ReleaseMoves DEF Remembers, Recalls, Heading, Reading, Starting, Leaving
<1> QED
  BY <1>3, <1>4, <1>5, <1>6, <1>7, <1>8, <1>9, <1>10, <1>11, <1>12, <1>13, <1>14, <1>15, <1>16, <1>17, EngineMoves
  DEF Quiet, Asking

LEMMA EvidenceInvOfInit ==
  ASSUME Init
  PROVE  EvidenceInv
<1>1. reqs = <<>> /\ typed = {} /\ eng.pc = "preflight" /\ eng.seen = <<0, 0>> /\ eng.pinned = 0
  BY DEF Init, NetInit
<1>2. tracer.state = "off" /\ tracer.docs = {} /\ tracer.saved = {} /\ tracer.withheld = "none" /\ tracer.shots = {}
  BY DEF Init
<1> QED BY <1>1, <1>2 DEF EvidenceInv, Explained, Secrets, Paused, Kept, Heading, Reading

LEMMA EvidenceInvOfNetSteps ==
  ASSUME Types, EvidenceInv, NetSteps
  PROVE  EvidenceInv'
<1>1. NetTypes /\ NetStep /\ UNCHANGED sessionVars BY DEF Types, NetSteps
<1>2. PICK i \in DOMAIN reqs : Decide(i) \/ Resolve(i) \/ Connect(i) \/ Tell(i) \/ Answer(i)
  BY <1>1 DEF NetStep
<1>3. PICK r \in Requests : MovesOn(i, r) BY <1>1, <1>2, NetMoves
<1>4. /\ DOMAIN reqs' = DOMAIN reqs /\ \A j \in DOMAIN reqs : reqs'[j] = IF j = i THEN r ELSE reqs[j]
  BY <1>1, <1>3, RequestsStay DEF MovesOn
<1>5. \A j \in DOMAIN reqs' : reqs'[j].stage \in {"told", "failed"} => reqs'[j].code # "none"
  BY <1>3, <1>4 DEF EvidenceInv, Explained, MovesOn
<1> QED BY <1>1, <1>5 DEF sessionVars, EvidenceInv, Explained, Secrets, Paused, Kept, Heading

\* The requests of the session's own steps fail with a reason too.
LEMMA ExplainedOn ==
  ASSUME Explained, Grown
  PROVE  \A j \in DOMAIN reqs' : reqs'[j].stage \in {"told", "failed"} => reqs'[j].code # "none"
BY DEF Explained, Grown, Carried, Fresh

LEMMA EvidenceInvOfPage ==
  ASSUME Types, EvidenceInv, PageStep
  PROVE  EvidenceInv'
<1>1. eng' = eng /\ typed' = typed /\ Grown BY PageMoves DEF Moved
<1>2. NetTypes /\ PageTypes BY DEF Types
<1>3. tracer' = tracer \/ (tracer.state = "recording" /\ tracer' = [tracer EXCEPT !.docs = @ \cup {page.doc + 1}])
  BY <1>2, PageMoves, CommitMoves
<1>4. tracer \in Tracers /\ page.doc \in Nat /\ typed \subseteq 1..page.doc BY <1>2 DEF PageTypes, Pages
<1>5. /\ tracer'.state = tracer.state /\ tracer'.tainted = tracer.tainted /\ tracer'.saved = tracer.saved
      /\ tracer'.withheld = tracer.withheld /\ tracer'.shots = tracer.shots
      /\ tracer'.docs = tracer.docs \/ (tracer.state = "recording" /\ tracer'.docs = tracer.docs \cup {page.doc + 1})
  BY <1>3, <1>4 DEF Tracers
<1>6. page.doc + 1 \notin typed BY <1>4
<1>7. Explained' BY <1>1, ExplainedOn DEF EvidenceInv, Explained, Heading
<1>8. Secrets' BY <1>1, <1>5 DEF EvidenceInv, Secrets, Heading
<1>9. Paused' BY <1>1, <1>5 DEF EvidenceInv, Paused
<1>10. Kept' BY <1>1, <1>5, <1>6 DEF EvidenceInv, Kept
<1> QED BY <1>7, <1>8, <1>9, <1>10 DEF EvidenceInv

\* What each step that touches the trace makes of it.
TraceMoves ==
  \/ tracer' = tracer
  \/ /\ Observe /\ tracer.state = "paused" /\ eng.seen[1] # tracer.tainted
     /\ tracer'.state = "recording" /\ tracer'.docs = {page.doc} /\ tracer'.saved = tracer.saved
     /\ tracer'.withheld = tracer.withheld /\ tracer'.shots = tracer.shots
  \/ /\ PauseForSecret /\ tracer'.state = "paused" /\ tracer'.tainted = eng.seen[1] /\ tracer'.docs = {}
     /\ tracer'.saved = tracer.saved /\ tracer'.withheld = tracer.withheld /\ tracer'.shots = tracer.shots
  \/ /\ Shoot /\ tracer'.state = tracer.state /\ tracer'.tainted = tracer.tainted /\ tracer'.docs = tracer.docs
     /\ tracer'.saved = tracer.saved /\ tracer'.withheld = tracer.withheld
     /\ tracer'.shots = tracer.shots \cup {[secret |-> page.doc \in typed, masked |-> eng.typedAt # 0]}
  \/ /\ Export /\ tracer'.tainted = tracer.tainted /\ tracer'.shots = tracer.shots /\ tracer'.docs = {}
     /\ \/ tracer'.state = "finished" /\ tracer'.saved = tracer.docs /\ tracer'.withheld = tracer.withheld
        \/ tracer'.state = "finished" /\ tracer'.saved = tracer.saved /\ tracer'.withheld = "secret_detected"
        \/ tracer.state = "paused" /\ tracer'.state = "paused" /\ tracer'.saved = tracer.saved
           /\ tracer'.withheld = "secret_bearing_page"
  \/ /\ StartTrace /\ tracer'.state = "recording" /\ tracer'.docs = {page.doc}
     /\ tracer'.saved = tracer.saved /\ tracer'.withheld = tracer.withheld /\ tracer'.shots = tracer.shots
  \/ /\ StopTrace /\ tracer'.state = "off" /\ tracer'.docs = {}
     /\ tracer'.saved = tracer.saved /\ tracer'.withheld = tracer.withheld /\ tracer'.shots = tracer.shots

LEMMA TraceIsMoved ==
  ASSUME Types, Paused, EngineStep \/ Expire \/ Interrupt
  PROVE  TraceMoves
<1>1. tracer \in Tracers BY DEF Types, PageTypes
<1>2. CASE tracer' = tracer BY <1>2 DEF TraceMoves
<1>3. CASE Observe /\ tracer' # tracer
  <2>1. Resumes(eng.seen[1]) /\ tracer' = [tracer EXCEPT !.state = "recording", !.tainted = 0, !.docs = {page.doc}]
    BY <1>3 DEF Observe
  <2>2. /\ tracer'.state = "recording" /\ tracer'.docs = {page.doc} /\ tracer'.saved = tracer.saved
        /\ tracer'.withheld = tracer.withheld /\ tracer'.shots = tracer.shots
    BY <1>1, <2>1 DEF Tracers
  <2> QED BY <1>3, <2>1, <2>2 DEF Resumes, TraceMoves
<1>4. CASE PauseForSecret /\ tracer' # tracer
  <2>1. tracer' = [tracer EXCEPT !.state = "paused", !.tainted = eng.seen[1], !.docs = {}]
    BY <1>4 DEF PauseForSecret
  <2>2. /\ tracer'.state = "paused" /\ tracer'.tainted = eng.seen[1] /\ tracer'.docs = {}
        /\ tracer'.saved = tracer.saved /\ tracer'.withheld = tracer.withheld /\ tracer'.shots = tracer.shots
    BY <1>1, <2>1 DEF Tracers
  <2> QED BY <1>4, <2>2 DEF TraceMoves
<1>5. CASE Shoot /\ tracer' # tracer
  <2> DEFINE shots == tracer.shots \cup {[secret |-> page.doc \in typed, masked |-> eng.typedAt # 0]}
  <2>1. tracer' = [tracer EXCEPT !.shots = shots] BY <1>5 DEF Shoot
  <2> HIDE DEF shots
  <2>2. /\ tracer'.state = tracer.state /\ tracer'.tainted = tracer.tainted /\ tracer'.docs = tracer.docs
        /\ tracer'.saved = tracer.saved /\ tracer'.withheld = tracer.withheld /\ tracer'.shots = shots
    BY <1>1, <2>1 DEF Tracers
  <2> QED BY <1>5, <2>2 DEF TraceMoves, shots
<1>6. CASE Export /\ tracer' # tracer
  <2>1. \/ tracer' = [tracer EXCEPT !.state = "finished", !.saved = tracer.docs, !.docs = {}]
        \/ tracer' = [tracer EXCEPT !.state = "finished", !.withheld = "secret_detected", !.docs = {}]
        \/ tracer.state = "paused" /\ tracer' = [tracer EXCEPT !.withheld = "secret_bearing_page"]
    BY <1>6 DEF Export, Exported
  <2>2. tracer.state = "paused" => tracer.docs = {} BY DEF Paused
  <2>3. /\ tracer'.tainted = tracer.tainted /\ tracer'.shots = tracer.shots /\ tracer'.docs = {}
        /\ \/ tracer'.state = "finished" /\ tracer'.saved = tracer.docs /\ tracer'.withheld = tracer.withheld
           \/ tracer'.state = "finished" /\ tracer'.saved = tracer.saved /\ tracer'.withheld = "secret_detected"
           \/ tracer.state = "paused" /\ tracer'.state = "paused" /\ tracer'.saved = tracer.saved
              /\ tracer'.withheld = "secret_bearing_page"
    BY <1>1, <2>1, <2>2 DEF Tracers
  <2> QED BY <1>6, <2>3 DEF TraceMoves
<1>7. CASE StartTrace /\ tracer' # tracer
  <2>1. tracer' = [tracer EXCEPT !.state = "recording", !.docs = {page.doc}] BY <1>7 DEF StartTrace
  <2>2. /\ tracer'.state = "recording" /\ tracer'.docs = {page.doc}
        /\ tracer'.saved = tracer.saved /\ tracer'.withheld = tracer.withheld /\ tracer'.shots = tracer.shots
    BY <1>1, <2>1 DEF Tracers
  <2> QED BY <1>7, <2>2 DEF TraceMoves
<1>8. CASE StopTrace /\ tracer' # tracer
  <2>1. tracer' = [tracer EXCEPT !.state = "off", !.docs = {}] BY <1>8 DEF StopTrace
  <2>2. /\ tracer'.state = "off" /\ tracer'.docs = {}
        /\ tracer'.saved = tracer.saved /\ tracer'.withheld = tracer.withheld /\ tracer'.shots = tracer.shots
    BY <1>1, <2>1 DEF Tracers
  <2> QED BY <1>8, <2>2 DEF TraceMoves
<1> QED BY <1>2, <1>3, <1>4, <1>5, <1>6, <1>7, <1>8, EngineTracer

\* A secret is typed into the document the run has read, which no chunk records.
LEMMA TypesSecret ==
  ASSUME Types, EvidenceInv, EngineStep \/ Expire \/ Interrupt
  PROVE  \/ typed' = typed
         \/ /\ eng.pc = "type" /\ page.doc = eng.seen[1] /\ eng.typedAt # 0
            /\ typed' = typed \cup {page.doc} /\ eng'.pc \in {"settle", "failing"}
            /\ eng'.seen = eng.seen /\ eng'.typedAt = eng.typedAt /\ tracer' = tracer
<1>1. EngTypes /\ page.doc \in Nat /\ eng.seen[1] \in Nat /\ eng.pinned \in Nat
      /\ eng.pinned <= page.doc /\ eng.seen[1] <= page.doc
  BY DEF Types, EngTypes, Engines, PageTypes, Pages
<1>2. CASE Act /\ eng.pc = "type" /\ eng.pinned = page.doc /\ typed' = typed \cup {page.doc}
  <2>1. page.doc = eng.seen[1] /\ eng.typedAt # 0 BY <1>1, <1>2 DEF EvidenceInv, Secrets
  <2>2. eng'.pc \in {"settle", "failing"} /\ eng'.seen = eng.seen /\ eng'.typedAt = eng.typedAt
    BY <1>1, <1>2, ActMoves DEF Stays, Recalls
  <2>3. tracer' = tracer BY <1>2 DEF Act
  <2> QED BY <1>2, <2>1, <2>2, <2>3
<1> QED BY <1>2, EngineTyped

LEMMA EvidenceInvOfEngine ==
  ASSUME Types, EvidenceInv, EngineStep \/ Expire \/ Interrupt
  PROVE  EvidenceInv'
<1>1. /\ eng \in Engines /\ page.doc \in Nat \ {0} /\ eng.seen[1] \in Nat /\ eng.pinned \in Nat
      /\ eng.pinned <= page.doc /\ eng.seen[1] <= page.doc /\ typed \subseteq 1..page.doc
      /\ eng.step \in Nat \ {0} /\ tracer.tainted \in Nat
  BY DEF Types, EngTypes, Engines, PageTypes, Pages, Tracers
<1>2. Remembers /\ TraceMoves BY RunRemembers, TraceIsMoved DEF EvidenceInv
<1>3. Explained /\ Secrets /\ Paused /\ Kept BY DEF EvidenceInv
<1>4. eng'.seen[1] \in Nat /\ eng.seen[1] <= eng'.seen[1] /\ page'.doc = page.doc
      /\ eng'.seen[1] \in {eng.seen[1], page.doc}
  BY <1>1, <1>2, EnginePage DEF Remembers, Epoch, SamePage
<1>5. eng'.typedAt = eng.typedAt \/ eng'.typedAt # 0
  BY <1>1, <1>2 DEF Remembers
<1>6. eng.typedAt # 0 => eng'.typedAt # 0 BY <1>5
<1>7. Explained'
  <2>1. Grown BY EngineMoves DEF Moved
  <2> QED BY <1>2, <1>3, <2>1, ExplainedOn DEF Remembers, Explained
<1>8. typed' = typed \/ (/\ eng.pc = "type" /\ page.doc = eng.seen[1] /\ eng.typedAt # 0
                         /\ typed' = typed \cup {page.doc} /\ eng'.pc \in {"settle", "failing"}
                         /\ eng'.seen = eng.seen /\ eng'.typedAt = eng.typedAt /\ tracer' = tracer)
  BY TypesSecret
<1>9. Secrets'
  <2>1. typed' \subseteq 1..eng'.seen[1]
    <3>1. typed \subseteq 1..eng.seen[1] BY <1>3 DEF Secrets
    <3>2. typed \subseteq 1..eng'.seen[1] BY <1>1, <1>4, <3>1
    <3>3. page.doc = eng.seen[1] => page.doc \in 1..eng'.seen[1] BY <1>1, <1>4
    <3> QED BY <1>8, <3>2, <3>3
  <2>2. eng'.pc \in Starting => typed' = {}
    BY <1>2, <1>3, <1>8 DEF Remembers, Secrets, Starting
  <2>3. eng'.pc \in {"observe", "pause", "type"} => eng'.pinned <= eng'.seen[1]
    <3>1. CASE eng'.pc = "observe"
      <4>1. eng'.pinned = eng.pinned /\ (eng'.seen = Epoch \/ eng.pc = "observe") BY <1>2, <3>1 DEF Remembers
      <4>2. CASE eng'.seen = Epoch BY <1>1, <4>1, <4>2 DEF Epoch
      <4>3. CASE eng.pc = "observe"
        <5>1. eng.pinned <= eng.seen[1] BY <1>3, <4>3 DEF Secrets
        <5> QED BY <1>1, <1>4, <4>1, <5>1
      <4> QED BY <4>1, <4>2, <4>3
    <3>2. CASE eng'.pc \in {"pause", "type"}
      <4>1. eng'.pinned = eng.pinned /\ eng.pc \in {"observe", "pause"}
        BY <1>2, <3>2 DEF Remembers, Observe, PauseForSecret
      <4>2. eng.pinned <= eng.seen[1] BY <1>3, <4>1 DEF Secrets
      <4> QED BY <1>1, <1>4, <4>1, <4>2
    <3> QED BY <3>1, <3>2
  <2>4. ASSUME typed' # {} \/ tracer'.state = "paused" \/ Heading("pause")' \/ eng'.pc = "type"
        PROVE  eng'.typedAt # 0
    <3>1. typed # {} \/ tracer.state = "paused" \/ Heading("pause") \/ eng.pc = "type" => eng.typedAt # 0
      BY <1>3 DEF Secrets
    <3>2. CASE typed' # {} BY <1>6, <1>8, <3>1, <3>2
    <3>3. CASE tracer'.state = "paused"
      <4>1. tracer.state = "paused" \/ PauseForSecret BY <1>2, <3>3 DEF TraceMoves
      <4>2. PauseForSecret => Heading("pause") BY DEF PauseForSecret, Heading
      <4> QED BY <1>6, <3>1, <4>1, <4>2
    <3>4. CASE Heading("pause")' BY <1>1, <1>2, <1>6, <3>1, <3>4 DEF Remembers
    <3>5. CASE eng'.pc = "type"
      <4>1. Heading("pause") BY <1>2, <3>5 DEF Remembers, PauseForSecret, Heading
      <4> QED BY <1>6, <3>1, <4>1
    <3> QED BY <2>4, <3>2, <3>3, <3>4, <3>5
  <2> QED BY <2>1, <2>2, <2>3, <2>4 DEF Secrets
<1>10. Paused'
  <2>1. tracer'.state # "recording" => tracer'.docs = {}
    BY <1>2, <1>3 DEF TraceMoves, Paused
  <2>2. tracer'.state = "paused" => typed' \subseteq 1..tracer'.tainted /\ tracer'.tainted <= eng'.seen[1]
    <3>1. CASE tracer.state = "paused" /\ tracer'.tainted = tracer.tainted /\ typed' = typed
      <4>1. typed \subseteq 1..tracer.tainted /\ tracer.tainted <= eng.seen[1] BY <1>3, <3>1 DEF Paused
      <4> QED BY <1>1, <1>4, <3>1, <4>1
    <3>2. CASE tracer.state = "paused" /\ typed' # typed
      <4>1. tracer' = tracer /\ eng.pc = "type" /\ page.doc = eng.seen[1] /\ typed' = typed \cup {page.doc}
        BY <1>8, <3>2
      <4>2. typed \subseteq 1..tracer.tainted /\ tracer.tainted = eng.seen[1] BY <1>3, <3>2, <4>1 DEF Paused
      <4>3. page.doc \in 1..tracer.tainted BY <1>1, <4>1, <4>2
      <4> QED BY <1>1, <1>4, <4>1, <4>2, <4>3
    <3>3. CASE PauseForSecret /\ tracer'.tainted = eng.seen[1]
      <4>1. eng.pc = "pause" BY <3>3 DEF PauseForSecret
      <4>2. typed' = typed /\ typed \subseteq 1..eng.seen[1] BY <1>3, <1>8, <4>1 DEF Secrets
      <4> QED BY <1>1, <1>4, <3>3, <4>2
    <3>4. tracer'.state = "paused" =>
            \/ tracer.state = "paused" /\ tracer'.tainted = tracer.tainted
            \/ PauseForSecret /\ tracer'.tainted = eng.seen[1]
      BY <1>2 DEF TraceMoves
    <3> QED BY <3>1, <3>2, <3>3, <3>4
  <2>3. eng'.pc = "type" => /\ tracer'.state # "recording"
                            /\ tracer'.state = "paused" => tracer'.tainted = eng'.seen[1]
    <3>1. ASSUME eng'.pc = "type"
          PROVE  tracer'.state # "recording" /\ (tracer'.state = "paused" => tracer'.tainted = eng'.seen[1])
      <4>1. PauseForSecret /\ eng'.seen = eng.seen BY <1>2, <3>1 DEF Remembers
      <4>2. tracer' = IF tracer.state \in {"recording", "paused"}
                      THEN [tracer EXCEPT !.state = "paused", !.tainted = eng.seen[1], !.docs = {}] ELSE tracer
        BY <4>1 DEF PauseForSecret
      <4>3. tracer \in Tracers BY DEF Types, PageTypes
      <4>4. CASE tracer.state \in {"recording", "paused"}
        <5>1. tracer'.state = "paused" /\ tracer'.tainted = eng.seen[1] BY <4>2, <4>3, <4>4 DEF Tracers
        <5> QED BY <4>1, <5>1
      <4>5. CASE tracer.state \notin {"recording", "paused"} BY <4>2, <4>5
      <4> QED BY <4>4, <4>5
    <3> QED BY <3>1
  <2> QED BY <2>1, <2>2, <2>3 DEF Paused
<1>11. Kept'
  <2>1. /\ (tracer.docs \cup tracer.saved) \cap typed = {}
        /\ tracer.saved # {} \/ tracer.withheld # "none" => eng.result # "none" /\ eng.pc \in Leaving \cup {"release"}
        /\ tracer.withheld # "none" => tracer.saved = {}
        /\ tracer.withheld = "secret_bearing_page" => eng.typedAt # 0
        /\ \A shot \in tracer.shots : shot.secret => shot.masked
    BY <1>3 DEF Kept
  <2>2. (tracer'.docs \cup tracer'.saved) \cap typed' = {}
    <3>1. CASE typed' # typed
      <4>1. tracer' = tracer /\ eng.pc = "type" BY <1>8, <3>1
      <4>2. tracer.docs = {} BY <1>3, <4>1 DEF Paused
      <4>3. tracer.saved = {} BY <2>1, <4>1 DEF Leaving
      <4> QED BY <4>1, <4>2, <4>3
    <3>2. CASE typed' = typed
      <4>1. CASE Observe /\ tracer.state = "paused" /\ eng.seen[1] # tracer.tainted
        <5>1. typed \subseteq 1..tracer.tainted /\ tracer.tainted <= eng.seen[1] BY <1>3, <4>1 DEF Paused
        <5>2. page.doc \notin typed BY <1>1, <4>1, <5>1
        <5>3. tracer'.docs \subseteq tracer.docs \cup {page.doc} /\ tracer'.saved = tracer.saved
          BY <1>2, <4>1 DEF TraceMoves, Observe, PauseForSecret, Shoot, Export, StartTrace, StopTrace
        <5> QED BY <2>1, <3>2, <5>2, <5>3
      <4>2. CASE StartTrace
        <5>1. typed = {} BY <1>3, <4>2 DEF StartTrace, Secrets, Starting
        <5> QED BY <3>2, <5>1
      <4>3. CASE ~(Observe /\ tracer.state = "paused" /\ eng.seen[1] # tracer.tainted) /\ ~StartTrace
        <5>1. tracer'.docs \cup tracer'.saved \subseteq tracer.docs \cup tracer.saved
          BY <1>2, <4>3 DEF TraceMoves
        <5> QED BY <2>1, <3>2, <5>1
      <4> QED BY <4>1, <4>2, <4>3
    <3> QED BY <3>1, <3>2
  <2>3. tracer'.saved # {} \/ tracer'.withheld # "none" => eng'.result # "none" /\ eng'.pc \in Leaving \cup {"release"}
    <3>1. CASE Export
      <4>1. eng.pc = "export" /\ eng'.pc = "release" /\ eng'.result = eng.result
        <5>1. eng.pc = "export" BY <3>1 DEF Export
        <5> QED BY <3>1, <5>1, PlainMoves DEF Types, Verifying
      <4>2. eng.result # "none" BY <1>3, <4>1 DEF Explained, Heading
      <4> QED BY <4>1, <4>2
    <3>2. CASE ~Export
      <4>1. tracer'.saved = tracer.saved /\ tracer'.withheld = tracer.withheld BY <1>2, <3>2 DEF TraceMoves
      <4> QED BY <1>2, <2>1, <4>1 DEF Remembers
    <3> QED BY <3>1, <3>2
  <2>4. tracer'.withheld # "none" => tracer'.saved = {}
    <3>1. CASE Export
      <4>1. tracer.saved = {} /\ tracer.withheld = "none" BY <2>1, <3>1 DEF Export, Leaving
      <4>2. tracer'.withheld = "none" \/ tracer'.saved = {}
        BY <1>2, <4>1 DEF TraceMoves
      <4> QED BY <4>2
    <3>2. CASE ~Export BY <1>2, <2>1, <3>2 DEF TraceMoves
    <3> QED BY <3>1, <3>2
  <2>5. tracer'.withheld = "secret_bearing_page" => eng'.typedAt # 0
    <3>1. tracer'.withheld = "secret_bearing_page" => tracer.withheld = "secret_bearing_page" \/ tracer.state = "paused"
      BY <1>2 DEF TraceMoves
    <3>2. tracer.state = "paused" => eng.typedAt # 0 BY <1>3 DEF Secrets
    <3> QED BY <1>6, <2>1, <3>1, <3>2
  <2>6. \A shot \in tracer'.shots : shot.secret => shot.masked
    <3>1. page.doc \in typed => eng.typedAt # 0 BY <1>3 DEF Secrets
    <3>2. tracer'.shots \subseteq tracer.shots \cup {[secret |-> page.doc \in typed, masked |-> eng.typedAt # 0]}
      BY <1>2 DEF TraceMoves
    <3>3. [secret |-> page.doc \in typed, masked |-> eng.typedAt # 0].secret = (page.doc \in typed)
      OBVIOUS
    <3>4. [secret |-> page.doc \in typed, masked |-> eng.typedAt # 0].masked = (eng.typedAt # 0)
      OBVIOUS
    <3> DEFINE taken == [secret |-> page.doc \in typed, masked |-> eng.typedAt # 0]
    <3>5. tracer'.shots \subseteq tracer.shots \cup {taken} BY <3>2
    <3>6. taken.secret => taken.masked BY <3>1, <3>3, <3>4
    <3> HIDE DEF taken
    <3> QED BY <2>1, <3>5, <3>6
  <2> QED BY <2>2, <2>3, <2>4, <2>5, <2>6 DEF Kept
<1> QED BY <1>7, <1>9, <1>10, <1>11 DEF EvidenceInv

LEMMA EvidenceInvAlways == Spec => [](Types /\ EvidenceInv)
<1>1. EvidenceInv /\ UNCHANGED vars => EvidenceInv'
  BY DEF vars, netVars, sessionVars, EvidenceInv, Explained, Secrets, Paused, Kept, Heading
<1>2. Types /\ EvidenceInv /\ [Next]_vars => EvidenceInv'
  BY <1>1, EvidenceInvOfEngine, EvidenceInvOfPage, EvidenceInvOfNetSteps DEF Next
<1> QED BY TypesAlways, EvidenceInvOfInit, <1>2, PTL DEF Spec

\* Whatever the page does between two reads, and wherever an interrupt falls: no
\* saved trace holds a document a secret was typed into, a picture of one is
\* masked, and a withheld trace names the step that typed the secret.
THEOREM EvidenceStaysClean == Spec => []EvidenceIsClean
<1>1. EvidenceInv => EvidenceIsClean BY DEF EvidenceInv, Kept, EvidenceIsClean
<1> QED BY <1>1, EvidenceInvAlways, PTL
----------------------------------------------------------------------------
(* The waits' invariant holds.                                              *)

\* What a step of the run does to what its waits rest on: the epoch it knows,
\* and what it had looked at when it began to wait.
Awaits ==
  /\ eng'.seen \in {eng.seen, Epoch}
  /\ eng'.pc = "asleep" =>
       /\ eng'.seen = eng.seen
       /\ \/ eng.pc = "asleep" /\ eng'.read = eng.read
          \/ eng'.read = Epoch /\ (~page.shown \/ page.doc # eng.seen[1])
  /\ eng'.pc = "listening" =>
       /\ eng'.step = eng.step
       /\ \/ eng.pc = "listening" /\ watch' = watch
          \/ Scan /\ Matching = {}

LEMMA RunAwaits ==
  ASSUME Types, EngineStep \/ Expire \/ Interrupt
  PROVE  Awaits
<1>1. NetTypes /\ EngTypes /\ PageTypes /\ eng \in Engines /\ page \in Pages
  BY DEF Types, EngTypes, PageTypes
<1>2. CASE ReadPage BY <1>1, <1>2, ReadPageMoves DEF Awaits, Stays
<1>3. CASE Observe
  <2>1. eng.pc = "observe" BY <1>3 DEF Observe
  <2>2. eng'.seen = eng.seen /\ eng'.pc = eng.then BY <1>1, <1>3, <2>1, PlainMoves DEF Recalls, Verifying
  <2>3. eng.then \notin {"asleep", "listening"} BY <1>1 DEF Engines, Purposes
  <2> QED BY <2>2, <2>3 DEF Awaits
<1>4. CASE PauseForSecret \/ Shoot \/ Export \/ Pass \/ Fail
  <2>1. eng.pc \in {"pause", "shoot", "export", "passed", "failing"}
    BY <1>4 DEF PauseForSecret, Shoot, Export, Pass, Fail
  <2>2. eng'.seen = eng.seen /\ eng'.pc \notin {"asleep", "listening"}
    BY <1>1, <1>4, <2>1, PlainMoves DEF Recalls, Verifying
  <2> QED BY <2>2 DEF Awaits
<1>5. CASE UrlMatches \/ Scan \/ Listen \/ NextDownload \/ Field
  <2>1. eng.pc \in Verifying BY <1>5 DEF UrlMatches, Scan, Listen, NextDownload, Field, Verifying
  <2>2. /\ eng'.seen = eng.seen /\ eng'.pc # "asleep" /\ eng'.step = eng.step
        /\ eng'.pc = "listening" => Scan /\ Matching = {}
    BY <1>1, <1>5, <2>1, PlainMoves DEF Stays, Recalls, Verifying
  <2> QED BY <2>2 DEF Awaits
<1>6. CASE Settle \/ Snapshot \/ Verify \/ Wake
  BY <1>1, <1>6, ReadingMoves DEF Awaits, Recalls
<1>7. CASE Guard \/ Status \/ Goes
  BY <1>1, <1>7, NavigatingMoves DEF Awaits
<1>8. CASE Act \/ Look
  BY <1>1, <1>8, ActMoves, LookMoves DEF Awaits, Recalls
<1>9. CASE Text \/ Banner
  BY <1>1, <1>9, LookedAtMoves DEF Awaits
<1>10. CASE Expire
  <2>1. Stays(eng, eng') /\ Recalls(eng, eng') /\ eng'.pc = eng.pc BY <1>1, <1>10, ExpireMoves
  <2>2. watch' = watch BY <1>10 DEF Expire
  <2> QED BY <2>1, <2>2 DEF Awaits, Stays, Recalls
<1>11. CASE Coming \/ Going
  BY <1>1, <1>11, ComingGoingMoves DEF Awaits, Recalls, Starting, Leaving
<1>12. CASE CutShort
  BY <1>1, <1>12, CutShortMoves DEF Awaits, Recalls, Leaving
<1>13. CASE Preflight \/ Goto \/ Begin \/ Release
  BY <1>1, <1>13, PreflightMoves, GotoMoves, BeginMoves, ReleaseMoves DEF Awaits, Recalls
<1> QED
  BY <1>2, <1>3, <1>4, <1>5, <1>6, <1>7, <1>8, <1>9, <1>10, <1>11, <1>12, <1>13, EngineMoves
  DEF Quiet, Asking

LEMMA WaitInvOfEngine ==
  ASSUME Types, WaitInv, EngineStep \/ Expire \/ Interrupt
  PROVE  WaitInv'
<1>1. page'.doc = page.doc /\ page'.muts = page.muts /\ page'.shown = page.shown
  BY EnginePage DEF SamePage
<1>2. Epoch' = Epoch BY <1>1 DEF Epoch
<1>3. Awaits BY RunAwaits
<1>4. page.doc \in Nat /\ page.muts \in Nat BY DEF Types, PageTypes, Pages
<1>5. NoLater(Epoch, Epoch) BY <1>4 DEF NoLater, Epoch
<1>6. NoLater(eng'.seen, Epoch') BY <1>2, <1>3, <1>5 DEF Awaits, WaitInv
<1>7. ASSUME eng'.pc = "asleep"
      PROVE  NoLater(eng'.seen, eng'.read) /\ (Epoch' = eng'.seen => ~page'.shown)
  <2>1. CASE eng.pc = "asleep" /\ eng'.read = eng.read
    BY <1>1, <1>2, <1>3, <1>7, <2>1 DEF Awaits, WaitInv
  <2>2. CASE eng'.read = Epoch /\ (~page.shown \/ page.doc # eng.seen[1])
    <3>1. Epoch[1] = page.doc BY DEF Epoch
    <3>2. eng'.seen = eng.seen BY <1>3, <1>7 DEF Awaits
    <3>3. NoLater(eng'.seen, eng'.read) BY <1>2, <1>6, <2>2
    <3>4. Epoch' = eng'.seen => ~page.shown BY <1>2, <2>2, <3>1, <3>2
    <3> QED BY <1>1, <3>3, <3>4
  <2> QED BY <1>3, <1>7, <2>1, <2>2 DEF Awaits
<1>8. ASSUME eng'.pc = "listening", ~watch'.arrived
      PROVE  Matching' = {}
  <2>1. scenario' = scenario BY EngineMoves DEF Moved
  <2>2. Step' = Step BY <1>3, <1>8, <2>1 DEF Awaits, Step
  <2>3. CASE eng.pc = "listening" /\ watch' = watch
    BY <1>8, <2>2, <2>3 DEF WaitInv, Matching
  <2>4. CASE Scan /\ Matching = {}
    <3>1. watch \in Watches BY DEF Types, PageTypes
    <3>2. watch' = watch \/ watch' = [watch EXCEPT !.arrived = FALSE] BY <2>4 DEF Scan
    <3>3. watch'.responses = watch.responses BY <3>1, <3>2 DEF Watches
    <3> QED BY <2>2, <2>4, <3>3 DEF Matching
  <2> QED BY <1>3, <1>8, <2>3, <2>4 DEF Awaits
<1> QED BY <1>6, <1>7, <1>8 DEF WaitInv

\* What the page does of itself makes another epoch of it, or leaves what it
\* shows; and what it answers is heard, or was not listened for.
LEMMA PageTurns ==
  ASSUME Types, PageStep
  PROVE  /\ \/ page'.doc = page.doc /\ page'.muts = page.muts /\ page'.shown = page.shown
            \/ page'.doc = page.doc /\ page'.muts = page.muts + 1
            \/ page'.doc = page.doc + 1
         /\ watch'.arrived \/ (watch'.responses = watch.responses /\ watch'.arrived = watch.arrived)
<1>1. NetTypes /\ PageTypes /\ page \in Pages /\ watch \in Watches BY DEF Types, PageTypes
<1>2. ASSUME NEW i, watch' \in {watch, Heard(i)}
      PROVE  watch'.arrived \/ (watch'.responses = watch.responses /\ watch'.arrived = watch.arrived)
  <2> DEFINE heard == Append(watch.responses, <<reqs[i].url, reqs[i].status>>)
  <2>1. watch' = watch \/ watch' = [watch EXCEPT !.responses = heard, !.arrived = TRUE]
    BY <1>2 DEF Heard
  <2> HIDE DEF heard
  <2>2. [watch EXCEPT !.responses = heard, !.arrived = TRUE].arrived BY <1>1 DEF Watches
  <2> QED BY <2>1, <2>2
<1>3. CASE Commit
  <2>1. page'.doc = page.doc + 1 /\ watch' \in {watch, Heard(page.nav)} BY <1>1, <1>3, CommitMoves
  <2> QED BY <1>2, <2>1
<1>4. CASE Arrive
  <2>1. PICK i \in page.subs : page' = [page EXCEPT !.subs = @ \ {i}] /\ watch' \in {watch, Heard(i)}
    BY <1>4 DEF Arrive
  <2>2. page'.doc = page.doc /\ page'.muts = page.muts /\ page'.shown = page.shown BY <1>1, <2>1 DEF Pages
  <2> QED BY <1>2, <2>1, <2>2
<1>5. CASE Change
  <2>1. watch' = watch BY <1>5 DEF Change
  <2> DEFINE rest == Tail(page.changes)
             now == Head(page.changes)
  <2>2. page' = [page EXCEPT !.muts = @ + 1, !.changes = rest, !.shown = now.shown, !.banner = now.banner]
    BY <1>5 DEF Change
  <2> HIDE DEF rest, now
  <2>3. page'.doc = page.doc /\ page'.muts = page.muts + 1 BY <1>1, <2>2 DEF Pages
  <2> QED BY <2>1, <2>3
<1>6. CASE (LeavePage \/ Fetch \/ OpenPage \/ StartDownload) /\ SamePage
  <2>1. \/ watch' = watch \/ watch' = [watch EXCEPT !.opened = @ + 1]
        \/ \E e : watch' = [watch EXCEPT !.downloads = Append(@, e.url)]
    BY <1>6 DEF LeavePage, Fetch, OpenPage, StartDownload
  <2>2. watch'.responses = watch.responses /\ watch'.arrived = watch.arrived BY <1>1, <2>1 DEF Watches
  <2> QED BY <1>6, <2>2 DEF SamePage
<1> QED BY <1>3, <1>4, <1>5, <1>6, PageMoves

LEMMA WaitInvOfPage ==
  ASSUME Types, WaitInv, PageStep
  PROVE  WaitInv'
<1>1. eng' = eng /\ scenario' = scenario BY PageMoves DEF Moved
<1>2. page.doc \in Nat /\ page.muts \in Nat /\ eng.seen[1] \in Nat /\ eng.seen[2] \in Nat
  BY DEF Types, EngTypes, Engines, PageTypes, Pages
<1>3. Epoch[1] = page.doc /\ Epoch[2] = page.muts /\ Epoch'[1] = page'.doc /\ Epoch'[2] = page'.muts
  BY DEF Epoch
<1>4. NoLater(eng.seen, Epoch) BY DEF WaitInv
<1>5. \/ (Epoch' = Epoch /\ page'.shown = page.shown)
      \/ (NoLater(eng.seen, Epoch') /\ Epoch' # eng.seen)
  <2>1. CASE page'.doc = page.doc /\ page'.muts = page.muts /\ page'.shown = page.shown BY <2>1 DEF Epoch
  <2>2. CASE (page'.doc = page.doc /\ page'.muts = page.muts + 1) \/ page'.doc = page.doc + 1
    BY <1>2, <1>3, <1>4, <2>2 DEF NoLater
  <2> QED BY <2>1, <2>2, PageTurns
<1>6. NoLater(eng'.seen, Epoch') BY <1>1, <1>4, <1>5
<1>7. eng'.pc = "asleep" => NoLater(eng'.seen, eng'.read) /\ (Epoch' = eng'.seen => ~page'.shown)
  BY <1>1, <1>5 DEF WaitInv
<1>8. eng'.pc = "listening" /\ ~watch'.arrived => Matching' = {}
  <2>1. Step' = Step BY <1>1 DEF Step
  <2> QED BY <1>1, <2>1, PageTurns DEF WaitInv, Matching
<1> QED BY <1>6, <1>7, <1>8 DEF WaitInv

LEMMA WaitInvAlways == Spec => [](Types /\ WaitInv)
<1>1. Init => WaitInv
  <2>1. Init => eng.seen = <<0, 0>> /\ eng.pc = "preflight" /\ page.doc = 1 BY DEF Init
  <2> QED BY <2>1 DEF WaitInv, NoLater, Epoch
<1>2. WaitInv /\ UNCHANGED <<scenario, sessionVars>> => WaitInv'
  BY DEF sessionVars, WaitInv, Epoch, Matching, Step
<1>3. Types /\ NetSteps => UNCHANGED <<scenario, sessionVars>> BY TypesOfNet DEF Types, NetSteps
<1>4. UNCHANGED vars => UNCHANGED <<scenario, sessionVars>> BY DEF vars, netVars
<1>5. Types /\ WaitInv /\ [Next]_vars => WaitInv'
  BY <1>2, <1>3, <1>4, WaitInvOfEngine, WaitInvOfPage DEF Next
<1> QED BY TypesAlways, <1>1, <1>5, PTL DEF Spec

\* However the page changes and its answers arrive while the run looks at it: a
\* sleeping check has not missed the change it sleeps for, and a listening one
\* has looked at every response that is there.
THEOREM NothingSleeps == Spec => []NothingSleptThrough
<1>1. Types /\ WaitInv => NothingSleptThrough
  <2> SUFFICES ASSUME Types, WaitInv PROVE NothingSleptThrough OBVIOUS
  <2>1. watch.responses \in Seq((DOMAIN Written) \X Nat) BY DEF Types, PageTypes, Watches
  <2>2. ASSUME eng.pc = "listening", ~watch.arrived, NEW i \in DOMAIN watch.responses
        PROVE  watch.responses[i][1] # Step.want \/ watch.responses[i][2] >= 400
    <3>1. watch.responses[i] \in (DOMAIN Written) \X Nat BY <2>1, <2>2
    <3>2. watch.responses[i][2] \in Nat BY <3>1
    <3>3. i \notin Matching BY <2>2 DEF WaitInv
    <3>4. ~(watch.responses[i][2] < 400) => watch.responses[i][2] >= 400 BY <3>2
    <3> QED BY <3>3, <3>4 DEF Matching
  <2> QED BY <2>2 DEF WaitInv, NoLater, NothingSleptThrough
<1> QED BY <1>1, WaitInvAlways, PTL
----------------------------------------------------------------------------
(* The invariant of what is up holds.                                       *)

\* Steps that start and stop nothing go from one place of the steps to another,
\* on to the teardown, or from the questions asked first to the start or the end.
LEMMA RunGoesOn ==
  ASSUME Types, EngineStep \/ Expire \/ Interrupt, ~(Coming \/ Going \/ CutShort)
  PROVE  /\ open' = open /\ stop' = stop
         /\ \/ eng.pc = "preflight" /\ eng'.pc \in {"preflight", "start", "ended"}
            \/ eng.pc \in InStep \cup {"step"} /\ eng'.pc \in InStep \cup {"step", "detach"}
<1>1. NetTypes /\ EngTypes /\ PageTypes /\ eng \in Engines /\ page \in Pages
  BY DEF Types, EngTypes, PageTypes
<1>2. open' = open /\ stop' = stop BY EngineMoves, EngineStop DEF netVars
<1> SUFFICES \/ eng.pc = "preflight" /\ eng'.pc \in {"preflight", "start", "ended"}
             \/ eng.pc \in InStep \cup {"step"} /\ eng'.pc \in InStep \cup {"step", "detach"}
  BY <1>2
<1>3. CASE ~Stepping
  <2>1. CASE ReadPage
    BY <1>1, <2>1, ReadPageMoves DEF InStep, Reading, Ending
  <2>2. CASE Observe
    <3>1. eng.pc = "observe" BY <2>2 DEF Observe
    <3>2. eng'.pc = eng.then BY <1>1, <2>2, <3>1, PlainMoves DEF Verifying
    <3>3. eng.then \in Purposes \ {"none"} BY <1>1, <3>1 DEF EngTypes, Engines, Reading
    <3> QED BY <3>1, <3>2, <3>3, NamesOfPlaces DEF Reading
  <2>3. CASE PauseForSecret \/ Shoot \/ Export \/ Pass \/ Fail
    <3>1. eng.pc \in {"pause", "shoot", "export", "passed", "failing"}
      BY <2>3 DEF PauseForSecret, Shoot, Export, Pass, Fail
    <3>2. eng'.pc \in {"type", "release", "snapshot", "shoot"}
      BY <1>1, <2>3, <3>1, PlainMoves DEF Verifying
    <3> QED BY <3>1, <3>2 DEF InStep, Ending
  <2>4. CASE UrlMatches \/ Scan \/ Listen \/ NextDownload \/ Field
    <3>1. eng.pc \in Verifying BY <2>4 DEF UrlMatches, Scan, Listen, NextDownload, Field, Verifying
    <3>2. eng'.pc \in {"verify", "lookfail", "listening", "response"}
      BY <1>1, <2>4, <3>1, PlainMoves DEF Verifying
    <3> QED BY <3>1, <3>2 DEF InStep, Verifying, Looks
  <2>5. CASE Settle \/ Snapshot \/ Verify \/ Wake
    BY <1>1, <2>5, ReadingMoves DEF InStep, Reading, Verifying, Ending, Looks
  <2>6. CASE Guard \/ Status \/ Goes
    BY <1>1, <2>6, NavigatingMoves DEF InStep, Navigating, Reading, Ending
  <2>7. CASE Act \/ Look
    BY <1>1, <2>7, ActMoves, LookMoves DEF InStep, Verifying, Ending, Looks
  <2>8. CASE Text \/ Banner
    BY <1>1, <2>8, LookedAtMoves DEF InStep, Verifying, Ending, Looks
  <2>9. CASE Expire
    <3>1. eng'.pc = eng.pc /\ eng.pc \in Waits \cup Reading BY <1>1, <2>9, ExpireMoves
    <3> QED BY <3>1, NamesOfPlaces
  <2> QED BY <1>3, <2>1, <2>2, <2>3, <2>4, <2>5, <2>6, <2>7, <2>8, <2>9, EngineMoves
          DEF Quiet, Asking, Stepping
<1>4. CASE Stepping
  BY <1>1, <1>4, PreflightMoves, GotoMoves, BeginMoves, ReleaseMoves
  DEF Stepping, InStep, Navigating, Reading, Ending
<1> QED BY <1>3, <1>4

LEMMA UpInvOfComing ==
  ASSUME Types, UpInv, Coming
  PROVE  UpInv'
<1>1. eng \in Engines /\ open \in [gateway : BOOLEAN, filter : BOOLEAN] /\ stop \in Stops
  BY DEF Types, NetTypes, EngTypes, PageTypes
<1>2. ASSUME NEW pc \in Places, To(pc) PROVE eng'.pc = pc
  BY <1>1, <1>2 DEF To, Engines
<1>3. {"launch", "enter", "gateway", "context", "trace", "attach", "step"} \subseteq Places
  BY DEF Places, Starting
<1>4. reqs' = reqs
  BY DEF Coming, StartDriver, Launch, MakeWorkdir, OpenGateway, OpenContext, StartTrace, Attach, enterRest
<1> USE DEF UpInv, ChromiumInv, GatewayInv, ContextInv, Unasked, CutShortAt, Closing,
            Before, After, NoGateway, NoWorkdir, InContext, InStep, Navigating, Reading, Verifying, Ending, Looks
<1>5. CASE StartDriver
  <2>1. eng.pc = "start" /\ eng'.pc = "launch" BY <1>2, <1>3, <1>5 DEF StartDriver
  <2>2. open' = open /\ stop' = [stop EXCEPT !.driver = TRUE] BY <1>5 DEF StartDriver
  <2>3. /\ stop'.driver /\ stop'.browser = stop.browser /\ stop'.workdir = stop.workdir
        /\ stop'.context = stop.context /\ stop'.cut = stop.cut
    BY <1>1, <2>2 DEF Stops
  <2> QED BY <1>4, <2>1, <2>2, <2>3
<1>6. CASE Launch
  <2>1. eng.pc = "launch" /\ eng'.pc = "enter" BY <1>2, <1>3, <1>6 DEF Launch
  <2>2. open' = open /\ stop' = [stop EXCEPT !.browser = TRUE] BY <1>6 DEF Launch
  <2>3. /\ stop'.driver = stop.driver /\ stop'.browser /\ stop'.workdir = stop.workdir
        /\ stop'.context = stop.context /\ stop'.cut = stop.cut
    BY <1>1, <2>2 DEF Stops
  <2> QED BY <1>4, <2>1, <2>2, <2>3
<1>7. CASE MakeWorkdir
  <2>1. eng.pc = "enter" /\ eng'.pc = "gateway" BY <1>2, <1>3, <1>7 DEF MakeWorkdir
  <2>2. open' = open /\ stop' = [stop EXCEPT !.workdir = TRUE] BY <1>7 DEF MakeWorkdir
  <2>3. /\ stop'.driver = stop.driver /\ stop'.browser = stop.browser /\ stop'.workdir
        /\ stop'.context = stop.context /\ stop'.cut = stop.cut
    BY <1>1, <2>2 DEF Stops
  <2> QED BY <1>4, <2>1, <2>2, <2>3
<1>8. CASE OpenGateway
  <2>1. eng.pc = "gateway" /\ eng'.pc = "context" BY <1>2, <1>3, <1>8 DEF OpenGateway
  <2>2. stop' = stop /\ open' = [open EXCEPT !.gateway = TRUE] BY <1>8 DEF OpenGateway
  <2>3. open'.gateway /\ open'.filter = open.filter
    BY <1>1, <2>2
  <2> QED BY <1>4, <2>1, <2>2, <2>3
<1>9. CASE OpenContext
  <2>1. eng.pc = "context" /\ eng'.pc = "trace" BY <1>2, <1>3, <1>9 DEF OpenContext
  <2>2. open' = open /\ stop' = [stop EXCEPT !.context = TRUE] BY <1>9 DEF OpenContext
  <2>3. /\ stop'.driver = stop.driver /\ stop'.browser = stop.browser /\ stop'.workdir = stop.workdir
        /\ stop'.context /\ stop'.cut = stop.cut
    BY <1>1, <2>2 DEF Stops
  <2> QED BY <1>4, <2>1, <2>2, <2>3
<1>10. CASE StartTrace
  <2>1. eng.pc = "trace" /\ eng'.pc = "attach" BY <1>2, <1>3, <1>10 DEF StartTrace
  <2>2. open' = open /\ stop' = stop BY <1>10 DEF StartTrace
  <2> QED BY <1>4, <2>1, <2>2
<1>11. CASE Attach
  <2>1. eng.pc = "attach" /\ eng'.pc = "step" BY <1>2, <1>3, <1>11 DEF Attach
  <2>2. stop' = stop /\ open' = [open EXCEPT !.filter = TRUE] BY <1>11 DEF Attach
  <2>3. open'.gateway = open.gateway
    BY <1>1, <2>2
  <2> QED BY <1>4, <2>1, <2>2, <2>3
<1> QED BY <1>5, <1>6, <1>7, <1>8, <1>9, <1>10, <1>11 DEF Coming

LEMMA UpInvOfGoing ==
  ASSUME Types, UpInv, Going
  PROVE  UpInv'
<1>1. eng \in Engines /\ open \in [gateway : BOOLEAN, filter : BOOLEAN] /\ stop \in Stops
  BY DEF Types, NetTypes, EngTypes, PageTypes
<1>2. ASSUME NEW pc \in Places, To(pc) PROVE eng'.pc = pc
  BY <1>1, <1>2 DEF To, Engines
<1>3. {"untrace", "uncontext", "ungate", "unwork", "unbrowser", "undrive", "ended"} \subseteq Places
  BY DEF Places, Leaving
<1>4. reqs' = reqs \/ eng.pc = "ungate"
  BY DEF Going, Detach, StopTrace, CloseContext, FailToClose, CloseGateway, RemoveWorkdir, FailToRemove,
         CloseBrowser, FailToCloseBrowser, StopDriver, leaveRest
<1> USE DEF UpInv, ChromiumInv, GatewayInv, ContextInv, Unasked, CutShortAt, Closing,
            Before, After, NoGateway, NoWorkdir, InContext, InStep, Navigating, Reading, Verifying, Ending, Looks
<1>5. CASE Detach
  <2>1. eng.pc = "detach" /\ eng'.pc = "untrace" BY <1>2, <1>3, <1>5 DEF Detach
  <2>2. stop' = stop /\ open' = [open EXCEPT !.filter = FALSE] BY <1>5 DEF Detach
  <2>3. open'.gateway = open.gateway /\ ~open'.filter
    BY <1>1, <2>2
  <2> QED BY <1>4, <2>1, <2>2, <2>3
<1>6. CASE StopTrace
  <2>1. eng.pc = "untrace" /\ eng'.pc = "uncontext" BY <1>2, <1>3, <1>6 DEF StopTrace
  <2>2. open' = open /\ stop' = stop BY <1>6 DEF StopTrace
  <2> QED BY <1>4, <2>1, <2>2
<1>7. CASE CloseContext
  <2>1. eng.pc = "uncontext" /\ eng'.pc = "ungate" BY <1>2, <1>3, <1>7 DEF CloseContext
  <2>2. open' = open /\ stop' = [stop EXCEPT !.context = FALSE] BY <1>7 DEF CloseContext
  <2>3. /\ stop'.driver = stop.driver /\ stop'.browser = stop.browser /\ stop'.workdir = stop.workdir
        /\ ~stop'.context /\ stop'.cut = stop.cut
    BY <1>1, <2>2 DEF Stops
  <2> QED BY <1>4, <2>1, <2>2, <2>3
<1>8. CASE FailToClose
  <2>1. eng.pc \in {"untrace", "uncontext"} /\ eng'.pc = "ungate" BY <1>2, <1>3, <1>8 DEF FailToClose
  <2>2. open' = open /\ stop' = [stop EXCEPT !.cut = stop.cut \cup {eng.pc}] BY <1>8 DEF FailToClose
  <2>3. /\ stop'.driver = stop.driver /\ stop'.browser = stop.browser /\ stop'.workdir = stop.workdir
        /\ stop'.context = stop.context /\ stop'.cut = stop.cut \cup {eng.pc}
    BY <1>1, <2>2 DEF Stops
  <2> QED BY <1>4, <2>1, <2>2, <2>3
<1>9. CASE CloseGateway
  <2>1. eng.pc = "ungate" /\ eng'.pc = "unwork" BY <1>2, <1>3, <1>9 DEF CloseGateway
  <2>2. stop' = stop /\ open' = [open EXCEPT !.gateway = FALSE] BY <1>9 DEF CloseGateway
  <2>3. ~open'.gateway /\ open'.filter = open.filter
    BY <1>1, <2>2
  <2> QED BY <1>4, <2>1, <2>2, <2>3
<1>10. CASE RemoveWorkdir
  <2>1. eng.pc = "unwork" /\ eng'.pc = "unbrowser" BY <1>2, <1>3, <1>10 DEF RemoveWorkdir
  <2>2. open' = open /\ stop' = [stop EXCEPT !.workdir = FALSE] BY <1>10 DEF RemoveWorkdir
  <2>3. /\ stop'.driver = stop.driver /\ stop'.browser = stop.browser /\ ~stop'.workdir
        /\ stop'.context = stop.context /\ stop'.cut = stop.cut
    BY <1>1, <2>2 DEF Stops
  <2> QED BY <1>4, <2>1, <2>2, <2>3
<1>11. CASE FailToRemove
  <2>1. eng.pc = "unwork" /\ eng'.pc = "unbrowser" BY <1>2, <1>3, <1>11 DEF FailToRemove
  <2>2. open' = open /\ stop' = [stop EXCEPT !.cut = stop.cut \cup {"unwork"}] BY <1>11 DEF FailToRemove
  <2>3. /\ stop'.driver = stop.driver /\ stop'.browser = stop.browser /\ stop'.workdir = stop.workdir
        /\ stop'.context = stop.context /\ stop'.cut = stop.cut \cup {"unwork"}
    BY <1>1, <2>2 DEF Stops
  <2> QED BY <1>4, <2>1, <2>2, <2>3
<1>12. CASE CloseBrowser
  <2>1. eng.pc = "unbrowser" /\ eng'.pc = "undrive" BY <1>2, <1>3, <1>12 DEF CloseBrowser
  <2>2. open' = open /\ stop' = [stop EXCEPT !.browser = FALSE, !.context = FALSE] BY <1>12 DEF CloseBrowser
  <2>3. /\ stop'.driver = stop.driver /\ ~stop'.browser /\ stop'.workdir = stop.workdir
        /\ ~stop'.context /\ stop'.cut = stop.cut
    BY <1>1, <2>2 DEF Stops
  <2> QED BY <1>4, <2>1, <2>2, <2>3
<1>13. CASE FailToCloseBrowser
  <2>1. eng.pc = "unbrowser" /\ eng'.pc = "ended" BY <1>2, <1>3, <1>13 DEF FailToCloseBrowser
  <2>2. open' = open /\ stop' = [stop EXCEPT !.cut = stop.cut \cup {"unbrowser"}] BY <1>13 DEF FailToCloseBrowser
  <2>3. /\ stop'.driver = stop.driver /\ stop'.browser = stop.browser /\ stop'.workdir = stop.workdir
        /\ stop'.context = stop.context /\ stop'.cut = stop.cut \cup {"unbrowser"}
    BY <1>1, <2>2 DEF Stops
  <2> QED BY <1>4, <2>1, <2>2, <2>3
<1>14. CASE StopDriver
  <2>1. eng.pc = "undrive" /\ eng'.pc = "ended" BY <1>2, <1>3, <1>14 DEF StopDriver
  <2>2. open' = open /\ stop' = [stop EXCEPT !.driver = FALSE] BY <1>14 DEF StopDriver
  <2>3. /\ ~stop'.driver /\ stop'.browser = stop.browser /\ stop'.workdir = stop.workdir
        /\ stop'.context = stop.context /\ stop'.cut = stop.cut
    BY <1>1, <2>2 DEF Stops
  <2> QED BY <1>4, <2>1, <2>2, <2>3
<1> QED BY <1>5, <1>6, <1>7, <1>8, <1>9, <1>10, <1>11, <1>12, <1>13, <1>14 DEF Going

LEMMA UpInvOfCutShort ==
  ASSUME Types, UpInv, CutShort
  PROVE  UpInv'
<1>1. eng \in Engines /\ open \in [gateway : BOOLEAN, filter : BOOLEAN] /\ stop \in Stops
  BY DEF Types, NetTypes, EngTypes, PageTypes
<1>2. reqs' = reqs BY DEF CutShort, LaunchFails, Unavailable, Interrupt, enterRest
<1> USE DEF UpInv, ChromiumInv, GatewayInv, ContextInv, Unasked, CutShortAt, Closing,
            Before, After, NoGateway, NoWorkdir, InContext, InStep, Navigating, Reading, Verifying, Ending, Looks
<1>3. CASE LaunchFails
  <2>1. eng.pc = "launch" /\ eng'.pc = "ended" BY <1>1, <1>3 DEF LaunchFails, Engines
  <2>2. open' = open /\ stop' = [stop EXCEPT !.driver = FALSE] BY <1>3 DEF LaunchFails
  <2>3. /\ ~stop'.driver /\ stop'.browser = stop.browser /\ stop'.workdir = stop.workdir
        /\ stop'.context = stop.context /\ stop'.cut = stop.cut
    BY <1>1, <2>2 DEF Stops
  <2> QED BY <1>2, <2>1, <2>2, <2>3
<1>4. CASE Unavailable
  <2>1. \/ eng.pc = "enter" /\ eng'.pc = "unbrowser"
        \/ eng.pc = "gateway" /\ eng'.pc = "unwork"
        \/ eng.pc = "context" /\ eng'.pc = "ungate"
        \/ eng.pc \in {"trace", "attach"} /\ eng'.pc = "detach"
    <3>1. eng.pc \in {"enter", "gateway", "context", "trace", "attach"} BY <1>4 DEF Unavailable
    <3>2. eng'.pc = AfterFailure(eng.pc) BY <1>1, <1>4 DEF Unavailable, Engines
    <3> QED BY <3>1, <3>2 DEF AfterFailure
  <2>2. open' = open /\ stop' = stop BY <1>4 DEF Unavailable
  <2> QED BY <1>2, <2>1, <2>2
<1>5. CASE Interrupt
  <2>1. PICK done \in {{}, {eng.pc}} :
          /\ stop' = [interrupts |-> stop.interrupts - 1,
                      driver |-> (stop.driver \/ "start" \in done) /\ "undrive" \notin done,
                      browser |-> (stop.browser \/ "launch" \in done) /\ "unbrowser" \notin done,
                      workdir |-> (stop.workdir \/ "enter" \in done) /\ "unwork" \notin done,
                      context |-> /\ stop.context \/ "context" \in done
                                  /\ done \cap {"uncontext", "unbrowser"} = {},
                      cut |-> stop.cut \cup ({eng.pc} \cap Standing)]
          /\ open' = [gateway |-> open.gateway \/ "gateway" \in done,
                      filter |-> open.filter /\ "detach" \notin done]
    BY <1>5, Zenon DEF Interrupt
  <2>2. /\ stop'.driver = ((stop.driver \/ "start" \in done) /\ "undrive" \notin done)
        /\ stop'.browser = ((stop.browser \/ "launch" \in done) /\ "unbrowser" \notin done)
        /\ stop'.workdir = ((stop.workdir \/ "enter" \in done) /\ "unwork" \notin done)
        /\ stop'.context = ((stop.context \/ "context" \in done) /\ done \cap {"uncontext", "unbrowser"} = {})
        /\ stop'.cut = stop.cut \cup ({eng.pc} \cap Standing)
        /\ open'.gateway = (open.gateway \/ "gateway" \in done)
        /\ open'.filter = (open.filter /\ "detach" \notin done)
    BY <2>1, Zenon
  <2>3. eng'.pc = AfterInterrupt(eng.pc) BY <1>1, <1>5 DEF Interrupt, Engines
  <2>4. eng.pc \in Places /\ eng.pc \notin {"ungate", "ended"} BY <1>1, <1>5 DEF Interrupt, Engines
  <2>5. CASE eng.pc = "preflight"
    <3>1. eng'.pc = "ended" BY <2>3, <2>5 DEF AfterInterrupt
    <3> QED BY <1>2, <2>2, <2>5, <3>1
  <2>6. CASE eng.pc \in Quitting
    <3>1. eng'.pc = "ended" BY <2>3, <2>6 DEF AfterInterrupt, Quitting
    <3>2. eng.pc \in stop'.cut BY <2>2, <2>6 DEF Standing
    <3>3. CASE eng.pc \in {"start", "launch"} BY <1>2, <2>2, <3>1, <3>2, <3>3
    <3>4. CASE eng.pc = "unbrowser" BY <1>2, <2>2, <3>1, <3>2, <3>4
    <3>5. CASE eng.pc = "undrive" BY <1>2, <2>2, <3>1, <3>2, <3>5
    <3> QED BY <2>6, <3>3, <3>4, <3>5 DEF Quitting
  <2>7. CASE eng.pc \in {"enter", "unwork"}
    <3>1. eng'.pc = "unbrowser" BY <2>3, <2>7 DEF AfterInterrupt, Quitting
    <3>2. eng.pc \in stop'.cut BY <2>2, <2>7 DEF Standing
    <3> QED BY <1>2, <2>2, <2>7, <3>1, <3>2
  <2>8. CASE eng.pc = "gateway"
    <3>1. eng'.pc = "unwork" BY <2>3, <2>8 DEF AfterInterrupt, Quitting
    <3>2. eng.pc \in stop'.cut BY <2>2, <2>8 DEF Standing
    <3> QED BY <1>2, <2>2, <2>8, <3>1, <3>2
  <2>9. CASE eng.pc \in {"context", "detach", "untrace", "uncontext"}
    <3>1. eng'.pc = "ungate" BY <2>3, <2>9 DEF AfterInterrupt, Quitting
    <3>2. eng.pc \in stop'.cut BY <2>2, <2>9 DEF Standing
    <3> QED BY <1>2, <2>2, <2>9, <3>1, <3>2
  <2>10. CASE eng.pc \in InStep \cup {"step", "trace", "attach"}
    <3>1. /\ eng.pc \notin Quitting \cup Closing \cup {"preflight", "enter", "gateway", "context", "unwork"}
          /\ eng.pc \notin {"start", "launch", "undrive", "unbrowser", "uncontext", "ended"}
      BY <2>10 DEF Quitting
    <3>2. eng'.pc = "detach" BY <2>3, <3>1 DEF AfterInterrupt
    <3>3. /\ stop'.driver = stop.driver /\ stop'.browser = stop.browser /\ stop'.workdir = stop.workdir
          /\ stop'.context = stop.context /\ open'.gateway = open.gateway /\ open'.filter = open.filter
          /\ stop'.cut = stop.cut
      BY <1>1, <2>2, <3>1 DEF Standing, Stops
    <3> QED BY <1>2, <2>10, <3>1, <3>2, <3>3
  <2> QED BY <2>4, <2>5, <2>6, <2>7, <2>8, <2>9, <2>10 DEF Places, Starting, Leaving, Quitting
<1> QED BY <1>3, <1>4, <1>5 DEF CutShort

LEMMA UpInvAlways == Spec => [](Types /\ UpInv)
<1> USE DEF UpInv, ChromiumInv, GatewayInv, ContextInv, Unasked, CutShortAt, Closing,
            Before, After, NoGateway, NoWorkdir, InContext, InStep, Navigating, Reading, Verifying, Ending, Looks
<1>1. Init => UpInv
  <2> SUFFICES ASSUME Init PROVE UpInv OBVIOUS
  <2>1. /\ eng.pc = "preflight" /\ ~open.gateway /\ ~open.filter /\ ~stop.workdir
        /\ ~stop.driver /\ ~stop.browser /\ ~stop.context /\ stop.cut = {} /\ reqs = <<>>
    BY DEF Init, NetInit
  <2> QED BY <2>1
<1>2. UpInv /\ UNCHANGED <<eng, open, stop, reqs>> => UpInv' OBVIOUS
<1>3. ASSUME Types, UpInv, NetSteps
      PROVE  UpInv'
  <2>1. UNCHANGED <<eng, open, stop>> /\ DOMAIN reqs' = DOMAIN reqs /\ reqs' \in Seq(Requests)
    BY <1>3, TypesOfNet DEF Types, NetTypes, NetSteps, sessionVars
  <2>2. reqs = <<>> => reqs' = <<>>
    <3>1. ASSUME reqs = <<>> PROVE Len(reqs') = 0
      <4>1. DOMAIN reqs' = 1..Len(reqs') /\ Len(reqs') \in Nat BY <2>1
      <4> QED BY <2>1, <3>1, <4>1
    <3> QED BY <2>1, <3>1
  <2> QED BY <1>3, <2>1, <2>2
<1>4. ASSUME Types, UpInv, PageStep
      PROVE  UpInv'
  <2>1. UNCHANGED <<eng, open, stop>> /\ stop.context BY <1>4, PageMoves DEF PageStep
  <2> QED BY <1>4, <2>1
<1>5. ASSUME Types, UpInv, EngineStep \/ Expire \/ Interrupt
      PROVE  UpInv'
  <2>1. CASE ~(Coming \/ Going \/ CutShort)
    <3>1. open' = open /\ stop' = stop BY <1>5, <2>1, RunGoesOn
    <3>2. CASE eng.pc = "preflight" /\ eng'.pc \in {"preflight", "start", "ended"}
      <4>1. reqs' = reqs
        <5>1. ~Goto BY <3>2 DEF Goto
        <5> QED BY <1>5, <2>1, <5>1, EngineMoves DEF netVars
      <4> QED BY <1>5, <3>1, <3>2, <4>1
    <3>3. CASE eng.pc \in InStep \cup {"step"} /\ eng'.pc \in InStep \cup {"step", "detach"}
      BY <1>5, <3>1, <3>3
    <3> QED BY <1>5, <2>1, <3>2, <3>3, RunGoesOn
  <2> QED BY <1>5, <2>1, UpInvOfComing, UpInvOfGoing, UpInvOfCutShort
<1>6. Types /\ UpInv /\ UNCHANGED vars => UpInv' BY <1>2 DEF vars, netVars, sessionVars
<1> HIDE DEF UpInv
<1>7. Types /\ UpInv /\ [Next]_vars => UpInv' BY <1>3, <1>4, <1>5, <1>6 DEF Next
<1> QED BY TypesAlways, <1>1, <1>7, PTL DEF Spec

\* Wherever a start fails, a teardown fails or an interrupt falls: the browser
\* has its driver and a context its gateway, and what a session that ended
\* leaves is what one of its own starts or teardowns, cut short, was at work
\* on: every other thing it put up is gone, and nothing connects for it, not
\* even through a gateway that was left listening.
THEOREM NothingIsLeft == Spec => []NothingLeftBehind
<1>1. ASSUME Types, NetInv, UpInv
      PROVE  NothingLeftBehind
  <2>1. stop.browser => stop.driver BY <1>1 DEF UpInv, ChromiumInv
  <2>2. stop.context => stop.browser /\ (open.gateway \/ CutShortAt({"context"} \cup Closing))
    BY <1>1 DEF UpInv, ContextInv, GatewayInv
  <2>3. eng.pc = "ended" =>
          /\ stop.driver => CutShortAt({"start", "launch", "unbrowser", "undrive"})
          /\ stop.browser => CutShortAt({"launch", "unbrowser"})
    BY <1>1 DEF UpInv, ChromiumInv
  <2>4. eng.pc = "ended" =>
          /\ stop.context => CutShortAt({"unbrowser"}) /\ CutShortAt({"context"} \cup Closing)
          /\ open.gateway => CutShortAt({"gateway"})
          /\ open.filter => CutShortAt({"detach"})
          /\ stop.workdir => CutShortAt({"enter", "unwork"})
    BY <1>1 DEF UpInv, GatewayInv, ContextInv, CutShortAt, After, NoGateway, NoWorkdir, InContext, InStep,
                Navigating, Reading, Verifying, Ending, Looks
  <2>5. eng.pc = "ended" => \A i \in DOMAIN reqs : reqs[i].stage \notin {"connecting", "open"}
    <3>1. CASE ~open.gateway BY <1>1, <3>1 DEF NetInv, Closed
    <3>2. CASE open.gateway /\ eng.pc = "ended"
      <4>1. reqs = <<>> BY <1>1, <3>2 DEF UpInv, GatewayInv, Unasked, NoGateway, After
      <4> QED BY <4>1
    <3> QED BY <3>1, <3>2
  <2> QED BY <2>1, <2>2, <2>3, <2>4, <2>5 DEF NothingLeftBehind
<1> QED BY <1>1, NetInvAlways, UpInvAlways, PTL
=============================================================================
