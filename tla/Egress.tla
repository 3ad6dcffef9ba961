------------------------------- MODULE Egress -------------------------------
(* What one run's browser may reach: the policy, the filter that decides     *)
(* document requests, the gateway every connection goes through, and the log *)
(* that keeps refusals until the step that led to them is told.              *)
(*                                                                           *)
(* A host is written as labels, which may be numbers, and read as a browser  *)
(* reads it: as a name or an address. An address is what the policy asks of  *)
(* it: the ranges it lies in and the IPv4 addresses it carries. A request of *)
(* the page is one record that the filter, the gateway and the site take     *)
(* from stage to stage.                                                      *)
EXTENDS Integers, Sequences, FiniteSets, SequencesExt, FiniteSetsExt

CONSTANTS
  Written,      \* [name -> [scheme, form, host, port]], the URLs that occur
  Dns,          \* [labels -> SUBSET Seq(address)], what a lookup may answer; <<>> fails
  Allowed,      \* the allowlist: set of [wild, base]
  Exceptions,   \* the loopback origins exempt from the rules: set of <<address, port>>
  Scenarios,    \* what the workflow asks and what the site does
  NoAddress

VARIABLES
  scenario,     \* the scenario of this behaviour
  faults,       \* connection attempts and lookups that may still fail
  log,          \* the egress log: sequence number, blocks not yet taken, failures
  reqs,         \* every request the page made, in order
  open          \* whether the gateway listens and the filter is attached

netVars == <<scenario, faults, log, reqs, open>>

----------------------------------------------------------------------------
(* How a URL's host is read.                                                *)
(* A label is [text, prefix, digits]: a name's digits are NoDigit, a         *)
(* number's follow its prefix, which is "", "0" or "0x". A trailing dot is   *)
(* a last label without text. A host in brackets is [v6 |-> address].        *)

NoDigit == 16
Empty == [text |-> "", prefix |-> "", digits |-> <<>>]

\* Digits after a 0 are octal, after 0x hexadecimal; 0 and 0x alone are zero.
Radix(label) == CASE label.prefix = "0x" -> 16 [] label.prefix = "0" -> 8 [] OTHER -> 10
IsNumber(label) == label # Empty /\ \A i \in DOMAIN label.digits : label.digits[i] < Radix(label)
Number(label) == FoldLeft(LAMBDA value, digit : value * Radix(label) + digit, 0, label.digits)

\* A last label of decimal digits makes a host a number even where they are no
\* octal ones: it is then no host at all.
EndsInNumber(labels) ==
  LET last == Last(labels)
  IN  \/ IsNumber(last)
      \/ /\ last # Empty /\ last.prefix # "0x"
         /\ \A i \in DOMAIN last.digits : last.digits[i] < 10

\* The last number fills the bytes the others leave.
FitsIn(value, bytes) == value \div 256^(bytes - 1) < 256
ByteOf(value, place) == (value \div 256^place) % 256

IsIpv4(labels) ==
  LET n == Len(labels)
  IN  /\ n <= 4 /\ \A i \in 1..n : IsNumber(labels[i])
      /\ \A i \in 1..(n - 1) : Number(labels[i]) <= 255
      /\ FitsIn(Number(labels[n]), 5 - n)

Ipv4(labels) ==
  LET n == Len(labels)
  IN  [i \in 1..4 |-> IF i < n THEN Number(labels[i]) ELSE ByteOf(Number(labels[n]), 4 - i)]

\* The ranges the policy names, in the order it asks, and which of them an IPv4
\* address lies in.
Ranges == <<"cloud_metadata", "unspecified", "loopback", "link_local", "multicast",
            "private", "shared", "special_purpose">>

Metadata == {<<169, 254, 169, 254>>, <<169, 254, 170, 2>>, <<100, 100, 100, 200>>,
             <<192, 0, 0, 192>>, <<168, 63, 129, 16>>}

LiesIn(b, range) ==
  CASE range = "cloud_metadata" -> b \in Metadata
    [] range = "unspecified" -> b = <<0, 0, 0, 0>>
    [] range = "loopback" -> b[1] = 127
    [] range = "link_local" -> SubSeq(b, 1, 2) = <<169, 254>>
    [] range = "multicast" -> b[1] \in 224..239
    [] range = "private" -> \/ b[1] = 10
                            \/ b[1] = 172 /\ b[2] \in 16..31
                            \/ SubSeq(b, 1, 2) = <<192, 168>>
    [] range = "shared" -> b[1] = 100 /\ b[2] \in 64..127
    [] range = "special_purpose" ->
         \/ b[1] = 0
         \/ b[1] >= 240
         \/ b[1] = 198 /\ b[2] \in 18..19
         \/ SubSeq(b, 1, 3) = <<192, 0, 0>> /\ b[4] \notin 9..10
         \/ SubSeq(b, 1, 3) \in {<<192, 0, 2>>, <<198, 51, 100>>, <<203, 0, 113>>}

Address(b) == [id |-> b, lies |-> {r \in ToSet(Ranges) : LiesIn(b, r)}, carries |-> <<>>]

AtAddress(address) == [text |-> <<"address">>, address |-> address]
NoHost == [text |-> <<>>, address |-> NoAddress]

\* An address, or a name without its trailing dot; NoHost if it is neither.
ParseHost(host) ==
  IF "v6" \in DOMAIN host THEN AtAddress(host.v6)
  ELSE LET dotted == Len(host.labels) > 1 /\ Last(host.labels) = Empty
           labels == IF dotted THEN Front(host.labels) ELSE host.labels
       IN  IF labels = <<Empty>> THEN NoHost
           ELSE IF ~EndsInNumber(labels)
                THEN [text |-> [i \in DOMAIN labels |-> labels[i].text], address |-> NoAddress]
           ELSE IF IsIpv4(labels) THEN AtAddress(Address(Ipv4(labels))) ELSE NoHost

\* The ranges of an address, and of those it carries, are the policy's.
IsAddress(address) ==
  /\ address.lies \subseteq ToSet(Ranges)
  /\ DOMAIN address.carries \subseteq Nat
  /\ \A i \in DOMAIN address.carries : address.carries[i].lies \subseteq ToSet(Ranges)

\* A URL's host is written as labels or an address, a lookup answers with
\* addresses, and an allowlist is of names.
ASSUME EgressAssumption ==
  /\ \A name \in DOMAIN Written :
       LET host == Written[name].host
       IN  /\ DOMAIN Written[name] = {"scheme", "form", "host", "port"}
           /\ IF "v6" \in DOMAIN host THEN IsAddress(host.v6)
              ELSE host.labels \in Seq(ToSet(host.labels)) /\ host.labels # <<>>
  /\ \A text \in DOMAIN Dns : \A found \in Dns[text] :
       found \in Seq(ToSet(found)) /\ \A address \in ToSet(found) : IsAddress(address)
  /\ \A p \in Allowed : p.base \in Seq(ToSet(p.base))

\* The URLs as the program has read them.
Url == [name \in DOMAIN Written |-> [Written[name] EXCEPT !.host = ParseHost(@)]]

----------------------------------------------------------------------------
(* The policy.                                                              *)

Passed == "none"

\* The first range, in the order the code asks, that the address lies in.
OwnRange(address) ==
  LET hits == {i \in DOMAIN Ranges : Ranges[i] \in address.lies}
  IN  IF hits = {} THEN Passed ELSE Ranges[Min(hits)]

\* An address that carries IPv4 addresses is refused for what it carries.
BlockedRange(address) ==
  LET carried == {i \in DOMAIN address.carries : OwnRange(address.carries[i]) # Passed}
  IN  IF carried # {} THEN OwnRange(address.carries[Min(carried)]) ELSE OwnRange(address)

\* Whether the host is literally an excepted origin, port included.
IsLoopbackException(host, port) ==
  host.address # NoAddress /\ <<host.address, port>> \in Exceptions

\* An allowlist admits names only; a wildcard covers what is below its base.
DomainAllowed(host) ==
  /\ host.address = NoAddress
  /\ \E p \in Allowed : IF p.wild THEN /\ Len(host.text) > Len(p.base)
                                       /\ IsSuffix(p.base, host.text)
                                  ELSE host.text = p.base

ReadUrl(url) ==
  IF url.form = "malformed" THEN "malformed_url"
  ELSE IF url.scheme \notin {"http", "https"} THEN "scheme"
  ELSE IF url.form = "credentials" \/ url.host = NoHost THEN "malformed_url" ELSE Passed

\* The rule that refuses a navigation to the URL.
CheckNavigation(url, main) ==
  LET unread == ReadUrl(url)
  IN  IF unread # Passed THEN unread
      ELSE IF IsLoopbackException(url.host, url.port) THEN Passed
      ELSE IF url.host.address # NoAddress /\ BlockedRange(url.host.address) # Passed
           THEN "blocked_address"
      ELSE IF main /\ ~DomainAllowed(url.host) THEN "not_allowlisted" ELSE Passed

\* Mutant: only the first address a name resolved to is checked.
MutCheckConnection(host, port, addresses) ==
  IF IsLoopbackException(host, port) THEN Passed
  ELSE LET used == IF host.address # NoAddress THEN host.address ELSE Head(addresses)
       IN  IF BlockedRange(used) # Passed THEN "blocked_address" ELSE Passed

\* The rule that refuses a connection: every address it would use must pass.
CheckConnection(host, port, addresses) ==
  IF IsLoopbackException(host, port) THEN Passed
  ELSE LET used == IF host.address # NoAddress THEN {host.address} ELSE ToSet(addresses)
       IN  IF \E a \in used : BlockedRange(a) # Passed THEN "blocked_address" ELSE Passed

\* What looking a host up may answer; a literal address is its own answer, and
\* a name without an entry does not resolve.
Lookups(host) ==
  IF host.address # NoAddress THEN {<<host.address>>}
  ELSE IF host.text \in DOMAIN Dns THEN Dns[host.text] ELSE {<<>>}

----------------------------------------------------------------------------
(* The log.                                                                 *)

EmptyLog == [seq |-> 0, blocks |-> <<>>, failures |-> <<>>]

WithBlock(layer, rule) ==
  [log EXCEPT !.seq = @ + 1, !.blocks = Append(@, [layer |-> layer, rule |-> rule, at |-> log.seq + 1])]

WithFailure(reason) ==
  [log EXCEPT !.seq = @ + 1, !.failures = Append(@, [reason |-> reason, at |-> log.seq + 1])]

Taken == [log EXCEPT !.blocks = <<>>]

\* The latest upstream failure after a mark, whichever connection it was.
FailureSince(mark) ==
  LET later == {i \in DOMAIN log.failures : log.failures[i].at > mark}
  IN  IF later = {} THEN "none" ELSE log.failures[Max(later)].reason

----------------------------------------------------------------------------
(* The requests of the page.                                                *)

Documents == {"goto", "leave", "frame"}
MainDocuments == {"goto", "leave"}

\* A new request: a document is paused for the filter, anything else connects.
Request(kind, name) ==
  [kind |-> kind, url |-> name, stage |-> IF kind \in Documents THEN "paused" ELSE "asked",
   live |-> TRUE, left |-> <<>>, via |-> {}, code |-> Passed, refused |-> FALSE, status |-> 0]

\* A request whose page or document is gone: nobody hears of it any more.
Dropped(ids) ==
  [i \in DOMAIN reqs |-> IF i \in ids THEN [reqs[i] EXCEPT !.live = FALSE] ELSE reqs[i]]

Becomes(i, request) == reqs' = [reqs EXCEPT ![i] = request]

\* A failure of the network, as often as this behaviour allows.
Fault == faults > 0 /\ faults' = faults - 1

\* The refusal is in the log before the browser hears of it.
Refuse(i, layer, rule, code) ==
  /\ log' = WithBlock(layer, rule)
  /\ Becomes(i, [reqs[i] EXCEPT !.stage = "told", !.code = code, !.refused = TRUE])
  /\ UNCHANGED <<scenario, faults, open>>

\* A connection that the policy allowed and that failed: every one of them
\* reaches the browser as the same code, and the log keeps the reason.
Upstream(i, reason) ==
  /\ log' = WithFailure(reason)
  /\ Becomes(i, [reqs[i] EXCEPT !.stage = "told", !.code = "socks_failed"])

\* The filter decides a paused document: it goes on, or is failed as blocked.
Decide(i) ==
  /\ open.filter /\ reqs[i].stage = "paused"
  /\ LET rule == CheckNavigation(Url[reqs[i].url], reqs[i].kind \in MainDocuments)
     IN  IF rule = Passed
         THEN Becomes(i, [reqs[i] EXCEPT !.stage = "asked"]) /\ UNCHANGED <<scenario, faults, log, open>>
         ELSE Refuse(i, "document", rule, "blocked_by_client")

\* The gateway looks the host up once and checks every address it was given.
Resolve(i) ==
  /\ open.gateway /\ reqs[i].stage = "asked"
  /\ LET url == Url[reqs[i].url]
     IN  \E found \in Lookups(url.host) :
           LET rule == CheckConnection(url.host, url.port, found)
           IN  \/ found = <<>> /\ Fault /\ Upstream(i, "name_not_resolved")
                  /\ UNCHANGED <<scenario, open>>
               \/ found # <<>> /\ rule # Passed
                  /\ Refuse(i, "connection", rule, "socks_failed")
               \/ found # <<>> /\ rule = Passed
                  /\ Becomes(i, [reqs[i] EXCEPT !.stage = "connecting", !.left = found])
                  /\ UNCHANGED <<scenario, faults, log, open>>

\* It connects to the addresses it checked, one after the other.
Connect(i) ==
  /\ open.gateway /\ reqs[i].stage = "connecting"
  /\ UNCHANGED <<scenario, open>>
  /\ \/ /\ Becomes(i, [reqs[i] EXCEPT !.stage = "open", !.via = @ \cup {Head(reqs[i].left)}])
        /\ UNCHANGED <<faults, log>>
     \/ /\ Fault /\ Len(reqs[i].left) > 1
        /\ Becomes(i, [reqs[i] EXCEPT !.left = Tail(@)]) /\ UNCHANGED log
     \/ /\ Fault /\ Len(reqs[i].left) = 1
        /\ \E reason \in {"refused", "unreachable"} : Upstream(i, reason)

\* The reply, or the failed request, reaches the browser.
Tell(i) ==
  /\ reqs[i].stage = "told"
  /\ Becomes(i, [reqs[i] EXCEPT !.stage = "failed"]) /\ UNCHANGED <<scenario, faults, log, open>>

\* The site answers: a document may be sent on, which is a new request to filter.
Answer(i) ==
  /\ reqs[i].stage = "open"
  /\ LET site == scenario.site[reqs[i].url]
     IN  \/ /\ site.to # "none" /\ reqs[i].kind \in Documents
            /\ Becomes(i, [reqs[i] EXCEPT !.url = site.to, !.stage = "paused"]) /\ UNCHANGED faults
         \/ /\ site.to = "none" \/ reqs[i].kind \notin Documents
            /\ \E status \in site.status :
                 Becomes(i, [reqs[i] EXCEPT !.stage = "answered", !.status = status])
            /\ UNCHANGED faults
         \/ Fault /\ Becomes(i, [reqs[i] EXCEPT !.stage = "failed", !.code = "connection_reset"])
  /\ UNCHANGED <<scenario, log, open>>

NetStep == \E i \in DOMAIN reqs : Decide(i) \/ Resolve(i) \/ Connect(i) \/ Tell(i) \/ Answer(i)

NetInit ==
  /\ scenario \in Scenarios /\ faults = scenario.faults
  /\ log = EmptyLog /\ reqs = <<>> /\ open = [gateway |-> FALSE, filter |-> FALSE]
=============================================================================
