---------------------------- MODULE TargetCapture ----------------------------
(***************************************************************************)
(* Fingerprinting one element of a page that may change at any moment: the *)
(* recorder does it for each step's target, and a run for a healed         *)
(* element.  Candidate selectors are tried one at a time, inside the       *)
(* element's ancestors when they find too much, and the survivors must     *)
(* resolve to the element through Rung 0.                                  *)
(*                                                                         *)
(* A page says what each of its elements answers to.  A selector is a      *)
(* sequence of atoms <<strategy, value>>: what is looked for, then the     *)
(* scope it is looked for in, then the scope of that.                      *)
(***************************************************************************)
EXTENDS Integers, FiniteSets, Sequences, SequencesExt

CONSTANTS
  Nodes,          \* the DOM nodes
  Target,         \* the node being captured
  Document,       \* what an unscoped selector is searched in
  Sites,          \* sets of pages a site may show
  AncestorsMax,   \* record.scope_ancestors_max
  NoNode

ASSUME TargetAssumption ==
  /\ Target \in Nodes /\ Document \notin Nodes /\ NoNode \notin Nodes \cup {Document}
  /\ AncestorsMax \in Nat \ {0}

\* A page is finite: what an element answers to, and its ancestors.
ASSUME SitesAssumption ==
  \A p \in UNION Sites : \A n \in Nodes :
    IsFiniteSet(p.answers[n]) /\ p.above[n] \in Seq(Nodes)

VARIABLES
  site,      \* the pages this site may show
  page,      \* the one it shows
  alive,     \* the document the target is in has not been replaced
  moved,     \* the DOM changed since the epoch the reading compares with
  expired,   \* the capture's deadline has passed
  pc,        \* the await the capture is at
  cap        \* what it has found

pageVars == <<site, page, alive, moved>>
targetVars == <<site, page, alive, moved, expired, pc, cap>>

-----------------------------------------------------------------------------
(* What a selector finds.                                                  *)

Within(p, node, scope) == scope = Document \/ scope \in ToSet(p.above[node])

\* The visible elements an atom finds inside a scope.
FoundIn(p, atom, scope) ==
  {n \in p.visible : atom \in p.answers[n] /\ Within(p, n, scope)}

\* One level further in: searched only inside the single element of the last.
Descend(p, reached, atom) ==
  LET inside == FoundIn(p, atom, CHOOSE n \in reached.found : TRUE) IN
  IF Cardinality(reached.found) # 1 THEN reached
  ELSE [counts |-> Append(reached.counts, Cardinality(inside)), found |-> inside]

ResolveUnique(p, selector) ==
  FoldLeft(LAMBDA reached, atom : Descend(p, reached, atom),
           [counts |-> <<>>, found |-> {Document}], Reverse(selector))

Hit(p, selector) ==
  LET match == ResolveUnique(p, selector) IN
  IF Len(match.counts) = Len(selector) /\ \E n \in Nodes : match.found = {n}
  THEN CHOOSE n \in Nodes : match.found = {n} ELSE NoNode

\* The first level that is not unique finds several.
TooMany(p, selector) == Last(ResolveUnique(p, selector).counts) > 1

-----------------------------------------------------------------------------
(* Candidates and scopes, as the element's facts offer them.               *)

Ranking ==
  [test_id |-> 1, role_name |-> 2, own_text |-> 3, label |-> 4, placeholder |-> 5,
   text |-> 6, css |-> 7]

\* The lists that hold each element of a set once.
Lists(S) == {list \in [1..Cardinality(S) -> S] : IsInjective(list)}

\* The target's selectors, listed by strategy.
Candidates(p) ==
  {list \in Lists({<<atom>> : atom \in {a \in p.answers[Target] : a[1] \in DOMAIN Ranking}}) :
     \A j, k \in DOMAIN list : j < k => Ranking[list[j][1][1]] <= Ranking[list[k][1][1]]}

ScopeKinds == [row |-> 1, region |-> 2, test_id |-> 3, css |-> 4]

\* What an ancestor answers to that no nearer one does.
Bucket(ancestors, p, d) ==
  {[atom |-> atom, distance |-> d] :
     atom \in {a \in p.answers[ancestors[d]] :
                 a[1] \in DOMAIN ScopeKinds
                 /\ \A near \in 1..(d - 1) : a \notin p.answers[ancestors[near]]}}

\* The target's ancestors below the body, nearest first.
Ancestors(p) ==
  LET all == p.above[Target]
  IN SubSeq(all, 1, IF Len(all) < AncestorsMax THEN Len(all) ELSE AncestorsMax)

Nearer(one, two) ==
  \/ ScopeKinds[one.atom[1]] < ScopeKinds[two.atom[1]]
  \/ ScopeKinds[one.atom[1]] = ScopeKinds[two.atom[1]] /\ one.distance <= two.distance

\* The ancestors' scopes, listed by kind, and of one kind the nearest first.
ScopeSelectors(p) ==
  {list \in Lists(UNION {Bucket(Ancestors(p), p, d) : d \in DOMAIN Ancestors(p)}) :
     \A j, k \in DOMAIN list : j < k => Nearer(list[j], list[k])}

WithScope(selector, scope) == selector \o scope

-----------------------------------------------------------------------------
(* The capture.                                                            *)

Unlisted == <<[atom |-> <<"none", "none">>, distance |-> 0]>>

NoCapture ==
  [name |-> "none", tries |-> <<>>, at |-> 1, kept |-> <<>>, dropped |-> <<>>,
   scopes |-> Unlisted, inner |-> 1, outer |-> 0,
   hits |-> <<>>, quiet |-> FALSE, last |-> "never_stable", rank |-> 0, reason |-> "none",
   verifiedOn |-> {}, provenOn |-> {}]

TargetInit ==
  /\ site \in Sites
  /\ page \in site /\ Target \in page.visible
  /\ alive = TRUE /\ moved = FALSE /\ expired = FALSE
  /\ pc = "identify"
  /\ cap = NoCapture

Go(from, to, found) ==
  /\ pc = from /\ pc' = to
  /\ cap' = found
  /\ UNCHANGED <<pageVars, expired>>

\* RecordingUnusable is raised.
Unusable(from, reason) == Go(from, "raised", [cap EXCEPT !.reason = reason])

\* The epoch is noted as the page settles.
SettleTo(from, to, found) ==
  /\ pc = from /\ pc' = to
  /\ moved' = FALSE
  /\ cap' = found
  /\ UNCHANGED <<site, page, alive, expired>>

\* A replaced document's element has no identity that Playwright confirms.
Sure == alive /\ page.name[Target] # "unconfirmed" /\ Target \in page.visible

Identify ==
  \/ Sure /\ Go("identify", "facts", [cap EXCEPT !.name = page.name[Target]])
  \/ ~Sure /\ Unusable("identify", "identity_unconfirmed")

ReadFacts ==
  \/ alive /\ \E list \in Candidates(page) : Go("facts", "settle", [cap EXCEPT !.tries = list])
  \/ ~alive /\ Unusable("facts", "element_gone")

Settle ==
  SettleTo("settle", "verify",
           [cap EXCEPT !.at = 1, !.kept = <<>>, !.dropped = <<>>, !.inner = 1, !.outer = 0])

Candidate == cap.tries[cap.at]

\* The node a match found is the captured one: DOM node identity, which a node
\* of another document never has.
Same(node) == node = Target /\ alive

Keep(selector) ==
  [cap EXCEPT !.at = @ + 1, !.inner = 1, !.outer = 0,
              !.kept = IF selector \in ToSet(cap.kept) THEN @ ELSE Append(@, selector)]

Drop(reason) ==
  [cap EXCEPT !.at = @ + 1, !.inner = 1, !.outer = 0, !.dropped = Append(@, <<Candidate, reason>>)]

Trying == pc = "verify" /\ cap.at <= Len(cap.tries)

Try(found) ==
  IF found # NoNode
  THEN IF Same(found) THEN Keep(Candidate) ELSE Drop("different_element")
  ELSE Drop("no_match")

\* A candidate on its own.
TryCandidate ==
  /\ Trying
  /\ IF Hit(page, Candidate) = NoNode /\ TooMany(page, Candidate)
     THEN Go("verify", "scoped", cap)
     ELSE Go("verify", "verify", Try(Hit(page, Candidate)))

\* The ancestors are read once, by the first candidate that needs them.
ListScopes ==
  /\ pc = "scoped" /\ cap.scopes = Unlisted
  /\ \/ alive /\ \E list \in ScopeSelectors(page) :
                   Go("scoped", "scoped", [cap EXCEPT !.scopes = list])
     \/ ~alive /\ Go("scoped", "escaped", cap)

Inner == cap.scopes[cap.inner]

Inside == WithScope(Candidate, <<Inner.atom>>)

\* The scopes further out than the one at hand, from a position on.
Outers(after) ==
  {k \in DOMAIN cap.scopes : k > after /\ cap.scopes[k].distance > Inner.distance}

NextScope == [cap EXCEPT !.inner = @ + 1, !.outer = 0]

Deepen(after) ==
  IF Outers(after) = {} THEN NextScope
  ELSE [cap EXCEPT !.outer = CHOOSE k \in Outers(after) : \A j \in Outers(after) : k <= j]

\* The candidate inside one ancestor; a scope that is itself found several
\* times is scoped again.
TryScope ==
  /\ pc = "scoped" /\ cap.scopes # Unlisted /\ cap.outer = 0
  /\ cap.inner <= Len(cap.scopes)
  /\ LET found == Hit(page, Inside)
         counts == ResolveUnique(page, Inside).counts
     IN CASE found # NoNode /\ Same(found) -> Go("scoped", "verify", Keep(Inside))
          [] found = NoNode /\ Len(counts) = 1 /\ counts[1] > 1 ->
               Go("scoped", "scoped", Deepen(0))
          [] OTHER -> Go("scoped", "scoped", NextScope)

TryDeeper ==
  /\ pc = "scoped" /\ cap.outer > 0
  /\ LET selector == WithScope(Inside, <<cap.scopes[cap.outer].atom>>)
         found == Hit(page, selector)
     IN IF found # NoNode /\ Same(found)
        THEN Go("scoped", "verify", Keep(selector))
        ELSE Go("scoped", "scoped", Deepen(cap.outer))

Ambiguous ==
  /\ pc = "scoped" /\ cap.scopes # Unlisted /\ cap.inner > Len(cap.scopes)
  /\ Go("scoped", "verify", Drop("ambiguous"))

MutConfirm ==
  /\ pc = "verify" /\ cap.at > Len(cap.tries)
  /\ Go("verify", "build", [cap EXCEPT !.verifiedOn = {page}])

\* The epoch is read again: only a reading the page held still for counts.
Confirm ==
  /\ pc = "verify" /\ cap.at > Len(cap.tries)
  /\ \/ ~moved /\ Go("verify", "build", [cap EXCEPT !.verifiedOn = {page}])
     \/ moved /\ ~expired /\ Go("verify", "settle", cap)
     \/ moved /\ expired /\ Unusable("verify", "page_never_stable")

\* A fingerprint leaves out what the format cannot hold of the element's texts,
\* but never its name.
Storable(name) == name # "unstorable"

\* The fingerprint is built from what survived.
Build ==
  \/ cap.kept = <<>> /\ Unusable("build", "no_selector")
  \/ cap.kept # <<>> /\ ~Storable(cap.name) /\ Unusable("build", "unrecordable_target")
  \/ cap.kept # <<>> /\ Storable(cap.name) /\ Go("build", "prove", cap)

-----------------------------------------------------------------------------
(* The proof: Rung 0's resolution of what was just fingerprinted.          *)

ProveSettle ==
  \E quiet \in BOOLEAN :
    SettleTo("prove", "match", [cap EXCEPT !.hits = <<>>, !.quiet = quiet])

MatchNext ==
  /\ pc = "match" /\ Len(cap.hits) < Len(cap.kept)
  /\ LET selector == cap.kept[Len(cap.hits) + 1]
         found == Hit(page, selector)
     IN Go("match", "match",
           [cap EXCEPT !.hits =
              Append(@, IF found = NoNode /\ TooMany(page, selector) THEN Document ELSE found)])

\* What each selector found: one node, several (Document) or none (NoNode).
Voted == {rank \in DOMAIN cap.hits : cap.hits[rank] \in Nodes}

Elected == {cap.hits[rank] : rank \in Voted}

\* The identity of the one element found, compared with the recorded one.
Identified(node) == page.name[node] = cap.name

Reading ==
  CASE Cardinality(Elected) > 1 -> "ambiguous"
    [] Elected = {} /\ Document \in ToSet(cap.hits) -> "ambiguous"
    [] Elected = {} /\ Document \notin ToSet(cap.hits) -> "not_found"
    [] Cardinality(Elected) = 1 /\ (\A node \in Elected : Identified(node)) -> "resolved"
    [] OTHER -> "drifted"

\* Rung 0's errors, as the recorder reports them.
Refused(reading) ==
  CASE reading = "never_stable" -> "page_never_stable"
    [] reading = "drifted" -> "identity_unconfirmed"
    [] OTHER -> "no_selector"

Still == ~moved

\* The epoch after the reading: a reading is decisive when nothing moved.
ProveConfirm ==
  /\ pc = "match" /\ Len(cap.hits) = Len(cap.kept)
  /\ \/ /\ Still /\ Reading = "resolved"
        /\ Go("match", "same",
              [cap EXCEPT !.rank = CHOOSE r \in Voted : \A q \in Voted : r <= q,
                          !.provenOn = {page}])
     \/ /\ Still /\ Reading # "resolved"
        /\ \/ /\ expired \/ (cap.quiet /\ Reading # "not_found")
              /\ Unusable("match", Refused(Reading))
           \/ /\ ~expired /\ ~(cap.quiet /\ Reading # "not_found")
              /\ Go("match", "waiting", [cap EXCEPT !.last = Reading])
     \/ ~Still /\ expired /\ Unusable("match", Refused(cap.last))
     \/ ~Still /\ ~expired /\ Go("match", "waiting", cap)

MutProveWait == moved /\ Go("waiting", "prove", cap)

\* Waiting for the DOM to change, until the deadline.
ProveWait == (moved \/ expired) /\ Go("waiting", "prove", cap)

\* What Rung 0 found must be the very node that was captured.
SameAgain ==
  /\ pc = "same"
  /\ \/ Same(cap.hits[cap.rank]) /\ Go("same", "recorded", cap)
     \/ ~Same(cap.hits[cap.rank]) /\ Unusable("same", "no_selector")

-----------------------------------------------------------------------------
(* The page, and time.                                                     *)

Capturing == pc \notin {"recorded", "raised", "escaped"}

PageChanges ==
  /\ Capturing
  /\ page' \in site \ {page}
  /\ moved' = TRUE
  /\ UNCHANGED <<site, alive, expired, pc, cap>>

\* A navigation replaces the document the target is in.
DocumentReplaced ==
  /\ Capturing /\ alive
  /\ alive' = FALSE /\ moved' = TRUE
  /\ page' \in site
  /\ UNCHANGED <<site, expired, pc, cap>>

DeadlinePasses ==
  /\ Capturing /\ ~expired
  /\ expired' = TRUE
  /\ UNCHANGED <<pageVars, pc, cap>>

Capture ==
  \/ Identify \/ ReadFacts
  \/ Settle \/ TryCandidate \/ ListScopes \/ TryScope \/ TryDeeper \/ Ambiguous \/ Confirm
  \/ Build
  \/ ProveSettle \/ MatchNext \/ ProveConfirm \/ ProveWait \/ SameAgain

TargetNext == Capture \/ PageChanges \/ DocumentReplaced \/ DeadlinePasses
=============================================================================
