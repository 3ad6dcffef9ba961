----------------------------- MODULE WorkflowProofs -----------------------------
(***************************************************************************)
(* Two things that are told of a workflow, proved true.                    *)
(*                                                                         *)
(* Of its recording: a fingerprint that is recorded is proven, and a       *)
(* workflow says what was recorded, for any site that changes as it likes, *)
(* any recording, and whatever the person answers.                         *)
(*                                                                         *)
(* Of a benchmarked run of one: what is read off the run's events is what  *)
(* was so, and its scores hold, for any workflow and ground truth, and     *)
(* whatever the page and the ladder do.                                    *)
(***************************************************************************)
EXTENDS RecordedWorkflowProperties, Benchmark, FiniteSetTheorems, WellFoundedInduction,
        TLAPS

\* A sequence, of whatever it holds.
IsSeq(s) == s \in Seq(ToSet(s))

\* A record with the fields of another.
Like(r, model) == r = [f \in DOMAIN model |-> r[f]]

-----------------------------------------------------------------------------
(* The capture.                                                            *)

Listing == {"identify", "facts"}
Testing == {"verify", "scoped"}
Proving == {"prove", "match", "waiting", "same", "recorded"}

\* What the capture's locals may be at each of its awaits.
CaptureTypes ==
  /\ Like(cap, NoCapture)
  /\ IsSeq(cap.tries) /\ IsSeq(cap.kept) /\ IsSeq(cap.scopes) /\ IsSeq(cap.hits)
  /\ pc \in Listing \cup {"settle", "build", "raised", "escaped"} \cup Testing \cup Proving
  /\ cap.at \in 1..(Len(cap.tries) + 1)
  /\ pc \in Listing => cap.at = 1
  /\ pc = "scoped" => cap.at <= Len(cap.tries)
  /\ cap.inner \in 1..(Len(cap.scopes) + 1)
  /\ cap.outer \in 0..Len(cap.scopes)
  /\ cap.outer > 0 => cap.inner <= Len(cap.scopes)
  /\ cap.scopes = Unlisted => cap.inner = 1 /\ cap.outer = 0
  /\ Len(cap.hits) <= Len(cap.kept)
  /\ pc \in Listing \cup {"settle", "build"} \cup Testing => cap.hits = <<>>
  /\ cap.rank \in 0..Len(cap.kept)
  /\ pc \notin {"same", "recorded", "raised", "escaped"} => cap.rank = 0

\* Every selector that was kept finds the target on a page.
AllFind(p) == \A k \in DOMAIN cap.kept : Hit(p, cap.kept[k]) = Target

\* While nothing moved, what was kept still finds the target.
KeptFind == pc \in Testing /\ ~moved => AllFind(page)

\* Past the confirmation, on one page all of them did.
Verified ==
  /\ pc \in {"build"} \cup Proving =>
       \E p \in cap.verifiedOn : cap.verifiedOn = {p} /\ AllFind(p)
  /\ pc \in Proving => cap.kept # <<>>

\* What a selector's match is written down as.
Vote(p, selector) ==
  IF Hit(p, selector) = NoNode /\ TooMany(p, selector) THEN Document ELSE Hit(p, selector)

\* While nothing moved, the votes are the page's.
VotesStand ==
  pc = "match" /\ ~moved => \A k \in DOMAIN cap.hits : cap.hits[k] = Vote(page, cap.kept[k])

\* Once resolved, all votes were one node's, of the recorded name, on one page.
Proven ==
  /\ pc \in {"same", "recorded"} =>
       /\ cap.rank \in DOMAIN cap.kept
       /\ LET node == cap.hits[cap.rank] IN
          \E p \in cap.provenOn :
            /\ cap.provenOn = {p}
            /\ node \in Nodes
            /\ \A k \in DOMAIN cap.kept : Hit(p, cap.kept[k]) \in {node, NoNode}
            /\ Hit(p, cap.kept[cap.rank]) = node
            /\ p.name[node] = cap.name
  /\ pc = "recorded" => cap.hits[cap.rank] = Target

CaptureInv == CaptureTypes /\ KeptFind /\ Verified /\ VotesStand /\ Proven

-----------------------------------------------------------------------------
(* The checkpoints.                                                        *)

\* A checkpoint says something that changed.
Says(s, c) ==
  /\ c.kind = "url_matches" => s.before.path # s.after.path
  /\ c.kind = "element_visible" =>
       c.what \in ToSet(s.after.landmarks) \ ToSet(s.before.landmarks)
  /\ c.kind = "text_present" =>
       Copies(s.after.live, c.what[1]) > Copies(s.before.live, c.what[1])

\* Proposals: each has alternatives, and all of them say so.
AllSay(s, proposals) ==
  /\ IsSeq(proposals)
  /\ \A k \in DOMAIN proposals :
       /\ IsSeq(proposals[k]) /\ proposals[k] # <<>>
       /\ \A j \in DOMAIN proposals[k] : Says(s, proposals[k][j])

\* The proposals left, the one at hand, and the checkpoints kept.
ChecksInv ==
  /\ Like(checks, [todo |-> <<>>, at |-> 1, kept |-> <<>>, dropped |-> <<>>])
  /\ AllSay(seen, checks.todo)
  /\ IsSeq(checks.kept) /\ \A k \in DOMAIN checks.kept : Says(seen, checks.kept[k])
  /\ checks.at \in Nat \ {0}
  /\ checks.todo # <<>> => checks.at <= Len(checks.todo[1])

-----------------------------------------------------------------------------
(* The names.                                                              *)

SecretSteps == {i \in DOMAIN draft : draft[i].kind = "secret"}

\* The steps that may be asked for together.
OneKey(i, j) == draft[i].text = draft[j].text /\ ProposedKind(i) = ProposedKind(j)

\* What is left of --input is about names not given yet.
OverridesLeft ==
  /\ IsSeq(override)
  /\ \A i, j \in DOMAIN override : override[i][1] = override[j][1] => i = j
  /\ \A i \in DOMAIN override : override[i][1] \notin DOMAIN naming.inputs
  /\ naming.phase # "overrides" => override = <<>>

\* An input is what was answered: a value, and steps that hold it.
InputsAreHeard ==
  /\ IsFiniteSet(DOMAIN naming.inputs)
  /\ \A h \in heard :
       /\ h[1] \in DOMAIN naming.inputs
       /\ naming.inputs[h[1]].value = h[2] /\ naming.inputs[h[1]].steps = h[3]
  /\ \A n \in DOMAIN naming.inputs : \E h \in heard : h[1] = n

InputsHold ==
  \A n \in DOMAIN naming.inputs :
    LET input == naming.inputs[n] IN
    /\ input.steps \in SUBSET DOMAIN draft /\ input.steps # {}
    /\ \A i \in input.steps :
         /\ draft[i].kind = "literal" /\ draft[i].text = input.value
         /\ draft[i].action = "navigate" => input.kind = "url"
    /\ \A j \in DOMAIN draft :
         draft[j].kind = "literal" /\ Hint(j) # "none"
           /\ draft[j].text = input.value /\ ProposedKind(j) = input.kind
         => j \in Overridden

\* An --input took every step its value was recorded in.
InputsAreWhole ==
  naming.phase = "overrides" =>
    \A n \in DOMAIN naming.inputs : naming.inputs[n].steps = Literals(naming.inputs[n].value)

\* Two inputs share all of their steps, or none.
InputsOverlap ==
  \A n, m \in DOMAIN naming.inputs :
    naming.inputs[n].steps \cap naming.inputs[m].steps # {} =>
      naming.inputs[n].steps = naming.inputs[m].steps

\* Each credential is asked for, or named; and no input's name is a secret's.
SecretsAreNamed ==
  /\ DOMAIN naming.secrets \subseteq SecretSteps
  /\ naming.phase = "overrides" => DOMAIN naming.secrets = {}
  /\ naming.phase = "secrets" =>
       /\ naming.queue \subseteq SecretSteps
       /\ SecretSteps \subseteq DOMAIN naming.secrets \cup naming.queue
  /\ naming.phase \in {"inputs", "assembled", "refused"} => SecretSteps = DOMAIN naming.secrets
  /\ DOMAIN naming.inputs \cap SecretNames = {}

\* What is still asked about is no input's yet, and no two are of one key.
QueueIsOpen ==
  naming.phase = "inputs" =>
    /\ naming.queue \subseteq DOMAIN draft
    /\ \A i \in naming.queue : Hinted(i)
    /\ \A i, j \in naming.queue : OneKey(i, j) => i = j

NamingInv ==
  /\ Like(naming, StartNaming)
  /\ naming.phase \in {"overrides", "secrets", "inputs", "assembled", "refused"}
  /\ naming.tries \in 0..Attempts
  /\ IsSeq(draft) /\ \A i \in DOMAIN draft : draft[i].field # "?"
  /\ OverridesLeft /\ InputsAreHeard /\ InputsHold /\ InputsAreWhole /\ InputsOverlap
  /\ SecretsAreNamed /\ QueueIsOpen
  /\ OnlyOverlapIsRefused

-----------------------------------------------------------------------------

\* Naming has not begun.
NotNamed == draft = <<>> /\ override = <<>> /\ naming = StartNaming /\ heard = {}

Inv ==
  /\ stage \in {"capture", "check", "name", "answered", "unusable", "crashed", "aborted"}
  /\ {alive, moved, expired} \subseteq BOOLEAN
  /\ stage = "capture" => site \in Sites /\ page \in site /\ CaptureInv
  /\ stage = "check" => ChecksInv
  /\ stage \notin {"name", "aborted"} => NotNamed
  /\ NamingInv

-----------------------------------------------------------------------------
(* Numbers, sequences and records.                                         *)

LEMMA LeastNumber ==
  ASSUME NEW T \in SUBSET Nat, T # {}
  PROVE  \E n \in T : \A m \in T : n <= m
<1> DEFINE below == {0..n : n \in T}
           R == StrictSubsetOrdering(Nat)
<1>1. \A n \in T : IsFiniteSet(0..n) /\ 0..n \in SUBSET Nat
  <2> TAKE n \in T
  <2>1. 0 \in Int /\ n \in Int
    OBVIOUS
  <2> QED
    BY <2>1, FS_Interval
<1>2. below \subseteq FiniteSubsetsOf(Nat) /\ below # {}
  BY <1>1 DEF FiniteSubsetsOf
<1>3. PICK U \in below : \A V \in below : ~(<<V, U>> \in R)
  <2>1. IsWellFoundedOn(R, FiniteSubsetsOf(Nat))
    BY FS_StrictSubsetOrderingWellFounded
  <2> HIDE DEF below, R
  <2> QED
    BY <1>2, <2>1, WFMin
<1>4. PICK n \in T : U = 0..n
  BY <1>3
<1>5. ASSUME NEW m \in T, m < n PROVE FALSE
  <2>1. 0..m \subseteq 0..n /\ n \in 0..n /\ n \notin 0..m
    BY <1>5
  <2>2. 0..m \in SUBSET Nat /\ 0..n \in SUBSET Nat /\ 0..m # 0..n
    BY <2>1
  <2>3. <<0..m, 0..n>> \in R
    BY <2>1, <2>2 DEF StrictSubsetOrdering
  <2> QED
    BY <1>3, <1>4, <2>3
<1> QED
  BY <1>5

LEMMA NoItems == IsSeq(<<>>) /\ DOMAIN <<>> = {} /\ Len(<<>>) = 0
<1> DEFINE s == <<>>
<1>1. s \in Seq(ToSet(s)) /\ DOMAIN s = {} /\ Len(s) = 0
  OBVIOUS
<1> QED
  BY <1>1 DEF IsSeq

LEMMA SeqFacts ==
  ASSUME NEW s, IsSeq(s)
  PROVE  /\ Len(s) \in Nat /\ DOMAIN s = 1..Len(s)
         /\ s = <<>> <=> Len(s) = 0
BY DEF IsSeq

LEMMA FunctionIsSeq ==
  ASSUME NEW n \in Nat, NEW s, s = [k \in 1..n |-> s[k]]
  PROVE  IsSeq(s) /\ Len(s) = n
<1>1. s \in [1..n -> ToSet(s)]
  BY DEF ToSet
<1> QED
  BY <1>1 DEF IsSeq

LEMMA AppendFacts ==
  ASSUME NEW s, IsSeq(s), NEW x
  PROVE  /\ IsSeq(Append(s, x)) /\ Len(Append(s, x)) = Len(s) + 1
         /\ Append(s, x)[Len(s) + 1] = x
         /\ \A k \in DOMAIN s : Append(s, x)[k] = s[k]
         /\ Append(s, x) # <<>>
<1> DEFINE S == ToSet(s) \cup {x}
           t == Append(s, x)
<1>1. s \in Seq(S)
  BY DEF IsSeq
<1>2. t \in Seq(S) /\ Len(t) = Len(s) + 1 /\ t[Len(s) + 1] = x
      /\ \A k \in 1..Len(s) : t[k] = s[k]
  BY <1>1
<1>3. t = [k \in 1..(Len(s) + 1) |-> t[k]]
  <2> HIDE DEF t
  <2>1. t \in [1..Len(t) -> S]
    BY <1>2
  <2> QED
    BY <1>2, <2>1
<1> HIDE DEF t
<1>4. Len(s) \in Nat /\ DOMAIN s = 1..Len(s)
  BY SeqFacts
<1>5. IsSeq(t)
  BY <1>3, <1>4, FunctionIsSeq
<1>6. t # <<>>
  BY <1>2, <1>4, NoItems
<1> QED
  BY <1>2, <1>4, <1>5, <1>6 DEF t

LEMMA TailFacts ==
  ASSUME NEW s, IsSeq(s), s # <<>>
  PROVE  /\ IsSeq(Tail(s)) /\ Len(Tail(s)) = Len(s) - 1 /\ Head(s) = s[1]
         /\ \A k \in DOMAIN Tail(s) : Tail(s)[k] = s[k + 1] /\ k + 1 \in DOMAIN s
         /\ 1 \in DOMAIN s
<1> DEFINE t == Tail(s)
<1>1. s \in Seq(ToSet(s)) /\ Len(s) \in Nat /\ Len(s) # 0
  BY SeqFacts DEF IsSeq
<1>2. t \in Seq(ToSet(s)) /\ Len(t) = Len(s) - 1 /\ Head(s) = s[1]
      /\ \A k \in 1..Len(t) : t[k] = s[k + 1]
  BY <1>1
<1>3. t = [k \in 1..(Len(s) - 1) |-> t[k]] /\ Len(s) - 1 \in Nat
  <2> HIDE DEF t
  <2>1. t \in [1..Len(t) -> ToSet(s)]
    BY <1>2
  <2> QED
    BY <1>1, <1>2, <2>1
<1> HIDE DEF t
<1>4. IsSeq(t)
  BY <1>3, FunctionIsSeq
<1>5. DOMAIN t = 1..Len(t) /\ DOMAIN s = 1..Len(s)
  BY <1>4, SeqFacts
<1> QED
  BY <1>1, <1>2, <1>4, <1>5 DEF t

LEMMA ListIsSeq ==
  ASSUME NEW S, IsFiniteSet(S), NEW list \in Lists(S)
  PROVE  IsSeq(list) /\ DOMAIN list = 1..Len(list) /\ \A k \in DOMAIN list : list[k] \in S
<1>1. Cardinality(S) \in Nat
  BY FS_CardinalityType
<1>2. list \in [1..Cardinality(S) -> S]
  BY DEF Lists
<1>3. IsSeq(list)
  BY <1>1, <1>2, FunctionIsSeq
<1> QED
  BY <1>2, <1>3, SeqFacts

-----------------------------------------------------------------------------
(* What a selector finds.                                                  *)

LEMMA HitRange ==
  ASSUME NEW p, NEW selector
  PROVE  Hit(p, selector) \in Nodes \cup {NoNode}
BY DEF Hit

\* A vote for a node is what the selector finds.
LEMMA VoteFacts ==
  ASSUME NEW p, NEW selector
  PROVE  /\ Vote(p, selector) \in Nodes => Vote(p, selector) = Hit(p, selector)
         /\ Hit(p, selector) # NoNode => Vote(p, selector) = Hit(p, selector)
BY TargetAssumption DEF Vote

-----------------------------------------------------------------------------
(* The lists a capture takes from a page.                                  *)

LEMMA CandidatesAreListed ==
  ASSUME page \in site, site \in Sites, NEW list \in Candidates(page)
  PROVE  IsSeq(list)
<1> DEFINE atoms == {a \in page.answers[Target] : a[1] \in DOMAIN Ranking}
           S == {<<atom>> : atom \in atoms}
           f == [atom \in atoms |-> <<atom>>]
<1>1. IsFiniteSet(atoms)
  <2>1. IsFiniteSet(page.answers[Target])
    BY SitesAssumption, TargetAssumption
  <2> QED
    BY <2>1, FS_Subset
<1>2. f \in Surjection(atoms, S)
  BY DEF Surjection
<1>3. IsFiniteSet(S)
  <2> HIDE DEF atoms, S, f
  <2> QED
    BY <1>1, <1>2, FS_Surjection
<1>4. list \in Lists(S)
  BY DEF Candidates
<1> HIDE DEF S
<1> QED
  BY <1>3, <1>4, ListIsSeq

LEMMA ScopesAreListed ==
  ASSUME page \in site, site \in Sites, NEW list \in ScopeSelectors(page)
  PROVE  IsSeq(list)
<1> DEFINE above == Ancestors(page)
           B(d) == Bucket(above, page, d)
           Bs == {B(d) : d \in DOMAIN above}
           f == [d \in DOMAIN above |-> B(d)]
<1>1. above \in Seq(Nodes)
  <2>1. page.above[Target] \in Seq(Nodes)
    BY SitesAssumption, TargetAssumption
  <2> QED
    BY <2>1, TargetAssumption DEF Ancestors
<1>2. IsFiniteSet(DOMAIN above)
  <2>1. Len(above) \in Int /\ DOMAIN above = 1..Len(above)
    BY <1>1
  <2> QED
    BY <2>1, FS_Interval
<1>3. f \in Surjection(DOMAIN above, Bs)
  BY DEF Surjection
<1>4. IsFiniteSet(Bs)
  <2> HIDE DEF above, f, Bs
  <2> QED
    BY <1>2, <1>3, FS_Surjection
<1>5. ASSUME NEW d \in DOMAIN above PROVE IsFiniteSet(B(d))
  <2> DEFINE atoms == {a \in page.answers[above[d]] :
                         a[1] \in DOMAIN ScopeKinds
                         /\ \A near \in 1..(d - 1) : a \notin page.answers[above[near]]}
             T == {[atom |-> atom, distance |-> d] : atom \in atoms}
             g == [atom \in atoms |-> [atom |-> atom, distance |-> d]]
  <2>1. IsFiniteSet(page.answers[above[d]])
    BY <1>1, SitesAssumption
  <2>2. IsFiniteSet(atoms)
    BY <2>1, FS_Subset
  <2>3. g \in Surjection(atoms, T)
    BY DEF Surjection
  <2>4. IsFiniteSet(T)
    <3> HIDE DEF atoms, T, g
    <3> QED
      BY <2>2, <2>3, FS_Surjection
  <2> QED
    BY <2>4 DEF Bucket
<1>6. IsFiniteSet(UNION Bs)
  <2>1. \A T \in Bs : IsFiniteSet(T)
    BY <1>5
  <2> HIDE DEF Bs
  <2> QED
    BY <1>4, <2>1, FS_UNION
<1>7. list \in Lists(UNION Bs)
  BY DEF ScopeSelectors
<1> HIDE DEF Bs
<1> QED
  BY <1>6, <1>7, ListIsSeq

-----------------------------------------------------------------------------
(* A capture begins, and each of its steps keeps what is known of it.      *)

LEMMA CaptureBegins ==
  ASSUME TargetInit
  PROVE  CaptureInv
<1>1. cap = NoCapture /\ pc = "identify"
  BY DEF TargetInit
<1>2. /\ cap.tries = <<>> /\ cap.kept = <<>> /\ cap.hits = <<>> /\ cap.scopes = Unlisted
      /\ cap.at = 1 /\ cap.inner = 1 /\ cap.outer = 0 /\ cap.rank = 0
  BY <1>1 DEF NoCapture
<1>3. Like(cap, NoCapture)
  BY <1>1 DEF Like, NoCapture
<1>4. IsSeq(cap.scopes) /\ Len(cap.scopes) = 1
  <2>1. Unlisted = [k \in 1..1 |-> Unlisted[k]]
    BY DEF Unlisted
  <2> QED
    BY <1>2, <2>1, FunctionIsSeq
<1>5. CaptureTypes
  BY <1>1, <1>2, <1>3, <1>4, NoItems DEF CaptureTypes, Listing, Testing, Proving
<1> QED
  BY <1>1, <1>5 DEF CaptureInv, KeptFind, Verified, VotesStand, Proven, Testing, Proving

\* The capture is given up.
LEMMA GivingUp ==
  ASSUME CaptureInv, NEW from, NEW reason, Unusable(from, reason) \/ Go(from, "escaped", cap)
  PROVE  CaptureInv'
<1>1. pc' \in {"raised", "escaped"}
  BY DEF Unusable, Go
<1>2. /\ Like(cap', NoCapture)
      /\ cap'.tries = cap.tries /\ cap'.kept = cap.kept /\ cap'.hits = cap.hits
      /\ cap'.scopes = cap.scopes /\ cap'.at = cap.at /\ cap'.inner = cap.inner
      /\ cap'.outer = cap.outer /\ cap'.rank = cap.rank
  BY DEF Unusable, Go, CaptureInv, CaptureTypes, Like, NoCapture
<1>3. CaptureTypes'
  BY <1>1, <1>2 DEF CaptureInv, CaptureTypes, Listing, Testing, Proving
<1> QED
  BY <1>1, <1>3 DEF CaptureInv, KeptFind, Verified, VotesStand, Proven, Testing, Proving

\* The capture waits, or goes on with what it found.
LEMMA GoingOn ==
  ASSUME CaptureInv, cap' = cap, page' = page, moved' = moved,
         \/ pc' = pc
         \/ pc = "verify" /\ pc' = "scoped" /\ cap.at <= Len(cap.tries)
         \/ pc = "build" /\ pc' = "prove" /\ cap.kept # <<>>
         \/ pc = "waiting" /\ pc' = "prove"
         \/ pc = "match" /\ pc' = "waiting"
         \/ pc = "same" /\ pc' = "recorded" /\ cap.hits[cap.rank] = Target
  PROVE  CaptureInv'
<1>1. CaptureTypes'
  BY DEF CaptureInv, CaptureTypes, Listing, Testing, Proving
<1>2. KeptFind' /\ Verified' /\ VotesStand' /\ Proven'
  BY DEF CaptureInv, KeptFind, Verified, VotesStand, Proven, Testing, Proving, AllFind
<1> QED
  BY <1>1, <1>2 DEF CaptureInv

\* The page changes, and the capture has not noticed.
LEMMA PageMoves ==
  ASSUME CaptureInv, cap' = cap, pc' = pc, moved' = TRUE
  PROVE  CaptureInv'
<1>1. CaptureTypes'
  BY DEF CaptureInv, CaptureTypes
<1> QED
  BY <1>1 DEF CaptureInv, KeptFind, Verified, VotesStand, Proven, Testing, Proving, AllFind

LEMMA IdentifyStep ==
  ASSUME CaptureInv, Identify
  PROVE  CaptureInv'
<1>1. CASE Unusable("identify", "identity_unconfirmed")
  BY <1>1, GivingUp
<1>2. CASE Go("identify", "facts", [cap EXCEPT !.name = page.name[Target]])
  <2>1. pc = "identify" /\ pc' = "facts"
    BY <1>2 DEF Go
  <2>2. /\ Like(cap', NoCapture)
        /\ cap'.tries = cap.tries /\ cap'.kept = cap.kept /\ cap'.hits = cap.hits
        /\ cap'.scopes = cap.scopes /\ cap'.at = cap.at /\ cap'.inner = cap.inner
        /\ cap'.outer = cap.outer /\ cap'.rank = cap.rank
    BY <1>2 DEF Go, CaptureInv, CaptureTypes, Like, NoCapture
  <2>3. CaptureTypes'
    BY <2>1, <2>2 DEF CaptureInv, CaptureTypes, Listing, Testing, Proving
  <2> QED
    BY <2>1, <2>3 DEF CaptureInv, KeptFind, Verified, VotesStand, Proven, Testing, Proving
<1> QED
  BY <1>1, <1>2 DEF Identify

LEMMA ReadFactsStep ==
  ASSUME CaptureInv, page \in site, site \in Sites, ReadFacts
  PROVE  CaptureInv'
<1>1. CASE Unusable("facts", "element_gone")
  BY <1>1, GivingUp
<1>2. ASSUME NEW list \in Candidates(page),
             Go("facts", "settle", [cap EXCEPT !.tries = list])
      PROVE  CaptureInv'
  <2>1. pc = "facts" /\ pc' = "settle"
    BY <1>2 DEF Go
  <2>2. /\ Like(cap', NoCapture)
        /\ cap'.tries = list /\ cap'.kept = cap.kept /\ cap'.hits = cap.hits
        /\ cap'.scopes = cap.scopes /\ cap'.at = cap.at /\ cap'.inner = cap.inner
        /\ cap'.outer = cap.outer /\ cap'.rank = cap.rank
    BY <1>2 DEF Go, CaptureInv, CaptureTypes, Like, NoCapture
  <2>3. IsSeq(list) /\ Len(list) \in Nat
    BY CandidatesAreListed, SeqFacts
  <2>4. CaptureTypes'
    BY <2>1, <2>2, <2>3 DEF CaptureInv, CaptureTypes, Listing, Testing, Proving
  <2> QED
    BY <2>1, <2>4 DEF CaptureInv, KeptFind, Verified, VotesStand, Proven, Testing, Proving
<1> QED
  BY <1>1, <1>2 DEF ReadFacts

LEMMA SettleStep ==
  ASSUME CaptureInv, Settle
  PROVE  CaptureInv'
<1>1. pc = "settle" /\ pc' = "verify"
  BY DEF Settle, SettleTo
<1>2. /\ Like(cap', NoCapture)
      /\ cap'.tries = cap.tries /\ cap'.kept = <<>> /\ cap'.hits = cap.hits
      /\ cap'.scopes = cap.scopes /\ cap'.at = 1 /\ cap'.inner = 1
      /\ cap'.outer = 0 /\ cap'.rank = cap.rank
  <2>1. cap' = [cap EXCEPT !.at = 1, !.kept = <<>>, !.dropped = <<>>, !.inner = 1, !.outer = 0]
    BY DEF Settle, SettleTo
  <2> QED
    BY <2>1 DEF CaptureInv, CaptureTypes, Like, NoCapture
<1>3. Len(cap.tries) \in Nat /\ Len(cap.scopes) \in Nat
  BY SeqFacts DEF CaptureInv, CaptureTypes
<1>4. CaptureTypes'
  BY <1>1, <1>2, <1>3, NoItems DEF CaptureInv, CaptureTypes, Listing, Testing, Proving
<1>5. AllFind(page)'
  BY <1>2, NoItems DEF AllFind
<1> QED
  BY <1>1, <1>4, <1>5 DEF CaptureInv, KeptFind, Verified, VotesStand, Proven, Testing, Proving

\* A candidate is kept: it finds the target.
LEMMA KeepStep ==
  ASSUME CaptureInv, pc \in Testing, cap.at <= Len(cap.tries), NEW from, NEW selector,
         Hit(page, selector) = Target, Go(from, "verify", Keep(selector))
  PROVE  CaptureInv'
<1> DEFINE kept == IF selector \in ToSet(cap.kept) THEN cap.kept ELSE Append(cap.kept, selector)
<1>1. pc' = "verify" /\ page' = page /\ moved' = moved
  BY DEF Go, pageVars
<1>2. /\ Like(cap', NoCapture)
      /\ cap'.tries = cap.tries /\ cap'.kept = kept /\ cap'.hits = cap.hits
      /\ cap'.scopes = cap.scopes /\ cap'.at = cap.at + 1 /\ cap'.inner = 1
      /\ cap'.outer = 0 /\ cap'.rank = cap.rank
  <2>1. cap' = [cap EXCEPT !.at = cap.at + 1, !.inner = 1, !.outer = 0, !.kept = kept]
    BY DEF Go, Keep, CaptureInv, CaptureTypes, Like, NoCapture
  <2> HIDE DEF kept
  <2> QED
    BY <2>1 DEF CaptureInv, CaptureTypes, Like, NoCapture
<1>3. IsSeq(cap.kept) /\ Len(cap.tries) \in Nat /\ Len(cap.scopes) \in Nat
      /\ DOMAIN cap.kept = 1..Len(cap.kept) /\ Len(cap.kept) \in Nat
  BY SeqFacts DEF CaptureInv, CaptureTypes
<1>4. IsSeq(kept) /\ Len(kept) \in Nat /\ Len(cap.kept) <= Len(kept)
  BY <1>3, AppendFacts, SeqFacts
<1>5. moved \/ \A k \in DOMAIN kept : Hit(page, kept[k]) = Target
  <2>1. CASE selector \in ToSet(cap.kept)
    BY <2>1 DEF CaptureInv, KeptFind, AllFind
  <2>2. CASE selector \notin ToSet(cap.kept)
    <3>1. kept = Append(cap.kept, selector)
      BY <2>2
    <3>2. /\ DOMAIN kept = 1..(Len(cap.kept) + 1) /\ kept[Len(cap.kept) + 1] = selector
          /\ \A k \in DOMAIN cap.kept : kept[k] = cap.kept[k]
      BY <1>3, <1>4, <3>1, AppendFacts, SeqFacts
    <3> QED
      BY <1>3, <3>2 DEF CaptureInv, KeptFind, AllFind
  <2> QED
    BY <2>1, <2>2
<1> HIDE DEF kept
<1>6. CaptureTypes'
  <2>1. cap.hits = <<>> /\ cap.rank = 0 /\ cap.at \in Nat
    BY DEF CaptureInv, CaptureTypes, Testing
  <2>2. IsSeq(cap.tries) /\ IsSeq(cap.scopes) /\ cap.at + 1 \in 1..(Len(cap.tries) + 1)
    BY <1>3, <2>1 DEF CaptureInv, CaptureTypes
  <2>3. 1 \in 1..(Len(cap.scopes) + 1) /\ 0 \in 0..Len(cap.scopes) /\ 0 \in 0..Len(kept)
    BY <1>3, <1>4
  <2> QED
    BY <1>1, <1>2, <1>4, <2>1, <2>2, <2>3, NoItems DEF CaptureTypes, Listing, Testing, Proving
<1>7. KeptFind'
  BY <1>1, <1>2, <1>5 DEF KeptFind, AllFind
<1> QED
  BY <1>1, <1>6, <1>7 DEF CaptureInv, Verified, VotesStand, Proven, Testing, Proving

\* A candidate is dropped.
LEMMA DropStep ==
  ASSUME CaptureInv, pc \in Testing, cap.at <= Len(cap.tries), NEW from, NEW reason,
         Go(from, "verify", Drop(reason))
  PROVE  CaptureInv'
<1>1. pc' = "verify" /\ page' = page /\ moved' = moved
  BY DEF Go, pageVars
<1>2. /\ Like(cap', NoCapture)
      /\ cap'.tries = cap.tries /\ cap'.kept = cap.kept /\ cap'.hits = cap.hits
      /\ cap'.scopes = cap.scopes /\ cap'.at = cap.at + 1 /\ cap'.inner = 1
      /\ cap'.outer = 0 /\ cap'.rank = cap.rank
  <2> DEFINE dropped == Append(cap.dropped, <<Candidate, reason>>)
  <2>1. cap' = [cap EXCEPT !.at = cap.at + 1, !.inner = 1, !.outer = 0, !.dropped = dropped]
    BY DEF Go, Drop, CaptureInv, CaptureTypes, Like, NoCapture
  <2> HIDE DEF dropped
  <2> QED
    BY <2>1 DEF CaptureInv, CaptureTypes, Like, NoCapture
<1>3. Len(cap.tries) \in Nat /\ Len(cap.scopes) \in Nat
  BY SeqFacts DEF CaptureInv, CaptureTypes
<1>4. CaptureTypes'
  <2>1. /\ IsSeq(cap.tries) /\ IsSeq(cap.kept) /\ IsSeq(cap.scopes) /\ IsSeq(cap.hits)
        /\ cap.at \in 1..(Len(cap.tries) + 1) /\ Len(cap.hits) <= Len(cap.kept)
        /\ cap.hits = <<>> /\ cap.rank \in 0..Len(cap.kept) /\ cap.rank = 0
    BY DEF CaptureInv, CaptureTypes, Testing, Proving
  <2>2. /\ cap'.at \in 1..(Len(cap'.tries) + 1)
        /\ cap'.inner \in 1..(Len(cap'.scopes) + 1) /\ cap'.outer \in 0..Len(cap'.scopes)
        /\ cap'.inner = 1 /\ cap'.outer = 0
    BY <1>2, <1>3, <2>1
  <2>3. pc' \in Testing /\ pc' \notin Listing /\ pc' # "scoped"
    BY <1>1 DEF Listing, Testing
  <2>4. /\ IsSeq(cap'.tries) /\ IsSeq(cap'.kept) /\ IsSeq(cap'.scopes) /\ IsSeq(cap'.hits)
        /\ Len(cap'.hits) <= Len(cap'.kept) /\ cap'.hits = <<>>
        /\ cap'.rank \in 0..Len(cap'.kept) /\ cap'.rank = 0
    BY <1>2, <2>1
  <2> QED BY <1>2, <2>2, <2>3, <2>4 DEF CaptureTypes
<1>5. KeptFind'
  BY <1>1, <1>2 DEF CaptureInv, KeptFind, AllFind
<1> QED
  BY <1>1, <1>4, <1>5 DEF CaptureInv, Verified, VotesStand, Proven, Testing, Proving

LEMMA TryCandidateStep ==
  ASSUME CaptureInv, TryCandidate
  PROVE  CaptureInv'
<1>1. pc = "verify" /\ cap.at <= Len(cap.tries)
  BY DEF TryCandidate, Trying
<1>2. CASE Hit(page, Candidate) = NoNode /\ TooMany(page, Candidate)
  <2>1. Go("verify", "scoped", cap)
    BY <1>2 DEF TryCandidate
  <2>2. cap' = cap /\ page' = page /\ moved' = moved /\ pc' = "scoped"
    BY <2>1 DEF Go, pageVars
  <2> QED
    BY <1>1, <2>2, GoingOn
<1>3. CASE ~(Hit(page, Candidate) = NoNode /\ TooMany(page, Candidate))
  <2>1. Go("verify", "verify", Try(Hit(page, Candidate)))
    BY <1>3 DEF TryCandidate
  <2>2. \/ Go("verify", "verify", Keep(Candidate)) /\ Hit(page, Candidate) = Target
        \/ \E reason \in {"different_element", "no_match"} : Go("verify", "verify", Drop(reason))
    BY <2>1 DEF Try, Same
  <2>3. pc \in Testing
    BY <1>1 DEF Testing
  <2> QED
    BY <1>1, <2>2, <2>3, KeepStep, DropStep
<1> QED
  BY <1>2, <1>3

LEMMA ListScopesStep ==
  ASSUME CaptureInv, page \in site, site \in Sites, ListScopes
  PROVE  CaptureInv'
<1>1. CASE Go("scoped", "escaped", cap)
  BY <1>1, GivingUp
<1>2. ASSUME NEW list \in ScopeSelectors(page),
             Go("scoped", "scoped", [cap EXCEPT !.scopes = list])
      PROVE  CaptureInv'
  <2>1. pc = "scoped" /\ pc' = "scoped" /\ page' = page /\ moved' = moved
    BY <1>2 DEF Go, pageVars
  <2>2. /\ Like(cap', NoCapture)
        /\ cap'.tries = cap.tries /\ cap'.kept = cap.kept /\ cap'.hits = cap.hits
        /\ cap'.scopes = list /\ cap'.at = cap.at /\ cap'.inner = cap.inner
        /\ cap'.outer = cap.outer /\ cap'.rank = cap.rank
    BY <1>2 DEF Go, CaptureInv, CaptureTypes, Like, NoCapture
  <2>3. IsSeq(list) /\ Len(list) \in Nat
    BY ScopesAreListed, SeqFacts
  <2>4. cap.inner = 1 /\ cap.outer = 0
    BY DEF ListScopes, CaptureInv, CaptureTypes
  <2>5. CaptureTypes'
    BY <2>1, <2>2, <2>3, <2>4 DEF CaptureInv, CaptureTypes, Listing, Testing, Proving
  <2>6. KeptFind'
    BY <2>1, <2>2 DEF CaptureInv, KeptFind, AllFind
  <2> QED
    BY <2>1, <2>5, <2>6 DEF CaptureInv, Verified, VotesStand, Proven, Testing, Proving
<1> QED
  BY <1>1, <1>2 DEF ListScopes

\* The next scope is at hand, or one further out.
LEMMA ScopeStep ==
  ASSUME CaptureInv, pc = "scoped", cap.scopes # Unlisted, cap.inner <= Len(cap.scopes),
         NEW after \in Nat,
         Go("scoped", "scoped", NextScope) \/ Go("scoped", "scoped", Deepen(after))
  PROVE  CaptureInv'
<1>1. pc' = "scoped" /\ page' = page /\ moved' = moved
  BY DEF Go, pageVars
<1>2. Len(cap.scopes) \in Nat /\ DOMAIN cap.scopes = 1..Len(cap.scopes)
  BY SeqFacts DEF CaptureInv, CaptureTypes
<1>3. /\ Like(cap', NoCapture)
      /\ cap'.tries = cap.tries /\ cap'.kept = cap.kept /\ cap'.hits = cap.hits
      /\ cap'.scopes = cap.scopes /\ cap'.at = cap.at /\ cap'.rank = cap.rank
      /\ \/ cap'.inner = cap.inner + 1 /\ cap'.outer = 0
         \/ cap'.inner = cap.inner /\ cap'.outer \in DOMAIN cap.scopes
  <2>1. CASE cap' = NextScope
    <3>1. cap' = [cap EXCEPT !.inner = cap.inner + 1, !.outer = 0]
      BY <2>1 DEF NextScope, CaptureInv, CaptureTypes, Like, NoCapture
    <3> QED
      BY <3>1 DEF CaptureInv, CaptureTypes, Like, NoCapture
  <2>2. CASE Outers(after) # {} /\ cap' = Deepen(after)
    <3> DEFINE k == CHOOSE k \in Outers(after) : \A j \in Outers(after) : k <= j
    <3>1. Outers(after) \in SUBSET Nat /\ Outers(after) \subseteq DOMAIN cap.scopes
      BY <1>2 DEF Outers
    <3>2. k \in DOMAIN cap.scopes
      BY <2>2, <3>1, LeastNumber
    <3>3. cap' = [cap EXCEPT !.outer = k]
      BY <2>2 DEF Deepen
    <3> HIDE DEF k
    <3> QED
      BY <3>2, <3>3 DEF CaptureInv, CaptureTypes, Like, NoCapture
  <2> QED
    BY <2>1, <2>2 DEF Go, Deepen
<1>4. CaptureTypes'
  <2>1. /\ cap'.inner \in 1..(Len(cap'.scopes) + 1)
        /\ cap'.outer \in 0..Len(cap'.scopes)
        /\ cap'.outer > 0 => cap'.inner <= Len(cap'.scopes)
        /\ cap'.scopes # Unlisted
    <3>1. cap.inner \in 1..(Len(cap.scopes) + 1)
      BY DEF CaptureInv, CaptureTypes
    <3> QED
      BY <1>2, <1>3, <3>1
  <2> QED
    BY <1>1, <1>3, <2>1 DEF CaptureInv, CaptureTypes, Listing, Testing, Proving
<1>5. KeptFind'
  BY <1>1, <1>3 DEF CaptureInv, KeptFind, AllFind, Testing
<1> QED
  BY <1>1, <1>4, <1>5 DEF CaptureInv, Verified, VotesStand, Proven, Testing, Proving

LEMMA TryScopeStep ==
  ASSUME CaptureInv, TryScope
  PROVE  CaptureInv'
<1>1. pc = "scoped" /\ cap.scopes # Unlisted /\ cap.inner <= Len(cap.scopes)
  BY DEF TryScope
<1>2. \/ Hit(page, Inside) = Target /\ Go("scoped", "verify", Keep(Inside))
      \/ Go("scoped", "scoped", Deepen(0))
      \/ Go("scoped", "scoped", NextScope)
  BY DEF TryScope, Same
<1>3. pc \in Testing /\ cap.at <= Len(cap.tries)
  BY <1>1 DEF Testing, CaptureInv, CaptureTypes
<1> QED
  BY <1>1, <1>2, <1>3, KeepStep, ScopeStep

LEMMA TryDeeperStep ==
  ASSUME CaptureInv, TryDeeper
  PROVE  CaptureInv'
<1> DEFINE selector == WithScope(Inside, <<cap.scopes[cap.outer].atom>>)
<1>1. pc = "scoped" /\ cap.outer > 0
  BY DEF TryDeeper
<1>2. cap.scopes # Unlisted /\ cap.inner <= Len(cap.scopes) /\ cap.outer \in Nat
  <2>1. Len(cap.scopes) \in Nat
    BY SeqFacts DEF CaptureInv, CaptureTypes
  <2> QED
    BY <1>1, <2>1 DEF CaptureInv, CaptureTypes
<1>3. \/ Hit(page, selector) = Target /\ Go("scoped", "verify", Keep(selector))
      \/ Go("scoped", "scoped", Deepen(cap.outer))
  BY DEF TryDeeper, Same
<1>4. pc \in Testing /\ cap.at <= Len(cap.tries)
  BY <1>1 DEF Testing, CaptureInv, CaptureTypes
<1> HIDE DEF selector
<1> QED
  BY <1>1, <1>2, <1>3, <1>4, KeepStep, ScopeStep

LEMMA AmbiguousStep ==
  ASSUME CaptureInv, Ambiguous
  PROVE  CaptureInv'
<1>1. pc = "scoped" /\ Go("scoped", "verify", Drop("ambiguous"))
  BY DEF Ambiguous
<1>2. pc \in Testing /\ cap.at <= Len(cap.tries)
  BY <1>1 DEF Testing, CaptureInv, CaptureTypes
<1> QED
  BY <1>1, <1>2, DropStep

LEMMA ConfirmStep ==
  ASSUME CaptureInv, Confirm
  PROVE  CaptureInv'
<1>1. CASE ~moved /\ Go("verify", "build", [cap EXCEPT !.verifiedOn = {page}])
  <2>1. pc = "verify" /\ pc' = "build" /\ page' = page /\ moved' = moved
    BY <1>1 DEF Go, pageVars
  <2>2. /\ Like(cap', NoCapture)
        /\ cap'.tries = cap.tries /\ cap'.kept = cap.kept /\ cap'.hits = cap.hits
        /\ cap'.scopes = cap.scopes /\ cap'.at = cap.at /\ cap'.inner = cap.inner
        /\ cap'.outer = cap.outer /\ cap'.rank = cap.rank /\ cap'.verifiedOn = {page}
    BY <1>1 DEF Go, CaptureInv, CaptureTypes, Like, NoCapture
  <2>3. CaptureTypes'
    BY <2>1, <2>2 DEF CaptureInv, CaptureTypes, Listing, Testing, Proving
  <2>4. Verified'
    BY <1>1, <2>1, <2>2 DEF CaptureInv, KeptFind, Verified, AllFind, Testing, Proving
  <2> QED
    BY <2>1, <2>3, <2>4 DEF CaptureInv, KeptFind, VotesStand, Proven, Testing, Proving
<1>2. CASE Go("verify", "settle", cap)
  <2>1. pc = "verify" /\ pc' = "settle" /\ cap' = cap
    BY <1>2 DEF Go
  <2>2. CaptureTypes'
    BY <2>1 DEF CaptureInv, CaptureTypes, Listing, Testing, Proving
  <2> QED
    BY <2>1, <2>2 DEF CaptureInv, KeptFind, Verified, VotesStand, Proven, Testing, Proving
<1>3. CASE Unusable("verify", "page_never_stable")
  BY <1>3, GivingUp
<1> QED
  BY <1>1, <1>2, <1>3 DEF Confirm

LEMMA BuildStep ==
  ASSUME CaptureInv, Build
  PROVE  CaptureInv'
<1>1. CASE cap.kept # <<>> /\ Go("build", "prove", cap)
  <2>1. pc = "build" /\ pc' = "prove" /\ cap' = cap /\ page' = page /\ moved' = moved
    BY <1>1 DEF Go, pageVars
  <2> QED
    BY <1>1, <2>1, GoingOn
<1> QED
  BY <1>1, GivingUp DEF Build

LEMMA ProveSettleStep ==
  ASSUME CaptureInv, ProveSettle
  PROVE  CaptureInv'
<1>1. PICK quiet \in BOOLEAN :
        SettleTo("prove", "match", [cap EXCEPT !.hits = <<>>, !.quiet = quiet])
  BY DEF ProveSettle
<1>2. pc = "prove" /\ pc' = "match" /\ page' = page
  BY <1>1 DEF SettleTo
<1>3. /\ Like(cap', NoCapture)
      /\ cap'.tries = cap.tries /\ cap'.kept = cap.kept /\ cap'.hits = <<>>
      /\ cap'.scopes = cap.scopes /\ cap'.at = cap.at /\ cap'.inner = cap.inner
      /\ cap'.outer = cap.outer /\ cap'.rank = cap.rank /\ cap'.verifiedOn = cap.verifiedOn
  BY <1>1 DEF SettleTo, CaptureInv, CaptureTypes, Like, NoCapture
<1>4. Len(cap.kept) \in Nat
  BY SeqFacts DEF CaptureInv, CaptureTypes
<1>5. CaptureTypes'
  BY <1>2, <1>3, <1>4, NoItems DEF CaptureInv, CaptureTypes, Listing, Testing, Proving
<1>6. Verified' /\ VotesStand'
  BY <1>2, <1>3, NoItems DEF CaptureInv, Verified, AllFind, VotesStand, Testing, Proving
<1> QED
  BY <1>2, <1>5, <1>6 DEF CaptureInv, KeptFind, Proven, Testing

LEMMA MatchNextStep ==
  ASSUME CaptureInv, MatchNext
  PROVE  CaptureInv'
<1> DEFINE n == Len(cap.hits)
           hits == Append(cap.hits, Vote(page, cap.kept[n + 1]))
<1>1. pc = "match" /\ pc' = "match" /\ page' = page /\ moved' = moved
  BY DEF MatchNext, Go, pageVars
<1>2. /\ Like(cap', NoCapture)
      /\ cap'.tries = cap.tries /\ cap'.kept = cap.kept /\ cap'.hits = hits
      /\ cap'.scopes = cap.scopes /\ cap'.at = cap.at /\ cap'.inner = cap.inner
      /\ cap'.outer = cap.outer /\ cap'.rank = cap.rank /\ cap'.verifiedOn = cap.verifiedOn
  <2>1. cap' = [cap EXCEPT !.hits = hits]
    BY DEF MatchNext, Go, Vote, CaptureInv, CaptureTypes, Like, NoCapture
  <2> HIDE DEF hits
  <2> QED
    BY <2>1 DEF CaptureInv, CaptureTypes, Like, NoCapture
<1>3. n \in Nat /\ Len(cap.kept) \in Nat /\ n < Len(cap.kept) /\ DOMAIN cap.hits = 1..n
      /\ IsSeq(cap.hits)
  BY SeqFacts DEF MatchNext, CaptureInv, CaptureTypes
<1>4. /\ IsSeq(hits) /\ Len(hits) = n + 1 /\ hits[n + 1] = Vote(page, cap.kept[n + 1])
      /\ \A k \in DOMAIN cap.hits : hits[k] = cap.hits[k]
      /\ DOMAIN hits = 1..(n + 1)
  BY <1>3, AppendFacts, SeqFacts
<1> HIDE DEF hits
<1>5. CaptureTypes'
  BY <1>1, <1>2, <1>3, <1>4 DEF CaptureInv, CaptureTypes, Listing, Testing, Proving
<1>6. VotesStand'
  <2>1. ~moved => \A k \in DOMAIN hits : hits[k] = Vote(page, cap.kept[k])
    BY <1>1, <1>3, <1>4 DEF CaptureInv, VotesStand
  <2> QED
    BY <1>1, <1>2, <2>1 DEF VotesStand
<1>7. Verified'
  BY <1>1, <1>2 DEF CaptureInv, Verified, AllFind, Proving
<1> QED
  BY <1>1, <1>5, <1>6, <1>7 DEF CaptureInv, KeptFind, Proven, Testing

LEMMA ProveConfirmStep ==
  ASSUME CaptureInv, ProveConfirm
  PROVE  CaptureInv'
<1>1. pc = "match" /\ Len(cap.hits) = Len(cap.kept)
  BY DEF ProveConfirm
<1>2. /\ IsSeq(cap.kept) /\ IsSeq(cap.hits) /\ Len(cap.kept) \in Nat
      /\ DOMAIN cap.kept = 1..Len(cap.kept) /\ DOMAIN cap.hits = DOMAIN cap.kept
  BY <1>1, SeqFacts DEF CaptureInv, CaptureTypes
<1> DEFINE rank == CHOOSE r \in Voted : \A q \in Voted : r <= q
<1>3. CASE Still /\ Reading = "resolved"
           /\ Go("match", "same", [cap EXCEPT !.rank = rank, !.provenOn = {page}])
  <2>1. pc' = "same" /\ page' = page /\ moved' = moved /\ ~moved
    BY <1>3 DEF Go, pageVars, Still
  <2>2. Cardinality(Elected) = 1 /\ \A node \in Elected : Identified(node)
    BY <1>3 DEF Reading
  <2>3. PICK node : Elected = {node}
    <3>1. IsFiniteSet(DOMAIN cap.hits)
      <4>1. 1 \in Int /\ Len(cap.kept) \in Int
        BY <1>2
      <4> QED
        BY <1>2, <4>1, FS_Interval
    <3>2. IsFiniteSet(Voted)
      BY <3>1, FS_Subset DEF Voted
    <3>3. [r \in Voted |-> cap.hits[r]] \in Surjection(Voted, Elected)
      BY DEF Surjection, Elected
    <3>4. IsFiniteSet(Elected)
      BY <3>2, <3>3, FS_Surjection
    <3> QED
      BY <2>2, <3>4, FS_Singleton
  <2>4. rank \in Voted
    <3>1. Voted \in SUBSET Nat
      BY <1>2 DEF Voted
    <3>2. Voted # {}
      BY <2>3 DEF Elected
    <3>3. \E r \in Voted : \A q \in Voted : r <= q
      BY <3>1, <3>2, LeastNumber
    <3> QED
      BY <3>3
  <2> HIDE DEF rank
  <2>5. rank \in DOMAIN cap.kept /\ cap.hits[rank] = node /\ node \in Nodes
    BY <1>2, <2>3, <2>4 DEF Voted, Elected
  <2>6. \A k \in DOMAIN cap.kept : cap.hits[k] = Vote(page, cap.kept[k])
    BY <1>1, <1>2, <2>1 DEF CaptureInv, VotesStand
  <2>7. ASSUME NEW k \in DOMAIN cap.kept PROVE Hit(page, cap.kept[k]) \in {node, NoNode}
    <3>1. CASE Hit(page, cap.kept[k]) # NoNode
      <4>1. cap.hits[k] = Hit(page, cap.kept[k]) /\ cap.hits[k] \in Nodes
        BY <2>6, <3>1, HitRange, VoteFacts
      <4>2. cap.hits[k] \in Elected
        BY <1>2, <4>1 DEF Elected, Voted
      <4> QED
        BY <2>3, <4>1, <4>2
    <3> QED
      BY <3>1
  <2>8. Hit(page, cap.kept[rank]) = node
    BY <2>5, <2>6, VoteFacts
  <2>9. page.name[node] = cap.name
    BY <2>2, <2>3 DEF Identified
  <2>10. /\ Like(cap', NoCapture) /\ cap'.name = cap.name
         /\ cap'.tries = cap.tries /\ cap'.kept = cap.kept /\ cap'.hits = cap.hits
         /\ cap'.scopes = cap.scopes /\ cap'.at = cap.at /\ cap'.inner = cap.inner
         /\ cap'.outer = cap.outer /\ cap'.rank = rank /\ cap'.verifiedOn = cap.verifiedOn
         /\ cap'.provenOn = {page}
    BY <1>3 DEF Go, CaptureInv, CaptureTypes, Like, NoCapture
  <2>11. CaptureTypes'
    BY <1>1, <1>2, <2>1, <2>5, <2>10 DEF CaptureInv, CaptureTypes, Listing, Testing, Proving
  <2>12. Proven'
    BY <2>1, <2>5, <2>7, <2>8, <2>9, <2>10 DEF Proven
  <2>13. Verified'
    BY <1>1, <2>1, <2>10 DEF CaptureInv, Verified, AllFind, Proving
  <2> QED
    BY <2>1, <2>11, <2>12, <2>13 DEF CaptureInv, KeptFind, VotesStand, Testing
<1>4. CASE Go("match", "waiting", [cap EXCEPT !.last = Reading])
  <2>1. pc' = "waiting"
    BY <1>4 DEF Go
  <2>2. /\ Like(cap', NoCapture)
        /\ cap'.tries = cap.tries /\ cap'.kept = cap.kept /\ cap'.hits = cap.hits
        /\ cap'.scopes = cap.scopes /\ cap'.at = cap.at /\ cap'.inner = cap.inner
        /\ cap'.outer = cap.outer /\ cap'.rank = cap.rank /\ cap'.verifiedOn = cap.verifiedOn
    BY <1>4 DEF Go, CaptureInv, CaptureTypes, Like, NoCapture
  <2>3. CaptureTypes'
    BY <1>1, <2>1, <2>2 DEF CaptureInv, CaptureTypes, Listing, Testing, Proving
  <2>4. Verified'
    BY <1>1, <2>1, <2>2 DEF CaptureInv, Verified, AllFind, Proving
  <2> QED
    BY <2>1, <2>3, <2>4 DEF CaptureInv, KeptFind, VotesStand, Proven, Testing
<1>5. CASE Go("match", "waiting", cap)
  <2>1. pc' = "waiting" /\ cap' = cap /\ page' = page /\ moved' = moved
    BY <1>5 DEF Go, pageVars
  <2> QED
    BY <1>1, <2>1, GoingOn
<1>6. CASE \E reason \in {Refused(Reading), Refused(cap.last)} : Unusable("match", reason)
  BY <1>6, GivingUp
<1> QED
  BY <1>3, <1>4, <1>5, <1>6 DEF ProveConfirm

LEMMA ProveWaitStep ==
  ASSUME CaptureInv, ProveWait
  PROVE  CaptureInv'
<1>1. pc = "waiting" /\ pc' = "prove" /\ cap' = cap /\ page' = page /\ moved' = moved
  BY DEF ProveWait, Go, pageVars
<1> QED
  BY <1>1, GoingOn

LEMMA SameAgainStep ==
  ASSUME CaptureInv, SameAgain
  PROVE  CaptureInv'
<1>1. CASE Same(cap.hits[cap.rank]) /\ Go("same", "recorded", cap)
  <2>1. /\ pc = "same" /\ pc' = "recorded" /\ cap' = cap /\ page' = page /\ moved' = moved
        /\ cap.hits[cap.rank] = Target
    BY <1>1 DEF Same, Go, pageVars
  <2> QED
    BY <2>1, GoingOn
<1> QED
  BY <1>1, GivingUp DEF SameAgain

\* Whatever the capture, its page and its deadline do, the invariant is kept.
LEMMA TargetStep ==
  ASSUME CaptureInv, site \in Sites, page \in site, TargetNext
  PROVE  CaptureInv' /\ site' \in Sites /\ page' \in site'
<1>1. site' = site
  BY DEF TargetNext, Capture, Identify, ReadFacts, Settle, TryCandidate, ListScopes, TryScope,
    TryDeeper, Ambiguous, Confirm, Build, ProveSettle, MatchNext, ProveConfirm, ProveWait,
    SameAgain, Unusable, Go, SettleTo, PageChanges, DocumentReplaced, DeadlinePasses, pageVars
<1>2. CASE PageChanges \/ DocumentReplaced
  <2>1. cap' = cap /\ pc' = pc /\ moved' = TRUE /\ page' \in site
    BY <1>2 DEF PageChanges, DocumentReplaced
  <2> QED
    BY <1>1, <2>1, PageMoves
<1>3. CASE DeadlinePasses
  <2>1. cap' = cap /\ pc' = pc /\ moved' = moved /\ page' = page
    BY <1>3 DEF DeadlinePasses, pageVars
  <2> QED
    BY <1>1, <2>1, GoingOn
<1>4. CASE Capture
  <2>1. page' = page
    BY <1>4 DEF Capture, Identify, ReadFacts, Settle, TryCandidate, ListScopes, TryScope,
      TryDeeper, Ambiguous, Confirm, Build, ProveSettle, MatchNext, ProveConfirm, ProveWait,
      SameAgain, Unusable, Go, SettleTo, pageVars
  <2>2. CaptureInv'
    BY <1>4, IdentifyStep, ReadFactsStep, SettleStep, TryCandidateStep, ListScopesStep,
      TryScopeStep, TryDeeperStep, AmbiguousStep, ConfirmStep, BuildStep, ProveSettleStep,
      MatchNextStep, ProveConfirmStep, ProveWaitStep, SameAgainStep DEF Capture
  <2> QED
    BY <1>1, <2>1, <2>2
<1> QED
  BY <1>2, <1>3, <1>4 DEF TargetNext

\* A capture that is over proves its target.
LEMMA RecordedIsProven ==
  ASSUME stage = "capture" => CaptureInv
  PROVE  TargetIsProven
<1> SUFFICES ASSUME CaptureInv, pc = "recorded" PROVE TargetIsProven
  BY DEF TargetIsProven
<1> DEFINE node == cap.hits[cap.rank]
<1>1. pc \in Proving
  BY DEF Proving
<1>2. PICK p \in cap.verifiedOn : cap.verifiedOn = {p} /\ AllFind(p)
  BY <1>1 DEF CaptureInv, Verified
<1>3. PICK q \in cap.provenOn :
        /\ cap.provenOn = {q} /\ node \in Nodes
        /\ \A k \in DOMAIN cap.kept : Hit(q, cap.kept[k]) \in {node, NoNode}
        /\ Hit(q, cap.kept[cap.rank]) = node
        /\ q.name[node] = cap.name
  BY DEF CaptureInv, Proven
<1>4. node = Target /\ cap.rank \in DOMAIN cap.kept /\ cap.kept # <<>>
  BY <1>1 DEF CaptureInv, Proven, Verified
<1>5. {Hit(q, cap.kept[k]) : k \in DOMAIN cap.kept} \ {NoNode} = {Target}
  BY <1>3, <1>4, TargetAssumption
<1>6. Cardinality(cap.verifiedOn) = 1 /\ Cardinality(cap.provenOn) = 1
  BY <1>2, <1>3, FS_Singleton
<1> QED
  BY <1>2, <1>3, <1>4, <1>5, <1>6 DEF TargetIsProven, AllFind

-----------------------------------------------------------------------------
(* What is proposed after a step says what the step changed.               *)

LEMMA CopiesAreCounted ==
  ASSUME NEW texts, IsSeq(texts), NEW text
  PROVE  /\ IsFiniteSet({k \in DOMAIN texts : texts[k] = text})
         /\ Copies(texts, text) \in Nat
<1>1. IsFiniteSet(1..Len(texts))
  <2>1. 1 \in Int /\ Len(texts) \in Int
    BY SeqFacts
  <2> QED
    BY <2>1, FS_Interval
<1>2. {k \in DOMAIN texts : texts[k] = text} \in SUBSET (1..Len(texts))
  BY SeqFacts
<1>3. IsFiniteSet({k \in DOMAIN texts : texts[k] = text})
  BY <1>1, <1>2, FS_Subset
<1> QED
  BY <1>3, FS_CardinalityType DEF Copies

LEMMA FewerAtFirst ==
  ASSUME NEW live, IsSeq(live), NEW first \in 1..Len(live), NEW text
  PROVE  /\ Copies(SubSeq(live, 1, first), text) \in Nat
         /\ Copies(SubSeq(live, 1, first), text) <= Copies(live, text)
<1> DEFINE start == SubSeq(live, 1, first)
           S == {k \in DOMAIN start : start[k] = text}
           T == {k \in DOMAIN live : live[k] = text}
<1>1. live \in Seq(ToSet(live)) /\ Len(live) \in Nat /\ DOMAIN live = 1..Len(live)
  BY SeqFacts DEF IsSeq
<1>2. start \in Seq(ToSet(live)) /\ Len(start) = first
      /\ \A k \in 1..first : start[k] = live[k]
  BY <1>1
<1>3. DOMAIN start = 1..first
  <2> HIDE DEF start
  <2> QED
    BY <1>2
<1>4. IsFiniteSet(T) /\ Copies(live, text) = Cardinality(T)
  BY CopiesAreCounted DEF Copies
<1>5. S \in SUBSET T
  <2> HIDE DEF start
  <2> QED
    BY <1>1, <1>2, <1>3
<1>6. Copies(start, text) = Cardinality(S)
  BY DEF Copies
<1> HIDE DEF start, S, T
<1>7. IsFiniteSet(S) /\ Cardinality(S) <= Cardinality(T)
  BY <1>4, <1>5, FS_Subset
<1>8. Cardinality(S) \in Nat
  BY <1>7, FS_CardinalityType
<1> QED
  BY <1>4, <1>6, <1>7, <1>8 DEF start

LEMMA NewTextIsNew ==
  ASSUME NEW before, NEW after, IsSeq(before.live), IsSeq(after.live)
  PROVE  NewLiveText(before, after) # "" =>
           Copies(after.live, NewLiveText(before, after))
             > Copies(before.live, NewLiveText(before, after))
<1> DEFINE texts == after.live
           IsNew(k) == /\ texts[k] # ""
                       /\ Copies(SubSeq(texts, 1, k), texts[k]) > Copies(before.live, texts[k])
           new == {k \in DOMAIN texts : IsNew(k)}
           first == CHOOSE k \in new : \A j \in new : k <= j
           text == texts[first]
<1>1. NewLiveText(before, after) = IF new = {} THEN "" ELSE text
  BY DEF NewLiveText
<1>2. ASSUME new # {} PROVE Copies(texts, text) > Copies(before.live, text)
  <2>1. IsSeq(texts) /\ DOMAIN texts = 1..Len(texts) /\ Len(texts) \in Nat
    BY SeqFacts
  <2>2. first \in new
    <3>1. new \in SUBSET DOMAIN texts
      BY Zenon
    <3>2. DOMAIN texts \in SUBSET Nat
      <4> HIDE DEF texts
      <4> QED
        BY <2>1
    <3>3. \E k \in new : \A j \in new : k <= j
      <4> HIDE DEF new, texts
      <4>1. new \in SUBSET Nat
        BY <3>1, <3>2, Zenon
      <4> QED
        BY <1>2, <4>1, LeastNumber
    <3> HIDE DEF new
    <3> QED
      BY <3>3
  <2>3. /\ first \in 1..Len(texts)
        /\ Copies(SubSeq(texts, 1, first), text) > Copies(before.live, text)
    <3> HIDE DEF first
    <3> QED
      BY <2>1, <2>2
  <2> HIDE DEF first
  <2>4. /\ Copies(SubSeq(texts, 1, first), text) \in Nat
        /\ Copies(SubSeq(texts, 1, first), text) <= Copies(texts, text)
    BY <2>1, <2>3, FewerAtFirst
  <2>5. Copies(texts, text) \in Nat /\ Copies(before.live, text) \in Nat
    BY <2>1, CopiesAreCounted
  <2> HIDE DEF text, texts
  <2> QED
    BY <2>3, <2>4, <2>5
<1> HIDE DEF text, new
<1> QED
  BY <1>1, <1>2

LEMMA ListedAreNew ==
  ASSUME NEW before, NEW after, IsSeq(after.landmarks), NEW list \in Listed(before, after)
  PROVE  /\ IsSeq(list)
         /\ \A k \in DOMAIN list :
              after.landmarks[list[k]] \in ToSet(after.landmarks) \ ToSet(before.landmarks)
<1>1. NewLandmarks(before, after) \in SUBSET (1..Len(after.landmarks))
  BY SeqFacts DEF NewLandmarks
<1>2. IsFiniteSet(NewLandmarks(before, after))
  <2>1. 1 \in Int /\ Len(after.landmarks) \in Int
    BY SeqFacts
  <2>2. IsFiniteSet(1..Len(after.landmarks))
    BY <2>1, FS_Interval
  <2> QED
    BY <1>1, <2>2, FS_Subset
<1>3. list \in Lists(NewLandmarks(before, after))
  BY DEF Listed
<1>4. IsSeq(list) /\ \A k \in DOMAIN list : list[k] \in NewLandmarks(before, after)
  BY <1>2, <1>3, ListIsSeq
<1> QED
  BY <1>4 DEF NewLandmarks, ToSet

LEMMA NoneSay == ASSUME NEW s PROVE AllSay(s, <<>>)
BY NoItems DEF AllSay

LEMMA OneSays ==
  ASSUME NEW s, NEW alternatives, IsSeq(alternatives), alternatives # <<>>,
         \A j \in DOMAIN alternatives : Says(s, alternatives[j])
  PROVE  AllSay(s, <<alternatives>>)
<1> DEFINE one == <<alternatives>>
<1>1. one = [k \in 1..1 |-> one[k]] /\ one[1] = alternatives /\ DOMAIN one = 1..1
  OBVIOUS
<1> HIDE DEF one
<1>2. IsSeq(one)
  BY <1>1, FunctionIsSeq
<1>3. AllSay(s, one)
  BY <1>1, <1>2 DEF AllSay
<1> QED
  BY <1>3 DEF one

LEMMA BothSay ==
  ASSUME NEW s, NEW P, NEW Q, AllSay(s, P), AllSay(s, Q)
  PROVE  AllSay(s, P \o Q)
<1> DEFINE R == P \o Q
<1>1. /\ P \in Seq(ToSet(P)) /\ Q \in Seq(ToSet(Q))
      /\ Len(P) \in Nat /\ Len(Q) \in Nat
      /\ DOMAIN P = 1..Len(P) /\ DOMAIN Q = 1..Len(Q)
  BY SeqFacts DEF AllSay, IsSeq
<1>2. P \in Seq(ToSet(P) \cup ToSet(Q)) /\ Q \in Seq(ToSet(P) \cup ToSet(Q))
  BY <1>1
<1>3. /\ R \in Seq(ToSet(P) \cup ToSet(Q)) /\ Len(R) = Len(P) + Len(Q)
      /\ \A k \in 1..(Len(P) + Len(Q)) :
           R[k] = IF k <= Len(P) THEN P[k] ELSE Q[k - Len(P)]
  BY <1>2
<1> HIDE DEF R
<1>4. R = [k \in 1..(Len(P) + Len(Q)) |-> R[k]] /\ Len(P) + Len(Q) \in Nat
  BY <1>1, <1>3
<1>5. IsSeq(R) /\ DOMAIN R = 1..(Len(P) + Len(Q))
  BY <1>4, FunctionIsSeq
<1>6. ASSUME NEW k \in DOMAIN R
      PROVE  /\ IsSeq(R[k]) /\ R[k] # <<>>
             /\ \A j \in DOMAIN R[k] : Says(s, R[k][j])
  <2>1. CASE k <= Len(P)
    <3>1. R[k] = P[k] /\ k \in DOMAIN P
      BY <1>1, <1>3, <1>5, <2>1
    <3> QED
      BY <3>1 DEF AllSay
  <2>2. CASE ~(k <= Len(P))
    <3>1. R[k] = Q[k - Len(P)] /\ k - Len(P) \in DOMAIN Q
      BY <1>1, <1>3, <1>5, <2>2
    <3> QED
      BY <3>1 DEF AllSay
  <2> QED
    BY <2>1, <2>2
<1>7. AllSay(s, R)
  BY <1>5, <1>6 DEF AllSay
<1> QED
  BY <1>7 DEF R

LEMMA LandmarksSay ==
  ASSUME NEW s, IsSeq(s.after.landmarks), NEW list \in Listed(s.before, s.after)
  PROVE  AllSay(s, Proposed(Landmarks(s.after, list)))
<1> DEFINE n == IF Len(list) < Alternatives THEN Len(list) ELSE Alternatives
           marks == Landmarks(s.after, list)
<1>1. IsSeq(list) /\ DOMAIN list = 1..Len(list) /\ Len(list) \in Nat
  BY ListedAreNew, SeqFacts
<1>2. n \in Nat /\ 1..n \subseteq DOMAIN list
  BY <1>1, ObservationsAssumption
<1>3. marks = [k \in 1..n |-> Checkpoint("element_visible", s.after.landmarks[list[k]])]
  BY DEF Landmarks
<1> HIDE DEF n, marks
<1>4. IsSeq(marks) /\ DOMAIN marks = 1..n
  <2>1. marks = [k \in 1..n |-> marks[k]]
    BY <1>3
  <2> QED
    BY <1>2, <1>3, <2>1, FunctionIsSeq
<1>5. ASSUME NEW k \in DOMAIN marks PROVE Says(s, marks[k])
  <2>1. marks[k] = Checkpoint("element_visible", s.after.landmarks[list[k]]) /\ k \in DOMAIN list
    BY <1>2, <1>3, <1>4
  <2>2. s.after.landmarks[list[k]] \in ToSet(s.after.landmarks) \ ToSet(s.before.landmarks)
    BY <2>1, ListedAreNew
  <2>3. marks[k].kind = "element_visible" /\ marks[k].what = s.after.landmarks[list[k]]
    BY <2>1 DEF Checkpoint
  <2> QED
    BY <2>2, <2>3 DEF Says
<1>6. AllSay(s, Proposed(marks))
  BY <1>4, <1>5, NoneSay, OneSays DEF Proposed
<1> QED
  BY <1>6 DEF marks

LEMMA ConditionSays ==
  ASSUME NEW s, NEW condition \in BOOLEAN, NEW kind, NEW what,
         condition => Says(s, Checkpoint(kind, what))
  PROVE  AllSay(s, ProposedIf(condition, kind, what))
<1> DEFINE one == <<Checkpoint(kind, what)>>
<1>1. one = [k \in 1..1 |-> one[k]] /\ one[1] = Checkpoint(kind, what) /\ DOMAIN one = 1..1
  OBVIOUS
<1> HIDE DEF one
<1>2. IsSeq(one) /\ one # <<>>
  <2>1. IsSeq(one) /\ Len(one) = 1
    BY <1>1, FunctionIsSeq
  <2> QED
    BY <2>1, NoItems
<1>3. condition => AllSay(s, <<one>>)
  BY <1>1, <1>2, OneSays
<1> QED
  BY <1>3, NoneSay DEF ProposedIf, one

LEMMA ActionProposals ==
  ASSUME NEW s, IsSeq(s.before.live), IsSeq(s.after.live), IsSeq(s.after.landmarks),
         NEW list \in Listed(s.before, s.after)
  PROVE  AllSay(s, ProposeAfterAction(s, list))
<1> DEFINE text == NewLiveText(s.before, s.after)
           A == ProposedIf(s.before.path # s.after.path, "url_matches", <<s.after.path>>)
           B == Proposed(Landmarks(s.after, list))
           C == ProposedIf(~s.navigated /\ text # "", "text_present", <<text>>)
           D == ProposedIf(s.download = "completed", "download_completed", <<"file">>)
           E == ProposedIf(s.submits, "no_error_banner", <<>>)
<1>1. AllSay(s, A)
  <2>1. s.before.path # s.after.path => Says(s, Checkpoint("url_matches", <<s.after.path>>))
    BY DEF Says, Checkpoint
  <2>2. (s.before.path # s.after.path) \in BOOLEAN
    OBVIOUS
  <2> QED
    BY <2>1, <2>2, ConditionSays
<1>2. AllSay(s, B)
  BY LandmarksSay
<1>3. AllSay(s, C)
  <2>1. text # "" => Says(s, Checkpoint("text_present", <<text>>))
    <3>1. text # "" => Copies(s.after.live, text) > Copies(s.before.live, text)
      BY NewTextIsNew
    <3> HIDE DEF text
    <3>2. Checkpoint("text_present", <<text>>).what[1] = text
      BY DEF Checkpoint
    <3> QED
      BY <3>1, <3>2 DEF Says, Checkpoint
  <2>2. (~s.navigated /\ text # "") \in BOOLEAN
    OBVIOUS
  <2> HIDE DEF text
  <2> QED
    BY <2>1, <2>2, ConditionSays
<1>4. AllSay(s, D)
  <2>1. Says(s, Checkpoint("download_completed", <<"file">>))
    BY DEF Says, Checkpoint
  <2>2. (s.download = "completed") \in BOOLEAN
    OBVIOUS
  <2> QED
    BY <2>1, <2>2, ConditionSays
<1>5. AllSay(s, E)
  <2>1. AllSay(s, ProposedIf(TRUE, "no_error_banner", <<>>))
    <3>1. Says(s, Checkpoint("no_error_banner", <<>>))
      BY DEF Says, Checkpoint
    <3> QED
      BY <3>1, ConditionSays
  <2>2. CASE s.submits
    <3>1. E = ProposedIf(TRUE, "no_error_banner", <<>>)
      BY <2>2 DEF ProposedIf
    <3> QED
      BY <2>1, <3>1
  <2>3. CASE ~s.submits
    <3>1. E = <<>>
      BY <2>3 DEF ProposedIf
    <3> QED
      BY <3>1, NoneSay
  <2> QED
    BY <2>2, <2>3
<1>6. AllSay(s, A \o B \o C \o D \o E)
  <2> HIDE DEF A, B, C, D, E
  <2> QED
    BY <1>1, <1>2, <1>3, <1>4, <1>5, BothSay
<1> QED
  BY <1>6 DEF ProposeAfterAction

LEMMA ChecksBegin ==
  ASSUME NEW s, NEW proposals, AllSay(s, proposals), seen' = s,
         checks' = [todo |-> proposals, at |-> 1, kept |-> <<>>, dropped |-> <<>>]
  PROVE  ChecksInv'
<1>1. checks'.todo = proposals /\ checks'.at = 1 /\ checks'.kept = <<>>
  OBVIOUS
<1>2. Like(checks', [todo |-> <<>>, at |-> 1, kept |-> <<>>, dropped |-> <<>>])
  BY DEF Like
<1>3. proposals # <<>> => 1 <= Len(proposals[1])
  <2> SUFFICES ASSUME proposals # <<>> PROVE 1 <= Len(proposals[1])
    OBVIOUS
  <2>1. 1 \in DOMAIN proposals
    BY TailFacts DEF AllSay
  <2>2. IsSeq(proposals[1]) /\ proposals[1] # <<>>
    BY <2>1 DEF AllSay
  <2> QED
    BY <2>2, SeqFacts
<1>4. IsSeq(checks'.kept) /\ DOMAIN checks'.kept = {}
  BY <1>1, NoItems
<1> QED
  BY <1>1, <1>2, <1>3, <1>4 DEF ChecksInv

LEMMA PerformChecks == Perform => ChecksInv'
<1> SUFFICES ASSUME Perform PROVE ChecksInv'
  OBVIOUS
<1>1. PICK before \in Observations, after \in Observations, navigated \in BOOLEAN,
           submits \in BOOLEAN, download \in {"none", "failed", "completed"} :
        LET s == [before |-> before, after |-> after, navigated |-> navigated,
                  download |-> download, submits |-> submits]
        IN /\ navigated \/ before.path = after.path
           /\ seen' = s
           /\ \E list \in Listed(before, after) :
                checks' = [todo |-> ProposeAfterAction(s, list), at |-> 1,
                           kept |-> <<>>, dropped |-> <<>>]
  BY DEF Perform
<1> DEFINE s == [before |-> before, after |-> after, navigated |-> navigated,
                 download |-> download, submits |-> submits]
<1>2. PICK list \in Listed(before, after) :
        checks' = [todo |-> ProposeAfterAction(s, list), at |-> 1,
                   kept |-> <<>>, dropped |-> <<>>]
  BY <1>1
<1>3. seen' = s /\ s.before = before /\ s.after = after
  BY <1>1
<1>4. IsSeq(before.live) /\ IsSeq(after.live) /\ IsSeq(after.landmarks)
  BY ObservationsAssumption DEF IsSeq
<1> HIDE DEF s
<1>5. AllSay(s, ProposeAfterAction(s, list))
  BY <1>3, <1>4, ActionProposals
<1> QED
  BY <1>2, <1>3, <1>5, ChecksBegin

LEMMA OpenPageChecks == OpenPage => ChecksInv'
<1> SUFFICES ASSUME OpenPage PROVE ChecksInv'
  OBVIOUS
<1>1. PICK after \in Observations :
        /\ seen' = [NotSeen EXCEPT !.after = after, !.navigated = TRUE]
        /\ \E list \in Listed(Blank, after) :
             checks' = [todo |-> ProposeAfterNavigation(after, list), at |-> 1,
                        kept |-> <<>>, dropped |-> <<>>]
  BY Zenon DEF OpenPage
<1>2. PICK list \in Listed(Blank, after) :
        checks' = [todo |-> ProposeAfterNavigation(after, list), at |-> 1,
                   kept |-> <<>>, dropped |-> <<>>]
  BY <1>1
<1> DEFINE s == seen'
<1>3. s.before = Blank /\ s.after = after
  BY <1>1 DEF NotSeen
<1>4. IsSeq(after.landmarks)
  BY ObservationsAssumption DEF IsSeq
<1> HIDE DEF s
<1>5. AllSay(s, Proposed(Landmarks(s.after, list)))
  BY <1>3, <1>4, LandmarksSay
<1>6. AllSay(s, ProposeAfterNavigation(after, list))
  BY <1>3, <1>5 DEF ProposeAfterNavigation
<1>7. seen' = s
  BY DEF s
<1> QED
  BY <1>2, <1>6, <1>7, ChecksBegin

LEMMA RestSays ==
  ASSUME NEW s, NEW proposals, AllSay(s, proposals), proposals # <<>>
  PROVE  /\ AllSay(s, Tail(proposals))
         /\ Tail(proposals) # <<>> => 1 <= Len(Tail(proposals)[1])
<1> DEFINE rest == Tail(proposals)
<1>1. /\ IsSeq(rest)
      /\ \A k \in DOMAIN rest : rest[k] = proposals[k + 1] /\ k + 1 \in DOMAIN proposals
  BY TailFacts DEF AllSay
<1> HIDE DEF rest
<1>2. AllSay(s, rest)
  <2> SUFFICES ASSUME NEW k \in DOMAIN rest
               PROVE  /\ IsSeq(rest[k]) /\ rest[k] # <<>>
                      /\ \A j \in DOMAIN rest[k] : Says(s, rest[k][j])
    BY <1>1 DEF AllSay
  <2>1. rest[k] = proposals[k + 1] /\ k + 1 \in DOMAIN proposals
    BY <1>1
  <2> QED
    BY <2>1 DEF AllSay
<1>3. ASSUME rest # <<>> PROVE 1 <= Len(rest[1])
  <2>1. 1 \in DOMAIN rest
    BY <1>1, <1>3, TailFacts
  <2>2. IsSeq(rest[1]) /\ rest[1] # <<>>
    BY <1>2, <2>1 DEF AllSay
  <2> QED
    BY <2>2, SeqFacts
<1> QED
  BY <1>2, <1>3 DEF rest

LEMMA CheckOneChecks == ChecksInv /\ CheckOne => ChecksInv'
<1> SUFFICES ASSUME ChecksInv, CheckOne PROVE ChecksInv'
  OBVIOUS
<1> DEFINE model == [todo |-> <<>>, at |-> 1, kept |-> <<>>, dropped |-> <<>>]
           alternatives == Head(checks.todo)
           one == alternatives[checks.at]
           rest == Tail(checks.todo)
           more == Append(checks.kept, one)
           less == Append(checks.dropped, one.kind)
<1>1. /\ Like(checks, model) /\ AllSay(seen, checks.todo) /\ checks.todo # <<>>
      /\ checks.at \in Nat \ {0} /\ checks.at <= Len(checks.todo[1])
      /\ IsSeq(checks.kept) /\ \A k \in DOMAIN checks.kept : Says(seen, checks.kept[k])
      /\ seen' = seen
  BY DEF ChecksInv, CheckOne
<1>2. /\ alternatives = checks.todo[1] /\ IsSeq(alternatives)
      /\ DOMAIN alternatives = 1..Len(alternatives) /\ Len(alternatives) \in Nat
      /\ \A j \in DOMAIN alternatives : Says(seen, alternatives[j])
  <2>1. Head(checks.todo) = checks.todo[1] /\ 1 \in DOMAIN checks.todo
    BY <1>1, TailFacts DEF AllSay
  <2>2. /\ IsSeq(checks.todo[1])
        /\ \A j \in DOMAIN checks.todo[1] : Says(seen, checks.todo[1][j])
    BY <1>1, <2>1 DEF AllSay
  <2> QED
    BY <2>1, <2>2, SeqFacts
<1>3. Says(seen, one)
  <2>1. checks.at \in DOMAIN alternatives
    BY <1>1, <1>2
  <2> HIDE DEF alternatives
  <2> QED
    BY <1>2, <2>1
<1>4. AllSay(seen, rest) /\ (rest # <<>> => 1 <= Len(rest[1]))
  BY <1>1, RestSays
<1>5. IsSeq(more) /\ \A k \in DOMAIN more : Says(seen, more[k])
  <2>1. /\ IsSeq(more) /\ Len(more) = Len(checks.kept) + 1
        /\ more[Len(checks.kept) + 1] = one
        /\ \A k \in DOMAIN checks.kept : more[k] = checks.kept[k]
    BY <1>1, AppendFacts
  <2>2. DOMAIN more = 1..Len(more) /\ DOMAIN checks.kept = 1..Len(checks.kept)
        /\ Len(checks.kept) \in Nat
    BY <1>1, <2>1, SeqFacts
  <2>3. ASSUME NEW k \in DOMAIN more PROVE Says(seen, more[k])
    <3>1. k \in DOMAIN checks.kept \/ k = Len(checks.kept) + 1
      <4> HIDE DEF more
      <4> QED
        BY <2>1, <2>2
    <3> HIDE DEF more, one
    <3> QED
      BY <1>1, <1>3, <2>1, <3>1
  <2> QED
    BY <2>1, <2>3
<1>6. \/ checks' = [NextProposal EXCEPT !.kept = Append(@, one)]
      \/ /\ checks.at < Len(alternatives) /\ checks' = [checks EXCEPT !.at = @ + 1]
      \/ checks' = [NextProposal EXCEPT !.dropped = Append(@, one.kind)]
  BY DEF CheckOne
<1> HIDE DEF alternatives, one
<1>7. CASE checks' = [NextProposal EXCEPT !.kept = Append(@, one)]
  <2>1. checks' = [todo |-> rest, at |-> 1, kept |-> more, dropped |-> checks.dropped]
    <3> HIDE DEF rest
    <3> QED
      BY <1>1, <1>7 DEF Like, NextProposal, rest
  <2> HIDE DEF rest, more
  <2>2. Like(checks', model) /\ checks'.todo = rest /\ checks'.at = 1 /\ checks'.kept = more
    BY <2>1 DEF Like
  <2> HIDE DEF model
  <2> QED
    BY <1>1, <1>4, <1>5, <2>2 DEF ChecksInv, model
<1>8. CASE checks.at < Len(alternatives) /\ checks' = [checks EXCEPT !.at = @ + 1]
  <2>1. /\ Like(checks', model) /\ checks'.todo = checks.todo /\ checks'.kept = checks.kept
        /\ checks'.at = checks.at + 1
    BY <1>1, <1>8 DEF Like
  <2>2. checks.at + 1 \in Nat \ {0} /\ checks.at + 1 <= Len(checks.todo[1])
    BY <1>1, <1>2, <1>8
  <2> HIDE DEF model
  <2> QED
    BY <1>1, <2>1, <2>2 DEF ChecksInv, model
<1>9. CASE checks' = [NextProposal EXCEPT !.dropped = Append(@, one.kind)]
  <2>1. checks' = [todo |-> rest, at |-> 1, kept |-> checks.kept, dropped |-> less]
    BY <1>1, <1>9 DEF Like, NextProposal
  <2> HIDE DEF rest, less
  <2>2. Like(checks', model) /\ checks'.todo = rest /\ checks'.at = 1
        /\ checks'.kept = checks.kept
    BY <2>1 DEF Like
  <2> HIDE DEF model
  <2> QED
    BY <1>1, <1>4, <2>2 DEF ChecksInv, model
<1> QED
  BY <1>6, <1>7, <1>8, <1>9

LEMMA ChecksSayWhatChanged ==
  (stage = "check" => ChecksInv) => CheckpointsSayWhatChanged
<1> SUFFICES ASSUME stage = "check", ChecksInv,
                    NEW c \in ToSet(checks.kept)
                              \cup UNION {ToSet(one) : one \in ToSet(checks.todo)}
             PROVE  Says(seen, c)
  BY Zenon DEF CheckpointsSayWhatChanged, Says
<1>1. CASE c \in ToSet(checks.kept)
  BY <1>1 DEF ChecksInv, ToSet
<1>2. CASE c \in UNION {ToSet(one) : one \in ToSet(checks.todo)}
  <2>1. PICK k \in DOMAIN checks.todo : c \in ToSet(checks.todo[k])
    BY <1>2 DEF ToSet
  <2>2. PICK j \in DOMAIN checks.todo[k] : c = checks.todo[k][j]
    BY <2>1 DEF ToSet
  <2> QED
    BY <2>1, <2>2 DEF ChecksInv, AllSay
<1> QED
  BY <1>1, <1>2

-----------------------------------------------------------------------------
(* The names that are suggested.                                           *)

LEMMA UniqueIsFree ==
  ASSUME NEW base, NEW taken, IsFiniteSet(taken)
  PROVE  Unique(base, taken) \notin taken /\ Unique(base, taken)[1] = base
<1> DEFINE c == Cardinality(taken)
           Free(n) == /\ <<base, n>> \notin taken
                      /\ \A m \in 1..(n - 1) : <<base, m>> \in taken
           T == {n \in 1..(c + 1) : <<base, n>> \notin taken}
           f == [n \in 1..(c + 1) |-> <<base, n>>]
           least == CHOOSE n \in 1..(c + 1) : Free(n)
<1>1. c \in Nat
  BY FS_CardinalityType
<1>2. IsFiniteSet(1..(c + 1)) /\ Cardinality(1..(c + 1)) = c + 1
  <2>1. \A b \in Int :
          /\ IsFiniteSet(1..b)
          /\ Cardinality(1..b) = IF 1 > b THEN 0 ELSE b - 1 + 1
    BY FS_Interval
  <2> HIDE DEF c
  <2>2. c + 1 \in Int /\ ~(1 > c + 1) /\ (c + 1) - 1 + 1 = c + 1
    BY <1>1
  <2> QED
    BY <2>1, <2>2
<1>3. T # {}
  <2> SUFFICES ASSUME T = {} PROVE FALSE
    OBVIOUS
  <2>1. f \in [1..(c + 1) -> taken]
    OBVIOUS
  <2>2. Cardinality(taken) < Cardinality(1..(c + 1))
    BY <1>1, <1>2
  <2> DEFINE S == 1..(c + 1)
  <2>3. \E x, y \in S : x # y /\ f[x] = f[y]
    <3>1. IsFiniteSet(S) /\ Cardinality(taken) < Cardinality(S) /\ f \in [S -> taken]
      BY <1>2, <2>1, <2>2
    <3> HIDE DEF S, f
    <3> QED
      BY <3>1, FS_PigeonHole
  <2> QED
    BY <2>3
<1>4. PICK n \in T : \A m \in T : n <= m
  <2>1. T \in SUBSET Nat
    <3> HIDE DEF c
    <3> QED
      BY <1>1
  <2> HIDE DEF T
  <2> QED
    BY <1>3, <2>1, LeastNumber
<1>5. n \in 1..(c + 1) /\ Free(n)
  <2> HIDE DEF c
  <2>1. n \in 1..(c + 1) /\ <<base, n>> \notin taken
    OBVIOUS
  <2>2. ASSUME NEW m \in 1..(n - 1) PROVE <<base, m>> \in taken
    <3>1. m \in 1..(c + 1) /\ ~(n <= m)
      BY <1>1, <2>1
    <3> QED
      BY <1>4, <3>1
  <2> QED
    BY <2>1, <2>2
<1>6. Free(least)
  <2> HIDE DEF Free
  <2> QED
    BY <1>5
<1>7. Unique(base, taken) = <<base, least>>
  BY DEF Unique
<1> HIDE DEF least
<1> QED
  BY <1>6, <1>7

LEMMA NamesAreFinite ==
  ASSUME NamingInv
  PROVE  /\ IsFiniteSet(DOMAIN draft) /\ DOMAIN draft \in SUBSET Nat
         /\ IsFiniteSet(DOMAIN naming.inputs) /\ IsFiniteSet(SecretNames)
<1>1. IsSeq(draft)
  BY DEF NamingInv
<1>2. DOMAIN draft = 1..Len(draft) /\ Len(draft) \in Nat
  BY <1>1, SeqFacts
<1>3. IsFiniteSet(1..Len(draft))
  <2>1. 1 \in Int /\ Len(draft) \in Int
    BY <1>2
  <2> QED
    BY <2>1, FS_Interval
<1>4. DOMAIN draft \in SUBSET Nat
  BY <1>2
<1>5. IsFiniteSet(DOMAIN naming.secrets)
  <2>1. DOMAIN naming.secrets \in SUBSET DOMAIN draft
    BY DEF NamingInv, SecretsAreNamed, SecretSteps
  <2> QED
    BY <1>2, <1>3, <2>1, FS_Subset
<1>6. IsFiniteSet(SecretNames)
  <2> DEFINE named == DOMAIN naming.secrets
             f == [i \in named |-> naming.secrets[i]]
  <2>1. f \in Surjection(named, SecretNames)
    BY DEF Surjection, SecretNames
  <2>2. IsFiniteSet(named)
    BY <1>5
  <2> HIDE DEF named, f
  <2> QED
    BY <2>1, <2>2, FS_Surjection
<1> QED
  BY <1>2, <1>3, <1>4, <1>6 DEF NamingInv, InputsAreHeard

LEMMA AskedIsLeast ==
  ASSUME NEW S \in SUBSET Nat, naming.queue \in SUBSET S, naming.queue # {}
  PROVE  Asked \in naming.queue
<1>1. \E i \in naming.queue : \A j \in naming.queue : i <= j
  BY LeastNumber
<1> QED
  BY <1>1 DEF Asked

LEMMA BaseIsStorable ==
  ASSUME NEW i, draft[i].field # "?"
  PROVE  Base(i) # "?"
<1>1. Hint(i) # "?"
  BY DEF Hint
<1> QED
  BY <1>1 DEF Base, Slug

LEMMA SuggestionsAreTaken ==
  ASSUME NamingInv, NEW i \in DOMAIN draft, Asked = i
  PROVE  ~SecretRefused(SuggestedSecret) /\ ~InputRefused(SuggestedInput)
<1>1. Base(i) # "?"
  BY BaseIsStorable DEF NamingInv
<1>2. IsFiniteSet(DOMAIN naming.inputs) /\ IsFiniteSet(SecretNames)
  BY NamesAreFinite
<1>3. ~SecretRefused(SuggestedSecret)
  <2> DEFINE name == Unique(Base(i), DOMAIN naming.inputs)
  <2>1. name \notin DOMAIN naming.inputs /\ name[1] = Base(i)
    BY <1>2, UniqueIsFree
  <2>2. SuggestedSecret = name
    BY DEF SuggestedSecret
  <2> HIDE DEF name
  <2>3. name # Unstorable
    BY <1>1, <2>1 DEF Unstorable
  <2> QED
    BY <2>1, <2>2, <2>3 DEF SecretRefused
<1>4. ~InputRefused(SuggestedInput)
  <2> DEFINE other == {n \in DOMAIN naming.inputs : Differs(naming.inputs[n], i)}
             taken == SecretNames \cup other
             name == Unique(Base(i), taken)
  <2>1. IsFiniteSet(taken)
    <3>1. other \in SUBSET DOMAIN naming.inputs
      BY Zenon
    <3>2. IsFiniteSet(other)
      BY <1>2, <3>1, FS_Subset
    <3> HIDE DEF other
    <3> QED
      BY <1>2, <3>2, FS_Union
  <2>2. SuggestedInput = name
    BY DEF SuggestedInput
  <2>3. name \notin taken /\ name[1] = Base(i)
    <3> HIDE DEF taken
    <3> QED
      BY <2>1, UniqueIsFree
  <2> HIDE DEF name
  <2>4. name # Unstorable
    BY <1>1, <2>3 DEF Unstorable
  <2> QED
    BY <2>2, <2>3, <2>4, Zenon DEF InputRefused
<1> QED
  BY <1>3, <1>4

-----------------------------------------------------------------------------
(* What is named stays named.                                              *)

LEMMA DraftStays ==
  ASSUME draft' = draft
  PROVE  /\ \A i : Hint(i)' = Hint(i) /\ ProposedKind(i)' = ProposedKind(i)
         /\ \A v : Literals(v)' = Literals(v)
         /\ \A i, j : OneKey(i, j)' <=> OneKey(i, j)
         /\ SecretSteps' = SecretSteps
<1>1. \A i : Hint(i)' = Hint(i)
  BY DEF Hint
<1>2. \A i : ProposedKind(i)' = ProposedKind(i)
  BY DEF ProposedKind
<1>3. \A v : Literals(v)' = Literals(v)
  BY DEF Literals
<1>4. SecretSteps' = SecretSteps
  BY DEF SecretSteps
<1>5. \A i, j : OneKey(i, j)' <=> OneKey(i, j)
  BY <1>2 DEF OneKey
<1> QED
  BY <1>1, <1>2, <1>3, <1>4, <1>5

LEMMA InputsStay ==
  ASSUME draft' = draft, (naming.inputs)' = naming.inputs, heard' = heard,
         InputsAreHeard, InputsHold, InputsOverlap
  PROVE  InputsAreHeard' /\ InputsHold' /\ InputsOverlap' /\ Overridden' = Overridden
<1>1. Overridden' = Overridden
  BY DEF Overridden
<1>2. InputsAreHeard'
  BY DEF InputsAreHeard
<1>3. InputsOverlap'
  BY DEF InputsOverlap
<1>4. InputsHold'
  <2> SUFFICES ASSUME NEW n \in DOMAIN naming.inputs
      PROVE  LET input == naming.inputs[n] IN
        /\ input.steps \in SUBSET DOMAIN draft /\ input.steps # {}
        /\ \A i \in input.steps :
             /\ draft[i].kind = "literal" /\ draft[i].text = input.value
             /\ draft[i].action = "navigate" => input.kind = "url"
        /\ \A j \in DOMAIN draft :
             draft[j].kind = "literal" /\ Hint(j) # "none"
               /\ draft[j].text = input.value /\ ProposedKind(j) = input.kind
             => j \in Overridden
    BY <1>1, DraftStays DEF InputsHold
  <2> QED
    BY DEF InputsHold
<1> QED
  BY <1>1, <1>2, <1>3, <1>4

\* What a new input must be for the inputs to stay as they are.
Fits(input) ==
  /\ input.steps \in SUBSET DOMAIN draft /\ input.steps # {}
  /\ \A i \in input.steps :
       /\ draft[i].kind = "literal" /\ draft[i].text = input.value
       /\ draft[i].action = "navigate" => input.kind = "url"
  /\ \A j \in DOMAIN draft :
       draft[j].kind = "literal" /\ Hint(j) # "none"
         /\ draft[j].text = input.value /\ ProposedKind(j) = input.kind
       => j \in Overridden \/ j \in input.steps
  /\ \A m \in DOMAIN naming.inputs :
       naming.inputs[m].steps \cap input.steps # {} => naming.inputs[m].steps = input.steps

LEMMA InputIsAdded ==
  ASSUME InputsAreHeard, InputsHold, InputsOverlap, draft' = draft,
         NEW name, NEW input, name \notin DOMAIN naming.inputs,
         (naming.inputs)' = Bind(naming.inputs, name, input), Fits(input),
         heard' = heard \cup {<<name, input.value, input.steps>>}
  PROVE  /\ InputsAreHeard' /\ InputsHold' /\ InputsOverlap'
         /\ Overridden' = Overridden \cup input.steps
         /\ DOMAIN naming.inputs' = DOMAIN naming.inputs \cup {name}
<1> DEFINE now == naming'.inputs
           old == naming.inputs
<1>1. /\ DOMAIN now = DOMAIN old \cup {name} /\ now[name] = input
      /\ \A n \in DOMAIN old : now[n] = old[n]
  <2>1. now = Bind(old, name, input) /\ name \notin DOMAIN old
    OBVIOUS
  <2> HIDE DEF now, old
  <2> QED
    BY <2>1 DEF Bind
<1> HIDE DEF now
<1>2. Overridden' = Overridden \cup input.steps
  <2>1. Overridden' = UNION {now[n].steps : n \in DOMAIN now}
    BY DEF Overridden, now
  <2>2. ASSUME NEW i \in Overridden PROVE i \in Overridden'
    <3>1. PICK n \in DOMAIN old : i \in old[n].steps
      BY DEF Overridden
    <3>2. n \in DOMAIN now /\ i \in now[n].steps
      BY <1>1, <3>1
    <3> QED
      BY <2>1, <3>2
  <2>3. ASSUME NEW i \in input.steps PROVE i \in Overridden'
    <3>1. name \in DOMAIN now /\ i \in now[name].steps
      BY <1>1
    <3> QED
      BY <2>1, <3>1
  <2>4. ASSUME NEW i \in Overridden' PROVE i \in Overridden \cup input.steps
    <3>1. PICK n \in DOMAIN now : i \in now[n].steps
      BY <2>1
    <3>2. CASE n = name
      BY <1>1, <3>1, <3>2
    <3>3. CASE n # name
      <4>1. n \in DOMAIN old /\ i \in old[n].steps
        BY <1>1, <3>1, <3>3
      <4> QED
        BY <4>1 DEF Overridden
    <3> QED
      BY <3>2, <3>3
  <2> QED
    BY <2>2, <2>3, <2>4
<1>3. InputsAreHeard'
  <2>1. IsFiniteSet(DOMAIN old \cup {name})
    BY FS_AddElement DEF InputsAreHeard
  <2>2. ASSUME NEW h \in heard'
        PROVE  /\ h[1] \in DOMAIN now
               /\ now[h[1]].value = h[2] /\ now[h[1]].steps = h[3]
    <3>1. CASE h \in heard
      <4>1. /\ h[1] \in DOMAIN old
            /\ old[h[1]].value = h[2] /\ old[h[1]].steps = h[3]
        BY <3>1 DEF InputsAreHeard
      <4> QED
        BY <1>1, <4>1
    <3>2. CASE h = <<name, input.value, input.steps>>
      BY <1>1, <3>2
    <3> QED
      BY <3>1, <3>2
  <2>3. ASSUME NEW n \in DOMAIN now PROVE \E h \in heard' : h[1] = n
    <3>1. CASE n = name
      <4> DEFINE h == <<name, input.value, input.steps>>
      <4>1. h \in heard' /\ h[1] = n
        BY <3>1
      <4> QED
        BY <4>1
    <3>2. CASE n # name
      <4>1. n \in DOMAIN old
        BY <1>1, <3>2
      <4> QED
        BY <4>1 DEF InputsAreHeard
    <3> QED
      BY <3>1, <3>2
  <2> QED
    BY <1>1, <2>1, <2>2, <2>3 DEF InputsAreHeard, now
<1>4. InputsOverlap'
  <2> SUFFICES ASSUME NEW n \in DOMAIN now, NEW m \in DOMAIN now,
                      now[n].steps \cap now[m].steps # {}
               PROVE  now[n].steps = now[m].steps
    BY DEF InputsOverlap, now
  <2>1. CASE n = name /\ m = name
    BY <2>1
  <2>2. CASE n = name /\ m # name
    <3>1. m \in DOMAIN old /\ now[m] = old[m] /\ now[n] = input
      BY <1>1, <2>2
    <3>2. old[m].steps \cap input.steps # {}
      BY <3>1
    <3> QED
      BY <3>1, <3>2 DEF Fits
  <2>3. CASE n # name /\ m = name
    <3>1. n \in DOMAIN old /\ now[n] = old[n] /\ now[m] = input
      BY <1>1, <2>3
    <3>2. old[n].steps \cap input.steps # {}
      BY <3>1
    <3> QED
      BY <3>1, <3>2 DEF Fits
  <2>4. CASE n # name /\ m # name
    <3>1. n \in DOMAIN old /\ now[n] = old[n] /\ m \in DOMAIN old /\ now[m] = old[m]
      BY <1>1, <2>4
    <3> QED
      BY <3>1 DEF InputsOverlap
  <2> QED
    BY <2>1, <2>2, <2>3, <2>4
<1>5. InputsHold'
  <2> DEFINE Holds(one) ==
        /\ one.steps \in SUBSET DOMAIN draft /\ one.steps # {}
        /\ \A i \in one.steps :
             /\ draft[i].kind = "literal" /\ draft[i].text = one.value
             /\ draft[i].action = "navigate" => one.kind = "url"
        /\ \A j \in DOMAIN draft :
             draft[j].kind = "literal" /\ Hint(j) # "none"
               /\ draft[j].text = one.value /\ ProposedKind(j) = one.kind
             => j \in Overridden'
  <2>1. Holds(input)
    BY <1>2 DEF Fits
  <2>2. ASSUME NEW n \in DOMAIN old PROVE Holds(old[n])
    BY <1>2 DEF InputsHold
  <2>3. ASSUME NEW n \in DOMAIN now PROVE Holds(now[n])
    <3> HIDE DEF Holds
    <3>1. CASE n = name
      BY <1>1, <2>1, <3>1
    <3>2. CASE n # name
      <4>1. n \in DOMAIN old /\ now[n] = old[n]
        BY <1>1, <3>2
      <4> QED
        BY <2>2, <4>1
    <3> QED
      BY <3>1, <3>2
  <2>4. \A n \in DOMAIN now :
          LET one == now[n] IN
          /\ one.steps \in SUBSET DOMAIN draft' /\ one.steps # {}
          /\ \A i \in one.steps :
               /\ draft'[i].kind = "literal" /\ draft'[i].text = one.value
               /\ draft'[i].action = "navigate" => one.kind = "url"
          /\ \A j \in DOMAIN draft' :
               draft'[j].kind = "literal" /\ Hint(j)' # "none"
                 /\ draft'[j].text = one.value /\ ProposedKind(j)' = one.kind
               => j \in Overridden'
    BY <2>3, DraftStays
  <2> QED
    BY <2>4 DEF InputsHold, now
<1> QED
  BY <1>1, <1>2, <1>3, <1>4, <1>5 DEF now

-----------------------------------------------------------------------------
(* The steps of naming.                                                    *)

LEMMA NothingNamed ==
  ASSUME NamingInv, draft' = draft, override' = override, heard' = heard,
         Like(naming', StartNaming), (naming.inputs)' = naming.inputs,
         (naming.secrets)' = naming.secrets, (naming.phase)' = naming.phase,
         (naming.queue)' \in SUBSET naming.queue,
         naming.phase = "secrets" => (naming.queue)' = naming.queue,
         (naming.tries)' \in 0..Attempts
  PROVE  NamingInv'
<1>1. InputsAreHeard' /\ InputsHold' /\ InputsOverlap' /\ Overridden' = Overridden
  BY InputsStay DEF NamingInv
<1>2. SecretNames' = SecretNames /\ SecretSteps' = SecretSteps
  BY DraftStays DEF SecretNames
<1>3. OverridesLeft'
  BY DEF NamingInv, OverridesLeft
<1>4. InputsAreWhole'
  BY DraftStays DEF NamingInv, InputsAreWhole
<1>5. SecretsAreNamed'
  BY <1>2 DEF NamingInv, SecretsAreNamed
<1>6. QueueIsOpen'
  BY <1>1, DraftStays DEF NamingInv, QueueIsOpen, Hinted
<1>7. OnlyOverlapIsRefused'
  BY DEF NamingInv, OnlyOverlapIsRefused
<1> QED
  BY <1>1, <1>3, <1>4, <1>5, <1>6, <1>7 DEF NamingInv

LEMMA RefuseInv == NamingInv /\ naming.tries # Attempts /\ Refuse => NamingInv'
<1> SUFFICES ASSUME NamingInv, naming.tries # Attempts, Refuse PROVE NamingInv'
  OBVIOUS
<1>1. Like(naming, StartNaming) /\ naming.tries \in 0..Attempts
  BY DEF NamingInv
<1>2. /\ naming' = [naming EXCEPT !.tries = @ + 1]
      /\ draft' = draft /\ override' = override /\ heard' = heard
  BY DEF Refuse
<1>3. /\ Like(naming', StartNaming)
      /\ naming'.inputs = naming.inputs /\ naming'.secrets = naming.secrets
      /\ naming'.phase = naming.phase /\ naming'.queue = naming.queue
      /\ naming'.tries = naming.tries + 1
  BY <1>1, <1>2 DEF Like, StartNaming
<1>4. naming'.tries \in 0..Attempts
  BY <1>1, <1>3, NamingAssumption
<1>5. naming'.queue \in SUBSET naming.queue
  BY <1>3
<1> QED
  BY <1>2, <1>3, <1>4, <1>5, NothingNamed

LEMMA KeepsLiteralInv ==
  NamingInv /\ naming.phase = "inputs" /\ KeepsLiteral => NamingInv'
<1> SUFFICES ASSUME NamingInv, naming.phase = "inputs", KeepsLiteral PROVE NamingInv'
  OBVIOUS
<1> DEFINE asked == Asked
           group == Group(asked)
<1>1. Like(naming, StartNaming)
  BY DEF NamingInv
<1>2. /\ naming' = [naming EXCEPT !.literal = @ \cup group, !.queue = @ \ {asked}, !.tries = 0]
      /\ draft' = draft /\ override' = override /\ heard' = heard
  BY DEF KeepsLiteral
<1> HIDE DEF group, asked
<1>3. /\ Like(naming', StartNaming)
      /\ naming'.inputs = naming.inputs /\ naming'.secrets = naming.secrets
      /\ naming'.phase = naming.phase /\ naming'.queue = naming.queue \ {asked}
      /\ naming'.tries = 0
  BY <1>1, <1>2 DEF Like, StartNaming
<1>4. naming'.tries \in 0..Attempts /\ naming'.queue \in SUBSET naming.queue
  BY <1>3, NamingAssumption
<1> QED
  BY <1>2, <1>3, <1>4, NothingNamed

LEMMA OverrideIsValid ==
  ASSUME NamingInv, naming.phase = "overrides", NEW value, Literals(value) # {},
         NEW input, input = [value |-> value, kind |-> KindOf(value, LooksOf(value)),
                             steps |-> Literals(value)]
  PROVE  Fits(input)
<1>1. input.value = value /\ input.kind = KindOf(value, LooksOf(value))
      /\ input.steps = Literals(value)
  OBVIOUS
<1>2. Literals(value) = {i \in DOMAIN draft : draft[i].kind = "literal" /\ draft[i].text = value}
  BY DEF Literals
<1>3. \A i \in Literals(value) : draft[i].action = "navigate" => KindOf(value, LooksOf(value)) = "url"
  BY DEF KindOf
<1>4. ASSUME NEW m \in DOMAIN naming.inputs,
             naming.inputs[m].steps \cap Literals(value) # {}
      PROVE  naming.inputs[m].steps = Literals(value)
  <2>1. PICK i \in naming.inputs[m].steps : i \in Literals(value)
    BY <1>4
  <2>2. naming.inputs[m].steps = Literals(naming.inputs[m].value)
    BY DEF NamingInv, InputsAreWhole
  <2>3. draft[i].text = naming.inputs[m].value /\ draft[i].text = value
    BY <1>2, <2>1 DEF NamingInv, InputsHold
  <2> QED
    BY <2>2, <2>3
<1> HIDE DEF KindOf
<1> QED
  BY <1>1, <1>2, <1>3, <1>4 DEF Fits

LEMMA ApplyOverrideInv == NamingInv /\ ApplyOverride => NamingInv'
<1> SUFFICES ASSUME NamingInv, ApplyOverride PROVE NamingInv'
  OBVIOUS
<1> DEFINE name == Head(override)[1]
           value == Head(override)[2]
           steps == Literals(value)
           kind == KindOf(value, LooksOf(value))
           valid == name # Unstorable /\ steps # {} /\ Parses(value)
           input == [value |-> value, kind |-> kind, steps |-> steps]
           new == Bind(naming.inputs, name, input)
<1>1. /\ naming.phase = "overrides" /\ override # <<>>
      /\ override' = Tail(override) /\ draft' = draft
      /\ naming' = IF valid THEN [naming EXCEPT !.inputs = Bind(@, name, input)] ELSE naming
      /\ heard' = IF valid THEN heard \cup {<<name, value, steps>>} ELSE heard
  BY DEF ApplyOverride
<1>2. /\ Like(naming, StartNaming) /\ OverridesLeft /\ IsSeq(override)
      /\ \A i, j \in DOMAIN override : override[i][1] = override[j][1] => i = j
      /\ \A i \in DOMAIN override : override[i][1] \notin DOMAIN naming.inputs
  BY DEF NamingInv, OverridesLeft
<1>3. /\ IsSeq(override') /\ 1 \in DOMAIN override /\ name = override[1][1]
      /\ \A k \in DOMAIN override' : override'[k] = override[k + 1] /\ k + 1 \in DOMAIN override
      /\ DOMAIN override' \in SUBSET (Nat \ {0})
  <2>1. /\ IsSeq(Tail(override)) /\ Head(override) = override[1] /\ 1 \in DOMAIN override
        /\ \A k \in DOMAIN Tail(override) :
             Tail(override)[k] = override[k + 1] /\ k + 1 \in DOMAIN override
    BY <1>1, <1>2, TailFacts
  <2> DEFINE rest == Tail(override)
  <2>2. DOMAIN rest = 1..Len(rest) /\ Len(rest) \in Nat
    BY <2>1, SeqFacts
  <2> HIDE DEF rest
  <2>3. DOMAIN rest \in SUBSET (Nat \ {0})
    BY <2>2
  <2> QED
    BY <1>1, <2>1, <2>3 DEF rest
<1>4. /\ \A i, j \in DOMAIN override' : override'[i][1] = override'[j][1] => i = j
      /\ \A i \in DOMAIN override' :
           override'[i][1] \notin DOMAIN naming.inputs /\ override'[i][1] # name
  <2> HIDE DEF name
  <2>1. ASSUME NEW i \in DOMAIN override', NEW j \in DOMAIN override',
               override'[i][1] = override'[j][1]
        PROVE  i = j
    <3>1. i + 1 = j + 1
      BY <1>2, <1>3, <2>1
    <3> QED
      BY <1>3, <3>1
  <2>2. ASSUME NEW i \in DOMAIN override'
        PROVE  override'[i][1] \notin DOMAIN naming.inputs /\ override'[i][1] # name
    <3>1. i + 1 \in DOMAIN override /\ override'[i] = override[i + 1] /\ i + 1 # 1
      BY <1>3
    <3> QED
      BY <1>2, <1>3, <3>1
  <2> QED
    BY <2>1, <2>2
<1> HIDE DEF name, value
<1>5. CASE ~valid
  <2>1. naming' = naming /\ heard' = heard /\ draft' = draft
    BY <1>1, <1>5
  <2>2. InputsAreHeard' /\ InputsHold' /\ InputsOverlap' /\ Overridden' = Overridden
    BY <2>1, InputsStay DEF NamingInv
  <2>3. OverridesLeft'
    BY <1>1, <1>3, <1>4, <2>1 DEF OverridesLeft
  <2>4. InputsAreWhole'
    BY <2>1, DraftStays DEF NamingInv, InputsAreWhole
  <2>5. SecretsAreNamed'
    BY <2>1, DraftStays DEF NamingInv, SecretsAreNamed, SecretNames
  <2>6. QueueIsOpen' /\ OnlyOverlapIsRefused'
    BY <1>1, <2>1 DEF QueueIsOpen, OnlyOverlapIsRefused
  <2> QED
    BY <2>1, <2>2, <2>3, <2>4, <2>5, <2>6 DEF NamingInv
<1>6. CASE valid
  <2>1. /\ naming' = [naming EXCEPT !.inputs = Bind(@, name, input)]
        /\ heard' = heard \cup {<<name, value, steps>>} /\ steps # {}
    BY <1>1, <1>6
  <2>2. Fits(input) /\ input.value = value /\ input.steps = steps
    BY <1>1, <2>1, OverrideIsValid
  <2>3. heard' = heard \cup {<<name, input.value, input.steps>>}
    BY <2>1, <2>2
  <2> HIDE DEF input, kind, steps
  <2>4. /\ Like(naming', StartNaming) /\ naming'.inputs = new
        /\ naming'.secrets = naming.secrets /\ naming'.phase = naming.phase
        /\ naming'.queue = naming.queue /\ naming'.tries = naming.tries
    BY <1>2, <2>1 DEF Like, StartNaming
  <2>5. name \notin DOMAIN naming.inputs
    BY <1>2, <1>3
  <2>6. /\ InputsAreHeard' /\ InputsHold' /\ InputsOverlap'
        /\ DOMAIN naming.inputs' = DOMAIN naming.inputs \cup {name}
    BY <1>1, <2>2, <2>3, <2>4, <2>5, InputIsAdded DEF NamingInv
  <2>7. OverridesLeft'
    BY <1>1, <1>3, <1>4, <2>4, <2>6 DEF OverridesLeft
  <2>8. InputsAreWhole'
    <3>1. /\ new[name] = input /\ DOMAIN new = DOMAIN naming.inputs \cup {name}
          /\ \A n \in DOMAIN naming.inputs : new[n] = naming.inputs[n]
      BY <2>5 DEF Bind
    <3>2. input.steps = Literals(input.value)
      BY <2>2 DEF steps
    <3> HIDE DEF new
    <3>3. ASSUME NEW n \in DOMAIN new PROVE new[n].steps = Literals(new[n].value)
      <4>1. CASE n = name
        BY <3>1, <3>2, <4>1
      <4>2. CASE n # name
        BY <1>1, <3>1, <4>2 DEF NamingInv, InputsAreWhole
      <4> QED
        BY <4>1, <4>2
    <3> QED
      BY <1>1, <2>4, <3>3, DraftStays DEF InputsAreWhole
  <2>9. SecretsAreNamed'
    <3>1. DOMAIN naming.secrets = {}
      BY <1>1 DEF NamingInv, SecretsAreNamed
    <3>2. SecretNames' = {}
      BY <2>4, <3>1 DEF SecretNames
    <3> QED
      BY <1>1, <2>4, <3>1, <3>2 DEF SecretsAreNamed
  <2>10. QueueIsOpen' /\ OnlyOverlapIsRefused'
    BY <1>1, <2>4 DEF QueueIsOpen, OnlyOverlapIsRefused
  <2> QED
    BY <1>1, <2>4, <2>6, <2>7, <2>8, <2>9, <2>10 DEF NamingInv
<1> QED
  BY <1>5, <1>6

LEMMA ProposeInv == NamingInv /\ Propose => NamingInv'
<1> SUFFICES ASSUME NamingInv, Propose PROVE NamingInv'
  OBVIOUS
<1> DEFINE queue == ProposedSecrets
<1>1. Like(naming, StartNaming) /\ naming.phase = "overrides" /\ override = <<>>
  BY DEF NamingInv, Propose
<1>2. /\ naming' = [naming EXCEPT !.phase = "secrets", !.queue = queue]
      /\ draft' = draft /\ override' = override /\ heard' = heard
  BY DEF Propose
<1>3. queue = SecretSteps
  BY DEF ProposedSecrets, SecretSteps
<1> HIDE DEF queue
<1>4. /\ Like(naming', StartNaming)
      /\ naming'.inputs = naming.inputs /\ naming'.secrets = naming.secrets
      /\ naming'.phase = "secrets" /\ naming'.queue = queue /\ naming'.tries = naming.tries
  BY <1>1, <1>2 DEF Like, StartNaming
<1>5. InputsAreHeard' /\ InputsHold' /\ InputsOverlap'
  BY <1>2, <1>4, InputsStay DEF NamingInv
<1>6. OverridesLeft'
  BY <1>1, <1>2, <1>4 DEF NamingInv, OverridesLeft
<1>7. InputsAreWhole' /\ QueueIsOpen' /\ OnlyOverlapIsRefused'
  BY <1>4 DEF InputsAreWhole, QueueIsOpen, OnlyOverlapIsRefused
<1>8. SecretsAreNamed'
  <2>1. SecretNames' = SecretNames /\ SecretSteps' = SecretSteps
    BY <1>2, <1>4, DraftStays DEF SecretNames
  <2> QED
    BY <1>1, <1>3, <1>4, <2>1 DEF NamingInv, SecretsAreNamed
<1> QED
  BY <1>2, <1>4, <1>5, <1>6, <1>7, <1>8 DEF NamingInv

LEMMA ProposeInputsInv == NamingInv /\ ProposeInputs => NamingInv'
<1> SUFFICES ASSUME NamingInv, ProposeInputs PROVE NamingInv'
  OBVIOUS
<1> DEFINE queue == ProposedInputs
<1>1. Like(naming, StartNaming) /\ naming.phase = "secrets" /\ naming.queue = {}
  BY DEF NamingInv, ProposeInputs
<1>2. /\ naming' = [naming EXCEPT !.phase = "inputs", !.queue = queue]
      /\ draft' = draft /\ override' = override /\ heard' = heard
  BY DEF ProposeInputs
<1>3. /\ queue \subseteq DOMAIN draft /\ \A i \in queue : Hinted(i)
      /\ \A i \in queue : \A j \in Group(i) : i <= j
  BY DEF ProposedInputs
<1> HIDE DEF queue
<1>4. /\ Like(naming', StartNaming)
      /\ naming'.inputs = naming.inputs /\ naming'.secrets = naming.secrets
      /\ naming'.phase = "inputs" /\ naming'.queue = queue /\ naming'.tries = naming.tries
  BY <1>1, <1>2 DEF Like, StartNaming
<1>5. InputsAreHeard' /\ InputsHold' /\ InputsOverlap' /\ Overridden' = Overridden
  BY <1>2, <1>4, InputsStay DEF NamingInv
<1>6. OverridesLeft'
  BY <1>1, <1>2, <1>4 DEF NamingInv, OverridesLeft
<1>7. InputsAreWhole' /\ OnlyOverlapIsRefused'
  BY <1>4 DEF InputsAreWhole, OnlyOverlapIsRefused
<1>8. SecretsAreNamed'
  <2>1. SecretNames' = SecretNames /\ SecretSteps' = SecretSteps
    BY <1>2, <1>4, DraftStays DEF SecretNames
  <2> QED
    BY <1>1, <1>4, <2>1 DEF NamingInv, SecretsAreNamed
<1>9. QueueIsOpen'
  <2>1. ASSUME NEW i \in queue, NEW j \in queue, OneKey(i, j) PROVE i = j
    <3>1. j \in Group(i) /\ i \in Group(j)
      BY <1>3, <2>1 DEF Group, OneKey
    <3>2. i <= j /\ j <= i
      BY <1>3, <3>1
    <3>3. i \in Nat /\ j \in Nat
      BY <1>3, NamesAreFinite
    <3> QED
      BY <3>2, <3>3
  <2>2. \A i : Hinted(i)' <=> Hinted(i)
    BY <1>2, <1>5, DraftStays DEF Hinted
  <2> QED
    BY <1>2, <1>3, <1>4, <2>1, <2>2, DraftStays DEF QueueIsOpen
<1> QED
  BY <1>2, <1>4, <1>5, <1>6, <1>7, <1>8, <1>9 DEF NamingInv

LEMMA AnswersLeft ==
  ASSUME NEW answer \in Answers
  PROVE  answer = NoAnswer \/ naming.tries # Attempts
BY DEF Answers

LEMMA SecretIsNamed ==
  ASSUME NamingInv, naming.phase = "secrets", NEW asked \in naming.queue, NEW name,
         name \notin DOMAIN naming.inputs,
         naming' = [naming EXCEPT !.secrets = Bind(@, asked, name),
                                  !.queue = @ \ {asked}, !.tries = 0],
         draft' = draft, override' = override, heard' = heard
  PROVE  NamingInv'
<1> DEFINE old == naming.secrets
           new == Bind(old, asked, name)
           rest == naming.queue \ {asked}
<1>1. Like(naming, StartNaming)
  BY DEF NamingInv
<1>2. /\ DOMAIN new = DOMAIN old \cup {asked} /\ new[asked] = name
      /\ \A n \in DOMAIN old \ {asked} : new[n] = old[n]
  BY DEF Bind
<1> HIDE DEF new, rest
<1>3. /\ Like(naming', StartNaming)
      /\ naming'.inputs = naming.inputs /\ naming'.secrets = new
      /\ naming'.phase = naming.phase /\ naming'.queue = rest /\ naming'.tries = 0
  BY <1>1 DEF Like, StartNaming, new, rest
<1>4. naming'.tries \in 0..Attempts
  BY <1>3, NamingAssumption
<1>5. InputsAreHeard' /\ InputsHold' /\ InputsOverlap'
  BY <1>3, InputsStay DEF NamingInv
<1>6. OverridesLeft'
  BY <1>3 DEF NamingInv, OverridesLeft
<1>7. InputsAreWhole' /\ OnlyOverlapIsRefused' /\ QueueIsOpen'
  BY <1>3 DEF InputsAreWhole, OnlyOverlapIsRefused, QueueIsOpen
<1>8. SecretsAreNamed'
  <2>1. /\ DOMAIN old \subseteq SecretSteps /\ naming.queue \subseteq SecretSteps
        /\ SecretSteps \subseteq DOMAIN old \cup naming.queue
        /\ DOMAIN naming.inputs \cap SecretNames = {}
    BY DEF NamingInv, SecretsAreNamed
  <2>2. /\ DOMAIN new \subseteq SecretSteps /\ rest \subseteq SecretSteps
        /\ SecretSteps \subseteq DOMAIN new \cup rest
    BY <1>2, <2>1 DEF rest
  <2>3. ASSUME NEW n \in SecretNames' PROVE n \notin DOMAIN naming.inputs
    <3>1. PICK i \in DOMAIN new : n = new[i]
      BY <1>3 DEF SecretNames
    <3>2. CASE i = asked
      BY <1>2, <3>1, <3>2
    <3>3. CASE i # asked
      <4>1. i \in DOMAIN old /\ n = old[i]
        BY <1>2, <3>1, <3>3
      <4>2. n \in SecretNames
        BY <4>1 DEF SecretNames
      <4> QED
        BY <2>1, <4>2
    <3> QED
      BY <3>2, <3>3
  <2>4. DOMAIN naming'.inputs \cap SecretNames' = {}
    BY <1>3, <2>3
  <2> QED
    BY <1>3, <2>2, <2>4, DraftStays DEF SecretsAreNamed
<1> QED
  BY <1>3, <1>4, <1>5, <1>6, <1>7, <1>8 DEF NamingInv

LEMMA NameSecretInv == NamingInv /\ NameSecret => NamingInv'
<1> SUFFICES ASSUME NamingInv, NameSecret PROVE NamingInv'
  OBVIOUS
<1>1. naming.phase = "secrets" /\ naming.queue # {}
  BY DEF NameSecret
<1>2. Asked \in naming.queue /\ Asked \in DOMAIN draft
  <2>1. naming.queue \in SUBSET DOMAIN draft
    BY <1>1 DEF NamingInv, SecretsAreNamed, SecretSteps
  <2>2. Asked \in naming.queue
    BY <1>1, <2>1, NamesAreFinite, AskedIsLeast
  <2> QED
    BY <2>1, <2>2
<1>3. PICK answer \in Answers :
        LET name == IF answer = NoAnswer THEN SuggestedSecret ELSE answer IN
        \/ SecretRefused(name) /\ Refuse
        \/ /\ ~SecretRefused(name)
           /\ naming' = [naming EXCEPT !.secrets = Bind(@, Asked, name),
                                       !.queue = @ \ {Asked}, !.tries = 0]
           /\ UNCHANGED <<draft, override, heard>>
  BY DEF NameSecret
<1> DEFINE name == IF answer = NoAnswer THEN SuggestedSecret ELSE answer
           asked == Asked
<1>4. CASE SecretRefused(name) /\ Refuse
  <2>1. answer # NoAnswer
    BY <1>2, <1>4, SuggestionsAreTaken
  <2>2. naming.tries # Attempts
    BY <2>1, AnswersLeft
  <2> QED
    BY <1>4, <2>2, RefuseInv
<1>5. CASE /\ ~SecretRefused(name)
           /\ naming' = [naming EXCEPT !.secrets = Bind(@, asked, name),
                                       !.queue = @ \ {asked}, !.tries = 0]
           /\ UNCHANGED <<draft, override, heard>>
  <2>1. name \notin DOMAIN naming.inputs /\ asked \in naming.queue
    BY <1>2, <1>5 DEF SecretRefused
  <2> HIDE DEF name, asked
  <2> QED
    BY <1>1, <1>5, <2>1, SecretIsNamed
<1> QED
  BY <1>3, <1>4, <1>5

LEMMA InputIsNew ==
  ASSUME NamingInv, naming.phase = "inputs", Asked \in naming.queue, NEW name,
         ~InputRefused(name)
  PROVE  /\ name \notin DOMAIN naming.inputs /\ name \notin SecretNames
         /\ Merged(name) = Group(Asked)
<1> DEFINE asked == Asked
<1>1. asked \in DOMAIN draft /\ Hinted(asked)
  BY DEF NamingInv, QueueIsOpen
<1>2. name \notin SecretNames /\ (name \in DOMAIN naming.inputs => ~Differs(naming.inputs[name], asked))
  BY DEF InputRefused
<1> HIDE DEF asked
<1>3. ASSUME name \in DOMAIN naming.inputs PROVE FALSE
  <2>1. naming.inputs[name].value = draft[asked].text
        /\ naming.inputs[name].kind = ProposedKind(asked)
    BY <1>2, <1>3 DEF Differs
  <2>2. asked \in Overridden
    BY <1>1, <1>3, <2>1 DEF NamingInv, InputsHold, Hinted
  <2> QED
    BY <1>1, <2>2 DEF Hinted
<1>4. Merged(name) = Group(Asked)
  BY <1>3 DEF Merged
<1> QED
  BY <1>2, <1>3, <1>4

LEMMA GroupFits ==
  ASSUME NamingInv, naming.phase = "inputs", NEW asked \in naming.queue, NEW input,
         input = [value |-> draft[asked].text, kind |-> ProposedKind(asked),
                  steps |-> Group(asked)]
  PROVE  Fits(input)
<1>1. /\ input.value = draft[asked].text /\ input.kind = ProposedKind(asked)
      /\ input.steps = Group(asked)
  OBVIOUS
<1>2. asked \in DOMAIN draft /\ Hinted(asked)
  BY DEF NamingInv, QueueIsOpen
<1>3. asked \in Group(asked) /\ Group(asked) \subseteq DOMAIN draft
  BY <1>2 DEF Group
<1>4. ASSUME NEW i \in Group(asked)
      PROVE  /\ draft[i].kind = "literal" /\ draft[i].text = draft[asked].text
             /\ i \notin Overridden
             /\ draft[i].action = "navigate" => ProposedKind(asked) = "url"
  BY DEF Group, Hinted, ProposedKind
<1>5. ASSUME NEW j \in DOMAIN draft, draft[j].kind = "literal", Hint(j) # "none",
             draft[j].text = draft[asked].text, ProposedKind(j) = ProposedKind(asked)
      PROVE  j \in Overridden \/ j \in Group(asked)
  BY <1>5 DEF Group, Hinted
<1>6. ASSUME NEW m \in DOMAIN naming.inputs, naming.inputs[m].steps \cap Group(asked) # {}
      PROVE  FALSE
  <2>1. PICK i \in naming.inputs[m].steps : i \in Group(asked)
    BY <1>6
  <2>2. i \in Overridden
    BY <2>1 DEF Overridden
  <2> QED
    BY <1>4, <2>1, <2>2
<1> QED
  BY <1>1, <1>3, <1>4, <1>5, <1>6 DEF Fits

LEMMA InputIsNamed ==
  ASSUME NamingInv, naming.phase = "inputs", NEW asked \in naming.queue, NEW name,
         name \notin DOMAIN naming.inputs, name \notin SecretNames,
         NEW input, Fits(input), input.steps = Group(asked),
         naming' = [naming EXCEPT !.inputs = Bind(@, name, input),
                                  !.queue = @ \ {asked}, !.tries = 0],
         draft' = draft, override' = override,
         heard' = heard \cup {<<name, input.value, input.steps>>}
  PROVE  NamingInv'
<1> DEFINE new == Bind(naming.inputs, name, input)
           rest == naming.queue \ {asked}
<1>1. Like(naming, StartNaming)
  BY DEF NamingInv
<1> HIDE DEF new, rest
<1>2. /\ Like(naming', StartNaming)
      /\ naming'.inputs = new /\ naming'.secrets = naming.secrets
      /\ naming'.phase = naming.phase /\ naming'.queue = rest /\ naming'.tries = 0
  BY <1>1 DEF Like, StartNaming, new, rest
<1>3. naming'.tries \in 0..Attempts
  BY <1>2, NamingAssumption
<1>4. /\ InputsAreHeard' /\ InputsHold' /\ InputsOverlap'
      /\ Overridden' = Overridden \cup Group(asked)
      /\ DOMAIN naming.inputs' = DOMAIN naming.inputs \cup {name}
  BY <1>2, InputIsAdded DEF NamingInv, new
<1>5. OverridesLeft'
  <2>1. override = <<>> /\ DOMAIN override = {}
    BY NoItems DEF NamingInv, OverridesLeft
  <2> QED
    BY <2>1 DEF NamingInv, OverridesLeft
<1>6. InputsAreWhole' /\ OnlyOverlapIsRefused'
  BY <1>2 DEF InputsAreWhole, OnlyOverlapIsRefused
<1>7. SecretsAreNamed'
  <2>1. SecretNames' = SecretNames /\ SecretSteps' = SecretSteps
    BY <1>2, DraftStays DEF SecretNames
  <2> QED
    BY <1>2, <1>4, <2>1 DEF NamingInv, SecretsAreNamed
<1>8. QueueIsOpen'
  <2>1. ASSUME NEW i \in rest PROVE i \in DOMAIN draft /\ Hinted(i) /\ i \notin Group(asked)
    <3>1. i \in naming.queue /\ i # asked
      BY DEF rest
    <3>2. i \in DOMAIN draft /\ Hinted(i) /\ ~OneKey(i, asked)
      BY <3>1 DEF NamingInv, QueueIsOpen
    <3> QED
      BY <3>2 DEF Group, OneKey
  <2>2. ASSUME NEW i \in rest PROVE Hinted(i)'
    BY <1>4, <2>1, DraftStays DEF Hinted
  <2>3. ASSUME NEW i \in rest, NEW j \in rest, OneKey(i, j) PROVE i = j
    BY <2>3 DEF NamingInv, QueueIsOpen, rest
  <2> QED
    BY <1>2, <2>1, <2>2, <2>3, DraftStays DEF QueueIsOpen
<1> QED
  BY <1>2, <1>3, <1>4, <1>5, <1>6, <1>7, <1>8 DEF NamingInv

LEMMA NameInputInv == NamingInv /\ NameInput => NamingInv'
<1> SUFFICES ASSUME NamingInv, NameInput PROVE NamingInv'
  OBVIOUS
<1> DEFINE asked == Asked
<1>1. naming.phase = "inputs" /\ naming.queue # {}
  BY DEF NameInput
<1>2. asked \in naming.queue /\ asked \in DOMAIN draft
  <2>1. naming.queue \in SUBSET DOMAIN draft
    BY <1>1 DEF NamingInv, QueueIsOpen
  <2>2. Asked \in naming.queue
    BY <1>1, <2>1, NamesAreFinite, AskedIsLeast
  <2> QED
    BY <2>1, <2>2
<1>3. PICK answer \in Answers \cup (IF naming.tries = Attempts THEN {} ELSE {KeepLiteral}) :
        LET name == IF answer = NoAnswer THEN SuggestedInput ELSE answer
            input == [value |-> draft[Asked].text, kind |-> ProposedKind(Asked),
                      steps |-> Merged(name)]
        IN \/ answer = KeepLiteral /\ KeepsLiteral
           \/ answer # KeepLiteral /\ InputRefused(name) /\ Refuse
           \/ /\ answer # KeepLiteral /\ ~InputRefused(name)
              /\ naming' = [naming EXCEPT !.inputs = Bind(@, name, input),
                                          !.queue = @ \ {Asked}, !.tries = 0]
              /\ heard' = heard \cup {<<name, draft[Asked].text, Group(Asked)>>}
              /\ UNCHANGED <<draft, override>>
  BY DEF NameInput
<1> DEFINE name == IF answer = NoAnswer THEN SuggestedInput ELSE answer
           input == [value |-> draft[asked].text, kind |-> ProposedKind(asked),
                     steps |-> Merged(name)]
<1>4. CASE KeepsLiteral
  BY <1>1, <1>4, KeepsLiteralInv
<1>5. CASE answer # KeepLiteral /\ InputRefused(name) /\ Refuse
  <2>1. answer # NoAnswer
    BY <1>2, <1>5, SuggestionsAreTaken
  <2>2. answer \in Answers
    BY <1>5
  <2>3. naming.tries # Attempts
    BY <2>1, <2>2, AnswersLeft
  <2> QED
    BY <1>5, <2>3, RefuseInv
<1>6. CASE /\ ~InputRefused(name)
           /\ naming' = [naming EXCEPT !.inputs = Bind(@, name, input),
                                       !.queue = @ \ {asked}, !.tries = 0]
           /\ heard' = heard \cup {<<name, draft[asked].text, Group(asked)>>}
           /\ UNCHANGED <<draft, override>>
  <2> HIDE DEF name
  <2>1. /\ name \notin DOMAIN naming.inputs /\ name \notin SecretNames
        /\ Merged(name) = Group(asked)
    BY <1>1, <1>2, <1>6, InputIsNew
  <2>2. Fits(input) /\ input.steps = Group(asked) /\ input.value = draft[asked].text
    <3>1. input = [value |-> draft[asked].text, kind |-> ProposedKind(asked),
                   steps |-> Group(asked)]
      BY <2>1
    <3> HIDE DEF asked, input
    <3> QED
      BY <1>1, <1>2, <3>1, GroupFits
  <2>3. heard' = heard \cup {<<name, input.value, input.steps>>}
    BY <1>6, <2>2
  <2> HIDE DEF asked, input
  <2> QED
    BY <1>1, <1>2, <1>6, <2>1, <2>2, <2>3, InputIsNamed
<1> QED
  BY <1>3, <1>4, <1>5, <1>6

-----------------------------------------------------------------------------
(* Assembly.                                                               *)

Chosen(i) == CHOOSE n \in Covering(i) : TRUE

LEMMA ValueFacts ==
  ASSUME NEW i
  PROVE  /\ ValueOf(i)[1] = "secret" <=> draft[i].kind = "secret"
         /\ draft[i].kind = "secret" => ValueOf(i)[2] = naming.secrets[i]
         /\ ValueOf(i)[1] = "input" <=> draft[i].kind = "literal" /\ Covering(i) # {}
         /\ ValueOf(i)[1] = "input" => ValueOf(i)[2] = Chosen(i) /\ Chosen(i) \in Covering(i)
<1>1. CASE draft[i].kind = "none"
  BY <1>1 DEF ValueOf
<1>2. CASE draft[i].kind = "secret"
  BY <1>2 DEF ValueOf
<1>3. CASE draft[i].kind = "literal" /\ Covering(i) # {}
  <2>1. ValueOf(i) = <<"input", Chosen(i)>>
    BY <1>3 DEF ValueOf, Chosen
  <2>2. Chosen(i) \in Covering(i)
    BY <1>3 DEF Chosen
  <2> QED
    BY <1>3, <2>1, <2>2
<1>4. CASE /\ draft[i].kind # "none" /\ draft[i].kind # "secret"
           /\ ~(draft[i].kind = "literal" /\ Covering(i) # {})
  <2>1. ValueOf(i) = <<"literal", draft[i].text>>
    BY <1>4 DEF ValueOf
  <2> QED
    BY <1>4, <2>1
<1> QED
  BY <1>1, <1>2, <1>3, <1>4

\* The answers that share a step.
Overlapping == \E one, two \in heard : one[1] # two[1] /\ one[3] \cap two[3] # {}

LEMMA InputsAreUsed ==
  ASSUME NamingInv
  PROVE  Used("input") = DOMAIN naming.inputs <=> ~Overlapping
<1>1. \A n \in DOMAIN naming.inputs :
        /\ naming.inputs[n].steps \in SUBSET DOMAIN draft /\ naming.inputs[n].steps # {}
        /\ \A i \in naming.inputs[n].steps : draft[i].kind = "literal"
  BY DEF NamingInv, InputsHold
<1>2. \A h \in heard : h[1] \in DOMAIN naming.inputs /\ naming.inputs[h[1]].steps = h[3]
  BY DEF NamingInv, InputsAreHeard
<1>3. \A n \in DOMAIN naming.inputs : \E h \in heard : h[1] = n
  BY DEF NamingInv, InputsAreHeard
<1>4. \A n, m \in DOMAIN naming.inputs :
        naming.inputs[n].steps \cap naming.inputs[m].steps # {} =>
          naming.inputs[n].steps = naming.inputs[m].steps
  BY DEF NamingInv, InputsOverlap
<1>5. \A n : n \in Used("input") <=>
        \E i \in DOMAIN draft : ValueOf(i)[1] = "input" /\ n = ValueOf(i)[2]
  BY DEF Used
<1>6. \A n : n \in Used("input") <=>
        \E i \in DOMAIN draft :
          draft[i].kind = "literal" /\ Chosen(i) \in Covering(i) /\ n = Chosen(i)
  BY <1>5, ValueFacts
<1>7. \A i, n : n \in Covering(i) <=> n \in DOMAIN naming.inputs /\ i \in naming.inputs[n].steps
  BY DEF Covering
<1>8. \A i, n : n \in Covering(i) => Chosen(i) \in Covering(i)
  BY DEF Chosen
<1>9. Used("input") \subseteq DOMAIN naming.inputs
  BY <1>6, <1>7
<1>10. ASSUME ~Overlapping, NEW n \in DOMAIN naming.inputs PROVE n \in Used("input")
  <2>1. PICK i \in naming.inputs[n].steps : i \in DOMAIN draft /\ draft[i].kind = "literal"
    BY <1>1
  <2>2. n \in Covering(i)
    BY <1>7, <2>1
  <2>3. Chosen(i) \in Covering(i)
    BY <1>8, <2>2
  <2>4. Chosen(i) = n
    <3> DEFINE m == Chosen(i)
    <3>1. m \in DOMAIN naming.inputs /\ i \in naming.inputs[m].steps
      BY <1>7, <2>3
    <3> HIDE DEF m
    <3>2. PICK one \in heard : one[1] = n
      BY <1>3
    <3>3. PICK two \in heard : two[1] = m
      BY <1>3, <3>1
    <3>4. i \in one[3] \cap two[3]
      BY <1>2, <2>1, <3>1, <3>2, <3>3
    <3>5. one[1] = two[1]
      BY <1>10, <3>4 DEF Overlapping
    <3> QED
      BY <3>2, <3>3, <3>5 DEF m
  <2> QED
    BY <1>6, <2>1, <2>3, <2>4
<1>11. ASSUME Overlapping, Used("input") = DOMAIN naming.inputs PROVE FALSE
  <2>1. PICK one \in heard, two \in heard : one[1] # two[1] /\ one[3] \cap two[3] # {}
    BY <1>11 DEF Overlapping
  <2> DEFINE n == one[1]
             m == two[1]
             S == naming.inputs[n].steps
  <2>2. n \in DOMAIN naming.inputs /\ m \in DOMAIN naming.inputs /\ n # m
        /\ naming.inputs[n].steps \cap naming.inputs[m].steps # {}
    BY <1>2, <2>1
  <2>3. naming.inputs[m].steps = S
    BY <1>4, <2>2
  <2> HIDE DEF n, m
  <2>4. PICK i \in DOMAIN draft : Chosen(i) \in Covering(i) /\ n = Chosen(i)
    BY <1>6, <1>11, <2>2
  <2>5. PICK j \in DOMAIN draft : Chosen(j) \in Covering(j) /\ m = Chosen(j)
    BY <1>6, <1>11, <2>2
  <2>6. i \in S /\ j \in S
    BY <1>7, <2>3, <2>4, <2>5
  <2>7. ASSUME NEW k PROVE k \in Covering(i) => k \in Covering(j)
    <3> SUFFICES ASSUME k \in Covering(i) PROVE k \in Covering(j)
      OBVIOUS
    <3>1. k \in DOMAIN naming.inputs /\ i \in naming.inputs[k].steps
      BY <1>7
    <3>2. naming.inputs[k].steps = S
      BY <1>4, <2>2, <2>6, <3>1
    <3> QED
      BY <1>7, <2>6, <3>1, <3>2
  <2>8. ASSUME NEW k PROVE k \in Covering(j) => k \in Covering(i)
    <3> SUFFICES ASSUME k \in Covering(j) PROVE k \in Covering(i)
      OBVIOUS
    <3>1. k \in DOMAIN naming.inputs /\ j \in naming.inputs[k].steps
      BY <1>7
    <3>2. naming.inputs[k].steps = S
      BY <1>4, <2>2, <2>6, <3>1
    <3> QED
      BY <1>7, <2>6, <3>1, <3>2
  <2>9. Covering(i) = Covering(j)
    <3>1. Covering(i) \subseteq Covering(j) /\ Covering(j) \subseteq Covering(i)
      BY <2>7, <2>8
    <3> QED
      BY <3>1
  <2>10. Chosen(i) = Chosen(j)
    BY <2>9 DEF Chosen
  <2> QED
    BY <2>2, <2>4, <2>5, <2>10
<1> QED
  BY <1>9, <1>10, <1>11

LEMMA OnlyOverlapIsInvalid ==
  ASSUME NamingInv, naming.phase = "inputs"
  PROVE  Valid <=> ~Overlapping
<1>1. Used("input") = Decisions.inputs <=> ~Overlapping
  BY InputsAreUsed DEF Decisions
<1>2. Used("secret") = Decisions.secrets
  <2>1. DOMAIN naming.secrets = SecretSteps
    BY DEF NamingInv, SecretsAreNamed
  <2>2. \A n : n \in Used("secret") <=>
          \E i \in DOMAIN draft : ValueOf(i)[1] = "secret" /\ n = ValueOf(i)[2]
    BY DEF Used
  <2>3. \A n : n \in SecretNames <=> \E i \in SecretSteps : n = naming.secrets[i]
    BY <2>1 DEF SecretNames
  <2>4. \A n : n \in Used("secret") <=> n \in SecretNames
    BY <2>2, <2>3, ValueFacts DEF SecretSteps
  <2> QED
    BY <2>4 DEF Decisions
<1>3. Decisions.secrets \cap Decisions.inputs = {}
  BY DEF NamingInv, SecretsAreNamed, Decisions
<1>4. ASSUME NEW i \in DOMAIN draft, draft[i].action = "navigate", ValueOf(i)[1] = "input"
      PROVE  naming.inputs[ValueOf(i)[2]].kind = "url"
  <2>1. ValueOf(i)[2] = Chosen(i) /\ Chosen(i) \in Covering(i)
    BY <1>4, ValueFacts
  <2>2. Chosen(i) \in DOMAIN naming.inputs /\ i \in naming.inputs[Chosen(i)].steps
    BY <2>1 DEF Covering
  <2> QED
    BY <1>4, <2>1, <2>2 DEF NamingInv, InputsHold
<1> QED
  BY <1>1, <1>2, <1>3, <1>4 DEF Valid

LEMMA AssembleInv == NamingInv /\ Assemble => NamingInv'
<1> SUFFICES ASSUME NamingInv, Assemble PROVE NamingInv'
  OBVIOUS
<1> DEFINE verdict == IF Valid THEN "assembled" ELSE "refused"
<1>1. Like(naming, StartNaming) /\ naming.phase = "inputs"
  BY DEF NamingInv, Assemble
<1>2. /\ naming' = [naming EXCEPT !.phase = verdict]
      /\ draft' = draft /\ override' = override /\ heard' = heard
  BY DEF Assemble
<1>3. verdict \in {"assembled", "refused"} /\ (verdict = "refused" <=> Overlapping)
  BY <1>1, OnlyOverlapIsInvalid
<1> HIDE DEF verdict
<1>4. /\ Like(naming', StartNaming)
      /\ naming'.inputs = naming.inputs /\ naming'.secrets = naming.secrets
      /\ naming'.phase = verdict /\ naming'.queue = naming.queue /\ naming'.tries = naming.tries
  BY <1>1, <1>2 DEF Like, StartNaming
<1>5. InputsAreHeard' /\ InputsHold' /\ InputsOverlap'
  BY <1>2, <1>4, InputsStay DEF NamingInv
<1>6. OverridesLeft'
  BY <1>1, <1>2, <1>4 DEF NamingInv, OverridesLeft
<1>7. InputsAreWhole' /\ QueueIsOpen'
  BY <1>3, <1>4 DEF InputsAreWhole, QueueIsOpen
<1>8. SecretsAreNamed'
  <2>1. SecretNames' = SecretNames /\ SecretSteps' = SecretSteps
    BY <1>2, <1>4, DraftStays DEF SecretNames
  <2> QED
    BY <1>1, <1>3, <1>4, <2>1 DEF NamingInv, SecretsAreNamed
<1>9. OnlyOverlapIsRefused'
  BY <1>2, <1>3, <1>4 DEF OnlyOverlapIsRefused, Overlapping
<1> QED
  BY <1>2, <1>3, <1>4, <1>5, <1>6, <1>7, <1>8, <1>9 DEF NamingInv

LEMMA NamingStep == NamingInv /\ NamingNext => NamingInv'
BY ApplyOverrideInv, ProposeInv, ProposeInputsInv, NameSecretInv, NameInputInv, AssembleInv
   DEF NamingNext

\* A recording's steps, before anything is named.
LEMMA NamingOpens ==
  ASSUME naming = StartNaming, heard = {}, IsSeq(draft),
         \A i \in DOMAIN draft : draft[i].field # "?",
         IsSeq(override), \A i, j \in DOMAIN override : override[i][1] = override[j][1] => i = j
  PROVE  NamingInv
<1>1. /\ Like(naming, StartNaming) /\ naming.phase = "overrides" /\ naming.tries = 0
      /\ naming.inputs = NoNames /\ naming.secrets = NoNames
  BY DEF StartNaming, Like
<1>2. DOMAIN naming.inputs = {} /\ DOMAIN naming.secrets = {}
  BY <1>1 DEF NoNames
<1>3. naming.tries \in 0..Attempts
  BY <1>1, NamingAssumption
<1>4. OverridesLeft
  BY <1>1, <1>2 DEF OverridesLeft
<1>5. InputsAreHeard
  BY <1>2, FS_EmptySet DEF InputsAreHeard
<1>6. InputsHold /\ InputsOverlap /\ InputsAreWhole
  BY <1>2 DEF InputsHold, InputsOverlap, InputsAreWhole
<1>7. SecretsAreNamed
  BY <1>1, <1>2 DEF SecretsAreNamed
<1>8. QueueIsOpen /\ OnlyOverlapIsRefused
  BY <1>1 DEF QueueIsOpen, OnlyOverlapIsRefused
<1> QED
  BY <1>1, <1>3, <1>4, <1>5, <1>6, <1>7, <1>8 DEF NamingInv

LEMMA NamingBeginsInv ==
  ASSUME NotNamed, NamingInv, NamingBegins
  PROVE  NamingInv'
<1>1. /\ naming' = naming /\ heard' = heard /\ naming = StartNaming /\ heard = {}
      /\ draft' \in Drafts /\ override' \in Overrides
  BY DEF NotNamed, NamingBegins
<1>2. /\ Like(naming, StartNaming) /\ naming.phase = "overrides" /\ naming.tries \in 0..Attempts
      /\ naming.inputs = NoNames /\ naming.secrets = NoNames
  BY <1>1 DEF NamingInv, StartNaming
<1>3. DOMAIN naming.inputs = {} /\ DOMAIN naming.secrets = {}
  BY <1>2 DEF NoNames
<1>4. /\ IsSeq(draft') /\ \A i \in DOMAIN draft' : draft'[i].field # "?"
      /\ IsSeq(override')
      /\ \A i, j \in DOMAIN override' : override'[i][1] = override'[j][1] => i = j
  BY <1>1, NamingAssumption DEF IsSeq
<1>5. OverridesLeft'
  BY <1>1, <1>2, <1>3, <1>4 DEF OverridesLeft
<1>6. InputsAreHeard'
  BY <1>1, <1>3, FS_EmptySet DEF InputsAreHeard
<1>7. InputsHold' /\ InputsOverlap' /\ InputsAreWhole'
  BY <1>1, <1>3 DEF InputsHold, InputsOverlap, InputsAreWhole
<1>8. SecretsAreNamed'
  BY <1>1, <1>2, <1>3 DEF SecretsAreNamed
<1>9. QueueIsOpen' /\ OnlyOverlapIsRefused'
  BY <1>1, <1>2 DEF QueueIsOpen, OnlyOverlapIsRefused
<1> QED
  BY <1>1, <1>2, <1>4, <1>5, <1>6, <1>7, <1>8, <1>9 DEF NamingInv

LEMMA NamingStays ==
  ASSUME NamingInv, UNCHANGED namingVars
  PROVE  NamingInv' /\ (NotNamed => NotNamed')
<1>1. draft' = draft /\ override' = override /\ naming' = naming /\ heard' = heard
  BY DEF namingVars
<1>2. InputsAreHeard' /\ InputsHold' /\ InputsOverlap' /\ Overridden' = Overridden
  BY <1>1, InputsStay DEF NamingInv
<1>3. OverridesLeft'
  BY <1>1 DEF NamingInv, OverridesLeft
<1>4. InputsAreWhole'
  BY <1>1, DraftStays DEF NamingInv, InputsAreWhole
<1>5. SecretsAreNamed'
  BY <1>1, DraftStays DEF NamingInv, SecretsAreNamed, SecretNames
<1>6. QueueIsOpen'
  BY <1>1, <1>2, DraftStays DEF NamingInv, QueueIsOpen, Hinted
<1>7. OnlyOverlapIsRefused'
  BY <1>1 DEF NamingInv, OnlyOverlapIsRefused
<1>8. NamingInv'
  BY <1>1, <1>2, <1>3, <1>4, <1>5, <1>6, <1>7 DEF NamingInv
<1> QED
  BY <1>1, <1>8 DEF NotNamed

-----------------------------------------------------------------------------
(* The invariant.                                                          *)

LEMMA InitInv == Init => Inv
<1> SUFFICES ASSUME Init PROVE Inv
  OBVIOUS
<1>1. /\ stage = "capture" /\ alive = TRUE /\ moved = FALSE /\ expired = FALSE
      /\ site \in Sites /\ page \in site
  BY DEF Init, TargetInit
<1>2. CaptureInv
  BY CaptureBegins DEF Init
<1>3. NotNamed
  BY DEF Init, NamingInit, NotNamed
<1>4. NamingInv
  <2>1. IsSeq(draft) /\ DOMAIN draft = {} /\ IsSeq(override) /\ DOMAIN override = {}
    BY <1>3, NoItems DEF NotNamed
  <2> QED
    BY <1>3, <2>1, NamingOpens DEF NotNamed
<1> QED
  BY <1>1, <1>2, <1>3, <1>4 DEF Inv

LEMMA BooleansStay ==
  ASSUME alive \in BOOLEAN, moved \in BOOLEAN, expired \in BOOLEAN, TargetNext
  PROVE  alive' \in BOOLEAN /\ moved' \in BOOLEAN /\ expired' \in BOOLEAN
BY DEF TargetNext, Capture, Identify, ReadFacts, Settle, TryCandidate, ListScopes, TryScope,
  TryDeeper, Ambiguous, Confirm, Build, ProveSettle, MatchNext, ProveConfirm, ProveWait,
  SameAgain, Unusable, Go, SettleTo, PageChanges, DocumentReplaced, DeadlinePasses, pageVars

LEMMA NextInv == Inv /\ [Next]_vars => Inv'
<1> SUFFICES ASSUME Inv, [Next]_vars PROVE Inv'
  OBVIOUS
<1>1. alive \in BOOLEAN /\ moved \in BOOLEAN /\ expired \in BOOLEAN /\ NamingInv
  BY DEF Inv
<1>2. CASE Target_
  <2>1. stage = "capture" /\ TargetNext /\ stage' = stage /\ UNCHANGED namingVars
    BY <1>2 DEF Target_, flowVars
  <2>2. CaptureInv' /\ site' \in Sites /\ page' \in site'
    BY <2>1, TargetStep DEF Inv
  <2>3. alive' \in BOOLEAN /\ moved' \in BOOLEAN /\ expired' \in BOOLEAN
    BY <1>1, <2>1, BooleansStay
  <2>4. NamingInv' /\ NotNamed'
    BY <1>1, <2>1, NamingStays DEF Inv
  <2> QED
    BY <2>1, <2>2, <2>3, <2>4 DEF Inv
<1>3. CASE Perform
  <2>1. /\ stage = "capture" /\ stage' = "check" /\ UNCHANGED namingVars
        /\ alive' = TRUE /\ moved' = FALSE /\ expired' = FALSE
    BY <1>3 DEF Perform, Captured, ResetTarget, namingVars
  <2>2. NamingInv' /\ NotNamed'
    BY <1>1, <2>1, NamingStays DEF Inv
  <2> QED
    BY <1>3, <2>1, <2>2, PerformChecks DEF Inv
<1>4. CASE OpenPage
  <2>1. /\ stage = "capture" /\ stage' = "check" /\ UNCHANGED namingVars
        /\ alive' = TRUE /\ moved' = FALSE /\ expired' = FALSE
    BY <1>4 DEF OpenPage, ResetTarget, namingVars
  <2>2. NamingInv' /\ NotNamed'
    BY <1>1, <2>1, NamingStays DEF Inv
  <2> QED
    BY <1>4, <2>1, <2>2, OpenPageChecks DEF Inv
<1>5. CASE CheckOne
  <2>1. /\ stage = "check" /\ stage' = stage /\ UNCHANGED namingVars
        /\ alive' = alive /\ moved' = moved /\ expired' = expired
    BY <1>5 DEF CheckOne, targetVars
  <2>2. NamingInv' /\ NotNamed'
    BY <1>1, <2>1, NamingStays DEF Inv
  <2>3. ChecksInv'
    BY <1>5, <2>1, CheckOneChecks DEF Inv
  <2> QED
    BY <1>1, <2>1, <2>2, <2>3 DEF Inv
<1>6. CASE AddStep
  <2>1. /\ stage = "check" /\ stage' = "name" /\ NamingBegins
        /\ alive' = alive /\ moved' = moved /\ expired' = expired
    BY <1>6 DEF AddStep, targetVars
  <2>2. NamingInv'
    BY <1>1, <2>1, NamingBeginsInv DEF Inv
  <2> QED
    BY <1>1, <2>1, <2>2 DEF Inv
<1>7. CASE Naming
  <2>1. /\ stage = "name" /\ stage' = stage /\ NamingNext
        /\ alive' = alive /\ moved' = moved /\ expired' = expired
    BY <1>7 DEF Naming, targetVars, flowVars
  <2>2. NamingInv'
    BY <1>1, <2>1, NamingStep
  <2> QED
    BY <1>1, <2>1, <2>2 DEF Inv
<1>8. CASE AbortNaming
  <2>1. /\ stage = "name" /\ stage' = "aborted" /\ UNCHANGED namingVars
        /\ alive' = alive /\ moved' = moved /\ expired' = expired
    BY <1>8 DEF AbortNaming, targetVars, namingVars
  <2>2. NamingInv'
    BY <1>1, <2>1, NamingStays
  <2> QED
    BY <1>1, <2>1, <2>2 DEF Inv
<1>9. CASE StopUnusable \/ FoundTarget
  <2>1. /\ stage = "capture" /\ stage' \in {"unusable", "crashed", "answered"}
        /\ UNCHANGED namingVars
        /\ alive' = alive /\ moved' = moved /\ expired' = expired
    BY <1>9 DEF StopUnusable, FoundTarget, Captured, targetVars, namingVars
  <2>2. NamingInv' /\ NotNamed'
    BY <1>1, <2>1, NamingStays DEF Inv
  <2> QED
    BY <1>1, <2>1, <2>2 DEF Inv
<1>10. CASE UNCHANGED vars
  <2>1. UNCHANGED namingVars /\ UNCHANGED targetVars /\ stage' = stage
        /\ seen' = seen /\ checks' = checks
    BY <1>10 DEF vars, flowVars
  <2>2. NamingInv' /\ (NotNamed => NotNamed')
    BY <1>1, <2>1, NamingStays
  <2>3. /\ alive' = alive /\ moved' = moved /\ expired' = expired /\ site' = site
        /\ page' = page /\ pc' = pc /\ cap' = cap
    BY <2>1 DEF targetVars
  <2>4. CaptureInv => CaptureInv'
    BY <2>3 DEF CaptureInv, CaptureTypes, KeptFind, Verified, VotesStand, Proven, AllFind
  <2>5. ChecksInv => ChecksInv'
    BY <2>1 DEF ChecksInv
  <2> QED
    BY <1>1, <2>1, <2>2, <2>3, <2>4, <2>5 DEF Inv
<1> QED
  BY <1>2, <1>3, <1>4, <1>5, <1>6, <1>7, <1>8, <1>9, <1>10 DEF Next

LEMMA Invariance == Spec => []Inv
BY InitInv, NextInv, PTL DEF Spec

-----------------------------------------------------------------------------
(* The results.                                                            *)

\* A recorded fingerprint's selectors each found exactly the captured element
\* on one page, and Rung 0 found it by them under its recorded name
\* (TargetRecorder._verify and _prove), whatever the page did in between.
THEOREM FingerprintsAreProven == Spec => []TargetIsProven
<1>1. Inv => TargetIsProven
  BY RecordedIsProven DEF Inv
<1> QED
  BY <1>1, Invariance, PTL

LEMMA InvTypes == Inv => TypeOK
<1> SUFFICES ASSUME Inv PROVE TypeOK
  OBVIOUS
<1>1. stage = "capture" =>
        /\ page \in site
        /\ pc \in {"identify", "facts", "settle", "verify", "scoped", "build", "prove", "match",
                   "waiting", "same", "recorded", "raised", "escaped"}
        /\ cap.at \in 1..(Len(cap.tries) + 1)
        /\ cap.inner \in 1..(Len(cap.scopes) + 1)
        /\ cap.outer \in 0..Len(cap.scopes)
        /\ cap.rank \in 0..Len(cap.kept)
        /\ Len(cap.hits) <= Len(cap.kept)
  BY DEF Inv, CaptureInv, CaptureTypes, Listing, Testing, Proving
<1>2. /\ naming.phase \in {"overrides", "secrets", "inputs", "assembled", "refused"}
      /\ naming.tries \in 0..Attempts
      /\ DOMAIN naming.secrets \subseteq DOMAIN draft
      /\ \A n \in DOMAIN naming.inputs : naming.inputs[n].steps \subseteq DOMAIN draft
  BY DEF Inv, NamingInv, SecretsAreNamed, SecretSteps, InputsHold
<1> QED
  BY <1>1, <1>2 DEF Inv, TypeOK

LEMMA InvAnswers == Inv => AnswersStand /\ OnlyOverlapIsRefused
BY DEF Inv, NamingInv, SecretsAreNamed, InputsAreHeard, AnswersStand

\* A recorded workflow says what was recorded: checkpoints what each step
\* changed (propose_after_action), names the values the person gave them
\* (NamingSession), and it is refused for one reason only (assemble).
THEOREM WorkflowsAreTrue == Spec => []WorkflowIsTrue
<1>1. Inv => CheckpointsSayWhatChanged
  BY ChecksSayWhatChanged DEF Inv
<1>2. Inv => WorkflowIsTrue
  BY <1>1, InvTypes, InvAnswers DEF WorkflowIsTrue
<1> QED
  BY <1>2, Invariance, PTL

-----------------------------------------------------------------------------
(* A benchmarked run.                                                      *)

Kinds ==
  {"heal_attempted", "target_resolved", "heal_verified", "state_restored", "action_performed",
   "checkpoint", "step_succeeded", "step_failed"}
Verdicts == {"passed", "failed", "not_checked"}
Emissions == [kind : Kinds, rung : Nat, ok : BOOLEAN]
Noted ==
  [at : Nat, keys : SUBSET Keys, known : BOOLEAN, elem : Keys \cup {Elsewhere},
   named : SUBSET {"matched", "known"}, restoring : BOOLEAN, rung : Nat, said : Verdicts]

-----------------------------------------------------------------------------
(* The events around an action.                                            *)

ChecksBefore(s, a, d) == \E i \in (a + 1)..(d - 1) : s[i].kind = "checkpoint"
Undecided(s, a, d) == \A i \in (a + 1)..(d - 1) : ~Decides(s[i])

\* A decision came after the action, and said what it is noted to have said.
Closed(p, s) ==
  \E d \in (p.at + 1)..Len(s) :
    /\ Decides(s[d]) /\ Undecided(s, p.at, d)
    /\ p.said = Judgement(s[d], ChecksBefore(s, p.at, d))

\* None did yet.
Open(p, s) ==
  /\ Undecided(s, p.at, Len(s) + 1)
  /\ p.said = IF ChecksBefore(s, p.at, Len(s) + 1) THEN "passed" ELSE "not_checked"

Laddered(s) == \E i \in DOMAIN s : s[i].kind = "heal_attempted" /\ s[i].rung > 0

\* What the events up to an action tell of it.
Sent(p, s) ==
  /\ p.at <= Len(s)
  /\ p.restoring <=> Restoring(s, p.at)
  /\ ~p.restoring => p.at > 0 /\ s[p.at].kind = "target_resolved" /\ s[p.at].rung = p.rung
  /\ p.rung > 0 => Laddered(s)

Grows(s, u) == Len(s) <= Len(u) /\ \A i \in 1..Len(s) : u[i] = s[i]

LEMMA GrowsFacts ==
  ASSUME NEW E, NEW s \in Seq(E), NEW t \in Seq(E)
  PROVE  /\ s \o t \in Seq(E) /\ Len(s \o t) = Len(s) + Len(t)
         /\ \A i \in 1..Len(t) : (s \o t)[Len(s) + i] = t[i]
         /\ Grows(s, s \o t)
BY DEF Grows

\* What was so of an action stays so as events are added.
LEMMA ClosedStays ==
  ASSUME NEW s \in Seq(Emissions), NEW u \in Seq(Emissions), NEW p, p.at \in Nat,
         Grows(s, u), Closed(p, s)
  PROVE  Closed(p, u)
<1>1. PICK d \in (p.at + 1)..Len(s) :
        /\ Decides(s[d]) /\ Undecided(s, p.at, d)
        /\ p.said = Judgement(s[d], ChecksBefore(s, p.at, d))
  BY DEF Closed
<1>2. d \in (p.at + 1)..Len(u) /\ u[d] = s[d] /\ \A i \in (p.at + 1)..(d - 1) : u[i] = s[i]
  <2>1. /\ Len(s) \in Nat /\ Len(u) \in Nat /\ Len(s) <= Len(u)
        /\ \A i \in 1..Len(s) : u[i] = s[i]
    BY DEF Grows
  <2>2. \A i \in (p.at + 1)..d : i \in 1..Len(s) BY <2>1
  <2>3. d \in (p.at + 1)..d /\ \A i \in (p.at + 1)..(d - 1) : i \in (p.at + 1)..d OBVIOUS
  <2> QED BY <2>1, <2>2, <2>3
<1>3. Undecided(u, p.at, d) BY <1>1, <1>2 DEF Undecided
<1>4. ChecksBefore(u, p.at, d) <=> ChecksBefore(s, p.at, d) BY <1>1, <1>2 DEF ChecksBefore
<1> QED BY <1>1, <1>2, <1>3, <1>4 DEF Closed, Judgement

LEMMA LadderedStays ==
  ASSUME NEW s \in Seq(Emissions), NEW u \in Seq(Emissions), Grows(s, u), Laddered(s)
  PROVE  Laddered(u)
BY DEF Grows, Laddered

LEMMA SentStays ==
  ASSUME NEW s \in Seq(Emissions), NEW u \in Seq(Emissions), NEW p, p.at \in Nat,
         Grows(s, u), Sent(p, s)
  PROVE  Sent(p, u)
<1>1. p.at <= Len(s) /\ \A i \in 1..p.at : u[i] = s[i] BY DEF Sent, Grows
<1>2. Restoring(u, p.at) <=> Restoring(s, p.at)
  <2>1. \A i \in 1..p.at : \A j \in (i + 1)..p.at : u[j] = s[j] BY <1>1
  <2> QED BY <1>1, <2>1 DEF Restoring
<1>3. Laddered(s) => Laddered(u) BY LadderedStays
<1> QED BY <1>1, <1>2, <1>3 DEF Sent, Grows

LEMMA OpenStays ==
  ASSUME NEW s \in Seq(Emissions), NEW u \in Seq(Emissions), NEW p, p.at \in Nat,
         Grows(s, u), Open(p, s), p.at <= Len(s),
         \A i \in (Len(s) + 1)..Len(u) : ~Decides(u[i]) /\ u[i].kind # "checkpoint"
  PROVE  Open(p, u)
<1>1. \A i \in (p.at + 1)..(Len(u) + 1 - 1) :
        \/ i \in (p.at + 1)..(Len(s) + 1 - 1) /\ u[i] = s[i]
        \/ i \in (Len(s) + 1)..Len(u)
  BY DEF Grows
<1>2. Undecided(u, p.at, Len(u) + 1) BY <1>1 DEF Open, Undecided
<1>3. ChecksBefore(u, p.at, Len(u) + 1) <=> ChecksBefore(s, p.at, Len(s) + 1)
  <2>1. \A i \in (p.at + 1)..(Len(s) + 1 - 1) : i \in (p.at + 1)..(Len(u) + 1 - 1) /\ u[i] = s[i]
    BY DEF Grows
  <2> QED BY <1>1, <2>1 DEF ChecksBefore
<1> QED BY <1>2, <1>3 DEF Open

\* The next event decides.
LEMMA OpenCloses ==
  ASSUME NEW s \in Seq(Emissions), NEW u \in Seq(Emissions), NEW p, NEW q, p.at \in Nat,
         Grows(s, u), Open(p, s), p.at <= Len(s), Len(u) > Len(s), Decides(u[Len(s) + 1]),
         q.at = p.at,
         q.said = LET e == u[Len(s) + 1] IN
                  IF e.kind \in {"heal_verified", "checkpoint"}
                  THEN IF e.ok THEN "passed" ELSE "failed"
                  ELSE IF e.kind = "step_succeeded" THEN "passed" ELSE p.said
  PROVE  Closed(q, u)
<1> DEFINE d == Len(s) + 1
<1>1. d \in (p.at + 1)..Len(u) /\ \A i \in (p.at + 1)..(d - 1) : u[i] = s[i] BY DEF Grows
<1>2. Undecided(u, p.at, d) BY <1>1 DEF Open, Undecided
<1>3. ChecksBefore(u, p.at, d) <=> ChecksBefore(s, p.at, d) BY <1>1 DEF ChecksBefore
<1>4. q.said = Judgement(u[d], ChecksBefore(u, p.at, d)) BY <1>3 DEF Judgement, Open
<1> QED BY <1>1, <1>2, <1>4 DEF Closed

\* A checkpoint passes.
LEMMA OpenPasses ==
  ASSUME NEW s \in Seq(Emissions), NEW u \in Seq(Emissions), NEW p, NEW q, p.at \in Nat,
         Grows(s, u), Open(p, s), p.at <= Len(s), Len(u) = Len(s) + 1,
         u[Len(s) + 1].kind = "checkpoint", ~Decides(u[Len(s) + 1]),
         q.at = p.at, q.said = "passed"
  PROVE  Open(q, u)
<1>1. Undecided(u, p.at, Len(u) + 1) BY DEF Open, Undecided, Grows
<1>2. ChecksBefore(u, p.at, Len(u) + 1)
  <2>1. Len(s) + 1 \in (p.at + 1)..(Len(u) + 1 - 1) OBVIOUS
  <2> QED BY <2>1 DEF ChecksBefore
<1> QED BY <1>1, <1>2 DEF Open

Turning == {"state_restored", "heal_verified"}

LEMMA RestoringStays ==
  ASSUME NEW s \in Seq(Emissions), NEW u \in Seq(Emissions), Grows(s, u),
         \A i \in (Len(s) + 1)..Len(u) : u[i].kind \notin Turning
  PROVE  Restoring(u, Len(u)) <=> Restoring(s, Len(s))
<1>1. ASSUME Restoring(u, Len(u)) PROVE Restoring(s, Len(s))
  <2>1. PICK i \in 1..Len(u) :
          /\ u[i].kind = "heal_verified" /\ ~u[i].ok
          /\ \A j \in (i + 1)..Len(u) : u[j].kind \notin Turning
    BY <1>1 DEF Restoring, Turning
  <2>2. i \in 1..Len(s)
    <3>1. i \notin (Len(s) + 1)..Len(u) BY <2>1 DEF Turning
    <3> QED BY <3>1
  <2>3. s[i] = u[i] /\ \A j \in (i + 1)..Len(s) : s[j] = u[j] /\ j \in (i + 1)..Len(u)
    BY <2>2 DEF Grows
  <2> QED BY <2>1, <2>2, <2>3 DEF Restoring, Turning
<1>2. ASSUME Restoring(s, Len(s)) PROVE Restoring(u, Len(u))
  <2>1. PICK i \in 1..Len(s) :
          /\ s[i].kind = "heal_verified" /\ ~s[i].ok
          /\ \A j \in (i + 1)..Len(s) : s[j].kind \notin Turning
    BY <1>2 DEF Restoring, Turning
  <2>2. i \in 1..Len(u) /\ u[i] = s[i] BY <2>1 DEF Grows
  <2>3. ASSUME NEW j \in (i + 1)..Len(u) PROVE u[j].kind \notin Turning
    <3>1. CASE j <= Len(s) BY <2>1, <3>1 DEF Grows
    <3>2. CASE j > Len(s) BY <3>2
    <3> QED BY <3>1, <3>2
  <2> QED BY <2>1, <2>2, <2>3 DEF Restoring, Turning
<1> QED BY <1>1, <1>2

LEMMA RestoringTurns ==
  ASSUME NEW u \in Seq(Emissions), Len(u) > 0, u[Len(u)].kind \in Turning
  PROVE  Restoring(u, Len(u)) <=> u[Len(u)].kind = "heal_verified" /\ ~u[Len(u)].ok
BY DEF Restoring, Turning

-----------------------------------------------------------------------------
(* What observe reads of them.                                             *)

LEMMA MaxIs ==
  ASSUME NEW S \in SUBSET Nat, NEW m \in S, \A n \in S : n <= m
  PROVE  Max(S) = m
<1>1. \A x \in S : (\A y \in S : x >= y) => x = m OBVIOUS
<1>2. \A y \in S : m >= y OBVIOUS
<1> QED BY <1>1, <1>2 DEF Max

LEMMA MinIs ==
  ASSUME NEW S \in SUBSET Nat, NEW m \in S, \A n \in S : m <= n
  PROVE  Min(S) = m
<1>1. \A x \in S : (\A y \in S : x <= y) => x = m OBVIOUS
<1>2. \A y \in S : m <= y OBVIOUS
<1> QED BY <1>1, <1>2 DEF Min

LEMMA ResolutionIs ==
  ASSUME NEW s \in Seq(Emissions), NEW a \in 1..Len(s), s[a].kind = "target_resolved"
  PROVE  Resolution(s, a) = s[a].rung
<1> DEFINE turned == {i \in 1..a : Resolves(s[i])}
<1>1. a \in turned /\ turned \in SUBSET Nat /\ \A i \in turned : i <= a BY DEF Resolves
<1>2. Max(turned) = a
  <2> HIDE DEF turned
  <2> QED BY <1>1, MaxIs
<1>3. turned # {} BY <1>1
<1> QED BY <1>2, <1>3 DEF Resolution

LEMMA VerdictIs ==
  ASSUME NEW s \in Seq(Emissions), NEW p, p.at \in Nat, p.at <= Len(s),
         Closed(p, s) \/ Open(p, s)
  PROVE  Verdict(s, p.at) = p.said
<1> DEFINE turns == Turns(s, p.at)
<1>1. turns \in SUBSET Nat BY DEF Turns
<1>2. CASE Closed(p, s)
  <2>1. PICK d \in (p.at + 1)..Len(s) :
          /\ Decides(s[d]) /\ Undecided(s, p.at, d)
          /\ p.said = Judgement(s[d], ChecksBefore(s, p.at, d))
    BY <1>2 DEF Closed
  <2>2. d \in turns /\ \A n \in turns : d <= n
    <3>1. d \in turns BY <2>1 DEF Turns
    <3>2. ASSUME NEW n \in turns PROVE d <= n
      <4>1. n \in (p.at + 1)..Len(s) /\ Decides(s[n]) BY DEF Turns
      <4>2. n \notin (p.at + 1)..(d - 1) BY <2>1, <4>1 DEF Undecided
      <4> QED BY <4>1, <4>2
    <3> QED BY <3>1, <3>2
  <2>3. Min(turns) = d /\ turns # {}
    <3> HIDE DEF turns
    <3> QED BY <1>1, <2>2, MinIs
  <2>4. Checks(s, p.at) # {} <=> ChecksBefore(s, p.at, d)
    <3>1. ASSUME NEW i \in Checks(s, p.at) PROVE ChecksBefore(s, p.at, d)
      <4>1. i \in (p.at + 1)..Len(s) /\ s[i].kind = "checkpoint" /\ i < d
        BY <2>2 DEF Checks
      <4> QED BY <4>1 DEF ChecksBefore
    <3>2. ASSUME ChecksBefore(s, p.at, d) PROVE Checks(s, p.at) # {}
      <4>1. PICK i \in (p.at + 1)..(d - 1) : s[i].kind = "checkpoint"
        BY <3>2 DEF ChecksBefore
      <4>2. i \in (p.at + 1)..Len(s) /\ \A n \in turns : i < n BY <1>1, <2>2
      <4> QED BY <4>1, <4>2 DEF Checks
    <3> QED BY <3>1, <3>2
  <2>5. Verdict(s, p.at) = Judgement(s[d], Checks(s, p.at) # {}) BY <2>3 DEF Verdict
  <2> QED BY <2>1, <2>4, <2>5 DEF Judgement
<1>3. CASE Open(p, s)
  <2>1. turns = {} BY <1>3 DEF Turns, Open, Undecided
  <2>2. Checks(s, p.at) # {} <=> ChecksBefore(s, p.at, Len(s) + 1)
    <3>1. Checks(s, p.at) = {i \in (p.at + 1)..Len(s) : s[i].kind = "checkpoint"}
      BY <2>1 DEF Checks
    <3>2. Len(s) + 1 - 1 = Len(s) OBVIOUS
    <3> QED BY <3>1, <3>2 DEF ChecksBefore
  <2>3. Verdict(s, p.at) = IF Checks(s, p.at) # {} THEN "passed" ELSE "not_checked"
    BY <2>1 DEF Verdict, Judgement, Event
  <2> QED BY <1>3, <2>2, <2>3 DEF Open
<1> QED BY <1>2, <1>3
-----------------------------------------------------------------------------
(* The actions of a step so far.                                           *)

LEMMA NotedIs ==
  ASSUME NEW p \in Noted
  PROVE  /\ p.at \in Nat /\ p.rung \in Nat /\ p.restoring \in BOOLEAN
         /\ \A verdict \in Verdicts :
              LET q == [p EXCEPT !.said = verdict] IN
              /\ q \in Noted /\ q.said = verdict /\ q.at = p.at /\ q.rung = p.rung
              /\ q.restoring = p.restoring
BY DEF Noted

LEMMA NotedAt == ASSUME NEW ps \in Seq(Noted), NEW i \in DOMAIN ps PROVE ps[i] \in Noted
OBVIOUS

LEMMA AppendIs ==
  ASSUME NEW E, NEW s \in Seq(E), NEW x \in E
  PROVE  /\ Append(s, x) \in Seq(E) /\ Len(Append(s, x)) = Len(s) + 1
         /\ Append(s, x)[Len(s) + 1] = x /\ Append(s, x) # <<>>
         /\ \A i \in 1..Len(s) : Append(s, x)[i] = s[i]
OBVIOUS

SentAll(ps, es) == \A i \in DOMAIN ps : Sent(ps[i], es)
ClosedAll(ps, es, upto) == \A i \in 1..upto : ~ps[i].restoring => Closed(ps[i], es)
Answered(ps, es) ==
  \A i \in DOMAIN ps : ~ps[i].restoring => Closed(ps[i], es) \/ Open(ps[i], es)

\* The latest action is one of the step's own, and nothing is decided since.
LastOpen(ps, es) ==
  /\ ps # <<>> /\ ~ps[Len(ps)].restoring /\ Open(ps[Len(ps)], es)
  /\ ClosedAll(ps, es, Len(ps) - 1)

LEMMA AllAnswered ==
  ASSUME NEW N, NEW ps \in Seq(N), NEW es
  PROVE  /\ ClosedAll(ps, es, Len(ps)) => Answered(ps, es)
         /\ LastOpen(ps, es) => Answered(ps, es)
BY DEF ClosedAll, Answered, LastOpen

LEMMA SentAllStays ==
  ASSUME NEW ps \in Seq(Noted), NEW es \in Seq(Emissions), NEW fs \in Seq(Emissions),
         Grows(es, fs), SentAll(ps, es)
  PROVE  SentAll(ps, fs)
<1> SUFFICES ASSUME NEW i \in DOMAIN ps PROVE Sent(ps[i], fs) BY DEF SentAll
<1>1. ps[i].at \in Nat /\ Sent(ps[i], es) BY NotedAt, NotedIs DEF SentAll
<1> QED BY <1>1, SentStays

LEMMA ClosedAllStays ==
  ASSUME NEW ps \in Seq(Noted), NEW es \in Seq(Emissions), NEW fs \in Seq(Emissions),
         Grows(es, fs), NEW n \in 0..Len(ps), ClosedAll(ps, es, n)
  PROVE  ClosedAll(ps, fs, n)
<1> SUFFICES ASSUME NEW i \in 1..n, ~ps[i].restoring PROVE Closed(ps[i], fs) BY DEF ClosedAll
<1>1. ps[i].at \in Nat /\ Closed(ps[i], es)
  <2>1. i \in DOMAIN ps OBVIOUS
  <2> QED BY <2>1, NotedAt, NotedIs DEF ClosedAll
<1> QED BY <1>1, ClosedStays

\* Events that neither decide nor check change nothing.
LEMMA QuietStays ==
  ASSUME NEW ps \in Seq(Noted), NEW es \in Seq(Emissions), NEW fs \in Seq(Emissions),
         Grows(es, fs), SentAll(ps, es),
         \A i \in (Len(es) + 1)..Len(fs) : ~Decides(fs[i]) /\ fs[i].kind # "checkpoint"
  PROVE  /\ Answered(ps, es) => Answered(ps, fs)
         /\ LastOpen(ps, es) => LastOpen(ps, fs)
<1>1. ASSUME NEW i \in DOMAIN ps PROVE
        /\ Open(ps[i], es) => Open(ps[i], fs)
        /\ Closed(ps[i], es) => Closed(ps[i], fs)
  <2>1. ps[i].at \in Nat /\ ps[i].at <= Len(es) BY NotedAt, NotedIs DEF SentAll, Sent
  <2> QED BY <2>1, OpenStays, ClosedStays
<1>2. Answered(ps, es) => Answered(ps, fs) BY <1>1 DEF Answered
<1>3. ASSUME LastOpen(ps, es) PROVE LastOpen(ps, fs)
  <2>1. Len(ps) \in DOMAIN ps /\ Len(ps) - 1 \in 0..Len(ps) BY <1>3 DEF LastOpen
  <2>2. Open(ps[Len(ps)], fs) BY <1>1, <1>3, <2>1 DEF LastOpen
  <2>3. ClosedAll(ps, fs, Len(ps) - 1) BY <1>3, <2>1, ClosedAllStays DEF LastOpen
  <2> QED BY <1>3, <2>2, <2>3 DEF LastOpen
<1> QED BY <1>2, <1>3

\* A look for another element, or the end of a restore, decides and says no more.
LEMMA LooksAway ==
  ASSUME NEW ps \in Seq(Noted), NEW es \in Seq(Emissions), NEW fs \in Seq(Emissions),
         Grows(es, fs), SentAll(ps, es), Answered(ps, es), Len(fs) > Len(es),
         fs[Len(es) + 1].kind \in {"heal_attempted", "target_resolved", "state_restored"}
  PROVE  ClosedAll(ps, fs, Len(ps))
<1> SUFFICES ASSUME NEW i \in 1..Len(ps), ~ps[i].restoring PROVE Closed(ps[i], fs)
  BY DEF ClosedAll
<1>0. i \in DOMAIN ps OBVIOUS
<1>1. ps[i].at \in Nat /\ ps[i].at <= Len(es) BY <1>0, NotedAt, NotedIs DEF SentAll, Sent
<1>2. Closed(ps[i], es) \/ Open(ps[i], es) BY <1>0 DEF Answered
<1>3. Decides(fs[Len(es) + 1]) BY DEF Decides
<1>4. ASSUME Open(ps[i], es) PROVE Closed(ps[i], fs)
  BY <1>1, <1>3, <1>4, OpenCloses
<1> QED BY <1>1, <1>2, <1>4, ClosedStays

\* What is said of the latest action.
Told(ps, verdict) == [ps EXCEPT ![Len(ps)].said = verdict]

LEMMA ToldFacts ==
  ASSUME NEW ps \in Seq(Noted), ps # <<>>, NEW verdict \in Verdicts
  PROVE  LET qs == Told(ps, verdict) IN
         /\ qs \in Seq(Noted) /\ Len(qs) = Len(ps) /\ Len(ps) \in DOMAIN ps
         /\ \A i \in 1..(Len(ps) - 1) : qs[i] = ps[i]
         /\ qs[Len(ps)] = [ps[Len(ps)] EXCEPT !.said = verdict]
         /\ qs[Len(ps)].said = verdict /\ qs[Len(ps)].at = ps[Len(ps)].at
         /\ qs[Len(ps)].restoring = ps[Len(ps)].restoring /\ qs[Len(ps)].rung = ps[Len(ps)].rung
<1> DEFINE n == Len(ps)
           q == [ps[n] EXCEPT !.said = verdict]
<1>1. n \in DOMAIN ps /\ ps[n] \in Noted OBVIOUS
<1>2. q \in Noted /\ q.said = verdict /\ q.at = ps[n].at /\ q.rung = ps[n].rung
      /\ q.restoring = ps[n].restoring
  BY <1>1, NotedIs
<1>3. Told(ps, verdict) = [ps EXCEPT ![n] = q] BY DEF Told
<1> HIDE DEF q, n
<1>4. [ps EXCEPT ![n] = q] \in Seq(Noted) BY <1>1, <1>2
<1>5. Len([ps EXCEPT ![n] = q]) = n BY <1>1, <1>2 DEF n
<1>6. \A i \in 1..(n - 1) : [ps EXCEPT ![n] = q][i] = ps[i] BY <1>1 DEF n
<1>7. [ps EXCEPT ![n] = q][n] = q BY <1>1
<1> QED BY <1>1, <1>2, <1>3, <1>4, <1>5, <1>6, <1>7 DEF n, q

LEMMA ToldIsSent ==
  ASSUME NEW ps \in Seq(Noted), NEW es, ps # <<>>, NEW verdict \in Verdicts, SentAll(ps, es)
  PROVE  SentAll(Told(ps, verdict), es)
<1> DEFINE qs == Told(ps, verdict)
           n == Len(ps)
<1>1. /\ qs \in Seq(Noted) /\ Len(qs) = n /\ n \in DOMAIN ps
      /\ \A i \in 1..(n - 1) : qs[i] = ps[i]
      /\ qs[n].at = ps[n].at /\ qs[n].restoring = ps[n].restoring /\ qs[n].rung = ps[n].rung
  BY ToldFacts
<1> HIDE DEF qs
<1> SUFFICES ASSUME NEW i \in DOMAIN qs PROVE Sent(qs[i], es) BY DEF SentAll, qs
<1>2. i \in DOMAIN ps /\ (i \in 1..(n - 1) \/ i = n) BY <1>1
<1>3. qs[i].at = ps[i].at /\ qs[i].restoring = ps[i].restoring /\ qs[i].rung = ps[i].rung
  BY <1>1, <1>2
<1>4. Sent(ps[i], es) BY <1>2 DEF SentAll
<1> QED BY <1>3, <1>4 DEF Sent

\* The latest action is decided on.
LEMMA LastTold ==
  ASSUME NEW ps \in Seq(Noted), NEW es \in Seq(Emissions), NEW fs \in Seq(Emissions),
         Grows(es, fs), SentAll(ps, es), LastOpen(ps, es), Len(fs) > Len(es),
         Decides(fs[Len(es) + 1]), NEW verdict \in Verdicts,
         verdict = Judgement(fs[Len(es) + 1], FALSE),
         fs[Len(es) + 1].kind \in {"heal_verified", "checkpoint", "step_succeeded"}
  PROVE  ClosedAll(Told(ps, verdict), fs, Len(ps))
<1> DEFINE qs == Told(ps, verdict)
           last == Len(ps)
<1>1. /\ qs \in Seq(Noted) /\ Len(qs) = last /\ last \in DOMAIN ps
      /\ \A i \in 1..(last - 1) : qs[i] = ps[i]
      /\ qs[last].said = verdict /\ qs[last].at = ps[last].at
  BY ToldFacts DEF LastOpen
<1> HIDE DEF qs
<1>2. ClosedAll(ps, fs, last - 1)
  <2>1. last - 1 \in 0..last BY <1>1
  <2> QED BY <2>1, ClosedAllStays DEF LastOpen
<1>3. Closed(qs[last], fs)
  <2>1. ps[last].at \in Nat /\ ps[last].at <= Len(es) /\ Open(ps[last], es)
    BY <1>1, NotedAt, NotedIs DEF SentAll, Sent, LastOpen
  <2>2. qs[last].said = LET e == fs[Len(es) + 1] IN
                  IF e.kind \in {"heal_verified", "checkpoint"}
                  THEN IF e.ok THEN "passed" ELSE "failed"
                  ELSE IF e.kind = "step_succeeded" THEN "passed" ELSE ps[last].said
    BY <1>1 DEF Judgement
  <2> QED BY <1>1, <2>1, <2>2, OpenCloses
<1>4. \A i \in 1..last : i \in 1..(last - 1) \/ i = last BY <1>1
<1>5. ClosedAll(qs, fs, last) BY <1>1, <1>2, <1>3, <1>4 DEF ClosedAll
<1> QED BY <1>5 DEF qs

LEMMA LastPasses ==
  ASSUME NEW ps \in Seq(Noted), NEW es \in Seq(Emissions), NEW fs \in Seq(Emissions),
         Grows(es, fs), SentAll(ps, es), LastOpen(ps, es), Len(fs) = Len(es) + 1,
         fs[Len(es) + 1].kind = "checkpoint", ~Decides(fs[Len(es) + 1])
  PROVE  LastOpen(Told(ps, "passed"), fs)
<1> DEFINE qs == Told(ps, "passed")
           last == Len(ps)
<1>1. /\ qs \in Seq(Noted) /\ Len(qs) = last /\ last \in DOMAIN ps
      /\ \A i \in 1..(last - 1) : qs[i] = ps[i]
      /\ qs[last].said = "passed" /\ qs[last].at = ps[last].at
      /\ qs[last].restoring = ps[last].restoring
  BY ToldFacts DEF LastOpen, Verdicts
<1> HIDE DEF qs
<1>2. ClosedAll(ps, fs, last - 1)
  <2>1. last - 1 \in 0..last BY <1>1
  <2> QED BY <2>1, ClosedAllStays DEF LastOpen
<1>3. Open(qs[last], fs)
  <2>1. ps[last].at \in Nat /\ ps[last].at <= Len(es) /\ Open(ps[last], es)
    BY <1>1, NotedAt, NotedIs DEF SentAll, Sent, LastOpen
  <2> QED BY <1>1, <2>1, OpenPasses
<1>4. ClosedAll(qs, fs, last - 1) BY <1>1, <1>2 DEF ClosedAll
<1>5. qs # <<>> /\ ~qs[last].restoring BY <1>1 DEF LastOpen
<1> QED BY <1>1, <1>3, <1>4, <1>5 DEF LastOpen, qs

\* An action is noted.
LEMMA NotedAction ==
  ASSUME NEW ps \in Seq(Noted), NEW es \in Seq(Emissions), NEW p \in Noted,
         SentAll(ps, es), p.at = Len(es), Sent(p, es), ClosedAll(ps, es, Len(ps)),
         p.said = "not_checked"
  PROVE  LET qs == Append(ps, p) IN
         /\ qs \in Seq(Noted) /\ SentAll(qs, es)
         /\ p.restoring => ClosedAll(qs, es, Len(qs))
         /\ ~p.restoring => LastOpen(qs, es)
<1> DEFINE qs == Append(ps, p)
<1>1. /\ qs \in Seq(Noted) /\ Len(qs) = Len(ps) + 1 /\ qs[Len(qs)] = p /\ qs # <<>>
      /\ \A i \in 1..Len(ps) : qs[i] = ps[i]
  BY AppendIs
<1> HIDE DEF qs
<1>2. \A i \in 1..Len(qs) : i \in 1..Len(ps) \/ i = Len(qs) BY <1>1
<1>3. SentAll(qs, es) BY <1>1, <1>2 DEF SentAll
<1>4. ClosedAll(qs, es, Len(ps)) BY <1>1 DEF ClosedAll
<1>5. p.restoring => ClosedAll(qs, es, Len(qs)) BY <1>1, <1>2, <1>4 DEF ClosedAll
<1>6. Open(p, es) BY DEF Open, Undecided, ChecksBefore
<1>7. ~p.restoring => LastOpen(qs, es)
  <2>1. Len(qs) - 1 = Len(ps) BY <1>1
  <2> QED BY <1>1, <1>4, <1>6, <2>1 DEF LastOpen
<1> QED BY <1>1, <1>3, <1>5, <1>7 DEF qs
-----------------------------------------------------------------------------
(* The inductive invariant.                                                *)

Looking == {"resolve", "climb", "restore", "replay"}
Acting == {"send", "sent", "verify"}
Scripted == {"load", "locate", "act", "check"}
Between == {"next", "done"}

CellTypes ==
  /\ job \in Jobs /\ at \in 0..Len(job.steps)
  /\ job.system = "ladder" => phase \in Between \cup {"observe"} \cup Looking \cup Acting
  /\ job.system = "script" => phase \in Between \cup {"observe"} \cup Scripted
  /\ phase \in Between \/ at > 0
  /\ phase \in Between => events = <<>> /\ probes = <<>> /\ heal = NoHeal
  /\ heal \in [rung : Nat, used : Nat, healing : BOOLEAN]
  /\ passed \in Nat /\ redo \in Nat /\ counted \in Nat
  /\ events \in Seq(Emissions) /\ probes \in Seq(Noted)

\* Where the ladder is says what the step's actions are told so far.
LadderInv ==
  job.system = "ladder" =>
    /\ SentAll(probes, events) /\ Answered(probes, events)
    /\ phase \in {"resolve", "send", "restore", "replay"} => ClosedAll(probes, events, Len(probes))
    /\ phase \in {"sent", "verify"} /\ Step.element => LastOpen(probes, events)
    /\ phase # "observe" => (Restoring(events, Len(events)) <=> phase \in {"restore", "replay"})
    /\ phase = "send" /\ Step.element =>
         /\ Len(events) > 0 /\ events[Len(events)].kind = "target_resolved"
         /\ events[Len(events)].rung = heal.rung
    /\ heal.rung > 0 => Laddered(events)
    /\ phase \in Between \/ Step.element \/ (probes = <<>> /\ ~heal.healing /\ phase \notin Looking)

\* A script's step only acts for itself.
ScriptInv == job.system = "script" => \A i \in DOMAIN probes : ~probes[i].restoring

CellInv == CellTypes /\ LadderInv /\ ScriptInv

LEMMA SameCell ==
  ASSUME UNCHANGED <<job, at>>
  PROVE  Step' = Step /\ Keys' = Keys /\ EarlierKeys' = EarlierKeys /\ Noted' = Noted
<1>1. Step' = Step BY DEF Step
<1>2. Keys' = Keys BY DEF Keys
<1>3. EarlierKeys' = EarlierKeys BY DEF EarlierKeys
<1>4. Noted' = Noted BY <1>2 DEF Noted
<1> QED BY <1>1, <1>2, <1>3, <1>4

LEMMA EventIs ==
  ASSUME NEW kind \in Kinds, NEW rung \in Nat, NEW ok \in BOOLEAN
  PROVE  /\ Event(kind, rung, ok) \in Emissions
         /\ Event(kind, rung, ok).kind = kind /\ Event(kind, rung, ok).rung = rung
         /\ Event(kind, rung, ok).ok = ok
         /\ <<Event(kind, rung, ok)>> \in Seq(Emissions) /\ Len(<<Event(kind, rung, ok)>>) = 1
         /\ <<Event(kind, rung, ok)>>[1] = Event(kind, rung, ok)
<1>1. Event(kind, rung, ok) \in Emissions BY DEF Event, Emissions
<1>2. Event(kind, rung, ok).kind = kind /\ Event(kind, rung, ok).rung = rung
      /\ Event(kind, rung, ok).ok = ok
  BY DEF Event
<1> QED BY <1>1, <1>2

LEMMA NothingEmitted == <<>> \in Seq(Emissions) /\ Len(<<>>) = 0
OBVIOUS

\* The ladder reports its rungs.
LEMMA ReportsAre ==
  ASSUME NEW top \in Nat, NEW resolved \in BOOLEAN
  PROVE  LET s == Reports(top, resolved) IN
         /\ s \in Seq(Emissions) /\ Len(s) = top + 1
         /\ \A i \in 1..Len(s) : s[i].kind = "heal_attempted"
         /\ s[top + 1].rung = top
<1>1. ASSUME NEW i \in 1..(top + 1)
      PROVE  LET e == Event("heal_attempted", i - 1, resolved /\ i = top + 1) IN
             e \in Emissions /\ e.kind = "heal_attempted" /\ e.rung = i - 1
  <2>1. "heal_attempted" \in Kinds BY DEF Kinds
  <2>2. PICK n \in Nat : n = i - 1 OBVIOUS
  <2>3. PICK ok \in BOOLEAN : ok <=> (resolved /\ i = top + 1) OBVIOUS
  <2>4. Event("heal_attempted", n, ok) = Event("heal_attempted", i - 1, resolved /\ i = top + 1)
    BY <2>2, <2>3 DEF Event
  <2> QED BY <2>1, <2>2, <2>4, EventIs
<1>2. top + 1 \in 1..(top + 1) OBVIOUS
<1> HIDE DEF Event
<1>3. Reports(top, resolved) \in [1..(top + 1) -> Emissions] BY <1>1 DEF Reports
<1>4. /\ Reports(top, resolved) \in Seq(Emissions) /\ Len(Reports(top, resolved)) = top + 1
  BY <1>3
<1>5. \A i \in 1..(top + 1) : /\ Reports(top, resolved)[i].kind = "heal_attempted"
                              /\ Reports(top, resolved)[i].rung = i - 1
  BY <1>1 DEF Reports
<1> QED BY <1>2, <1>4, <1>5

LEMMA Emitting ==
  ASSUME events \in Seq(Emissions), NEW t \in Seq(Emissions), Emit(t)
  PROVE  /\ events' \in Seq(Emissions) /\ Len(events') = Len(events) + Len(t)
         /\ Grows(events, events')
         /\ \A i \in 1..Len(t) : events'[Len(events) + i] = t[i]
<1>1. events' = events \o t BY DEF Emit
<1> QED BY <1>1, GrowsFacts

LEMMA EmittingOne ==
  ASSUME events \in Seq(Emissions), NEW kind \in Kinds, NEW rung \in Nat, NEW ok \in BOOLEAN,
         Emit(<<Event(kind, rung, ok)>>)
  PROVE  /\ events' \in Seq(Emissions) /\ Len(events') = Len(events) + 1
         /\ Grows(events, events')
         /\ events'[Len(events) + 1].kind = kind /\ events'[Len(events) + 1].rung = rung
         /\ events'[Len(events) + 1].ok = ok
<1> DEFINE t == <<Event(kind, rung, ok)>>
<1>1. t \in Seq(Emissions) /\ Len(t) = 1 /\ t[1] = Event(kind, rung, ok) BY EventIs
<1>2. Emit(t) OBVIOUS
<1> HIDE DEF t
<1>3. /\ events' \in Seq(Emissions) /\ Len(events') = Len(events) + Len(t)
      /\ Grows(events, events')
      /\ \A i \in 1..Len(t) : events'[Len(events) + i] = t[i]
  BY <1>1, <1>2, Emitting
<1>4. events'[Len(events) + 1] = Event(kind, rung, ok) BY <1>1, <1>3
<1> QED BY <1>1, <1>3, <1>4, EventIs

LEMMA ProbeIs ==
  ASSUME CellTypes, NEW elem \in Keys \cup {Elsewhere}, NEW named \in Answering,
         NEW restoring \in BOOLEAN
  PROVE  LET p == Probe(elem, named, restoring) IN
         /\ p \in Noted /\ p.at = Len(events) /\ p.restoring = restoring /\ p.rung = heal.rung
         /\ p.said = "not_checked"
<1>1. named \in SUBSET {"matched", "known"} BY DEF Answering
<1>2. heal.rung \in Nat /\ Len(events) \in Nat BY DEF CellTypes
<1>3. (IF "matched" \in named THEN {elem} \cap Keys ELSE {}) \in SUBSET Keys OBVIOUS
<1>4. (Questions \cap {"known"} \subseteq named) \in BOOLEAN OBVIOUS
<1>5. Probe(elem, named, restoring) \in Noted
  BY <1>1, <1>2, <1>3, <1>4 DEF Probe, Noted, Verdicts
<1> QED BY <1>5 DEF Probe

LEMMA NoActions ==
  ASSUME NEW es
  PROVE  SentAll(<<>>, es) /\ ClosedAll(<<>>, es, Len(<<>>)) /\ Answered(<<>>, es)
         /\ <<>> \in Seq(Noted)
BY DEF SentAll, ClosedAll, Answered

\* How a step's events end.
LEMMA FinishIs ==
  ASSUME events \in Seq(Emissions), NEW from, NEW status, NEW error, NEW reason,
         NEW last \in Seq(Emissions), Finish(from, status, error, reason, last)
  PROVE  /\ phase = from /\ phase' = "observe"
         /\ events' \in Seq(Emissions) /\ Len(events') = Len(events) + Len(last) + 1
         /\ Grows(events, events')
         /\ \A i \in 1..Len(last) : events'[Len(events) + i] = last[i]
         /\ events'[Len(events) + Len(last) + 1].kind =
              IF status = "succeeded" THEN "step_succeeded" ELSE "step_failed"
         /\ events'[Len(events) + Len(last) + 1].ok
<1> DEFINE kind == IF status = "succeeded" THEN "step_succeeded" ELSE "step_failed"
           x == <<Event(kind, 0, TRUE)>>
<1>1. Emit(last \o x) /\ phase = from /\ phase' = "observe"
  BY DEF Finish, StepSucceeded, StepFailed, Goto
<1>2. kind \in Kinds BY DEF Kinds
<1>3. x \in Seq(Emissions) /\ Len(x) = 1 /\ x[1].kind = kind /\ x[1].ok
  <2>1. 0 \in Nat /\ TRUE \in BOOLEAN OBVIOUS
  <2> HIDE DEF kind
  <2> QED BY <1>2, <2>1, EventIs
<1> HIDE DEF x
<1> DEFINE t == last \o x
<1>4. /\ t \in Seq(Emissions) /\ Len(t) = Len(last) + Len(x)
      /\ \A i \in 1..Len(x) : t[Len(last) + i] = x[i]
      /\ \A i \in 1..Len(last) : t[i] = last[i]
  <2>1. Grows(last, last \o x) => \A i \in 1..Len(last) : (last \o x)[i] = last[i] BY DEF Grows
  <2>2. x \in Seq(Emissions) BY <1>3
  <2> QED BY <2>1, <2>2, GrowsFacts
<1> HIDE DEF t
<1>5. /\ events' \in Seq(Emissions) /\ Len(events') = Len(events) + Len(t)
      /\ Grows(events, events')
      /\ \A i \in 1..Len(t) : events'[Len(events) + i] = t[i]
  BY <1>1, <1>4, Emitting DEF t
<1>6. /\ Len(last) \in Nat /\ Len(events) \in Nat /\ Len(t) = Len(last) + 1
      /\ t[Len(last) + 1] = x[1] /\ \A i \in 1..Len(last) : t[i] = last[i]
  BY <1>3, <1>4
<1>7. /\ Len(events') = Len(events) + Len(last) + 1
      /\ \A i \in 1..Len(last) : events'[Len(events) + i] = last[i]
      /\ events'[Len(events) + (Len(last) + 1)] = x[1]
  BY <1>5, <1>6
<1>8. Len(events) + (Len(last) + 1) = Len(events) + Len(last) + 1 BY <1>6
<1> QED BY <1>1, <1>3, <1>5, <1>7, <1>8
-----------------------------------------------------------------------------
(* A step of the ladder ends.                                              *)

LEMMA SystemOf ==
  ASSUME CellTypes
  PROVE  /\ job.system \in {"ladder", "script"}
         /\ phase \in Looking \cup Acting => job.system = "ladder"
         /\ phase \in Scripted => job.system = "script"
<1>1. job.system \in {"ladder", "script"} BY JobsAssumption DEF CellTypes, IsCell
<1> QED BY <1>1 DEF CellTypes, Looking, Acting, Scripted, Between

LEMMA Ends ==
  ASSUME CellInv, job.system = "ladder", phase \notin Between, UNCHANGED <<job, at, heal>>,
         phase' = "observe", events' \in Seq(Emissions), Grows(events, events'),
         passed' \in Nat, redo' \in Nat, counted' \in Nat, probes' \in Seq(Noted),
         SentAll(probes', events'), Answered(probes', events'), Step.element \/ probes' = <<>>
  PROVE  CellInv'
<1>1. CellTypes'
  <2>1. Noted' = Noted BY SameCell
  <2> QED BY <2>1 DEF CellInv, CellTypes, Between, Looking, Acting
<1>2. LadderInv'
  <2>1. heal.rung > 0 => Laddered(events') BY LadderedStays DEF CellInv, LadderInv, CellTypes
  <2>2. Step' = Step BY SameCell
  <2> QED BY <2>1, <2>2 DEF CellInv, LadderInv, Between, Looking
<1>3. ScriptInv' BY DEF ScriptInv
<1> QED BY <1>1, <1>2, <1>3 DEF CellInv

Errors ==
  {"PageNeverStable", "ApprovalRequired", "HealAbstained", "TargetNotFound", "NavigationError",
   "EgressBlocked", "CheckpointFailed", "EvidenceFailed", "NeedsReview", "RunTimeout"}

\* Nothing was said of the latest action.
LEMMA QuietEnd ==
  ASSUME CellInv, job.system = "ladder", NEW from, from \notin Between,
         NEW status \in {"failed", "awaiting_approval", "needs_review"}, NEW error, NEW reason,
         NEW last \in Seq(Emissions),
         last # <<>> => last[1].kind \in {"heal_attempted", "state_restored"},
         Finish(from, status, error, reason, last),
         UNCHANGED <<job, at, heal, passed, redo, probes, counted>>
  PROVE  CellInv'
<1>1. /\ events \in Seq(Emissions) /\ probes \in Seq(Noted) /\ Answered(probes, events)
      /\ SentAll(probes, events) /\ passed' \in Nat /\ redo' \in Nat /\ counted' \in Nat
  BY DEF CellInv, CellTypes, LadderInv
<1>2. /\ phase = from /\ phase' = "observe"
      /\ events' \in Seq(Emissions) /\ Len(events') = Len(events) + Len(last) + 1
      /\ Grows(events, events')
      /\ \A i \in 1..Len(last) : events'[Len(events) + i] = last[i]
      /\ events'[Len(events) + Len(last) + 1].kind = "step_failed"
  BY <1>1, FinishIs
<1>3. SentAll(probes, events') BY <1>1, <1>2, SentAllStays
<1>4. Answered(probes, events')
  <2>1. CASE last = <<>>
    <3>1. Len(last) = 0 BY <2>1
    <3>2. \A i \in (Len(events) + 1)..Len(events') : i = Len(events) + Len(last) + 1
      BY <1>1, <1>2, <3>1
    <3>3. \A i \in (Len(events) + 1)..Len(events') :
            ~Decides(events'[i]) /\ events'[i].kind # "checkpoint"
      BY <1>2, <3>2 DEF Decides
    <3> QED BY <1>1, <1>2, <3>3, QuietStays
  <2>2. CASE last # <<>>
    <3>1. 1 \in 1..Len(last) /\ Len(events') > Len(events) BY <1>1, <1>2, <2>2
    <3>2. events'[Len(events) + 1].kind \in {"heal_attempted", "target_resolved", "state_restored"}
      BY <1>2, <2>2, <3>1
    <3>3. ClosedAll(probes, events', Len(probes))
      BY <1>1, <1>2, <3>1, <3>2, LooksAway
    <3> QED BY <1>1, <3>3, AllAnswered
  <2> QED BY <2>1, <2>2
<1>5. Step.element \/ probes' = <<>> BY <1>2 DEF CellInv, LadderInv
<1> QED BY <1>1, <1>2, <1>3, <1>4, <1>5, Ends

\* What the checkpoints say decides the latest action.
LEMMA SaidOfLatest ==
  ASSUME CellInv, job.system = "ladder", phase = "verify", NEW verdict \in Verdicts,
         probes' = Saying(verdict), events' \in Seq(Emissions), Grows(events, events'),
         Len(events') > Len(events), Decides(events'[Len(events) + 1]),
         verdict = Judgement(events'[Len(events) + 1], FALSE),
         events'[Len(events) + 1].kind \in {"heal_verified", "checkpoint", "step_succeeded"}
  PROVE  /\ probes' \in Seq(Noted) /\ SentAll(probes', events')
         /\ ClosedAll(probes', events', Len(probes')) /\ Answered(probes', events')
         /\ Step.element \/ probes' = <<>>
<1>1. /\ events \in Seq(Emissions) /\ probes \in Seq(Noted) /\ SentAll(probes, events)
      /\ SentAll(probes, events')
  <2>1. events \in Seq(Emissions) /\ probes \in Seq(Noted) /\ SentAll(probes, events)
    BY DEF CellInv, CellTypes, LadderInv
  <2> QED BY <2>1, SentAllStays
<1>2. CASE Step.element
  <2>1. LastOpen(probes, events) /\ probes # <<>> BY <1>2 DEF CellInv, LadderInv, LastOpen
  <2>2. probes' = Told(probes, verdict) BY <1>2 DEF Saying, Told
  <2>3. probes' \in Seq(Noted) /\ Len(probes') = Len(probes)
    <3>1. Told(probes, verdict) \in Seq(Noted) /\ Len(Told(probes, verdict)) = Len(probes)
      BY <1>1, <2>1, ToldFacts
    <3> QED BY <2>2, <3>1
  <2>4. SentAll(probes', events') BY <1>1, <2>1, <2>2, ToldIsSent
  <2>5. ClosedAll(probes', events', Len(probes')) BY <1>1, <2>1, <2>2, <2>3, LastTold
  <2>6. Answered(probes', events') BY <2>3, <2>5, AllAnswered
  <2> QED BY <1>2, <2>3, <2>4, <2>5, <2>6
<1>3. CASE ~Step.element
  <2>1. probes = <<>> BY <1>3 DEF CellInv, LadderInv, Between
  <2>2. probes' = <<>> BY <1>3, <2>1 DEF Saying
  <2> QED BY <2>2, NoActions
<1> QED BY <1>2, <1>3

LEMMA SaidEnd ==
  ASSUME CellInv, job.system = "ladder", NEW verdict \in Verdicts, probes' = Saying(verdict),
         NEW status, NEW error, NEW reason, NEW last \in Seq(Emissions),
         Finish("verify", status, error, reason, last),
         last # <<>> => /\ last[1].kind \in {"heal_verified", "checkpoint"}
                        /\ verdict = IF last[1].ok THEN "passed" ELSE "failed"
                        /\ last[1].kind = "checkpoint" => ~last[1].ok,
         last = <<>> => status = "succeeded" /\ verdict = "passed",
         UNCHANGED <<job, at, heal, passed, redo, counted>>
  PROVE  CellInv'
<1>1. /\ events \in Seq(Emissions) /\ passed' \in Nat /\ redo' \in Nat /\ counted' \in Nat
  BY DEF CellInv, CellTypes
<1>2. /\ phase = "verify" /\ phase' = "observe"
      /\ events' \in Seq(Emissions) /\ Len(events') = Len(events) + Len(last) + 1
      /\ Grows(events, events')
      /\ \A i \in 1..Len(last) : events'[Len(events) + i] = last[i]
      /\ events'[Len(events) + Len(last) + 1].kind =
           IF status = "succeeded" THEN "step_succeeded" ELSE "step_failed"
  BY <1>1, FinishIs
<1>3. /\ Len(events') > Len(events) /\ Decides(events'[Len(events) + 1])
      /\ verdict = Judgement(events'[Len(events) + 1], FALSE)
      /\ events'[Len(events) + 1].kind \in {"heal_verified", "checkpoint", "step_succeeded"}
  <2>1. CASE last = <<>>
    <3>1. Len(last) = 0 /\ Len(events) + Len(last) + 1 = Len(events) + 1 BY <1>1, <2>1
    <3>2. events'[Len(events) + 1].kind = "step_succeeded" BY <1>2, <2>1, <3>1
    <3>3. Len(events') > Len(events) BY <1>1, <1>2, <3>1
    <3> QED BY <2>1, <3>2, <3>3 DEF Decides, Judgement
  <2>2. CASE last # <<>>
    <3>1. 1 \in 1..Len(last) /\ Len(events') > Len(events) BY <1>1, <1>2, <2>2
    <3>2. events'[Len(events) + 1] = last[1] BY <1>2, <3>1
    <3> QED BY <2>2, <3>1, <3>2 DEF Decides, Judgement
  <2> QED BY <2>1, <2>2
<1>4. /\ probes' \in Seq(Noted) /\ SentAll(probes', events') /\ Answered(probes', events')
      /\ Step.element \/ probes' = <<>>
  BY <1>2, <1>3, SaidOfLatest
<1>5. phase \notin Between BY <1>2 DEF Between
<1> QED BY <1>1, <1>2, <1>4, <1>5, Ends
-----------------------------------------------------------------------------
(* The steps of the ladder.                                                *)

LEMMA LadderFacts ==
  ASSUME CellInv, phase \in Looking \cup Acting
  PROVE  /\ job.system = "ladder" /\ phase \notin Between /\ at > 0
         /\ events \in Seq(Emissions) /\ probes \in Seq(Noted)
         /\ SentAll(probes, events) /\ Answered(probes, events)
         /\ heal \in [rung : Nat, used : Nat, healing : BOOLEAN]
         /\ passed \in Nat /\ redo \in Nat /\ counted \in Nat
         /\ job \in Jobs /\ at \in 0..Len(job.steps)
<1>1. job.system = "ladder" BY SystemOf DEF CellInv
<1>2. phase \notin Between BY DEF Looking, Acting, Between
<1> QED BY <1>1, <1>2 DEF CellInv, CellTypes, LadderInv

LEMMA BeginStep == CellInv /\ Begin => CellInv'
<1> SUFFICES ASSUME CellInv, Begin PROVE CellInv' OBVIOUS
<1>1. /\ events = <<>> /\ probes = <<>> /\ heal = NoHeal /\ phase = "next"
  BY DEF Begin, Goto, CellInv, CellTypes, Between
<1>2. UNCHANGED <<job, events, probes, heal, passed, redo, counted>> /\ at' = at + 1
      /\ at < Len(job.steps)
  BY DEF Begin, stepVars
<1>3. job.system \in {"ladder", "script"} BY SystemOf DEF CellInv
<1>4. job.steps[at + 1].element \in BOOLEAN /\ Len(job.steps) \in Nat
  <2>1. job \in Jobs /\ at \in 0..Len(job.steps) BY DEF CellInv, CellTypes
  <2>2. IsCell(job) BY <2>1, JobsAssumption
  <2>3. job.steps \in Seq(ToSet(job.steps)) BY <2>2 DEF IsCell
  <2>4. Len(job.steps) \in Nat /\ DOMAIN job.steps = 1..Len(job.steps) BY <2>3
  <2>5. at + 1 \in DOMAIN job.steps BY <1>2, <2>1, <2>4
  <2> QED BY <2>2, <2>4, <2>5 DEF IsCell
<1>5. phase' = IF job.system = "script"
               THEN IF job.steps[at + 1].element THEN "locate" ELSE "load"
               ELSE IF job.steps[at + 1].element THEN "resolve" ELSE "send"
  BY <1>3, <1>4 DEF Begin, Goto
<1>6. CellTypes'
  <2>1. <<>> \in Seq(Emissions) /\ <<>> \in Seq(Noted)' OBVIOUS
  <2>2. at' \in 0..Len(job.steps) /\ at' > 0 BY <1>2, <1>4 DEF CellInv, CellTypes
  <2>3. phase' \in Looking \cup Acting \cup Scripted BY <1>5 DEF Looking, Acting, Scripted
  <2>4. phase' \notin Between /\ (job.system = "ladder" => phase' \in Looking \cup Acting)
        /\ (job.system = "script" => phase' \in Scripted)
    BY <1>5, <2>3 DEF Looking, Acting, Scripted, Between
  <2> QED BY <1>1, <1>2, <2>1, <2>2, <2>4 DEF CellInv, CellTypes
<1>7. LadderInv'
  <2>1. ~Restoring(<<>>, Len(<<>>)) BY DEF Restoring
  <2>2. Step' = job.steps[at + 1] BY <1>2 DEF Step
  <2>3. ASSUME job.system = "ladder" PROVE phase' \in {"resolve", "send"} /\ (phase' = "send" <=> ~Step'.element)
    BY <1>4, <1>5, <2>2, <2>3
  <2>4. heal'.rung = 0 /\ ~heal'.healing BY <1>1, <1>2 DEF NoHeal
  <2> QED BY <1>1, <1>2, <2>1, <2>3, <2>4, NoActions DEF LadderInv, Looking
<1>8. ScriptInv' BY <1>1, <1>2 DEF ScriptInv
<1> QED BY <1>6, <1>7, <1>8 DEF CellInv

\* An element was found, by the recorded selectors or by a rung.
LEMMA FoundTypes ==
  ASSUME CellInv, phase \in Looking, phase' = "send", UNCHANGED <<job, at, probes>>,
         passed' \in Nat, redo' \in Nat, counted' \in Nat,
         heal' \in [rung : Nat, used : Nat, healing : BOOLEAN], events' \in Seq(Emissions)
  PROVE  CellTypes' /\ ScriptInv'
<1>1. Noted' = Noted BY SameCell
<1>2. job.system = "ladder" /\ at > 0 /\ probes \in Seq(Noted) BY LadderFacts
<1>3. CellTypes' BY <1>1, <1>2 DEF CellInv, CellTypes, Between, Acting
<1> QED BY <1>2, <1>3 DEF ScriptInv

LEMMA ResolvedStep == CellInv /\ Resolved => CellInv'
<1> SUFFICES ASSUME CellInv, Resolved PROVE CellInv' OBVIOUS
<1>1. /\ phase = "resolve" /\ phase' = "send" /\ heal' = [heal EXCEPT !.rung = 0, !.healing = FALSE]
      /\ UNCHANGED <<job, at, passed, redo, probes, counted>>
      /\ Emit(<<Event("target_resolved", 0, TRUE)>>)
  BY DEF Resolved, Goto, TargetResolved
<1>2. phase \in Looking BY <1>1 DEF Looking
<1>3. /\ job.system = "ladder" /\ at > 0
      /\ events \in Seq(Emissions) /\ probes \in Seq(Noted)
      /\ SentAll(probes, events)
      /\ heal \in [rung : Nat, used : Nat, healing : BOOLEAN]
      /\ passed \in Nat /\ redo \in Nat /\ counted \in Nat
  BY <1>2, LadderFacts
<1>4. /\ events' \in Seq(Emissions) /\ Len(events') = Len(events) + 1 /\ Grows(events, events')
      /\ events'[Len(events) + 1].kind = "target_resolved" /\ events'[Len(events) + 1].rung = 0
  <2>1. "target_resolved" \in Kinds /\ 0 \in Nat /\ TRUE \in BOOLEAN BY DEF Kinds
  <2> QED BY <1>1, <1>3, <2>1, EmittingOne
<1>5. heal' \in [rung : Nat, used : Nat, healing : BOOLEAN] /\ heal'.rung = 0 BY <1>1, <1>3
<1>6. CellTypes' /\ ScriptInv' BY <1>1, <1>2, <1>3, <1>4, <1>5, FoundTypes
<1>7. LadderInv'
  <2>1. SentAll(probes, events') BY <1>3, <1>4, SentAllStays
  <2>2. ClosedAll(probes, events', Len(probes))
    <3>1. Answered(probes, events) BY <1>2, LadderFacts
    <3>2. Len(events') > Len(events) BY <1>3, <1>4
    <3> QED BY <1>3, <1>4, <3>1, <3>2, LooksAway
  <2>3. Answered(probes, events') BY <1>3, <2>2, AllAnswered
  <2>4. ~Restoring(events', Len(events'))
    <3>1. \A i \in (Len(events) + 1)..Len(events') : events'[i].kind \notin Turning
      BY <1>3, <1>4 DEF Turning
    <3>2. ~Restoring(events, Len(events)) BY <1>1, <1>3 DEF CellInv, LadderInv
    <3> QED BY <1>3, <1>4, <3>1, <3>2, RestoringStays
  <2>5. Step' = Step /\ Step.element
    <3>1. Step' = Step BY <1>1, SameCell
    <3> QED BY <1>1, <1>3, <3>1 DEF CellInv, LadderInv, Between, Looking
  <2> QED BY <1>1, <1>3, <1>4, <1>5, <2>1, <2>2, <2>3, <2>4, <2>5 DEF LadderInv
<1> QED BY <1>6, <1>7 DEF CellInv

LEMMA NotHealableStep == CellInv /\ NotHealable => CellInv'
<1> SUFFICES ASSUME CellInv, NotHealable PROVE CellInv' OBVIOUS
<1>1. phase = "resolve" BY DEF NotHealable, Fails, Finish, Goto
<1>2. job.system = "ladder" BY <1>1, LadderFacts DEF Looking
<1>3. "resolve" \notin Between /\ <<>> \in Seq(Emissions) BY DEF Between
<1> QED BY <1>2, <1>3, QuietEnd DEF NotHealable, Fails

LEMMA HealableStep == CellInv /\ Healable => CellInv'
<1> SUFFICES ASSUME CellInv, Healable PROVE CellInv' OBVIOUS
<1>1. /\ phase = "resolve" /\ phase' = "climb"
      /\ UNCHANGED <<job, at, heal, passed, redo, events, probes, counted>>
  BY DEF Healable, Goto, stepVars
<1>2. job.system = "ladder" /\ at > 0 BY <1>1, LadderFacts DEF Looking
<1>3. Noted' = Noted /\ Step' = Step BY <1>1, SameCell
<1>4. CellTypes' BY <1>1, <1>2, <1>3 DEF CellInv, CellTypes, Between, Looking
<1>5. LadderInv' BY <1>1, <1>2, <1>3 DEF CellInv, LadderInv, Between, Looking
<1>6. ScriptInv' BY <1>1, <1>2 DEF ScriptInv
<1> QED BY <1>4, <1>5, <1>6 DEF CellInv

LEMMA HealsStep == CellInv /\ Heals => CellInv'
<1> SUFFICES ASSUME CellInv, Heals PROVE CellInv' OBVIOUS
<1>1. PICK rung \in 1..TopRung :
        /\ heal' = [heal EXCEPT !.rung = rung, !.healing = TRUE]
        /\ Emit(Reports(rung, TRUE) \o TargetResolved(rung))
  BY DEF Heals
<1>2. /\ phase = "climb" /\ phase' = "send" /\ UNCHANGED <<job, at, passed, redo, probes, counted>>
  BY DEF Heals, Goto
<1>3. phase \in Looking BY <1>2 DEF Looking
<1>4. /\ job.system = "ladder" /\ at > 0
      /\ events \in Seq(Emissions) /\ probes \in Seq(Noted)
      /\ SentAll(probes, events) /\ Answered(probes, events)
      /\ heal \in [rung : Nat, used : Nat, healing : BOOLEAN]
      /\ passed \in Nat /\ redo \in Nat /\ counted \in Nat
  BY <1>3, LadderFacts
<1>5. rung \in Nat /\ rung > 0 BY LimitsAssumption
<1> DEFINE r == Reports(rung, TRUE)
           x == TargetResolved(rung)
           t == r \o x
           n == Len(events)
<1>6. /\ r \in Seq(Emissions) /\ Len(r) = rung + 1
      /\ \A i \in 1..(rung + 1) : r[i].kind = "heal_attempted"
      /\ r[rung + 1].rung = rung
  <2>1. TRUE \in BOOLEAN OBVIOUS
  <2> QED BY <1>5, <2>1, ReportsAre
<1>7. /\ x \in Seq(Emissions) /\ Len(x) = 1 /\ x[1].kind = "target_resolved" /\ x[1].rung = rung
  <2>1. "target_resolved" \in Kinds /\ TRUE \in BOOLEAN BY DEF Kinds
  <2> QED BY <1>5, <2>1, EventIs DEF TargetResolved
<1> HIDE DEF r, x
<1>8. /\ t \in Seq(Emissions) /\ Len(t) = rung + 2
      /\ t[rung + 2] = x[1] /\ \A i \in 1..(rung + 1) : t[i] = r[i]
  <2>1. /\ t \in Seq(Emissions) /\ Len(t) = Len(r) + Len(x)
        /\ \A i \in 1..Len(x) : t[Len(r) + i] = x[i]
        /\ Grows(r, t)
    BY <1>6, <1>7, GrowsFacts
  <2>2. \A i \in 1..Len(r) : t[i] = r[i] BY <2>1 DEF Grows
  <2> HIDE DEF t
  <2> QED BY <1>5, <1>6, <1>7, <2>1, <2>2
<1> HIDE DEF t
<1>9. /\ events' \in Seq(Emissions) /\ Len(events') = n + Len(t) /\ Grows(events, events')
      /\ \A i \in 1..Len(t) : events'[n + i] = t[i]
  BY <1>1, <1>4, <1>8, Emitting DEF t, r, x
<1>10. n \in Nat /\ Len(events') = n + rung + 2 BY <1>4, <1>5, <1>8, <1>9
<1>11. \A i \in 1..(rung + 1) : events'[n + i].kind = "heal_attempted"
  <2> TAKE i \in 1..(rung + 1)
  <2>1. i \in 1..Len(t) BY <1>5, <1>8
  <2>2. events'[n + i] = t[i] BY <1>9, <2>1
  <2>3. t[i] = r[i] /\ r[i].kind = "heal_attempted" BY <1>6, <1>8
  <2> QED BY <2>2, <2>3
<1>12. /\ events'[n + rung + 1].kind = "heal_attempted" /\ events'[n + rung + 1].rung = rung
       /\ events'[n + rung + 2].kind = "target_resolved" /\ events'[n + rung + 2].rung = rung
  <2>1. rung + 1 \in 1..Len(t) /\ rung + 2 \in 1..Len(t) /\ rung + 1 \in 1..(rung + 1)
    BY <1>5, <1>8
  <2>2. events'[n + (rung + 1)] = r[rung + 1] /\ events'[n + (rung + 2)] = x[1]
    BY <1>8, <1>9, <2>1
  <2>3. n + (rung + 1) = n + rung + 1 /\ n + (rung + 2) = n + rung + 2 BY <1>5, <1>10
  <2> QED BY <1>6, <1>7, <2>1, <2>2, <2>3
<1>13. heal' \in [rung : Nat, used : Nat, healing : BOOLEAN] /\ heal'.rung = rung
  BY <1>1, <1>4, <1>5
<1>14. CellTypes' /\ ScriptInv' BY <1>2, <1>3, <1>4, <1>9, <1>13, FoundTypes
<1>15. LadderInv'
  <2>1. SentAll(probes, events') BY <1>4, <1>9, SentAllStays
  <2>2. ClosedAll(probes, events', Len(probes))
    <3>1. Len(events') > n BY <1>5, <1>10
    <3>2. events'[n + 1].kind = "heal_attempted"
      <4>1. 1 \in 1..(rung + 1) BY <1>5
      <4> QED BY <1>11, <4>1
    <3> QED BY <1>4, <1>9, <3>1, <3>2, LooksAway
  <2>3. Answered(probes, events') BY <1>4, <2>2, AllAnswered
  <2>4. ~Restoring(events', Len(events'))
    <3>1. ASSUME NEW i \in (n + 1)..Len(events') PROVE events'[i].kind \notin Turning
      <4>1. CASE i = n + rung + 2 BY <1>12, <4>1 DEF Turning
      <4>2. CASE i # n + rung + 2
        <5>1. i - n \in 1..(rung + 1) /\ n + (i - n) = i BY <1>5, <1>10, <4>2
        <5>2. events'[i].kind = "heal_attempted" BY <1>11, <5>1
        <5> QED BY <5>2 DEF Turning
      <4> QED BY <4>1, <4>2
    <3>2. ~Restoring(events, Len(events)) BY <1>2, <1>4 DEF CellInv, LadderInv
    <3> QED BY <1>4, <1>9, <3>1, <3>2, RestoringStays
  <2>5. Step' = Step /\ Step.element
    <3>1. Step' = Step BY <1>2, SameCell
    <3> QED BY <1>2, <1>4, <3>1 DEF CellInv, LadderInv, Between, Looking
  <2>6. Laddered(events')
    <3>1. n + rung + 1 \in DOMAIN events' BY <1>5, <1>9, <1>10
    <3> QED BY <1>5, <1>12, <3>1 DEF Laddered
  <2>7. /\ Len(events') > 0 /\ events'[Len(events')].kind = "target_resolved"
        /\ events'[Len(events')].rung = heal'.rung
    BY <1>5, <1>10, <1>12, <1>13
  <2> QED BY <1>2, <1>4, <2>1, <2>2, <2>3, <2>4, <2>5, <2>6, <2>7 DEF LadderInv
<1> QED BY <1>14, <1>15 DEF CellInv

LEMMA TopReports ==
  ASSUME NEW resolved \in BOOLEAN
  PROVE  /\ Reports(TopRung, resolved) \in Seq(Emissions)
         /\ Reports(TopRung, resolved)[1].kind = "heal_attempted"
         /\ Reports(1, resolved) \in Seq(Emissions)
         /\ Reports(1, resolved)[1].kind = "heal_attempted"
<1>1. TopRung \in Nat /\ 1 \in Nat /\ 1 \in 1..(TopRung + 1) /\ 1 \in 1..(1 + 1)
  BY LimitsAssumption
<1>2. /\ Reports(TopRung, resolved) \in Seq(Emissions) /\ Len(Reports(TopRung, resolved)) = TopRung + 1
      /\ \A i \in 1..Len(Reports(TopRung, resolved)) :
           Reports(TopRung, resolved)[i].kind = "heal_attempted"
  BY <1>1, ReportsAre
<1>3. /\ Reports(1, resolved) \in Seq(Emissions) /\ Len(Reports(1, resolved)) = 1 + 1
      /\ \A i \in 1..Len(Reports(1, resolved)) : Reports(1, resolved)[i].kind = "heal_attempted"
  BY <1>1, ReportsAre
<1> QED BY <1>1, <1>2, <1>3

LEMMA BlockedStep == CellInv /\ Blocked => CellInv'
<1> SUFFICES ASSUME CellInv, Blocked PROVE CellInv' OBVIOUS
<1>1. phase = "climb" BY DEF Blocked, Fails, Finish, Goto
<1>2. job.system = "ladder" BY <1>1, LadderFacts DEF Looking
<1>3. "climb" \notin Between /\ Reports(TopRung, TRUE) \in Seq(Emissions)
      /\ Reports(TopRung, TRUE)[1].kind = "heal_attempted"
  <2>1. TRUE \in BOOLEAN OBVIOUS
  <2> QED BY <2>1, TopReports DEF Between
<1>4. UNCHANGED <<job, at, heal, passed, redo, probes, counted>> BY DEF Blocked
<1>5. CASE Finish("climb", "awaiting_approval", "ApprovalRequired", "", Reports(TopRung, TRUE))
  BY <1>2, <1>3, <1>4, <1>5, QuietEnd
<1>6. CASE Finish("climb", "failed", "HealAbstained", "heal_limit_reached", Reports(TopRung, TRUE))
  BY <1>2, <1>3, <1>4, <1>6, QuietEnd
<1> QED BY <1>5, <1>6 DEF Blocked, Fails

LEMMA AbstainsStep == CellInv /\ Abstains => CellInv'
<1> SUFFICES ASSUME CellInv, Abstains PROVE CellInv' OBVIOUS
<1>1. phase = "climb" BY DEF Abstains, Fails, Finish, Goto
<1>2. job.system = "ladder" BY <1>1, LadderFacts DEF Looking
<1>3. /\ "climb" \notin Between
      /\ Reports(TopRung, FALSE) \in Seq(Emissions)
      /\ Reports(TopRung, FALSE)[1].kind = "heal_attempted"
      /\ Reports(1, FALSE) \in Seq(Emissions) /\ Reports(1, FALSE)[1].kind = "heal_attempted"
  <2>1. FALSE \in BOOLEAN OBVIOUS
  <2> QED BY <2>1, TopReports DEF Between
<1>4. UNCHANGED <<job, at, heal, passed, redo, probes, counted>> BY DEF Abstains
<1>5. CASE Finish("climb", "failed", "HealAbstained", "no_candidates", Reports(TopRung, FALSE))
  BY <1>2, <1>3, <1>4, <1>5, QuietEnd
<1>6. CASE Finish("climb", "failed", "HealAbstained", "page_never_stable", Reports(1, FALSE))
  BY <1>2, <1>3, <1>4, <1>6, QuietEnd
<1>7. CASE Finish("climb", "failed", "HealAbstained", "heal_timed_out", <<>>)
  BY <1>2, <1>3, <1>4, <1>7, NothingEmitted, QuietEnd
<1> QED BY <1>5, <1>6, <1>7 DEF Abstains, Fails

LEMMA SendsStep == CellInv /\ Sends => CellInv'
<1> SUFFICES ASSUME CellInv, Sends PROVE CellInv' OBVIOUS
<1>1. /\ phase = "send" /\ phase' = "sent" /\ passed' = 0
      /\ UNCHANGED <<job, at, heal, redo, events, counted>>
      /\ IF Step.element THEN Notes(FALSE) ELSE UNCHANGED probes
  BY DEF Sends, Goto
<1>2. /\ job.system = "ladder" /\ at > 0 /\ phase \notin Between
      /\ events \in Seq(Emissions) /\ probes \in Seq(Noted)
      /\ SentAll(probes, events) /\ Answered(probes, events)
      /\ heal \in [rung : Nat, used : Nat, healing : BOOLEAN]
  BY <1>1, LadderFacts DEF Acting
<1>3. Noted' = Noted /\ Step' = Step BY <1>1, SameCell
<1>4. /\ probes' \in Seq(Noted) /\ SentAll(probes', events) /\ Answered(probes', events)
      /\ Step.element => LastOpen(probes', events)
      /\ Step.element \/ probes' = <<>>
  <2>1. CASE Step.element
    <3>1. PICK elem \in Keys \cup {Elsewhere}, named \in Answering :
            probes' = Append(probes, Probe(elem, named, FALSE))
      BY <1>1, <2>1 DEF Notes
    <3> DEFINE p == Probe(elem, named, FALSE)
    <3>2. /\ p \in Noted /\ p.at = Len(events) /\ p.restoring = FALSE /\ p.rung = heal.rung
          /\ p.said = "not_checked"
      <4>1. FALSE \in BOOLEAN OBVIOUS
      <4> QED BY <4>1, ProbeIs DEF CellInv
    <3> HIDE DEF p
    <3>3. /\ Len(events) > 0 /\ events[Len(events)].kind = "target_resolved"
          /\ events[Len(events)].rung = heal.rung
          /\ ~Restoring(events, Len(events)) /\ ClosedAll(probes, events, Len(probes))
          /\ heal.rung > 0 => Laddered(events)
      BY <1>1, <1>2, <2>1 DEF CellInv, LadderInv
    <3>4. Sent(p, events) BY <1>2, <3>2, <3>3 DEF Sent
    <3>5. LET qs == Append(probes, p) IN
          /\ qs \in Seq(Noted) /\ SentAll(qs, events)
          /\ ~p.restoring => LastOpen(qs, events)
      BY <1>2, <3>2, <3>3, <3>4, NotedAction
    <3>6. probes' = Append(probes, p) BY <3>1 DEF p
    <3>7. probes' \in Seq(Noted) /\ SentAll(probes', events) /\ LastOpen(probes', events)
      BY <3>2, <3>5, <3>6
    <3> QED BY <2>1, <3>7, AllAnswered
  <2>2. CASE ~Step.element
    <3>1. probes' = probes /\ probes = <<>> BY <1>1, <1>2, <2>2 DEF CellInv, LadderInv
    <3> QED BY <1>2, <2>2, <3>1
  <2> QED BY <2>1, <2>2
<1>5. CellTypes'
  <2>1. phase' \notin Between /\ phase' \in Acting BY <1>1 DEF Between, Acting
  <2> QED BY <1>1, <1>2, <1>3, <1>4, <2>1 DEF CellInv, CellTypes
<1>6. LadderInv' BY <1>1, <1>2, <1>3, <1>4 DEF CellInv, LadderInv, Looking
<1>7. ScriptInv' BY <1>1, <1>2 DEF ScriptInv
<1> QED BY <1>5, <1>6, <1>7 DEF CellInv

LEMMA NotActedStep == CellInv /\ NotActed => CellInv'
<1> SUFFICES ASSUME CellInv, NotActed PROVE CellInv' OBVIOUS
<1>1. /\ phase \in {"send", "sent"}
      /\ UNCHANGED <<job, at, passed, redo, probes, counted>>
  BY DEF NotActed
<1>2. phase \in Acting BY <1>1 DEF Acting
<1>3. /\ job.system = "ladder" /\ at > 0 /\ phase \notin Between
      /\ events \in Seq(Emissions) /\ probes \in Seq(Noted)
      /\ SentAll(probes, events) /\ Answered(probes, events)
      /\ heal \in [rung : Nat, used : Nat, healing : BOOLEAN]
  BY <1>2, LadderFacts
<1>4. CASE /\ heal.healing /\ phase' = "climb" /\ heal' = [heal EXCEPT !.used = @ + 1]
           /\ UNCHANGED events
  <2>1. Noted' = Noted /\ Step' = Step BY <1>1, SameCell
  <2>2. heal' \in [rung : Nat, used : Nat, healing : BOOLEAN] /\ heal'.rung = heal.rung
    BY <1>3, <1>4
  <2>3. CellTypes'
    <3>1. phase' \notin Between /\ phase' \in Looking BY <1>4 DEF Between, Looking
    <3> QED BY <1>1, <1>3, <1>4, <2>1, <2>2, <3>1 DEF CellInv, CellTypes
  <2>4. Step.element BY <1>3, <1>4 DEF CellInv, LadderInv
  <2>5. ~Restoring(events, Len(events)) BY <1>1, <1>3 DEF CellInv, LadderInv
  <2>6. heal.rung > 0 => Laddered(events) BY <1>3 DEF CellInv, LadderInv
  <2>7. LadderInv' BY <1>1, <1>3, <1>4, <2>1, <2>2, <2>4, <2>5, <2>6 DEF LadderInv
  <2>8. ScriptInv' BY <1>1, <1>3 DEF ScriptInv
  <2> QED BY <2>3, <2>7, <2>8 DEF CellInv
<1>5. CASE /\ UNCHANGED heal
           /\ Fails(phase, IF Step.element THEN "TargetNotFound" ELSE "NavigationError", "", <<>>)
  BY <1>1, <1>3, <1>5, NothingEmitted, QuietEnd DEF Fails
<1> QED BY <1>4, <1>5 DEF NotActed

\* An event that says nothing of any action.
LEMMA QuietEvent ==
  ASSUME CellInv, phase \in Acting, NEW kind \in {"action_performed", "step_failed"},
         Emit(<<Event(kind, 0, TRUE)>>)
  PROVE  /\ events' \in Seq(Emissions) /\ Grows(events, events')
         /\ SentAll(probes, events') /\ Answered(probes, events')
         /\ LastOpen(probes, events) => LastOpen(probes, events')
         /\ Restoring(events', Len(events')) <=> Restoring(events, Len(events))
         /\ Laddered(events) => Laddered(events')
<1>1. /\ events \in Seq(Emissions) /\ probes \in Seq(Noted)
      /\ SentAll(probes, events) /\ Answered(probes, events)
  BY LadderFacts
<1>2. /\ events' \in Seq(Emissions) /\ Len(events') = Len(events) + 1 /\ Grows(events, events')
      /\ events'[Len(events) + 1].kind = kind
  <2>1. kind \in Kinds /\ 0 \in Nat /\ TRUE \in BOOLEAN BY DEF Kinds
  <2> QED BY <1>1, <2>1, EmittingOne
<1>3. \A i \in (Len(events) + 1)..Len(events') : i = Len(events) + 1 BY <1>1, <1>2
<1>4. \A i \in (Len(events) + 1)..Len(events') :
        ~Decides(events'[i]) /\ events'[i].kind # "checkpoint" /\ events'[i].kind \notin Turning
  BY <1>2, <1>3 DEF Decides, Turning
<1>5. SentAll(probes, events') BY <1>1, <1>2, SentAllStays
<1>6. /\ Answered(probes, events')
      /\ LastOpen(probes, events) => LastOpen(probes, events')
  BY <1>1, <1>2, <1>4, QuietStays
<1>7. Restoring(events', Len(events')) <=> Restoring(events, Len(events))
  BY <1>1, <1>2, <1>4, RestoringStays
<1> QED BY <1>1, <1>2, <1>5, <1>6, <1>7, LadderedStays

LEMMA CountsAreNumbers == counted \in Nat /\ PageCounts => counted' \in Nat
<1> SUFFICES ASSUME counted \in Nat, PageCounts PROVE counted' \in Nat OBVIOUS
<1>1. PICK n \in {0, 1} : counted' = counted + n BY Zenon DEF PageCounts
<1> QED BY <1>1

LEMMA PerformedStep == CellInv /\ Performed => CellInv'
<1> SUFFICES ASSUME CellInv, Performed PROVE CellInv' OBVIOUS
<1>1. /\ phase = "sent" /\ phase' = "verify" /\ PageCounts
      /\ Emit(<<Event("action_performed", 0, TRUE)>>)
      /\ UNCHANGED <<job, at, heal, passed, redo, probes>>
  BY DEF Performed, Goto, ActionPerformed
<1>2. phase \in Acting BY <1>1 DEF Acting
<1>3. /\ job.system = "ladder" /\ at > 0 /\ phase \notin Between /\ counted \in Nat
      /\ probes \in Seq(Noted)
  BY <1>2, LadderFacts
<1>4. /\ events' \in Seq(Emissions) /\ Grows(events, events')
      /\ SentAll(probes, events') /\ Answered(probes, events')
      /\ LastOpen(probes, events) => LastOpen(probes, events')
      /\ Restoring(events', Len(events')) <=> Restoring(events, Len(events))
      /\ Laddered(events) => Laddered(events')
  BY <1>1, <1>2, QuietEvent
<1>5. Noted' = Noted /\ Step' = Step /\ counted' \in Nat
  BY <1>1, <1>3, SameCell, CountsAreNumbers
<1>6. CellTypes'
  <2>1. phase' \notin Between /\ phase' \in Acting BY <1>1 DEF Between, Acting
  <2> QED BY <1>1, <1>3, <1>4, <1>5, <2>1 DEF CellInv, CellTypes
<1>7. LadderInv' BY <1>1, <1>3, <1>4, <1>5 DEF CellInv, LadderInv, Looking
<1>8. ScriptInv' BY <1>1, <1>3 DEF ScriptInv
<1> QED BY <1>6, <1>7, <1>8 DEF CellInv

LEMMA PageProblemStep == CellInv /\ PageProblem => CellInv'
<1> SUFFICES ASSUME CellInv, PageProblem PROVE CellInv' OBVIOUS
<1>1. phase = "verify" BY DEF PageProblem, Fails, Finish, Goto
<1>2. job.system = "ladder" BY <1>1, LadderFacts DEF Acting
<1>3. "verify" \notin Between BY DEF Between
<1> QED BY <1>2, <1>3, NothingEmitted, QuietEnd DEF PageProblem, Fails

LEMMA CheckPassesStep == CellInv /\ CheckPasses => CellInv'
<1> SUFFICES ASSUME CellInv, CheckPasses PROVE CellInv' OBVIOUS
<1>1. /\ phase = "verify" /\ phase' = "verify" /\ passed' = passed + 1 /\ probes' = Saying("passed")
      /\ Emit(<<Event("checkpoint", 0, TRUE)>>)
      /\ UNCHANGED <<job, at, heal, redo, counted>>
  BY DEF CheckPasses, Goto, Checked
<1>2. /\ job.system = "ladder" /\ at > 0 /\ phase \notin Between
      /\ events \in Seq(Emissions) /\ probes \in Seq(Noted)
      /\ SentAll(probes, events)
      /\ passed \in Nat
  BY <1>1, LadderFacts DEF Acting
<1>3. /\ events' \in Seq(Emissions) /\ Len(events') = Len(events) + 1 /\ Grows(events, events')
      /\ events'[Len(events) + 1].kind = "checkpoint" /\ events'[Len(events) + 1].ok
  <2>1. "checkpoint" \in Kinds /\ 0 \in Nat /\ TRUE \in BOOLEAN BY DEF Kinds
  <2> QED BY <1>1, <1>2, <2>1, EmittingOne
<1>4. Noted' = Noted /\ Step' = Step BY <1>1, SameCell
<1>5. /\ probes' \in Seq(Noted) /\ SentAll(probes', events') /\ Answered(probes', events')
      /\ Step.element => LastOpen(probes', events')
      /\ Step.element \/ probes' = <<>>
  <2>1. SentAll(probes, events') BY <1>2, <1>3, SentAllStays
  <2>2. CASE Step.element
    <3>1. LastOpen(probes, events) /\ probes # <<>>
      BY <1>1, <1>2, <2>2 DEF CellInv, LadderInv, LastOpen
    <3>2. probes' = Told(probes, "passed") BY <1>1, <2>2 DEF Saying, Told
    <3>3. "passed" \in Verdicts BY DEF Verdicts
    <3>4. Told(probes, "passed") \in Seq(Noted) BY <1>2, <3>1, <3>3, ToldFacts
    <3>5. SentAll(Told(probes, "passed"), events') BY <1>2, <2>1, <3>1, <3>3, ToldIsSent
    <3>6. ~Decides(events'[Len(events) + 1]) BY <1>3 DEF Decides
    <3>7. LastOpen(Told(probes, "passed"), events') BY <1>2, <1>3, <3>1, <3>6, LastPasses
    <3>8. Answered(Told(probes, "passed"), events') BY <3>4, <3>7, AllAnswered
    <3> QED BY <2>2, <3>2, <3>4, <3>5, <3>7, <3>8
  <2>3. CASE ~Step.element
    <3>1. probes = <<>> BY <1>1, <1>2, <2>3 DEF CellInv, LadderInv
    <3>2. probes' = <<>> BY <1>1, <2>3, <3>1 DEF Saying
    <3> QED BY <2>3, <3>2, NoActions
  <2> QED BY <2>2, <2>3
<1>6. CellTypes' BY <1>1, <1>2, <1>3, <1>4, <1>5 DEF CellInv, CellTypes
<1>7. LadderInv'
  <2>1. ~Restoring(events', Len(events'))
    <3>1. \A i \in (Len(events) + 1)..Len(events') : events'[i].kind \notin Turning
      BY <1>2, <1>3 DEF Turning
    <3>2. ~Restoring(events, Len(events)) BY <1>1, <1>2 DEF CellInv, LadderInv
    <3> QED BY <1>2, <1>3, <3>1, <3>2, RestoringStays
  <2>2. heal.rung > 0 => Laddered(events')
    BY <1>2, <1>3, LadderedStays DEF CellInv, LadderInv
  <2>3. Step.element \/ (~heal.healing /\ phase \notin Looking) BY <1>2 DEF CellInv, LadderInv
  <2> QED BY <1>1, <1>2, <1>4, <1>5, <2>1, <2>2, <2>3 DEF LadderInv
<1>8. ScriptInv' BY <1>1, <1>2 DEF ScriptInv
<1> QED BY <1>6, <1>7, <1>8 DEF CellInv

LEMMA CheckFailsStep == CellInv /\ CheckFails => CellInv'
<1> SUFFICES ASSUME CellInv, CheckFails PROVE CellInv' OBVIOUS
<1>1. /\ phase = "verify" /\ probes' = Saying("failed") /\ UNCHANGED <<job, at, passed, counted>>
  BY DEF CheckFails
<1>2. /\ job.system = "ladder" /\ at > 0 /\ phase \notin Between
      /\ events \in Seq(Emissions) /\ probes \in Seq(Noted)
      /\ heal \in [rung : Nat, used : Nat, healing : BOOLEAN]
      /\ passed \in Nat /\ counted \in Nat /\ at \in Nat
  <2>1. phase \in Acting BY <1>1 DEF Acting
  <2>2. at \in 0..Len(job.steps) BY <2>1, LadderFacts
  <2> QED BY <2>1, <2>2, LadderFacts
<1> DEFINE e == Event("checkpoint", 0, FALSE)
<1>3. /\ Checked(FALSE) \in Seq(Emissions) /\ Checked(FALSE) # <<>> /\ Len(Checked(FALSE)) = 1
      /\ Checked(FALSE)[1].kind = "checkpoint" /\ ~Checked(FALSE)[1].ok
      /\ Checked(FALSE) = <<e>>
  <2>1. "checkpoint" \in Kinds /\ 0 \in Nat /\ FALSE \in BOOLEAN BY DEF Kinds
  <2>2. /\ <<e>> \in Seq(Emissions) /\ Len(<<e>>) = 1 /\ <<e>>[1] = e /\ e.kind = "checkpoint"
        /\ e.ok = FALSE
    BY <2>1, EventIs
  <2>3. Checked(FALSE) = <<e>> BY DEF Checked
  <2> HIDE DEF e
  <2>4. <<e>> # <<>> /\ ~e.ok BY <2>2
  <2>5. <<e>>[1].kind = "checkpoint" /\ ~<<e>>[1].ok BY <2>2, <2>4
  <2> QED BY <2>2, <2>3, <2>4, <2>5
<1>4. "failed" \in Verdicts BY DEF Verdicts
<1>5. CASE Fails("verify", "EgressBlocked", "", Checked(FALSE)) /\ UNCHANGED <<heal, redo>>
  BY <1>1, <1>2, <1>3, <1>4, <1>5, SaidEnd DEF Fails
<1>6. CASE Fails("verify", "CheckpointFailed", "text_missing", Checked(FALSE)) /\ UNCHANGED <<heal, redo>>
  BY <1>1, <1>2, <1>3, <1>4, <1>6, SaidEnd DEF Fails
<1>7. CASE /\ heal.healing /\ phase' = "restore" /\ heal' = [heal EXCEPT !.used = @ + 1]
           /\ redo' \in 1..at /\ Emit(Checked(FALSE) \o HealVerified(heal.rung, FALSE))
  <2> DEFINE x == HealVerified(heal.rung, FALSE)
             c == Checked(FALSE)
             t == c \o x
  <2>1. x \in Seq(Emissions) /\ Len(x) = 1 /\ x[1].kind = "heal_verified" /\ ~x[1].ok
    <3>1. "heal_verified" \in Kinds /\ heal.rung \in Nat /\ FALSE \in BOOLEAN BY <1>2 DEF Kinds
    <3> QED BY <3>1, EventIs DEF HealVerified
  <2> HIDE DEF x, c
  <2>2. /\ t \in Seq(Emissions) /\ Len(t) = Len(c) + Len(x)
        /\ \A i \in 1..Len(x) : t[Len(c) + i] = x[i]
        /\ Grows(c, t)
    BY <1>3, <2>1, GrowsFacts DEF c
  <2> HIDE DEF t
  <2>3. Len(t) = 2 /\ t[1] = c[1] /\ t[2] = x[1]
    <3>1. Len(c) = 1 BY <1>3 DEF c
    <3>2. 1 \in 1..Len(x) /\ 1 \in 1..Len(c) /\ Len(c) + 1 = 2 BY <2>1, <3>1
    <3>3. \A i \in 1..Len(c) : t[i] = c[i] BY <2>2 DEF Grows
    <3> QED BY <2>1, <2>2, <3>1, <3>2, <3>3
  <2>4. /\ events' \in Seq(Emissions) /\ Len(events') = Len(events) + Len(t)
        /\ Grows(events, events')
        /\ \A i \in 1..Len(t) : events'[Len(events) + i] = t[i]
    BY <1>2, <1>7, <2>2, Emitting DEF t, x, c
  <2>5. /\ Len(events') = Len(events) + 2 /\ Len(events') > Len(events) /\ Len(events') > 0
        /\ events'[Len(events) + 1].kind = "checkpoint" /\ ~events'[Len(events) + 1].ok
        /\ events'[Len(events')].kind = "heal_verified" /\ ~events'[Len(events')].ok
    <3>1. Len(events) \in Nat /\ 1 \in 1..Len(t) /\ 2 \in 1..Len(t) BY <1>2, <2>3
    <3>2. Len(events') = Len(events) + 2 BY <2>3, <2>4
    <3>3. events'[Len(events) + 1] = c[1] /\ events'[Len(events) + 2] = x[1]
      BY <2>3, <2>4, <3>1
    <3>4. c[1].kind = "checkpoint" /\ ~c[1].ok BY <1>3 DEF c
    <3>5. Len(events') > Len(events) /\ Len(events') > 0 BY <3>1, <3>2
    <3> QED BY <2>1, <3>2, <3>3, <3>4, <3>5
  <2>6. /\ probes' \in Seq(Noted) /\ SentAll(probes', events')
        /\ ClosedAll(probes', events', Len(probes')) /\ Answered(probes', events')
    <3>1. Decides(events'[Len(events) + 1]) /\ Judgement(events'[Len(events) + 1], FALSE) = "failed"
      BY <2>5 DEF Decides, Judgement
    <3> QED BY <1>1, <1>2, <1>4, <2>4, <2>5, <3>1, SaidOfLatest
  <2>7. heal' \in [rung : Nat, used : Nat, healing : BOOLEAN] /\ heal'.rung = heal.rung
    BY <1>2, <1>7
  <2>8. Noted' = Noted /\ Step' = Step BY <1>1, SameCell
  <2>9. CellTypes'
    <3>1. phase' \notin Between /\ phase' \in Looking BY <1>7 DEF Between, Looking
    <3>2. redo' \in Nat BY <1>2, <1>7
    <3> QED BY <1>1, <1>2, <2>4, <2>6, <2>7, <2>8, <3>1, <3>2 DEF CellInv, CellTypes
  <2>10. Restoring(events', Len(events'))
    <3>1. events'[Len(events')].kind \in Turning BY <2>5 DEF Turning
    <3> QED BY <2>4, <2>5, <3>1, RestoringTurns
  <2>11. heal.rung > 0 => Laddered(events')
    BY <1>2, <2>4, LadderedStays DEF CellInv, LadderInv
  <2>12. Step.element BY <1>2, <1>7 DEF CellInv, LadderInv
  <2>13. LadderInv' BY <1>7, <2>6, <2>7, <2>8, <2>10, <2>11, <2>12 DEF LadderInv
  <2>14. ScriptInv' BY <1>1, <1>2 DEF ScriptInv
  <2> QED BY <2>9, <2>13, <2>14 DEF CellInv
<1> QED BY <1>5, <1>6, <1>7 DEF CheckFails, Goto

LEMMA SucceedsStep == CellInv /\ Succeeds => CellInv'
<1> SUFFICES ASSUME CellInv, Succeeds PROVE CellInv' OBVIOUS
<1>1. /\ phase = "verify" /\ UNCHANGED <<job, at, heal, passed, redo, counted>>
  BY DEF Succeeds
<1>2. /\ job.system = "ladder" /\ phase \notin Between
      /\ heal \in [rung : Nat, used : Nat, healing : BOOLEAN]
  BY <1>1, LadderFacts DEF Acting
<1>3. /\ Settled \in Seq(Emissions)
      /\ heal.healing <=> Settled # <<>>
      /\ heal.healing => Settled[1].kind = "heal_verified" /\ Settled[1].ok
  <2>1. CASE heal.healing
    <3> DEFINE x == <<Event("heal_verified", heal.rung, TRUE)>>
    <3>1. "heal_verified" \in Kinds /\ heal.rung \in Nat /\ TRUE \in BOOLEAN BY <1>2 DEF Kinds
    <3>2. x \in Seq(Emissions) /\ Len(x) = 1 /\ x[1].kind = "heal_verified" /\ x[1].ok
      BY <3>1, EventIs
    <3>3. Settled = x BY <2>1 DEF Settled, HealVerified
    <3> QED BY <2>1, <3>2, <3>3
  <2>2. CASE ~heal.healing
    <3>1. Settled = <<>> BY <2>2 DEF Settled
    <3> QED BY <2>2, <3>1, NothingEmitted
  <2> QED BY <2>1, <2>2
<1>4. "passed" \in Verdicts BY DEF Verdicts
<1>5. CASE Finish("verify", "succeeded", "", "", Settled) /\ probes' = Saying("passed")
  BY <1>1, <1>2, <1>3, <1>4, <1>5, SaidEnd
<1>6. CASE /\ Finish("verify", "failed", "EvidenceFailed", "", Settled)
           /\ probes' = IF heal.healing THEN Saying("passed") ELSE probes
  <2>1. CASE heal.healing BY <1>1, <1>2, <1>3, <1>4, <1>6, <2>1, SaidEnd
  <2>2. CASE ~heal.healing BY <1>1, <1>2, <1>3, <1>6, <2>2, QuietEnd
  <2> QED BY <2>1, <2>2
<1> QED BY <1>5, <1>6 DEF Succeeds, Fails

LEMMA NotRecoveredStep == CellInv /\ NotRecovered => CellInv'
<1> SUFFICES ASSUME CellInv, NotRecovered PROVE CellInv' OBVIOUS
<1>1. phase = "restore" BY DEF NotRecovered, Fails, Finish, Goto
<1>2. job.system = "ladder" BY <1>1, LadderFacts DEF Looking
<1>3. "restore" \notin Between BY DEF Between
<1>4. UNCHANGED <<job, at, heal, passed, redo, probes, counted>> BY DEF NotRecovered
<1>5. CASE Finish("restore", "needs_review", "NeedsReview", "irreversible_heal_unverified", <<>>)
  BY <1>2, <1>3, <1>4, <1>5, NothingEmitted, QuietEnd
<1>6. CASE Finish("restore", "failed", "HealAbstained", "heal_limit_reached", <<>>)
  BY <1>2, <1>3, <1>4, <1>6, NothingEmitted, QuietEnd
<1> QED BY <1>5, <1>6 DEF NotRecovered, Fails

\* An action that only restores the page.
LEMMA RedoesFacts ==
  ASSUME CellInv, phase \in {"restore", "replay"}, Redoes
  PROVE  /\ probes' \in Seq(Noted) /\ SentAll(probes', events)
         /\ ClosedAll(probes', events, Len(probes')) /\ counted' \in Nat
<1>1. /\ job.system = "ladder"
      /\ events \in Seq(Emissions) /\ probes \in Seq(Noted)
      /\ SentAll(probes, events) /\ counted \in Nat
      /\ heal \in [rung : Nat, used : Nat, healing : BOOLEAN]
  <2>1. phase \in Looking BY DEF Looking
  <2> QED BY <2>1, LadderFacts
<1>2. PICK elem \in Keys \cup {Elsewhere}, named \in Answering :
        probes' = Append(probes, Probe(elem, named, TRUE))
  BY DEF Redoes, Notes
<1> DEFINE p == Probe(elem, named, TRUE)
<1>3. /\ p \in Noted /\ p.at = Len(events) /\ p.restoring = TRUE /\ p.rung = heal.rung
      /\ p.said = "not_checked"
  <2>1. TRUE \in BOOLEAN OBVIOUS
  <2> QED BY <2>1, ProbeIs DEF CellInv
<1> HIDE DEF p
<1>4. /\ Restoring(events, Len(events)) /\ ClosedAll(probes, events, Len(probes))
      /\ heal.rung > 0 => Laddered(events)
  BY <1>1 DEF CellInv, LadderInv
<1>5. Sent(p, events) BY <1>1, <1>3, <1>4 DEF Sent
<1>6. LET qs == Append(probes, p) IN
      /\ qs \in Seq(Noted) /\ SentAll(qs, events)
      /\ p.restoring => ClosedAll(qs, events, Len(qs))
  BY <1>1, <1>3, <1>4, <1>5, NotedAction
<1>7. probes' = Append(probes, p) BY <1>2 DEF p
<1>8. counted' \in Nat
  <2>1. PICK n \in {0, 1} : counted' = counted + n BY Zenon DEF Redoes
  <2> QED BY <1>1, <2>1
<1> QED BY <1>3, <1>6, <1>7, <1>8

LEMMA RestoreActs ==
  ASSUME CellInv, phase \in {"restore", "replay"}, phase' = "replay",
         Redoes \/ UNCHANGED <<probes, counted>>,
         UNCHANGED <<job, at, heal, passed, events>>, redo' \in Nat
  PROVE  CellInv'
<1>1. /\ job.system = "ladder" /\ at > 0 /\ phase \notin Between
      /\ probes \in Seq(Noted) /\ SentAll(probes, events) /\ counted \in Nat
  <2>1. phase \in Looking BY DEF Looking
  <2> QED BY <2>1, LadderFacts
<1>2. /\ probes' \in Seq(Noted) /\ SentAll(probes', events)
      /\ ClosedAll(probes', events, Len(probes')) /\ counted' \in Nat
  <2>1. CASE Redoes BY <2>1, RedoesFacts
  <2>2. CASE UNCHANGED <<probes, counted>> BY <1>1, <2>2 DEF CellInv, LadderInv
  <2> QED BY <2>1, <2>2
<1>3. Answered(probes', events) BY <1>2, AllAnswered
<1>4. Noted' = Noted /\ Step' = Step BY SameCell
<1>5. CellTypes'
  <2>1. phase' \notin Between /\ phase' \in Looking BY DEF Between, Looking
  <2> QED BY <1>1, <1>2, <1>4, <2>1 DEF CellInv, CellTypes
<1>6. Step.element BY <1>1 DEF CellInv, LadderInv, Looking
<1>7. /\ Restoring(events, Len(events))
      /\ heal.rung > 0 => Laddered(events)
  BY <1>1 DEF CellInv, LadderInv
<1>8. LadderInv' BY <1>2, <1>3, <1>4, <1>6, <1>7 DEF LadderInv
<1>9. ScriptInv' BY <1>1 DEF ScriptInv
<1> QED BY <1>5, <1>8, <1>9 DEF CellInv

LEMMA ClearsStep == CellInv /\ Clears => CellInv'
<1> SUFFICES ASSUME CellInv, Clears PROVE CellInv' OBVIOUS
<1>1. /\ phase = "restore" /\ phase' = "replay"
      /\ Redoes \/ UNCHANGED <<probes, counted>>
      /\ UNCHANGED <<job, at, heal, passed, redo, events>>
  BY DEF Clears, Goto
<1>2. redo' \in Nat BY <1>1 DEF CellInv, CellTypes
<1> QED BY <1>1, <1>2, RestoreActs

LEMMA ReplaysStep == CellInv /\ Replays => CellInv'
<1> SUFFICES ASSUME CellInv, Replays PROVE CellInv' OBVIOUS
<1>1. /\ phase = "replay" /\ phase' = "replay"
      /\ Redoes \/ UNCHANGED <<probes, counted>>
      /\ UNCHANGED <<job, at, heal, passed, events>> /\ redo' = redo + 1
  BY DEF Replays, Goto
<1>2. redo' \in Nat BY <1>1 DEF CellInv, CellTypes
<1> QED BY <1>1, <1>2, RestoreActs

LEMMA NotRestoredStep == CellInv /\ NotRestored => CellInv'
<1> SUFFICES ASSUME CellInv, NotRestored PROVE CellInv' OBVIOUS
<1>1. phase = "replay" BY DEF NotRestored, Fails, Finish, Goto
<1>2. job.system = "ladder" BY <1>1, LadderFacts DEF Looking
<1>3. "replay" \notin Between BY DEF Between
<1>4. StateRestored(FALSE) \in Seq(Emissions) /\ StateRestored(FALSE)[1].kind = "state_restored"
  <2>1. "state_restored" \in Kinds /\ 0 \in Nat /\ FALSE \in BOOLEAN BY DEF Kinds
  <2> QED BY <2>1, EventIs DEF StateRestored
<1> QED BY <1>2, <1>3, <1>4, QuietEnd DEF NotRestored, Fails

LEMMA RestoredStep == CellInv /\ Restored => CellInv'
<1> SUFFICES ASSUME CellInv, Restored PROVE CellInv' OBVIOUS
<1>1. /\ phase = "replay" /\ phase' = "resolve" /\ redo' = 0
      /\ Emit(<<Event("state_restored", 0, TRUE)>>)
      /\ UNCHANGED <<job, at, heal, passed, probes, counted>>
  BY DEF Restored, Goto, StateRestored
<1>2. /\ job.system = "ladder" /\ at > 0 /\ phase \notin Between
      /\ events \in Seq(Emissions) /\ probes \in Seq(Noted) /\ SentAll(probes, events)
  BY <1>1, LadderFacts DEF Looking
<1>3. /\ events' \in Seq(Emissions) /\ Len(events') = Len(events) + 1 /\ Grows(events, events')
      /\ events'[Len(events) + 1].kind = "state_restored"
  <2>1. "state_restored" \in Kinds /\ 0 \in Nat /\ TRUE \in BOOLEAN BY DEF Kinds
  <2> QED BY <1>1, <1>2, <2>1, EmittingOne
<1>4. SentAll(probes, events') BY <1>2, <1>3, SentAllStays
<1>5. ClosedAll(probes, events', Len(probes))
  <2>1. ClosedAll(probes, events, Len(probes)) /\ Len(probes) \in 0..Len(probes)
    BY <1>1, <1>2 DEF CellInv, LadderInv
  <2> QED BY <1>2, <1>3, <2>1, ClosedAllStays
<1>6. Answered(probes, events') BY <1>2, <1>5, AllAnswered
<1>7. ~Restoring(events', Len(events'))
  <2>1. events'[Len(events')].kind \in Turning /\ Len(events') > 0 BY <1>2, <1>3 DEF Turning
  <2> QED BY <1>2, <1>3, <2>1, RestoringTurns
<1>8. Noted' = Noted /\ Step' = Step BY <1>1, SameCell
<1>9. CellTypes'
  <2>1. phase' \notin Between /\ phase' \in Looking BY <1>1 DEF Between, Looking
  <2> QED BY <1>1, <1>2, <1>3, <1>8, <2>1 DEF CellInv, CellTypes
<1>10. heal.rung > 0 => Laddered(events')
  BY <1>2, <1>3, LadderedStays DEF CellInv, LadderInv
<1>11. Step.element BY <1>1, <1>2 DEF CellInv, LadderInv, Looking
<1>12. LadderInv' BY <1>1, <1>4, <1>5, <1>6, <1>7, <1>8, <1>10, <1>11 DEF LadderInv
<1>13. ScriptInv' BY <1>1, <1>2 DEF ScriptInv
<1> QED BY <1>9, <1>12, <1>13 DEF CellInv

LEMMA TimesOutStep == CellInv /\ TimesOut => CellInv'
<1> SUFFICES ASSUME CellInv, TimesOut PROVE CellInv' OBVIOUS
<1>1. job.system = "ladder" /\ phase \notin Between BY DEF TimesOut, Between
<1> QED BY <1>1, NothingEmitted, QuietEnd DEF TimesOut, Fails

LEMMA TimesOutBetweenStep == CellInv /\ TimesOutBetween => CellInv'
<1> SUFFICES ASSUME CellInv, TimesOutBetween PROVE CellInv' OBVIOUS
<1>1. /\ phase = "next" /\ phase' = "done" /\ job.system = "ladder"
      /\ UNCHANGED <<job, at, heal, passed, redo, events, probes, counted>>
  BY DEF TimesOutBetween, Goto, stepVars
<1>2. Noted' = Noted /\ Step' = Step BY <1>1, SameCell
<1>3. CellTypes' BY <1>1, <1>2 DEF CellInv, CellTypes, Between
<1>4. LadderInv' BY <1>1, <1>2 DEF CellInv, LadderInv, Between
<1>5. ScriptInv' BY <1>1 DEF ScriptInv
<1> QED BY <1>3, <1>4, <1>5 DEF CellInv
-----------------------------------------------------------------------------
(* The steps of a script, and the scoring of a step.                       *)

LEMMA ScriptFacts ==
  ASSUME CellInv, phase \in Scripted
  PROVE  /\ job.system = "script" /\ job.system # "ladder" /\ phase \notin Between /\ at > 0
         /\ probes \in Seq(Noted) /\ counted \in Nat
         /\ \A i \in DOMAIN probes : ~probes[i].restoring
<1>1. job.system = "script" BY SystemOf DEF CellInv
<1>2. phase \notin Between BY DEF Scripted, Between
<1> QED BY <1>1, <1>2 DEF CellInv, CellTypes, ScriptInv

LEMMA ScriptGoesOn ==
  ASSUME CellInv, phase \in Scripted, phase' \in Scripted \cup {"observe"},
         UNCHANGED <<job, at, heal, passed, redo, events>>,
         counted' \in Nat, probes' \in Seq(Noted), \A i \in DOMAIN probes' : ~probes'[i].restoring
  PROVE  CellInv'
<1>1. job.system = "script" /\ job.system # "ladder" /\ at > 0 BY ScriptFacts
<1>2. Noted' = Noted BY SameCell
<1>3. CellTypes'
  <2>1. phase' \notin Between BY DEF Between, Scripted
  <2> QED BY <1>1, <1>2, <2>1 DEF CellInv, CellTypes
<1>4. LadderInv' BY <1>1 DEF LadderInv
<1>5. ScriptInv' BY DEF ScriptInv
<1> QED BY <1>3, <1>4, <1>5 DEF CellInv

LEMMA SayingFacts ==
  ASSUME NEW verdict \in Verdicts, probes \in Seq(Noted),
         \A i \in DOMAIN probes : ~probes[i].restoring
  PROVE  /\ Saying(verdict) \in Seq(Noted) /\ Len(Saying(verdict)) = Len(probes)
         /\ \A i \in DOMAIN Saying(verdict) : ~Saying(verdict)[i].restoring
<1>1. CASE probes = <<>> \/ ~Step.element
  <2>1. Saying(verdict) = probes BY <1>1 DEF Saying
  <2> QED BY <2>1
<1>2. CASE probes # <<>> /\ Step.element
  <2> DEFINE qs == Told(probes, verdict)
             n == Len(probes)
  <2>1. /\ qs \in Seq(Noted) /\ Len(qs) = n /\ n \in DOMAIN probes
        /\ \A i \in 1..(n - 1) : qs[i] = probes[i]
        /\ qs[n].restoring = probes[n].restoring
    BY <1>2, ToldFacts
  <2>2. Saying(verdict) = qs BY <1>2 DEF Saying, Told
  <2> HIDE DEF qs
  <2>3. ASSUME NEW i \in DOMAIN qs PROVE ~qs[i].restoring
    <3>1. i \in DOMAIN probes /\ (i \in 1..(n - 1) \/ i = n) BY <2>1
    <3> QED BY <2>1, <3>1
  <2> QED BY <2>1, <2>2, <2>3
<1> QED BY <1>1, <1>2

LEMMA LoadsStep == CellInv /\ Loads => CellInv'
<1> SUFFICES ASSUME CellInv, Loads PROVE CellInv' OBVIOUS
<1>1. /\ phase = "load" /\ phase' = "observe"
      /\ UNCHANGED <<job, at, heal, passed, redo, events, probes, counted>>
  BY DEF Loads, ScriptEnds, Goto
<1>2. phase \in Scripted BY <1>1 DEF Scripted
<1> QED BY <1>1, <1>2, ScriptFacts, ScriptGoesOn

LEMMA NotLocatedStep == CellInv /\ NotLocated => CellInv'
<1> SUFFICES ASSUME CellInv, NotLocated PROVE CellInv' OBVIOUS
<1>1. /\ phase = "locate" /\ phase' = "observe"
      /\ UNCHANGED <<job, at, heal, passed, redo, events, probes, counted>>
  BY DEF NotLocated, ScriptEnds, Goto
<1>2. phase \in Scripted BY <1>1 DEF Scripted
<1> QED BY <1>1, <1>2, ScriptFacts, ScriptGoesOn

LEMMA LocatesStep == CellInv /\ Locates => CellInv'
<1> SUFFICES ASSUME CellInv, Locates PROVE CellInv' OBVIOUS
<1>1. /\ phase = "locate" /\ phase' = "act" /\ Notes(FALSE)
      /\ UNCHANGED <<job, at, heal, passed, redo, events, counted>>
  BY DEF Locates, Goto
<1>2. phase \in Scripted /\ phase' \in Scripted BY <1>1 DEF Scripted
<1>3. /\ probes \in Seq(Noted) /\ counted \in Nat /\ \A i \in DOMAIN probes : ~probes[i].restoring
  BY <1>2, ScriptFacts
<1>4. PICK elem \in Keys \cup {Elsewhere}, named \in Answering :
        probes' = Append(probes, Probe(elem, named, FALSE))
  BY <1>1 DEF Notes
<1> DEFINE p == Probe(elem, named, FALSE)
<1>5. p \in Noted /\ p.restoring = FALSE
  <2>1. FALSE \in BOOLEAN OBVIOUS
  <2> QED BY <2>1, ProbeIs DEF CellInv
<1> HIDE DEF p
<1>6. probes' = Append(probes, p) BY <1>4 DEF p
<1>7. /\ probes' \in Seq(Noted) /\ Len(probes') = Len(probes) + 1
      /\ probes'[Len(probes) + 1] = p /\ \A i \in 1..Len(probes) : probes'[i] = probes[i]
  BY <1>3, <1>5, <1>6, AppendIs
<1>8. ASSUME NEW i \in DOMAIN probes' PROVE ~probes'[i].restoring
  <2>1. i \in 1..Len(probes) \/ i = Len(probes) + 1 BY <1>3, <1>7
  <2> QED BY <1>3, <1>5, <1>7, <2>1
<1> QED BY <1>1, <1>2, <1>3, <1>7, <1>8, ScriptGoesOn

LEMMA ScriptActsStep == CellInv /\ ScriptActs => CellInv'
<1> SUFFICES ASSUME CellInv, ScriptActs PROVE CellInv' OBVIOUS
<1>1. /\ phase = "act" /\ phase' = "check" /\ PageCounts
      /\ UNCHANGED <<job, at, heal, passed, redo, events, probes>>
  BY DEF ScriptActs, Goto
<1>2. phase \in Scripted /\ phase' \in Scripted BY <1>1 DEF Scripted
<1>3. /\ probes \in Seq(Noted) /\ counted \in Nat /\ \A i \in DOMAIN probes : ~probes[i].restoring
  BY <1>2, ScriptFacts
<1>4. counted' \in Nat BY <1>1, <1>3, CountsAreNumbers
<1> QED BY <1>1, <1>2, <1>3, <1>4, ScriptGoesOn

LEMMA ScriptRefusedStep == CellInv /\ ScriptRefused => CellInv'
<1> SUFFICES ASSUME CellInv, ScriptRefused PROVE CellInv' OBVIOUS
<1>1. /\ phase = "act" /\ phase' = "observe"
      /\ UNCHANGED <<job, at, heal, passed, redo, events, probes, counted>>
  BY DEF ScriptRefused, ScriptEnds, Goto
<1>2. phase \in Scripted BY <1>1 DEF Scripted
<1> QED BY <1>1, <1>2, ScriptFacts, ScriptGoesOn

LEMMA ScriptChecksStep == CellInv /\ ScriptChecks => CellInv'
<1> SUFFICES ASSUME CellInv, ScriptChecks PROVE CellInv' OBVIOUS
<1>1. /\ phase = "check" /\ phase' = "observe"
      /\ UNCHANGED <<job, at, heal, passed, redo, events, counted>>
      /\ \/ probes' = Saying("passed") \/ probes' = Saying("failed") \/ probes' = probes
  BY DEF ScriptChecks, ScriptEnds, Goto
<1>2. phase \in Scripted BY <1>1 DEF Scripted
<1>3. /\ probes \in Seq(Noted) /\ counted \in Nat /\ \A i \in DOMAIN probes : ~probes[i].restoring
  BY <1>2, ScriptFacts
<1>4. "passed" \in Verdicts /\ "failed" \in Verdicts BY DEF Verdicts
<1>5. probes' \in Seq(Noted) /\ \A i \in DOMAIN probes' : ~probes'[i].restoring
  BY <1>1, <1>3, <1>4, SayingFacts
<1> QED BY <1>1, <1>2, <1>3, <1>5, ScriptGoesOn

LEMMA ScoresStep == CellInv /\ Scores => CellInv'
<1> SUFFICES ASSUME CellInv, Scores PROVE CellInv' OBVIOUS
<1>1. /\ phase' \in Between /\ UNCHANGED <<job, at>>
      /\ heal' = NoHeal /\ passed' = 0 /\ redo' = 0
      /\ events' = <<>> /\ probes' = <<>> /\ counted' = 0
  BY DEF Scores, FreshStep, Between
<1>2. heal' \in [rung : Nat, used : Nat, healing : BOOLEAN] /\ heal'.rung = 0
  BY <1>1 DEF NoHeal
<1>3. <<>> \in Seq(Emissions) /\ <<>> \in Seq(Noted') OBVIOUS
<1>4. CellTypes' BY <1>1, <1>2, <1>3 DEF CellInv, CellTypes
<1>5. LadderInv'
  <2>1. ~Restoring(<<>>, Len(<<>>)) BY DEF Restoring
  <2>2. phase' \notin {"resolve", "send", "restore", "replay", "sent", "verify"}
    BY <1>1 DEF Between
  <2> QED BY <1>1, <1>2, <2>1, <2>2, NoActions DEF LadderInv
<1>6. ScriptInv' BY <1>1 DEF ScriptInv
<1> QED BY <1>4, <1>5, <1>6 DEF CellInv

LEMMA CellInvInit == CellInit => CellInv
<1> SUFFICES ASSUME CellInit PROVE CellInv OBVIOUS
<1>1. /\ job \in Jobs /\ at = 0 /\ phase = "next" /\ heal = NoHeal /\ passed = 0 /\ redo = 0
      /\ events = <<>> /\ probes = <<>> /\ counted = 0
  BY DEF CellInit
<1>2. heal \in [rung : Nat, used : Nat, healing : BOOLEAN] /\ heal.rung = 0
  BY <1>1 DEF NoHeal
<1>3. <<>> \in Seq(Emissions) /\ <<>> \in Seq(Noted) OBVIOUS
<1>4. Len(job.steps) \in Nat
  <2>1. job.steps \in Seq(ToSet(job.steps)) BY <1>1, JobsAssumption DEF IsCell
  <2> QED BY <2>1
<1>5. CellTypes BY <1>1, <1>2, <1>3, <1>4 DEF CellTypes, Between
<1>6. LadderInv
  <2>1. ~Restoring(<<>>, Len(<<>>)) BY DEF Restoring
  <2> QED BY <1>1, <1>2, <2>1, NoActions DEF LadderInv, Between
<1>7. ScriptInv BY <1>1 DEF ScriptInv
<1> QED BY <1>5, <1>6, <1>7 DEF CellInv

LEMMA CellInvStep == CellInv /\ [CellNext]_cellVars => CellInv'
<1> SUFFICES ASSUME CellInv, [CellNext]_cellVars PROVE CellInv' OBVIOUS
<1>1. CASE UNCHANGED cellVars
  <2>1. UNCHANGED <<job, at, phase, heal, passed, redo, events, probes, counted>>
    BY <1>1 DEF cellVars
  <2>2. Noted' = Noted /\ Step' = Step BY <2>1, SameCell
  <2>3. CellTypes' BY <2>1, <2>2 DEF CellInv, CellTypes
  <2>4. LadderInv' BY <2>1, <2>2 DEF CellInv, LadderInv
  <2>5. ScriptInv' BY <2>1 DEF CellInv, ScriptInv
  <2> QED BY <2>3, <2>4, <2>5 DEF CellInv
<1>2. CASE CellNext
  BY <1>2, BeginStep, ResolvedStep, NotHealableStep, HealableStep, HealsStep, BlockedStep,
     AbstainsStep, SendsStep, NotActedStep, PerformedStep, PageProblemStep, CheckPassesStep,
     CheckFailsStep, SucceedsStep, NotRecoveredStep, ClearsStep, ReplaysStep, NotRestoredStep,
     RestoredStep, TimesOutStep, TimesOutBetweenStep, LoadsStep, NotLocatedStep, LocatesStep,
     ScriptActsStep, ScriptRefusedStep, ScriptChecksStep, ScoresStep, Zenon
     DEF CellNext
<1> QED BY <1>1, <1>2

LEMMA RecordIsTrue ==
  ASSUME CellInv, job.system = "ladder", NEW i \in DOMAIN probes
  PROVE  /\ Records[i].restoring <=> probes[i].restoring
         /\ ~probes[i].restoring => /\ Records[i].resolution = probes[i].rung
                                    /\ Records[i].verdict = probes[i].said
<1> DEFINE p == probes[i]
<1>1. /\ events \in Seq(Emissions) /\ probes \in Seq(Noted) /\ Sent(p, events)
      /\ ~p.restoring => Closed(p, events) \/ Open(p, events)
  BY DEF CellInv, CellTypes, LadderInv, SentAll, Answered
<1>2. p \in Noted /\ p.at \in Nat /\ p.restoring \in BOOLEAN BY <1>1, NotedAt, NotedIs
<1>3. Records[i] = Record(p, Step.key, events, EarlierKeys) BY DEF Records
<1>4. /\ Records[i].restoring = Restoring(events, p.at)
      /\ Records[i].resolution = Resolution(events, p.at)
      /\ ~Restoring(events, p.at) => Records[i].verdict = Verdict(events, p.at)
  BY <1>3 DEF Record
<1>5. p.restoring <=> Restoring(events, p.at) BY <1>1 DEF Sent
<1> HIDE DEF p
<1>6. ASSUME ~p.restoring
      PROVE  Resolution(events, p.at) = p.rung /\ Verdict(events, p.at) = p.said
  <2>1. p.at \in 1..Len(events) /\ events[p.at].kind = "target_resolved"
        /\ events[p.at].rung = p.rung
    BY <1>1, <1>2, <1>6 DEF Sent
  <2>2. Resolution(events, p.at) = p.rung BY <1>1, <2>1, ResolutionIs
  <2>3. Verdict(events, p.at) = p.said BY <1>1, <1>2, <1>6, <2>1, VerdictIs
  <2> QED BY <2>2, <2>3
<1> QED BY <1>4, <1>5, <1>6 DEF p

\* For every workflow, ground truth, ladder and limit: what the events around
\* each action of a step say of it afterwards is what was so when it was sent
\* (observe.py).
THEOREM BenchmarkRecordsAreTrue == CellSpec => []RecordsAreTrue
<1>1. CellInit => CellInv BY CellInvInit
<1>2. CellInv /\ [CellNext]_cellVars => CellInv' BY CellInvStep
<1>3. CellInv => RecordsAreTrue
  <2> SUFFICES ASSUME CellInv, job.system = "ladder", NEW i \in DOMAIN probes
               PROVE  /\ Records[i].restoring = probes[i].restoring
                      /\ ~probes[i].restoring => /\ Records[i].resolution = probes[i].rung
                                                 /\ Records[i].verdict = probes[i].said
    BY DEF RecordsAreTrue
  <2>1. probes[i].restoring \in BOOLEAN
    <3>1. probes \in Seq(Noted) BY DEF CellInv, CellTypes
    <3> QED BY <3>1, NotedAt, NotedIs
  <2>2. Records[i].restoring \in BOOLEAN
    <3>1. Records[i].restoring = Restoring(events, probes[i].at) BY DEF Records, Record
    <3> QED BY <3>1 DEF Restoring
  <2> QED BY <2>1, <2>2, RecordIsTrue
<1> QED BY <1>1, <1>2, <1>3, PTL DEF CellSpec
-----------------------------------------------------------------------------
(* The class of a step.                                                    *)

\* What a scored step must be for the metrics to add up.
IsCoherent(outcome) ==
  /\ IsExplained(outcome) /\ outcome.wrong \in {"no", "false_success", "caught"}
  /\ IsCorrect(outcome) => (outcome.class = "healed_correct" <=> outcome.rung # 0)
  /\ outcome.class = "healed_correct" => ~outcome.abstain /\ outcome.laddered

LEMMA Unacted ==
  ASSUME NEW truth, NEW o, o.actions = <<>>
  PROVE  WrongRecords(truth, o.actions) = {} /\ ~Unknown(o) /\ Own(o.actions) = {}
BY DEF WrongRecords, Unknown, Own

\* What each class says of the step.
LEMMA ClassSays ==
  ASSUME NEW truth, NEW o, o.counted \in Nat
  PROVE  LET class == ClassOf(truth, o)
             wrong == WrongRecords(truth, o.actions)
         IN
         /\ class \in {"healed_wrong", "direct_wrong"} <=> wrong # {} \/ o.counted > 0
         /\ class = "ground_truth_unknown" <=> Unknown(o) /\ wrong = {} /\ o.counted = 0
         /\ class \in {"healed_correct", "direct_correct"} =>
              /\ wrong = {} /\ ~Unknown(o) /\ ~truth.abstain /\ Own(o.actions) # {}
              /\ class = "healed_correct" <=> LastOwn(o.actions).resolution # 0
<1> DEFINE class == ClassOf(truth, o)
           wrong == WrongRecords(truth, o.actions)
           other == NonWrongClass(truth, o)
<1>1. other \in {"approval_requested", "healed_correct", "direct_correct", "abstained_correct",
                 "abstained_unnecessary", "failed"}
  BY DEF NonWrongClass
<1>2. other \in {"healed_correct", "direct_correct"} =>
        /\ ~truth.abstain /\ Own(o.actions) # {}
        /\ other = "healed_correct" <=> LastOwn(o.actions).resolution # 0
  BY DEF NonWrongClass
<1>3. CASE o.stop = "not_reached" /\ o.actions = <<>> /\ o.counted = 0
  <2>1. wrong = {} /\ ~Unknown(o) BY <1>3, Unacted
  <2>2. class = "not_reached" BY <1>3 DEF ClassOf
  <2> QED BY <1>3, <2>1, <2>2
<1>4. CASE ~(o.stop = "not_reached" /\ o.actions = <<>> /\ o.counted = 0) /\ wrong # {}
  <2>1. class \in {"healed_wrong", "direct_wrong"} BY <1>4 DEF ClassOf
  <2> QED BY <1>4, <2>1
<1>5. CASE /\ ~(o.stop = "not_reached" /\ o.actions = <<>> /\ o.counted = 0)
           /\ wrong = {} /\ o.counted > 0
  <2>1. class = "direct_wrong" BY <1>5 DEF ClassOf
  <2> QED BY <1>5, <2>1
<1>6. CASE /\ ~(o.stop = "not_reached" /\ o.actions = <<>> /\ o.counted = 0)
           /\ wrong = {} /\ o.counted = 0 /\ Unknown(o)
  <2>1. class = "ground_truth_unknown" BY <1>6 DEF ClassOf
  <2> QED BY <1>6, <2>1
<1>7. CASE /\ ~(o.stop = "not_reached" /\ o.actions = <<>> /\ o.counted = 0)
           /\ wrong = {} /\ o.counted = 0 /\ ~Unknown(o)
  <2>1. class = other BY <1>7 DEF ClassOf
  <2> HIDE DEF class, other, wrong
  <2> QED BY <1>1, <1>2, <1>7, <2>1 DEF class, wrong
<1>8. o.counted > 0 \/ o.counted = 0 OBVIOUS
<1> QED BY <1>3, <1>4, <1>5, <1>6, <1>7, <1>8

LEMMA ClassifySays ==
  ASSUME NEW truth, NEW o, o.counted \in Nat
  PROVE  LET outcome == Classify(truth, o) IN
         /\ outcome.class = ClassOf(truth, o)
         /\ IsExplained(outcome) /\ outcome.wrong \in {"no", "false_success", "caught"}
         /\ IsWrongClass(outcome) <=> WrongRecords(truth, o.actions) # {} \/ o.counted > 0
         /\ IsCorrect(outcome) =>
              /\ WrongRecords(truth, o.actions) = {} /\ ~Unknown(o) /\ ~truth.abstain
              /\ Own(o.actions) # {} /\ outcome.rung = LastOwn(o.actions).resolution
              /\ outcome.class = "healed_correct" <=> LastOwn(o.actions).resolution # 0
         /\ outcome.abstain = truth.abstain /\ outcome.laddered = o.laddered
<1> DEFINE outcome == Classify(truth, o)
           class == ClassOf(truth, o)
           wrong == WrongRecords(truth, o.actions)
<1>1. /\ outcome.class = class
      /\ outcome.wrong \in {"no", "false_success", "caught"}
      /\ outcome.wrong # "no" <=> class \in {"healed_wrong", "direct_wrong"}
      /\ wrong = {} /\ class \in {"healed_correct", "direct_correct"} =>
           outcome.rung = LastOwn(o.actions).resolution
      /\ outcome.abstain = truth.abstain /\ outcome.laddered = o.laddered
      /\ outcome.acted <=> wrong # {} \/ o.counted > 0
      /\ outcome.unknown <=> Unknown(o)
  BY DEF Classify
<1> HIDE DEF outcome
<1>2. /\ class \in {"healed_wrong", "direct_wrong"} <=> wrong # {} \/ o.counted > 0
      /\ class = "ground_truth_unknown" <=> Unknown(o) /\ wrong = {} /\ o.counted = 0
      /\ class \in {"healed_correct", "direct_correct"} =>
           /\ wrong = {} /\ ~Unknown(o) /\ ~truth.abstain /\ Own(o.actions) # {}
           /\ class = "healed_correct" <=> LastOwn(o.actions).resolution # 0
  BY ClassSays
<1> HIDE DEF class, wrong
<1>3. IsWrongClass(outcome) <=> class \in {"healed_wrong", "direct_wrong"}
  BY <1>1 DEF IsWrongClass
<1>4. IsExplained(outcome)
  <2>1. IsWrongClass(outcome) <=> outcome.wrong # "no" BY <1>1, <1>3
  <2>2. outcome.acted => IsWrongClass(outcome) BY <1>1, <1>2, <1>3
  <2>3. outcome.class = "ground_truth_unknown" <=> outcome.unknown /\ ~IsWrongClass(outcome)
    <3>1. o.counted > 0 \/ o.counted = 0 OBVIOUS
    <3> QED BY <1>1, <1>2, <1>3, <3>1
  <2> QED BY <2>1, <2>2, <2>3 DEF IsExplained
<1>5. IsCorrect(outcome) <=> class \in {"healed_correct", "direct_correct"}
  BY <1>1 DEF IsCorrect
<1>6. IsCorrect(outcome) =>
        /\ wrong = {} /\ ~Unknown(o) /\ ~truth.abstain
        /\ Own(o.actions) # {} /\ outcome.rung = LastOwn(o.actions).resolution
        /\ outcome.class = "healed_correct" <=> LastOwn(o.actions).resolution # 0
  BY <1>1, <1>2, <1>5
<1> QED BY <1>1, <1>2, <1>3, <1>4, <1>6 DEF outcome, class, wrong

\* A step the run did not reach.
LEMMA NotReachedSays ==
  ASSUME NEW i
  PROVE  /\ NotReached(i).class = "not_reached" /\ ~IsWrongClass(NotReached(i))
         /\ ~IsCorrect(NotReached(i)) /\ IsCoherent(NotReached(i))
<1> DEFINE truth == job.truths[job.steps[i].key]
           o == [stop |-> "not_reached", reason |-> "", actions |-> <<>>, available |-> FALSE,
                 counted |-> 0, laddered |-> FALSE]
<1>1. NotReached(i) = Classify(truth, o) BY DEF NotReached
<1>2. o.counted \in Nat /\ o.stop = "not_reached" /\ o.actions = <<>> /\ o.counted = 0 OBVIOUS
<1>3. ClassOf(truth, o) = "not_reached" BY <1>2 DEF ClassOf
<1> HIDE DEF o, truth
<1>4. /\ NotReached(i).class = ClassOf(truth, o)
      /\ IsExplained(NotReached(i)) /\ NotReached(i).wrong \in {"no", "false_success", "caught"}
  BY <1>1, <1>2, ClassifySays
<1> QED BY <1>3, <1>4 DEF IsWrongClass, IsCorrect, IsCoherent
-----------------------------------------------------------------------------
(* What was true of a step's actions, and what its class says.             *)

\* What an action is noted to be follows from its element and what of it
\* could be named.
Keyed(p) ==
  /\ p.keys = IF "matched" \in p.named THEN {p.elem} \cap Keys ELSE {}
  /\ p.known <=> job.system = "script" \/ "known" \in p.named
  /\ job.suite = "portal" => p.named = {"matched", "known"}

KeyedInv == \A i \in DOMAIN probes : Keyed(probes[i])

LEMMA ProbesChange ==
  ASSUME CellInv, CellNext
  PROVE  /\ job' = job
         /\ \/ probes' = probes \/ probes' = <<>>
            \/ \E verdict \in Verdicts : probes' = Saying(verdict)
            \/ \E restoring \in BOOLEAN : Notes(restoring)
<1>1. "passed" \in Verdicts /\ "failed" \in Verdicts /\ TRUE \in BOOLEAN /\ FALSE \in BOOLEAN
  BY DEF Verdicts
<1>2. CASE Begin \/ Resolved \/ NotHealable \/ Healable \/ Heals \/ Blocked \/ Abstains
  BY <1>2 DEF Begin, Resolved, NotHealable, Healable, Heals, Blocked, Abstains, stepVars
<1>3. CASE Sends \/ Locates BY <1>1, <1>3, Zenon DEF Sends, Locates
<1>4. CASE NotActed \/ Performed \/ PageProblem BY <1>4 DEF NotActed, Performed, PageProblem
<1>5. CASE CheckPasses \/ CheckFails BY <1>1, <1>5, Zenon DEF CheckPasses, CheckFails
<1>6. CASE Succeeds BY <1>1, <1>6, Zenon DEF Succeeds
<1>7. CASE NotRecovered \/ NotRestored \/ Restored \/ TimesOut \/ TimesOutBetween
  BY <1>7 DEF NotRecovered, NotRestored, Restored, TimesOut, TimesOutBetween, stepVars
<1>8. CASE Clears \/ Replays BY <1>1, <1>8, Zenon DEF Clears, Replays, Redoes
<1>9. CASE Loads \/ NotLocated \/ ScriptActs \/ ScriptRefused
  BY <1>9 DEF Loads, NotLocated, ScriptActs, ScriptRefused
<1>10. CASE ScriptChecks BY <1>1, <1>10, Zenon DEF ScriptChecks
<1>11. CASE Scores BY <1>11 DEF Scores, FreshStep
<1> QED BY <1>2, <1>3, <1>4, <1>5, <1>6, <1>7, <1>8, <1>9, <1>10, <1>11, Zenon DEF CellNext

LEMMA ProbeIsKeyed ==
  ASSUME job \in Jobs, NEW elem \in Keys \cup {Elsewhere}, NEW named \in Answering, NEW restoring
  PROVE  Keyed(Probe(elem, named, restoring))
<1> DEFINE p == Probe(elem, named, restoring)
<1>1. /\ p.keys = IF "matched" \in named THEN {elem} \cap Keys ELSE {}
      /\ p.known <=> Questions \cap {"known"} \subseteq named
      /\ p.elem = elem /\ p.named = named
  BY DEF Probe
<1>2. job.system \in {"ladder", "script"} BY JobsAssumption DEF IsCell
<1>3. Questions \cap {"known"} = IF job.system = "script" THEN {} ELSE {"known"}
  BY DEF Questions
<1>4. job.suite = "portal" => named = {"matched", "known"} BY DEF Answering
<1> HIDE DEF p
<1> QED BY <1>1, <1>2, <1>3, <1>4 DEF Keyed, p

LEMMA KeyedStep == CellInv /\ KeyedInv /\ [CellNext]_cellVars => KeyedInv'
<1> SUFFICES ASSUME CellInv, KeyedInv, [CellNext]_cellVars PROVE KeyedInv' OBVIOUS
<1>1. job \in Jobs /\ probes \in Seq(Noted) BY DEF CellInv, CellTypes
<1>2. job' = job /\ (\/ probes' = probes \/ probes' = <<>>
                     \/ \E verdict \in Verdicts : probes' = Saying(verdict)
                     \/ \E restoring \in BOOLEAN : Notes(restoring))
  <2>1. CASE CellNext BY <2>1, ProbesChange
  <2>2. CASE UNCHANGED cellVars BY <2>2 DEF cellVars
  <2> QED BY <2>1, <2>2
<1>3. Keys' = Keys BY <1>2 DEF Keys
<1>4. SUFFICES ASSUME NEW i \in DOMAIN probes' PROVE Keyed(probes'[i])
  BY <1>2, <1>3 DEF KeyedInv, Keyed
<1>5. CASE probes' = probes BY <1>5 DEF KeyedInv
<1>6. CASE probes' = <<>> BY <1>6
<1>7. CASE \E verdict \in Verdicts : probes' = Saying(verdict)
  <2>1. PICK verdict \in Verdicts : probes' = Saying(verdict) BY <1>7
  <2>2. CASE probes = <<>> \/ ~Step.element
    <3>1. probes' = probes BY <2>1, <2>2 DEF Saying
    <3> QED BY <3>1 DEF KeyedInv
  <2>3. CASE probes # <<>> /\ Step.element
    <3> DEFINE n == Len(probes)
               qs == Told(probes, verdict)
    <3>1. /\ qs \in Seq(Noted) /\ Len(qs) = n /\ n \in DOMAIN probes
          /\ \A k \in 1..(n - 1) : qs[k] = probes[k]
          /\ qs[n] = [probes[n] EXCEPT !.said = verdict]
      BY <1>1, <2>3, ToldFacts
    <3>2. probes' = qs BY <2>1, <2>3 DEF Saying, Told
    <3> HIDE DEF qs
    <3>3. i \in DOMAIN probes /\ (i \in 1..(n - 1) \/ i = n) BY <3>1, <3>2
    <3>4. qs[i].keys = probes[i].keys /\ qs[i].known = probes[i].known
          /\ qs[i].elem = probes[i].elem /\ qs[i].named = probes[i].named
      <4>1. CASE i \in 1..(n - 1) BY <3>1, <4>1
      <4>2. CASE i = n
        <5>1. probes[n] \in Noted BY <1>1, <3>1, NotedAt
        <5>2. LET q == [probes[n] EXCEPT !.said = verdict] IN
              /\ q.keys = probes[n].keys /\ q.known = probes[n].known
              /\ q.elem = probes[n].elem /\ q.named = probes[n].named
          BY <5>1 DEF Noted
        <5> QED BY <3>1, <4>2, <5>2
      <4> QED BY <3>3, <4>1, <4>2
    <3>5. Keyed(probes[i]) BY <3>3 DEF KeyedInv
    <3> DEFINE a == qs[i]
               b == probes[i]
    <3>6. a.keys = b.keys /\ a.known = b.known /\ a.elem = b.elem /\ a.named = b.named BY <3>4
    <3>7. Keyed(b) BY <3>5
    <3> HIDE DEF a, b
    <3>8. Keyed(a) BY <3>6, <3>7, Zenon DEF Keyed
    <3> QED BY <3>2, <3>8 DEF a
  <2> QED BY <2>2, <2>3
<1>8. CASE \E restoring \in BOOLEAN : Notes(restoring)
  <2>1. PICK restoring \in BOOLEAN, elem \in Keys \cup {Elsewhere}, named \in Answering :
          probes' = Append(probes, Probe(elem, named, restoring))
    BY <1>8 DEF Notes
  <2> DEFINE p == Probe(elem, named, restoring)
  <2>2. p \in Noted BY ProbeIs DEF CellInv
  <2>3. Keyed(p) BY <1>1, ProbeIsKeyed
  <2> HIDE DEF p
  <2>4. probes' = Append(probes, p) BY <2>1 DEF p
  <2>5. /\ Len(probes') = Len(probes) + 1 /\ DOMAIN probes' = 1..(Len(probes) + 1)
        /\ probes'[Len(probes) + 1] = p /\ \A k \in 1..Len(probes) : probes'[k] = probes[k]
    BY <1>1, <2>2, <2>4, AppendIs
  <2>6. i \in DOMAIN probes \/ i = Len(probes) + 1 BY <1>1, <2>5
  <2> QED BY <1>1, <2>3, <2>5, <2>6 DEF KeyedInv
<1> QED BY <1>2, <1>5, <1>6, <1>7, <1>8

\* The element was one it should be.
Meant(p) == IF p.restoring THEN p.elem \in EarlierKeys ELSE p.elem = Step.key

LEMMA TargetIs ==
  ASSUME NEW matched, NEW known
  PROVE  /\ TargetMatch(matched, known) = "on_target" <=> matched
         /\ TargetMatch(matched, known) = "off_target" <=> ~matched /\ known
         /\ TargetMatch(matched, known) = "unknown" <=> ~matched /\ ~known
BY DEF TargetMatch

\* What an action is told to have been.
LEMMA RecordTells ==
  ASSUME CellInv, KeyedInv, phase = "observe", Step.key # NoKey, NEW i \in DOMAIN Records
  PROVE  LET p == probes[i]
             matched == "matched" \in p.named /\ Meant(p)
         IN
         /\ i \in DOMAIN probes
         /\ Records[i].restoring <=> p.restoring
         /\ Records[i].target = "on_target" <=> matched
         /\ Records[i].target = "off_target" <=> ~matched /\ p.known
         /\ Records[i].target = "unknown" <=> ~matched /\ ~p.known
<1> DEFINE p == probes[i]
           matched == "matched" \in p.named /\ Meant(p)
<1>1. job.system \in {"ladder", "script"} BY SystemOf DEF CellInv
<1>2. i \in DOMAIN probes BY <1>1 DEF Records, ScriptRecords
<1>3. Keyed(p) BY <1>2 DEF KeyedInv
<1>4. Step.key \in Keys /\ EarlierKeys \subseteq Keys
  <2>1. job \in Jobs /\ at \in 0..Len(job.steps) /\ at > 0
    BY DEF CellInv, CellTypes, Between
  <2>2. job.steps \in Seq(ToSet(job.steps)) BY <2>1, JobsAssumption DEF IsCell
  <2>3. DOMAIN job.steps = 1..Len(job.steps) /\ Len(job.steps) \in Nat BY <2>2
  <2>4. at \in DOMAIN job.steps /\ 1..at \subseteq DOMAIN job.steps BY <2>1, <2>3
  <2> QED BY <2>4 DEF Step, Keys, EarlierKeys
<1>5. /\ Step.key \in p.keys <=> "matched" \in p.named /\ p.elem = Step.key
      /\ p.keys \cap EarlierKeys # {} <=> "matched" \in p.named /\ p.elem \in EarlierKeys
  BY <1>3, <1>4 DEF Keyed
<1>6. CASE job.system = "ladder"
  <2>1. Records[i].restoring <=> p.restoring BY <1>2, <1>6, RecordIsTrue
  <2>2. Records[i] = Record(p, Step.key, events, EarlierKeys)
        /\ Records[i].restoring = Restoring(events, p.at)
    BY <1>2, <1>6 DEF Records, Record
  <2>3. Records[i].target =
          TargetMatch(IF p.restoring THEN p.keys \cap EarlierKeys # {} ELSE Step.key \in p.keys,
                      p.known)
    <3>1. Records[i].target =
            TargetMatch(IF Restoring(events, p.at) THEN p.keys \cap EarlierKeys # {}
                        ELSE Step.key \in p.keys, p.known)
      BY <2>2 DEF Record
    <3>2. Restoring(events, p.at) <=> p.restoring BY <2>1, <2>2
    <3> QED BY <3>1, <3>2
  <2>4. (IF p.restoring THEN p.keys \cap EarlierKeys # {} ELSE Step.key \in p.keys) <=> matched
    BY <1>5 DEF Meant
  <2> DEFINE m == IF p.restoring THEN p.keys \cap EarlierKeys # {} ELSE Step.key \in p.keys
             target == TargetMatch(m, p.known)
  <2>6. Records[i].target = target BY <2>3
  <2> HIDE DEF m
  <2>5. /\ target = "on_target" <=> m
        /\ target = "off_target" <=> ~m /\ p.known
        /\ target = "unknown" <=> ~m /\ ~p.known
    BY DEF TargetMatch
  <2> HIDE DEF target
  <2>7. m <=> matched BY <2>4 DEF m
  <2> HIDE DEF matched
  <2> QED BY <1>2, <2>1, <2>5, <2>6, <2>7 DEF matched
<1>7. CASE job.system = "script"
  <2>1. /\ ~p.restoring /\ ~Records[i].restoring
        /\ Records[i].target = TargetMatch(Step.key \in p.keys, p.known)
    BY <1>2, <1>7 DEF CellInv, ScriptInv, Records, ScriptRecords
  <2>2. Step.key \in p.keys <=> matched BY <1>5, <2>1 DEF Meant
  <2> QED BY <1>2, <2>1, <2>2, TargetIs
<1> QED BY <1>1, <1>6, <1>7
-----------------------------------------------------------------------------
(* A scored step.                                                          *)

\* The greatest of a set of the numbers up to another is one of them.
LEMMA GreatestIn ==
  ASSUME NEW bound \in Nat, NEW T \in SUBSET (1..bound), T # {}
  PROVE  Max(T) \in T
<1> DEFINE above == {n \in Nat : \A m \in T : n >= m}
<1>1. above # {} /\ above \in SUBSET Nat
  BY bound \in above
<1>2. PICK n \in above : \A m \in above : n <= m BY <1>1, LeastNumber
<1>3. n \in T
  <2>1. CASE n = 0
    <3>1. PICK m \in T : TRUE OBVIOUS
    <3> QED BY <1>2, <2>1, <3>1
  <2>2. CASE n # 0
    <3>1. n - 1 \in Nat /\ n - 1 \notin above BY <1>2, <2>2
    <3>2. PICK m \in T : ~(n - 1 >= m) BY <3>1
    <3> QED BY <1>2, <3>1, <3>2
  <2> QED BY <2>1, <2>2
<1> QED BY <1>2, <1>3 DEF Max

\* The class of a step says what was true of its actions.
OutcomeIsTrue(o) ==
  /\ IsCoherent(o.scored)
  /\ job.system = "ladder" /\ o.facts.wrong /\ (o.facts.seen \/ job.suite = "portal") =>
       IsWrongClass(o.scored)
  /\ job.system = "ladder" /\ job.suite = "portal" /\ IsWrongClass(o.scored) => o.facts.wrong
  /\ IsCorrect(o.scored) => o.facts.expected /\ o.facts.right

LEMMA ScoredStep ==
  ASSUME CellInv, phase = "observe", Step.key # NoKey
  PROVE  job.truths[Step.key].abstain \in BOOLEAN /\ counted \in Nat
<1>1. job \in Jobs /\ at \in 0..Len(job.steps) /\ at > 0 /\ counted \in Nat
  BY DEF CellInv, CellTypes, Between
<1>2. job.steps \in Seq(ToSet(job.steps)) BY <1>1, JobsAssumption DEF IsCell
<1>3. at \in DOMAIN job.steps BY <1>1, <1>2
<1> QED BY <1>1, <1>3, JobsAssumption DEF IsCell, Step

\* What of it is observed.
LEMMA ObservedIs ==
  ASSUME counted \in Nat
  PROVE  /\ Observation.actions = Records /\ Observation.counted \in Nat
         /\ job.system = "ladder" => Observation.counted = counted
         /\ Laddered(events) => Observation.laddered
<1>1. Observation.actions = Records
      /\ Observation.counted = (IF job.system = "script" /\ Records = <<>> THEN 0 ELSE counted)
      /\ Observation.laddered = \E e \in ToSet(events) : e.kind = "heal_attempted" /\ e.rung > 0
  BY DEF Observation
<1>2. Laddered(events) => \E e \in ToSet(events) : e.kind = "heal_attempted" /\ e.rung > 0
  BY DEF Laddered, ToSet
<1> QED BY <1>1, <1>2

\* A record is wrong if its element was seen to be none it should be.
LEMMA WrongRecordIs ==
  ASSUME CellInv, KeyedInv, phase = "observe", Step.key # NoKey, NEW i \in DOMAIN Records
  PROVE  LET p == probes[i] IN
         /\ i \in WrongRecords(job.truths[Step.key], Records) => IsWrong(p)
                                                                \/ "matched" \notin p.named
         /\ IsWrong(p) /\ p.known => i \in WrongRecords(job.truths[Step.key], Records)
<1> DEFINE p == probes[i]
           truth == job.truths[Step.key]
           meant == Meant(p)
           matched == "matched" \in p.named /\ meant
<1>1. /\ Records[i].restoring <=> p.restoring
      /\ Records[i].target = "off_target" <=> ~matched /\ p.known
  BY RecordTells
<1>2. i \in WrongRecords(truth, Records) <=>
        Records[i].target = "off_target" \/ (truth.abstain /\ ~Records[i].restoring)
  BY DEF WrongRecords
<1>3. IsWrong(p) <=> (truth.abstain /\ ~p.restoring) \/ ~meant
  BY DEF IsWrong, Meant
<1> HIDE DEF truth, meant, p
<1> QED BY <1>1, <1>2, <1>3 DEF p, truth

\* The facts of a step, action by action.
LEMMA FactsAre ==
  /\ Facts.wrong <=> counted > 0 \/ \E i \in DOMAIN probes : IsWrong(probes[i])
  /\ Facts.seen <=> \E i \in DOMAIN probes : IsWrong(probes[i]) /\ "known" \in probes[i].named
  /\ Facts.expected <=> ~job.truths[Step.key].abstain
  /\ Facts.right <=> /\ \E i \in DOMAIN probes : ~probes[i].restoring
                     /\ \A i \in DOMAIN probes : ~IsWrong(probes[i]) /\ "matched" \in probes[i].named
<1>1. Facts.wrong = (counted > 0 \/ \E p \in ToSet(probes) : IsWrong(p)) BY DEF Facts
<1>2. Facts.seen = \E p \in ToSet(probes) : IsWrong(p) /\ "known" \in p.named BY DEF Facts
<1>3. Facts.expected = ~job.truths[Step.key].abstain BY DEF Facts
<1>4. Facts.right = (/\ \E p \in ToSet(probes) : ~p.restoring
                     /\ \A p \in ToSet(probes) : ~IsWrong(p) /\ "matched" \in p.named)
  BY DEF Facts
<1>5. ToSet(probes) = {probes[i] : i \in DOMAIN probes} BY DEF ToSet
<1> QED BY <1>1, <1>2, <1>3, <1>4, <1>5

LEMMA WrongIsSeen ==
  ASSUME CellInv, KeyedInv, phase = "observe", Step.key # NoKey, job.system = "ladder",
         NEW wrong, wrong = WrongRecords(job.truths[Step.key], Records)
  PROVE  /\ Facts.wrong /\ (Facts.seen \/ job.suite = "portal") => wrong # {} \/ counted > 0
         /\ job.suite = "portal" /\ (wrong # {} \/ counted > 0) => Facts.wrong
<1>1. DOMAIN Records = DOMAIN probes BY DEF Records
<1>2. \A i \in DOMAIN probes :
        /\ i \in wrong => IsWrong(probes[i]) \/ "matched" \notin probes[i].named
        /\ IsWrong(probes[i]) /\ probes[i].known => i \in wrong
  BY <1>1, WrongRecordIs
<1>3. wrong \subseteq DOMAIN probes BY <1>1 DEF WrongRecords
<1>4. \A i \in DOMAIN probes :
        /\ probes[i].known <=> "known" \in probes[i].named
        /\ job.suite = "portal" => "matched" \in probes[i].named /\ "known" \in probes[i].named
  BY DEF KeyedInv, Keyed
<1>5. ASSUME Facts.wrong, Facts.seen \/ job.suite = "portal", ~(counted > 0) PROVE wrong # {}
  <2>1. CASE Facts.seen BY <1>2, <1>4, <2>1, FactsAre
  <2>2. CASE job.suite = "portal" BY <1>2, <1>4, <1>5, <2>2, FactsAre
  <2> QED BY <1>5, <2>1, <2>2
<1>6. ASSUME job.suite = "portal", wrong # {} PROVE Facts.wrong
  BY <1>2, <1>3, <1>4, <1>6, FactsAre
<1>7. counted > 0 => Facts.wrong BY FactsAre
<1> QED BY <1>5, <1>6, <1>7

\* Whatever the system.
LEMMA CorrectIsRight ==
  ASSUME CellInv, KeyedInv, phase = "observe", Step.key # NoKey,
         WrongRecords(job.truths[Step.key], Records) = {}, ~Unknown(Observation),
         ~job.truths[Step.key].abstain, Own(Records) # {}
  PROVE  Facts.expected /\ Facts.right
<1>1. job.system \in {"ladder", "script"} BY SystemOf DEF CellInv
<1>2. counted \in Nat BY ScoredStep
<1>3. PICK own \in DOMAIN Records : ~Records[own].restoring BY DEF Own
<1>4. DOMAIN Records = DOMAIN probes
  <2>1. CASE job.system = "ladder" BY <2>1 DEF Records
  <2>2. CASE job.system = "script"
    <3>1. Records = ScriptRecords BY <2>2 DEF Records
    <3>2. DOMAIN <<>> = {} OBVIOUS
    <3> QED BY <1>3, <3>1, <3>2 DEF ScriptRecords
  <2> QED BY <1>1, <2>1, <2>2
<1>5. ASSUME NEW i \in DOMAIN probes
      PROVE  ~IsWrong(probes[i]) /\ "matched" \in probes[i].named
  <2> DEFINE p == probes[i]
             meant == Meant(p)
             target == Records[i].target
             truth == job.truths[Step.key]
             matched == "matched" \in p.named /\ meant
  <2>1. /\ target = "off_target" <=> ~matched /\ p.known
        /\ target = "unknown" <=> ~matched /\ ~p.known
    BY <1>4, RecordTells
  <2>2. target # "off_target" BY <1>4 DEF WrongRecords
  <2>3. target # "unknown" BY <1>2, <1>4, ObservedIs DEF Unknown
  <2>4. IsWrong(p) <=> (truth.abstain /\ ~p.restoring) \/ ~meant
    BY DEF IsWrong, Meant
  <2>5. ~truth.abstain OBVIOUS
  <2> HIDE DEF p, meant, target, truth
  <2>6. matched BY <2>1, <2>2, <2>3
  <2> QED BY <2>4, <2>5, <2>6 DEF p
<1>6. ~probes[own].restoring BY <1>3, RecordTells
<1> QED BY <1>3, <1>4, <1>5, <1>6, FactsAre

\* A step is only said to be healed if the ladder climbed.
LEMMA HealedIsLaddered ==
  ASSUME CellInv, Own(Records) # {}, LastOwn(Records).resolution # 0
  PROVE  Laddered(events)
<1> DEFINE k == Max(Own(Records))
<1>1. job.system \in {"ladder", "script"} BY SystemOf DEF CellInv
<1>2. probes \in Seq(Noted) /\ Len(probes) \in Nat /\ DOMAIN probes = 1..Len(probes)
  BY DEF CellInv, CellTypes
<1>3. Own(Records) \subseteq DOMAIN probes BY <1>1 DEF Own, Records, ScriptRecords
<1>4. k \in Own(Records) BY <1>2, <1>3, GreatestIn
<1>5. Records[k].resolution # 0 BY DEF LastOwn
<1> HIDE DEF k
<1>6. job.system # "script"
  <2> SUFFICES ASSUME job.system = "script" PROVE FALSE OBVIOUS
  <2>1. k \in DOMAIN Records BY <1>4 DEF Own
  <2>2. Records[k].resolution = 0 BY <2>1 DEF Records, ScriptRecords
  <2> QED BY <1>5, <2>2
<1>7. job.system = "ladder" /\ k \in DOMAIN probes /\ ~Records[k].restoring
  BY <1>1, <1>3, <1>4, <1>6 DEF Own
<1>8. probes[k].rung = Records[k].resolution BY <1>7, RecordIsTrue
<1>9. probes[k].rung \in Nat BY <1>2, <1>7, NotedAt, NotedIs
<1>10. Sent(probes[k], events) BY <1>7 DEF CellInv, LadderInv, SentAll
<1> QED BY <1>5, <1>8, <1>9, <1>10 DEF Sent

LEMMA TrueOutcome ==
  ASSUME CellInv, KeyedInv, phase = "observe", Step.key # NoKey
  PROVE  OutcomeIsTrue([scored |-> Classify(job.truths[Step.key], Observation), facts |-> Facts])
<1> DEFINE truth == job.truths[Step.key]
           s == Classify(truth, Observation)
           wrong == WrongRecords(truth, Records)
<1>1. truth.abstain \in BOOLEAN /\ counted \in Nat BY ScoredStep
<1>2. /\ Observation.actions = Records /\ Observation.counted \in Nat
      /\ job.system = "ladder" => Observation.counted = counted
      /\ Laddered(events) => Observation.laddered
  BY <1>1, ObservedIs
<1>3. /\ IsExplained(s) /\ s.wrong \in {"no", "false_success", "caught"}
      /\ IsWrongClass(s) <=> wrong # {} \/ Observation.counted > 0
      /\ IsCorrect(s) =>
           /\ wrong = {} /\ ~Unknown(Observation) /\ ~truth.abstain
           /\ Own(Records) # {} /\ s.rung = LastOwn(Records).resolution
           /\ s.class = "healed_correct" <=> LastOwn(Records).resolution # 0
      /\ s.abstain = truth.abstain /\ s.laddered = Observation.laddered
  BY <1>2, ClassifySays
<1>4. IsCorrect(s) => Facts.expected /\ Facts.right BY <1>3, CorrectIsRight
<1>5. job.system = "ladder" =>
        /\ Facts.wrong /\ (Facts.seen \/ job.suite = "portal") => wrong # {} \/ counted > 0
        /\ job.suite = "portal" /\ (wrong # {} \/ counted > 0) => Facts.wrong
  BY WrongIsSeen
<1>6. s.class = "healed_correct" => IsCorrect(s) BY DEF IsCorrect
<1>7. IsCorrect(s) /\ s.class = "healed_correct" => Laddered(events)
  BY <1>3, HealedIsLaddered
<1> HIDE DEF s, truth, wrong
<1>8. IsCoherent(s)
  <2>1. IsCorrect(s) => (s.class = "healed_correct" <=> s.rung # 0) BY <1>3
  <2>2. s.class = "healed_correct" => ~s.abstain /\ s.laddered BY <1>2, <1>3, <1>6, <1>7
  <2> QED BY <1>3, <2>1, <2>2 DEF IsCoherent
<1> DEFINE o == [scored |-> s, facts |-> Facts]
<1>9. o.scored = s /\ o.facts = Facts OBVIOUS
<1> HIDE DEF o
<1>10. OutcomeIsTrue(o)
  BY <1>2, <1>3, <1>4, <1>5, <1>8, <1>9 DEF OutcomeIsTrue
<1> QED BY <1>10 DEF o, s, truth
-----------------------------------------------------------------------------
(* How steps end.                                                          *)

Explains(e) == e.stop = "completed" \/ e.reason # ""

LEMMA StopSays ==
  ASSUME NEW status, NEW error, NEW reason, status = "succeeded" \/ error \in Errors
  PROVE  Explains(StopOf(status, error, reason))
<1> DEFINE label == IF reason = "" THEN error ELSE reason
<1>1. status # "succeeded" => label # "" BY DEF Errors
<1> HIDE DEF label
<1>2. StopOf(status, error, reason) =
        IF status = "succeeded" THEN End("completed", "")
        ELSE IF status = "awaiting_approval" THEN End("approval", "approval_required")
        ELSE IF error = "CheckpointFailed" THEN End("checkpoint_failed", label)
        ELSE IF error \in Declining /\ label \notin NotDecisions THEN End("declined", label)
        ELSE End("error", label)
  BY DEF StopOf, label
<1>3. \A stop, why : End(stop, why).stop = stop /\ End(stop, why).reason = why BY DEF End
<1>4. CASE status = "succeeded" BY <1>2, <1>3, <1>4 DEF Explains
<1>5. CASE status # "succeeded" /\ status = "awaiting_approval"
  <2>1. StopOf(status, error, reason) = End("approval", "approval_required") BY <1>2, <1>5
  <2>2. End("approval", "approval_required").reason = "approval_required" BY <1>3
  <2> QED BY <2>1, <2>2 DEF Explains
<1>6. CASE status # "succeeded" /\ status # "awaiting_approval"
  <2>1. StopOf(status, error, reason).reason = label BY <1>2, <1>3, <1>6
  <2> QED BY <1>1, <1>6, <2>1 DEF Explains
<1> QED BY <1>4, <1>5, <1>6

\* A step that ends says why, unless it completed.
LEMMA FinishSays ==
  ASSUME NEW from, NEW status, NEW error, NEW reason, NEW last,
         status = "succeeded" \/ error \in Errors, Finish(from, status, error, reason, last)
  PROVE  phase = from /\ phase' = "observe" /\ Explains(end')
<1> DEFINE stop == StopOf(status, error, reason)
<1>1. phase = from /\ phase' = "observe" /\ \E here : end' = Ended(stop, here)
  BY DEF Finish, Goto
<1>2. Explains(stop) BY StopSays
<1> HIDE DEF stop
<1>3. \A here : Ended(stop, here).stop = stop.stop /\ Ended(stop, here).reason = stop.reason
  BY DEF Ended
<1> QED BY <1>1, <1>2, <1>3 DEF Explains

LEMMA FailsSays ==
  ASSUME NEW from, NEW error \in Errors, NEW reason, NEW last, Fails(from, error, reason, last)
  PROVE  phase = from /\ phase' = "observe" /\ Explains(end')
BY FinishSays DEF Fails

LEMMA ScriptSays ==
  ASSUME NEW from, NEW stop, NEW reason, stop = "completed" \/ reason # "",
         ScriptEnds(from, stop, reason)
  PROVE  phase = from /\ phase' = "observe" /\ Explains(end')
<1>1. phase = from /\ phase' = "observe" /\ \E here : end' = Ended(End(stop, reason), here)
  BY DEF ScriptEnds, Goto
<1>2. \A here : /\ Ended(End(stop, reason), here).stop = stop
                /\ Ended(End(stop, reason), here).reason = reason
  BY DEF Ended, End
<1> QED BY <1>1, <1>2 DEF Explains

\* What every step but the scoring of one leaves alone.
Unscored ==
  /\ UNCHANGED <<job, ends, outcomes>>
  /\ \/ at' = at /\ (phase \in Between <=> phase' \in Between)
     \/ at' = at + 1 /\ phase \in Between /\ phase' \notin Between
  /\ phase' = "observe" => Explains(end')

Ending == phase \notin Between /\ phase' = "observe" /\ Explains(end')
Going == phase \notin Between /\ phase' \notin Between /\ phase' # "observe"

LEMMA GoesOn ==
  ASSUME UNCHANGED <<job, at, ends, outcomes>>, Ending \/ Going
  PROVE  Unscored
BY DEF Unscored, Ending, Going, Between

LEMMA BeginGoes == Begin => Unscored
<1> SUFFICES ASSUME Begin PROVE Unscored OBVIOUS
<1>1. phase = "next" /\ phase' \in {"locate", "load", "resolve", "send"}
  BY Zenon DEF Begin, Goto
<1>2. UNCHANGED <<job, ends, outcomes>> /\ at' = at + 1 BY DEF Begin
<1> QED BY <1>1, <1>2 DEF Unscored, Between

LEMMA ActionsGo ==
  ASSUME \/ Resolved \/ Healable \/ Heals \/ Sends \/ Performed \/ CheckPasses \/ Clears
         \/ Replays \/ Restored \/ Locates \/ ScriptActs
  PROVE  Unscored
<1>1. CASE Resolved \/ Healable \/ Heals \/ Sends \/ Performed
  BY <1>1, GoesOn DEF Resolved, Healable, Heals, Sends, Performed, Goto, Going, Between
<1>2. CASE CheckPasses \/ Clears \/ Replays \/ Restored \/ Locates \/ ScriptActs
  BY <1>2, GoesOn
     DEF CheckPasses, Clears, Replays, Restored, Locates, ScriptActs, Goto, Going, Between
<1> QED BY <1>1, <1>2

LEMMA LadderEnds ==
  ASSUME \/ NotHealable \/ Blocked \/ Abstains \/ PageProblem \/ Succeeds \/ NotRecovered
         \/ NotRestored
  PROVE  Unscored
<1>1. {"PageNeverStable", "HealAbstained", "EgressBlocked", "EvidenceFailed", "NeedsReview",
       "ApprovalRequired"} \subseteq Errors
  BY DEF Errors
<1>2. {"resolve", "climb", "verify", "restore", "replay"} \cap Between = {} BY DEF Between
<1>3. CASE NotHealable
  <2>1. Ending BY <1>1, <1>2, <1>3, FailsSays DEF NotHealable, Ending
  <2> QED BY <1>3, <2>1, GoesOn DEF NotHealable
<1>4. CASE Blocked
  <2>1. Finish("climb", "awaiting_approval", "ApprovalRequired", "", Reports(TopRung, TRUE)) => Ending
    BY <1>1, <1>2, FinishSays DEF Ending
  <2>2. Fails("climb", "HealAbstained", "heal_limit_reached", Reports(TopRung, TRUE)) => Ending
    BY <1>1, <1>2, FailsSays DEF Ending
  <2>3. Ending BY <1>4, <2>1, <2>2 DEF Blocked
  <2> QED BY <1>4, <2>3, GoesOn DEF Blocked
<1>5. CASE Abstains
  <2>1. Fails("climb", "HealAbstained", "no_candidates", Reports(TopRung, FALSE)) => Ending
    BY <1>1, <1>2, FailsSays DEF Ending
  <2>2. Fails("climb", "HealAbstained", "page_never_stable", Reports(1, FALSE)) => Ending
    BY <1>1, <1>2, FailsSays DEF Ending
  <2>3. Fails("climb", "HealAbstained", "heal_timed_out", <<>>) => Ending
    BY <1>1, <1>2, FailsSays DEF Ending
  <2>4. Ending BY <1>5, <2>1, <2>2, <2>3 DEF Abstains
  <2> QED BY <1>5, <2>4, GoesOn DEF Abstains
<1>6. CASE PageProblem
  <2>1. Ending BY <1>1, <1>2, <1>6, FailsSays DEF PageProblem, Ending
  <2> QED BY <1>6, <2>1, GoesOn DEF PageProblem
<1>7. CASE Succeeds
  <2>1. Finish("verify", "succeeded", "", "", Settled) => Ending
    BY <1>2, FinishSays DEF Ending
  <2>2. Fails("verify", "EvidenceFailed", "", Settled) => Ending
    BY <1>1, <1>2, FailsSays DEF Ending
  <2>3. Ending BY <1>7, <2>1, <2>2 DEF Succeeds
  <2> QED BY <1>7, <2>3, GoesOn DEF Succeeds
<1>8. CASE NotRecovered
  <2>1. Finish("restore", "needs_review", "NeedsReview", "irreversible_heal_unverified", <<>>) => Ending
    BY <1>1, <1>2, FinishSays DEF Ending
  <2>2. Fails("restore", "HealAbstained", "heal_limit_reached", <<>>) => Ending
    BY <1>1, <1>2, FailsSays DEF Ending
  <2>3. Ending BY <1>8, <2>1, <2>2 DEF NotRecovered
  <2> QED BY <1>8, <2>3, GoesOn DEF NotRecovered
<1>9. CASE NotRestored
  <2>1. Ending BY <1>1, <1>2, <1>9, FailsSays DEF NotRestored, Ending
  <2> QED BY <1>9, <2>1, GoesOn DEF NotRestored
<1> QED BY <1>3, <1>4, <1>5, <1>6, <1>7, <1>8, <1>9

LEMMA LadderEndsOrGoes ==
  ASSUME NotActed \/ CheckFails \/ TimesOut \/ TimesOutBetween, CellTypes
  PROVE  Unscored
<1>1. {"TargetNotFound", "NavigationError", "EgressBlocked", "CheckpointFailed", "RunTimeout"}
        \subseteq Errors
  BY DEF Errors
<1>2. CASE NotActed
  <2>1. phase \in {"send", "sent"} /\ UNCHANGED <<job, at, ends, outcomes>> BY <1>2 DEF NotActed
  <2>2. CASE phase' = "climb" BY <2>1, <2>2, GoesOn DEF Going, Between
  <2>3. CASE Fails(phase, IF Step.element THEN "TargetNotFound" ELSE "NavigationError", "", <<>>)
    <3>1. (IF Step.element THEN "TargetNotFound" ELSE "NavigationError") \in Errors BY <1>1
    <3>2. phase' = "observe" /\ Explains(end') BY <2>3, <3>1, FailsSays
    <3> QED BY <2>1, <3>2, GoesOn DEF Ending, Between
  <2> QED BY <1>2, <2>2, <2>3 DEF NotActed
<1>3. CASE CheckFails
  <2>1. phase = "verify" /\ UNCHANGED <<job, at, ends, outcomes>> BY <1>3 DEF CheckFails
  <2>2. CASE Fails("verify", "EgressBlocked", "", Checked(FALSE))
    BY <1>1, <2>1, <2>2, FailsSays, GoesOn DEF Ending, Between
  <2>3. CASE Fails("verify", "CheckpointFailed", "text_missing", Checked(FALSE))
    BY <1>1, <2>1, <2>3, FailsSays, GoesOn DEF Ending, Between
  <2>4. CASE Goto("verify", "restore") BY <2>1, <2>4, GoesOn DEF Going, Between, Goto
  <2> QED BY <1>3, <2>2, <2>3, <2>4 DEF CheckFails
<1>4. CASE TimesOut
  <2>1. Fails(phase, "RunTimeout", "", <<>>) /\ phase \notin {"next", "observe", "done"}
        /\ UNCHANGED <<job, at, ends, outcomes>>
    BY <1>4 DEF TimesOut
  <2> QED BY <1>1, <2>1, FailsSays, GoesOn DEF Ending, Between
<1>5. CASE TimesOutBetween BY <1>5 DEF TimesOutBetween, Unscored, Goto, Between
<1> QED BY <1>2, <1>3, <1>4, <1>5

LEMMA ScriptStops ==
  ASSUME Loads \/ NotLocated \/ ScriptRefused \/ ScriptChecks
  PROVE  Unscored
<1>1. {"load", "locate", "act", "check"} \cap Between = {} BY DEF Between
<1>2. UNCHANGED <<job, at, ends, outcomes>>
  BY DEF Loads, NotLocated, ScriptRefused, ScriptChecks
<1>3. \E from \in {"load", "locate", "act", "check"},
         stop \in {"completed", "error", "checkpoint_failed", "unexpressible", "declined"},
         reason \in {"", "net_error", "checkpoint_failed", "no locator", "locator_timeout",
                     "strict_mode_violation", "browser_error", "EgressBlocked"} :
        (stop = "completed" \/ reason # "") /\ ScriptEnds(from, stop, reason)
  BY DEF Loads, NotLocated, ScriptRefused, ScriptChecks
<1>4. Ending BY <1>1, <1>3, ScriptSays DEF Ending
<1> QED BY <1>2, <1>4, GoesOn

LEMMA CellMoves == CellTypes /\ CellNext => Unscored \/ Scores
BY BeginGoes, ActionsGo, LadderEnds, LadderEndsOrGoes, ScriptStops, Zenon DEF CellNext
-----------------------------------------------------------------------------
(* What has been scored.                                                   *)

\* The first steps that act on a control.
Named(n) == {i \in 1..n : job.steps[i].key # NoKey}

LEMMA NamedGrows ==
  ASSUME NEW n \in Nat
  PROVE  /\ IsFiniteSet(Named(n)) /\ Cardinality(Named(n)) \in Nat
         /\ Cardinality(Named(n + 1)) = IF job.steps[n + 1].key # NoKey
                                        THEN Cardinality(Named(n)) + 1 ELSE Cardinality(Named(n))
<1>1. IsFiniteSet(1..n) BY FS_Interval
<1>2. IsFiniteSet(Named(n)) BY <1>1, FS_Subset DEF Named
<1>3. Named(n + 1) = IF job.steps[n + 1].key # NoKey THEN Named(n) \cup {n + 1} ELSE Named(n)
  BY DEF Named
<1>4. n + 1 \notin Named(n) BY DEF Named
<1> QED BY <1>2, <1>3, <1>4, FS_CardinalityType, FS_AddElement

ScoreInv ==
  /\ IsSeq(ends) /\ IsSeq(outcomes)
  /\ Len(ends) = IF phase \in Between THEN at ELSE at - 1
  /\ \A i \in DOMAIN ends : Explains(ends[i])
  /\ phase = "observe" => Explains(end)
  /\ Len(outcomes) = Cardinality(Named(Len(ends)))
  /\ \A i \in DOMAIN outcomes : OutcomeIsTrue(outcomes[i])

LEMMA ScoreInvInit == CellInit => ScoreInv
<1> SUFFICES ASSUME CellInit PROVE ScoreInv OBVIOUS
<1>1. ends = <<>> /\ outcomes = <<>> /\ at = 0 /\ phase = "next" BY DEF CellInit
<1>2. IsSeq(<<>>) /\ Len(<<>>) = 0 /\ DOMAIN <<>> = {}
  <2> DEFINE s == <<>>
  <2>1. s \in Seq(ToSet(s)) /\ DOMAIN s = {} /\ Len(s) = 0 OBVIOUS
  <2> QED BY <2>1 DEF IsSeq
<1>3. Cardinality(Named(0)) = 0
  <2>1. Named(0) = {} BY DEF Named
  <2> QED BY <2>1, FS_EmptySet
<1> QED BY <1>1, <1>2, <1>3 DEF ScoreInv, Between

LEMMA UnscoredStep == CellTypes /\ ScoreInv /\ Unscored => ScoreInv'
<1> SUFFICES ASSUME CellTypes, ScoreInv, Unscored PROVE ScoreInv' OBVIOUS
<1>1. UNCHANGED <<job, ends, outcomes>> BY DEF Unscored
<1>2. IsSeq(ends') /\ IsSeq(outcomes') /\ \A i \in DOMAIN ends' : Explains(ends'[i])
  BY <1>1 DEF ScoreInv
<1>3. Len(ends') = IF phase' \in Between THEN at' ELSE at' - 1
  <2>1. at \in Nat BY DEF CellTypes
  <2>2. Len(ends) = IF phase \in Between THEN at ELSE at - 1 BY DEF ScoreInv
  <2> QED BY <1>1, <2>1, <2>2 DEF Unscored
<1>4. phase' = "observe" => Explains(end') BY DEF Unscored
<1>5. Len(outcomes') = Cardinality(Named(Len(ends))') BY <1>1 DEF ScoreInv, Named
<1>6. (\A i \in DOMAIN outcomes : OutcomeIsTrue(outcomes[i]))'
  BY <1>1 DEF ScoreInv, OutcomeIsTrue
<1> QED BY <1>2, <1>3, <1>4, <1>5, <1>6 DEF ScoreInv

LEMMA ScoredInv == CellInv /\ KeyedInv /\ ScoreInv /\ Scores => ScoreInv'
<1> SUFFICES ASSUME CellInv, KeyedInv, ScoreInv, Scores PROVE ScoreInv' OBVIOUS
<1> DEFINE e == End(end.stop, end.reason)
           o == [scored |-> Classify(job.truths[Step.key], Observation), facts |-> Facts]
<1>1. /\ phase = "observe" /\ phase' \in Between /\ UNCHANGED <<job, at>>
      /\ ends' = Append(ends, e)
      /\ outcomes' = IF Step.key = NoKey THEN outcomes ELSE Append(outcomes, o)
  BY DEF Scores, Between
<1>2. at \in Nat /\ at > 0 /\ Len(ends) = at - 1
  BY <1>1 DEF CellInv, CellTypes, ScoreInv, Between
<1>3. Explains(e)
  <2>1. e.stop = end.stop /\ e.reason = end.reason BY DEF End
  <2> HIDE DEF e
  <2> QED BY <1>1, <2>1 DEF ScoreInv, Explains
<1>4. Step.key # NoKey => OutcomeIsTrue(o) BY <1>1, TrueOutcome
<1> HIDE DEF e, o
<1>5. /\ IsSeq(ends') /\ Len(ends') = at /\ \A i \in DOMAIN ends' : Explains(ends'[i])
  <2>1. /\ IsSeq(ends') /\ Len(ends') = Len(ends) + 1 /\ ends'[Len(ends) + 1] = e
        /\ \A k \in DOMAIN ends : ends'[k] = ends[k]
    BY <1>1, AppendFacts DEF ScoreInv
  <2>2. DOMAIN ends' = 1..(Len(ends) + 1) /\ DOMAIN ends = 1..Len(ends) /\ Len(ends) \in Nat
    BY <2>1, SeqFacts DEF ScoreInv
  <2>3. \A i \in DOMAIN ends' : i \in DOMAIN ends \/ i = Len(ends) + 1 BY <2>2
  <2> QED BY <1>2, <1>3, <2>1, <2>3 DEF ScoreInv
<1>6. /\ IsSeq(outcomes') /\ \A i \in DOMAIN outcomes' : OutcomeIsTrue(outcomes'[i])
      /\ Len(outcomes') = IF Step.key = NoKey THEN Len(outcomes) ELSE Len(outcomes) + 1
  <2>1. CASE Step.key = NoKey BY <1>1, <2>1 DEF ScoreInv
  <2>2. CASE Step.key # NoKey
    <3>1. /\ IsSeq(outcomes') /\ Len(outcomes') = Len(outcomes) + 1
          /\ outcomes'[Len(outcomes) + 1] = o
          /\ \A k \in DOMAIN outcomes : outcomes'[k] = outcomes[k]
      BY <1>1, <2>2, AppendFacts DEF ScoreInv
    <3>2. /\ DOMAIN outcomes' = 1..(Len(outcomes) + 1) /\ DOMAIN outcomes = 1..Len(outcomes)
          /\ Len(outcomes) \in Nat
      BY <3>1, SeqFacts DEF ScoreInv
    <3>3. \A i \in DOMAIN outcomes' : i \in DOMAIN outcomes \/ i = Len(outcomes) + 1 BY <3>2
    <3> QED BY <1>4, <2>2, <3>1, <3>3 DEF ScoreInv
  <2> QED BY <2>1, <2>2
<1>7. Cardinality(Named(at)) = Len(outcomes')
  <2>1. at - 1 \in Nat /\ at - 1 + 1 = at BY <1>2
  <2>2. Len(outcomes) = Cardinality(Named(at - 1)) BY <1>2 DEF ScoreInv
  <2>3. Cardinality(Named(at - 1 + 1)) = IF job.steps[at - 1 + 1].key # NoKey
                                         THEN Cardinality(Named(at - 1)) + 1
                                         ELSE Cardinality(Named(at - 1))
    BY <2>1, NamedGrows
  <2>4. job.steps[at - 1 + 1].key = Step.key BY <2>1 DEF Step
  <2> QED BY <1>6, <2>1, <2>2, <2>3, <2>4
<1>8. Named(Len(ends))' = Named(at) BY <1>1, <1>5 DEF Named
<1>9. (\A i \in DOMAIN outcomes : OutcomeIsTrue(outcomes[i]))'
  BY <1>1, <1>6 DEF OutcomeIsTrue
<1>10. phase' # "observe" BY <1>1 DEF Between
<1> QED BY <1>1, <1>5, <1>6, <1>7, <1>8, <1>9, <1>10 DEF ScoreInv

LEMMA ScoreInvStep == CellInv /\ KeyedInv /\ ScoreInv /\ [CellNext]_cellVars => ScoreInv'
<1> SUFFICES ASSUME CellInv, KeyedInv, ScoreInv, [CellNext]_cellVars PROVE ScoreInv' OBVIOUS
<1>1. CASE CellNext BY <1>1, CellMoves, UnscoredStep, ScoredInv DEF CellInv
<1>2. CASE UNCHANGED cellVars
  <2>1. UNCHANGED <<job, at, phase, end, ends, outcomes>> BY <1>2 DEF cellVars
  <2>2. Unscored BY <2>1 DEF Unscored, ScoreInv
  <2> QED BY <2>2, UnscoredStep DEF CellInv
<1> QED BY <1>1, <1>2
-----------------------------------------------------------------------------
(* The metrics.                                                            *)

LEMMA SizeOf ==
  ASSUME NEW n \in Nat, NEW S \in SUBSET (1..n)
  PROVE  IsFiniteSet(S) /\ Cardinality(S) \in Nat /\ (Cardinality(S) > 0 <=> S # {})
<1>1. IsFiniteSet(S)
  <2>1. IsFiniteSet(1..n) BY FS_Interval
  <2> QED BY <2>1, FS_Subset
<1>2. Cardinality(S) \in Nat BY <1>1, FS_CardinalityType
<1>3. Cardinality(S) = 0 <=> S = {} BY <1>1, FS_EmptySet
<1>4. Cardinality(S) > 0 <=> Cardinality(S) # 0 BY <1>2
<1> QED BY <1>1, <1>2, <1>3, <1>4

\* A rate is at most one.
LEMMA RatioIs ==
  ASSUME NEW some, NEW all, IsFiniteSet(all)
  PROVE  /\ Ratio(some, all).numerator = Cardinality(some \cap all)
         /\ Ratio(some, all).numerator <= Ratio(some, all).denominator
<1>1. Cardinality(some \cap all) <= Cardinality(all) BY FS_Intersection
<1> QED BY <1>1 DEF Ratio

LEMMA DisjointUnion ==
  ASSUME NEW S, NEW T, IsFiniteSet(S), IsFiniteSet(T), S \cap T = {}
  PROVE  Cardinality(S \cup T) = Cardinality(S) + Cardinality(T)
<1>1. Cardinality(S \cup T) = Cardinality(S) + Cardinality(T) - Cardinality(S \cap T)
  BY FS_Union
<1>2. Cardinality(S \cap T) = 0 BY FS_EmptySet
<1>3. Cardinality(S) \in Nat /\ Cardinality(T) \in Nat BY FS_CardinalityType
<1> QED BY <1>1, <1>2, <1>3

\* What coherent outcomes add up to.
LEMMA MetricsAddUp ==
  ASSUME NEW n \in Nat, NEW os, DOMAIN os = 1..n, Len(os) = n,
         \A i \in 1..n : IsCoherent(os[i])
  PROVE  LET m == StepMetrics(os) IN
         /\ m.steps = n
         /\ m.wrongRate.numerator = m.missed + m.caught
         /\ m.healed = m.healSuccess.numerator
         /\ \A ratio \in {m.wrongRate, m.unjudged, m.completion, m.healSuccess, m.abstained,
                          m.unnecessary} : ratio.numerator <= ratio.denominator
         /\ m.wrongRate.numerator > 0 <=> \E i \in 1..n : IsWrongClass(os[i])
<1> DEFINE m == StepMetrics(os)
           reached == 1..n \ Classed(os, "not_reached")
           act == {i \in reached : ~os[i].abstain}
           correct == {i \in 1..n : IsCorrect(os[i])}
           wrong == {i \in 1..n : IsWrongClass(os[i])}
           missed == {i \in reached : os[i].wrong = "false_success"}
           caught == {i \in reached : os[i].wrong = "caught"}
           changed == {i \in act : os[i].changed}
           laddered == {i \in act : os[i].laddered}
           healed == {i \in correct : os[i].rung # 0}
<1>1. /\ m.steps = n
      /\ m.wrongRate = Ratio(wrong, reached)
      /\ m.missed = Cardinality(missed) /\ m.caught = Cardinality(caught)
      /\ m.unjudged = Ratio(Classed(os, "ground_truth_unknown"), reached)
      /\ m.completion = Ratio(correct, changed)
      /\ m.healSuccess = Ratio(Classed(os, "healed_correct"), laddered)
      /\ m.abstained = Ratio(Classed(os, "abstained_correct"), reached \ act)
      /\ m.unnecessary = Ratio(Classed(os, "abstained_unnecessary"), act)
      /\ m.healed = Cardinality(healed)
  BY DEF StepMetrics
<1> HIDE DEF m
<1>2. \A i \in 1..n :
        /\ i \in reached <=> os[i].class # "not_reached"
        /\ i \in Classed(os, "healed_correct") <=> os[i].class = "healed_correct"
  BY DEF Classed
<1>3. /\ reached \in SUBSET (1..n) /\ act \in SUBSET (1..n) /\ changed \in SUBSET (1..n)
      /\ laddered \in SUBSET (1..n) /\ reached \ act \in SUBSET (1..n)
      /\ missed \in SUBSET (1..n) /\ caught \in SUBSET (1..n) /\ wrong \in SUBSET (1..n)
  OBVIOUS
<1>4. /\ IsFiniteSet(reached) /\ IsFiniteSet(act) /\ IsFiniteSet(changed)
      /\ IsFiniteSet(laddered) /\ IsFiniteSet(reached \ act)
      /\ IsFiniteSet(missed) /\ IsFiniteSet(caught)
      /\ Cardinality(wrong) > 0 <=> wrong # {}
  BY <1>3, SizeOf
<1>5. \A i \in 1..n :
        /\ os[i].wrong \in {"no", "false_success", "caught"}
        /\ IsWrongClass(os[i]) <=> os[i].wrong # "no"
        /\ IsWrongClass(os[i]) => os[i].class # "not_reached"
        /\ IsCorrect(os[i]) => (os[i].class = "healed_correct" <=> os[i].rung # 0)
        /\ os[i].class = "healed_correct" => /\ ~os[i].abstain /\ os[i].laddered
                                             /\ IsCorrect(os[i])
  BY DEF IsCoherent, IsExplained, IsWrongClass, IsCorrect
<1>6. /\ wrong \cap reached = missed \cup caught /\ missed \cap caught = {}
      /\ wrong \cap reached = wrong
  BY <1>2, <1>5
<1>7. healed = Classed(os, "healed_correct") \cap laddered
  <2>1. ASSUME NEW i \in healed PROVE i \in Classed(os, "healed_correct") \cap laddered
    <3>1. i \in 1..n /\ os[i].class = "healed_correct" /\ ~os[i].abstain /\ os[i].laddered
      BY <1>5
    <3> QED BY <1>2, <3>1
  <2>2. ASSUME NEW i \in Classed(os, "healed_correct") \cap laddered PROVE i \in healed
    <3>1. i \in 1..n OBVIOUS
    <3>2. os[i].class = "healed_correct" BY <1>2, <3>1
    <3> QED BY <1>5, <3>1, <3>2
  <2> QED BY <2>1, <2>2
<1> HIDE DEF reached, act, correct, wrong, missed, caught, changed, laddered, healed
<1>8. m.wrongRate.numerator = m.missed + m.caught
  <2>1. m.wrongRate.numerator = Cardinality(missed \cup caught) BY <1>1, <1>4, <1>6, RatioIs
  <2> QED BY <1>1, <1>4, <1>6, <2>1, DisjointUnion
<1>9. m.wrongRate.numerator > 0 <=> wrong # {} BY <1>1, <1>4, <1>6, RatioIs
<1>10. m.healed = m.healSuccess.numerator BY <1>1, <1>4, <1>7, RatioIs
<1>11. \A ratio \in {m.wrongRate, m.unjudged, m.completion, m.healSuccess, m.abstained,
                     m.unnecessary} : ratio.numerator <= ratio.denominator
  <2>1. \A some, all : IsFiniteSet(all) =>
          Ratio(some, all).numerator <= Ratio(some, all).denominator
    BY RatioIs
  <2>2. /\ m.wrongRate.numerator <= m.wrongRate.denominator
        /\ m.unjudged.numerator <= m.unjudged.denominator
        /\ m.completion.numerator <= m.completion.denominator
        /\ m.healSuccess.numerator <= m.healSuccess.denominator
        /\ m.abstained.numerator <= m.abstained.denominator
        /\ m.unnecessary.numerator <= m.unnecessary.denominator
    BY <1>1, <1>4, <2>1
  <2> QED BY <2>2
<1> QED BY <1>1, <1>8, <1>9, <1>10, <1>11 DEF m, wrong
-----------------------------------------------------------------------------
(* The finished cell.                                                      *)

LEMMA CellOutcomesAre ==
  ASSUME IsSeq(outcomes), Cardinality(Unreached) \in Nat
  PROVE  /\ Len(CellOutcomes) = Len(outcomes) + Cardinality(Unreached)
         /\ DOMAIN CellOutcomes = 1..Len(CellOutcomes) /\ Len(CellOutcomes) \in Nat
         /\ DOMAIN outcomes \subseteq DOMAIN CellOutcomes
         /\ \A i \in DOMAIN outcomes : CellOutcomes[i] = outcomes[i].scored
         /\ \A i \in DOMAIN CellOutcomes \ DOMAIN outcomes :
              \E k : CellOutcomes[i] = NotReached(k)
<1> DEFINE c == Cardinality(Unreached)
           a == [i \in DOMAIN outcomes |-> outcomes[i].scored]
           which(i) == CHOOSE k \in Unreached : Cardinality({j \in Unreached : j < k}) = i - 1
           b == [i \in 1..c |-> NotReached(which(i))]
           E == ToSet(a) \cup ToSet(b)
<1>1. Len(outcomes) \in Nat /\ DOMAIN outcomes = 1..Len(outcomes) BY SeqFacts
<1>2. CellOutcomes = a \o b BY DEF CellOutcomes
<1>6. c \in Nat OBVIOUS
<1> HIDE DEF c
<1>3. a \in Seq(E) /\ Len(a) = Len(outcomes) /\ \A i \in DOMAIN outcomes : a[i] = outcomes[i].scored
  <2>1. a \in [1..Len(outcomes) -> E] BY <1>1 DEF ToSet
  <2>2. \A i \in DOMAIN outcomes : a[i] = outcomes[i].scored OBVIOUS
  <2> HIDE DEF a, E
  <2>3. a \in Seq(E) /\ Len(a) = Len(outcomes) BY <1>1, <2>1
  <2> QED BY <2>2, <2>3
<1>4. b \in Seq(E) /\ Len(b) = c /\ \A i \in 1..c : \E k : b[i] = NotReached(k)
  <2>1. b \in [1..c -> E] BY DEF ToSet
  <2>2. \A i \in 1..c : b[i] = NotReached(which(i)) OBVIOUS
  <2> HIDE DEF b, E, which
  <2>3. b \in Seq(E) /\ Len(b) = c BY <1>6, <2>1
  <2>4. \A i \in 1..c : \E k : b[i] = NotReached(k) BY <2>2, Zenon
  <2> QED BY <2>3, <2>4
<1> HIDE DEF a, b, E
<1>5. /\ a \o b \in Seq(E) /\ Len(a \o b) = Len(a) + Len(b)
      /\ \A i \in 1..Len(b) : (a \o b)[Len(a) + i] = b[i]
      /\ \A i \in 1..Len(a) : (a \o b)[i] = a[i]
  <2>1. a \in Seq(E) /\ b \in Seq(E) BY <1>3, <1>4
  <2> QED BY <2>1
<1>7. /\ Len(CellOutcomes) = Len(outcomes) + c
      /\ DOMAIN CellOutcomes = 1..(Len(outcomes) + c)
  BY <1>2, <1>3, <1>4, <1>5
<1>8. \A i \in DOMAIN outcomes : CellOutcomes[i] = outcomes[i].scored
  BY <1>1, <1>2, <1>3, <1>5
<1>9. ASSUME NEW i \in DOMAIN CellOutcomes \ DOMAIN outcomes PROVE \E k : CellOutcomes[i] = NotReached(k)
  <2>1. i - Len(outcomes) \in 1..c /\ Len(outcomes) + (i - Len(outcomes)) = i
    BY <1>1, <1>6, <1>7
  <2>2. CellOutcomes[i] = b[i - Len(outcomes)] BY <1>2, <1>3, <1>4, <1>5, <2>1
  <2> QED BY <1>4, <2>1, <2>2
<1> QED BY <1>1, <1>6, <1>7, <1>8, <1>9 DEF c

\* Every step that acts on a control is scored or was not reached.
LEMMA StepsAddUp ==
  ASSUME CellInv, ScoreInv, phase = "done"
  PROVE  /\ IsFiniteSet(Unreached) /\ Cardinality(Unreached) \in Nat
         /\ Len(outcomes) + Cardinality(Unreached) =
              Cardinality({i \in DOMAIN job.steps : job.steps[i].key # NoKey})
<1> DEFINE n == Len(ends)
           N == Len(job.steps)
           all == {i \in DOMAIN job.steps : job.steps[i].key # NoKey}
<1>1. n = at /\ at \in 0..N /\ job \in Jobs BY DEF ScoreInv, CellInv, CellTypes, Between
<1>2. job.steps \in Seq(ToSet(job.steps)) BY <1>1, JobsAssumption DEF IsCell
<1>3. N \in Nat /\ DOMAIN job.steps = 1..N BY <1>2
<1>4. n \in Nat /\ n <= N BY <1>1, <1>3
<1>5. Len(outcomes) = Cardinality(Named(n)) BY DEF ScoreInv
<1>6. Unreached = {i \in (n + 1)..N : job.steps[i].key # NoKey} BY DEF Unreached
<1> HIDE DEF n, N
<1>7. all = Named(n) \cup Unreached /\ Named(n) \cap Unreached = {} /\ Unreached \in SUBSET (1..N)
  BY <1>3, <1>4, <1>6 DEF Named
<1>8. IsFiniteSet(Named(n)) BY <1>4, NamedGrows
<1>9. IsFiniteSet(Unreached) /\ Cardinality(Unreached) \in Nat BY <1>3, <1>7, SizeOf
<1> HIDE DEF all
<1>10. Cardinality(all) = Cardinality(Named(n)) + Cardinality(Unreached)
  BY <1>7, <1>8, <1>9, DisjointUnion
<1> QED BY <1>5, <1>9, <1>10 DEF all

LEMMA FailureSays ==
  ASSUME CellInv, ScoreInv, phase = "done", ~Completed
  PROVE  /\ Failure.reason # ""
         /\ Failure.step \in DOMAIN ends => ends[Failure.step].stop # "completed"
<1> DEFINE steps == [i \in DOMAIN job.steps |-> job.steps[i].key]
           N == Len(job.steps)
<1>1. Len(ends) = at /\ at \in 0..N /\ job \in Jobs BY DEF ScoreInv, CellInv, CellTypes, Between
<1>2. job.steps \in Seq(ToSet(job.steps)) BY <1>1, JobsAssumption DEF IsCell
<1>3. N \in Nat /\ DOMAIN job.steps = 1..N BY <1>2
<1>4. Len(steps) = N
  <2>1. steps \in [1..N -> ToSet(steps)] BY <1>3 DEF ToSet
  <2> HIDE DEF steps, N
  <2> QED BY <1>3, <2>1
<1>5. Len(ends) \in Nat /\ DOMAIN ends = 1..Len(ends) BY SeqFacts DEF ScoreInv
<1>6. Last(ends) = ends[Len(ends)] BY DEF Last
<1>7. Failure = IF ends # <<>> /\ Last(ends).stop # "completed"
                THEN [step |-> Len(ends), reason |-> Last(ends).reason]
                ELSE [step |-> Len(steps), reason |-> "unrecorded"]
  BY DEF Failure, RunFailure
<1>8. ~(Len(ends) = N /\ Last(ends).stop = "completed") BY DEF Completed
<1>9. ends # <<>> <=> Len(ends) # 0
  <2>1. ends \in Seq(ToSet(ends)) BY DEF ScoreInv, IsSeq
  <2> QED BY <2>1
<1> HIDE DEF steps, N
<1>10. CASE ends # <<>> /\ Last(ends).stop # "completed"
  <2>1. Failure.step = Len(ends) /\ Failure.reason = Last(ends).reason BY <1>7, <1>10
  <2>2. Explains(Last(ends)) BY <1>5, <1>6, <1>9, <1>10 DEF ScoreInv
  <2>3. Last(ends).reason # "" BY <1>10, <2>2 DEF Explains
  <2> QED BY <1>6, <1>10, <2>1, <2>3
<1>11. CASE ~(ends # <<>> /\ Last(ends).stop # "completed")
  <2>1. Failure.step = N /\ Failure.reason = "unrecorded" BY <1>4, <1>7, <1>11
  <2>2. N \notin DOMAIN ends
    <3> SUFFICES ASSUME N \in DOMAIN ends PROVE FALSE OBVIOUS
    <3>1. N = Len(ends) /\ Len(ends) # 0 BY <1>1, <1>3, <1>5
    <3> QED BY <1>8, <1>9, <1>11, <3>1
  <2>3. Failure.reason # "" BY <2>1
  <2> QED BY <2>1, <2>2, <2>3
<1> QED BY <1>10, <1>11

LEMMA SoundWhenDone == CellInv /\ ScoreInv => ScoresAreSound
<1> SUFFICES ASSUME CellInv, ScoreInv, phase = "done" PROVE ScoresAreSound
  BY DEF ScoresAreSound, WrongIsNeverMissed, OutcomesAddUp
<1> DEFINE os == CellOutcomes
           n == Len(os)
           m == StepMetrics(os)
<1>1. /\ IsFiniteSet(Unreached) /\ Cardinality(Unreached) \in Nat
      /\ Len(outcomes) + Cardinality(Unreached) =
           Cardinality({i \in DOMAIN job.steps : job.steps[i].key # NoKey})
  BY StepsAddUp
<1>2. /\ n = Len(outcomes) + Cardinality(Unreached)
      /\ DOMAIN os = 1..n /\ n \in Nat /\ DOMAIN outcomes \subseteq DOMAIN os
      /\ \A i \in DOMAIN outcomes : os[i] = outcomes[i].scored
      /\ \A i \in DOMAIN os \ DOMAIN outcomes : \E k : os[i] = NotReached(k)
  BY <1>1, CellOutcomesAre DEF ScoreInv
<1> HIDE DEF os
<1>3. \A i \in DOMAIN outcomes : OutcomeIsTrue(outcomes[i]) BY DEF ScoreInv
<1>4. ASSUME NEW i \in DOMAIN os
      PROVE  /\ IsCoherent(os[i])
             /\ IsWrongClass(os[i]) => i \in DOMAIN outcomes
  <2>1. CASE i \in DOMAIN outcomes BY <1>2, <1>3, <2>1 DEF OutcomeIsTrue
  <2>2. CASE i \notin DOMAIN outcomes
    <3>1. PICK k : os[i] = NotReached(k) BY <1>2, <2>2
    <3> QED BY <3>1, NotReachedSays
  <2> QED BY <2>1, <2>2
<1>5. \A i \in DOMAIN os : IsExplained(os[i]) BY <1>4 DEF IsCoherent
<1>6. /\ m.steps = n
      /\ m.wrongRate.numerator = m.missed + m.caught
      /\ m.healed = m.healSuccess.numerator
      /\ \A ratio \in {m.wrongRate, m.unjudged, m.completion, m.healSuccess, m.abstained,
                       m.unnecessary} : ratio.numerator <= ratio.denominator
      /\ m.wrongRate.numerator > 0 <=> \E i \in 1..n : IsWrongClass(os[i])
  <2>1. \A i \in 1..n : IsCoherent(os[i]) BY <1>2, <1>4
  <2> HIDE DEF m
  <2> QED BY <1>2, <2>1, MetricsAddUp DEF m
<1>7. GateFails(Gated, os) <=> job.system = "ladder" /\ \E i \in DOMAIN outcomes : IsWrongClass(outcomes[i].scored)
  <2>1. GateFails(Gated, os) <=> job.system = "ladder" /\ m.wrongRate.numerator > 0
    BY DEF GateFails, Gated
  <2>2. (\E i \in 1..n : IsWrongClass(os[i])) <=>
          \E i \in DOMAIN outcomes : IsWrongClass(outcomes[i].scored)
    BY <1>2, <1>4
  <2> HIDE DEF m
  <2> QED BY <1>6, <2>1, <2>2
<1>8. WrongIsNeverMissed
  <2> DEFINE fails == GateFails(Gated, os)
  <2>1. Gated /\ (\E i \in Wrongs : outcomes[i].facts.seen \/ job.suite = "portal") => fails
    <3> HIDE DEF fails
    <3> SUFFICES ASSUME job.system = "ladder", NEW i \in Wrongs,
                        outcomes[i].facts.seen \/ job.suite = "portal"
                 PROVE  fails
      BY DEF Gated
    <3>1. i \in DOMAIN outcomes /\ outcomes[i].facts.wrong BY DEF Wrongs
    <3>2. IsWrongClass(outcomes[i].scored) BY <1>3, <3>1 DEF OutcomeIsTrue
    <3> QED BY <1>7, <3>1, <3>2 DEF fails
  <2>2. fails /\ job.suite = "portal" => Wrongs # {}
    <3> HIDE DEF fails
    <3> SUFFICES ASSUME fails, job.suite = "portal" PROVE Wrongs # {} OBVIOUS
    <3>1. PICK i \in DOMAIN outcomes : job.system = "ladder" /\ IsWrongClass(outcomes[i].scored)
      BY <1>7 DEF fails
    <3>2. outcomes[i].facts.wrong BY <1>3, <3>1 DEF OutcomeIsTrue
    <3> QED BY <3>1, <3>2 DEF Wrongs
  <2>3. \A i \in DOMAIN outcomes :
          IsCorrect(outcomes[i].scored) => outcomes[i].facts.expected /\ outcomes[i].facts.right
    BY <1>3 DEF OutcomeIsTrue
  <2> HIDE DEF fails
  <2> QED BY <2>1, <2>2, <2>3 DEF WrongIsNeverMissed, fails, os
<1>9. OutcomesAddUp
  <2>1. ~Completed => /\ Failure.reason # ""
                      /\ Failure.step \in DOMAIN ends => ends[Failure.step].stop # "completed"
    BY FailureSays
  <2>2. m.steps = Cardinality({i \in DOMAIN job.steps : job.steps[i].key # NoKey})
    BY <1>1, <1>2, <1>6
  <2> HIDE DEF m
  <2> QED BY <1>5, <1>6, <2>1, <2>2 DEF OutcomesAddUp, m, os
<1> QED BY <1>8, <1>9 DEF ScoresAreSound

\* For every workflow, ground truth, ladder and limit: no wrong action that ground
\* truth could see is missing from the gate, no step is called correct unless every
\* action of it reached what it should, and the metrics account for every step
\* (outcomes.py, metrics.py, cells.py, observe.py, results.py).
THEOREM BenchmarkScoresAreSound == CellSpec => []ScoresAreSound
<1> DEFINE Sound == CellInv /\ KeyedInv /\ ScoreInv
<1>1. CellInit => Sound
  <2>1. CellInit => KeyedInv BY DEF CellInit, KeyedInv
  <2> QED BY <2>1, CellInvInit, ScoreInvInit
<1>2. Sound /\ [CellNext]_cellVars => Sound' BY CellInvStep, KeyedStep, ScoreInvStep
<1>3. Sound => ScoresAreSound BY SoundWhenDone
<1> QED BY <1>1, <1>2, <1>3, PTL DEF CellSpec
=============================================================================
