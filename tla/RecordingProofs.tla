--------------------------- MODULE RecordingProofs ---------------------------
(***************************************************************************)
(* For any person, site and channel: what a recording hands over is what    *)
(* was done, and each navigation is accounted for once.                     *)
(*                                                                         *)
(* `Coming` are the events the recorder has still to handle.  NavInv says   *)
(* which navigations they hold, MessageInv how the messages of a document   *)
(* are numbered, and EditInv how every edit that a gesture, the page or the *)
(* stop rests on gets into the steps: it is in them, is the event at hand,  *)
(* is among those to come, or is under way and will be released in order.   *)
(***************************************************************************)
EXTENDS RecordingProperties, FiniteSetTheorems, SequenceTheorems, WellFoundedInduction, TLAPS

-----------------------------------------------------------------------------
(* The values of the variables.                                            *)

Docs == 1..MaxDocs
Edits == [Inputs -> Nat]
Elems == Inputs \cup Targets \cup {Nothing}
By == {"page", "browser"}

FillKinds == {"fill", "select"}
FillMessages == [kind : FillKinds, doc : Docs, seq : Nat \ {0}, el : Inputs]
GestureMessages ==
  [kind : {"gesture"}, doc : Docs, seq : Nat \ {0}, el : Targets \cup {Nothing}, edits : Edits]
IgnoredMessages == [kind : {"ignored"}, doc : Docs, seq : Nat \ {0}]
Messages == FillMessages \cup GestureMessages \cup IgnoredMessages

NavEvents == [kind : {"navigated"}, seq : 0..MaxDocs, by : By]
OtherEvents == [kind : {"restored", "closed", "none"}]
QueueEvents == Messages \cup NavEvents \cup OtherEvents
FlushMarks == [doc : 0..MaxDocs]

PageRecord ==
  [doc : 0..MaxDocs, value : Edits, dirty : SUBSET Fields, masked : SUBSET Inputs, busy : Nat,
   armed : BOOLEAN, sent : Nat, open : BOOLEAN]

PersonRecord == [left : [Kinds -> Nat], stopped : BOOLEAN]

NavRecord == [log : Seq([by : By, seen : By]), requested : BOOLEAN, coming : BOOLEAN]

ChanRecord ==
  [flight : SUBSET Messages, next : [Docs -> Nat], held : SUBSET Messages,
   queue : Seq(QueueEvents), waiting : SUBSET (Docs \X (Nat \ {0})), closed : BOOLEAN]

Outcomes == {"none", "closed", "aborted", "unusable", "nothing", "recorded"}

RecRecord ==
  [pc : Places, ev : QueueEvents \cup FlushMarks, before : 0..MaxDocs, navs : SUBSET Docs,
   masked : BOOLEAN, drained : BOOLEAN, backlog : Seq(QueueEvents), upto : Nat,
   left : {<<>>} \cup [doc : 0..MaxDocs, value : Edits], late : BOOLEAN, end : Outcomes]

StepRecord ==
  [kind : FillKinds \cup {"gesture", "navigate"}, key : (0..MaxDocs) \X Elems, value : Nat,
   secret : BOOLEAN, hidden : BOOLEAN, edits : {<<>>} \cup Edits, navs : SUBSET Docs]

Types ==
  /\ page \in PageRecord /\ person \in PersonRecord /\ nav \in NavRecord
  /\ chan \in ChanRecord /\ rec \in RecRecord /\ steps \in Seq(StepRecord)
  /\ ignored \in SUBSET Docs /\ through \in 0..MaxDocs
  /\ out.file \in {"none", "other", "ours"}
  /\ page.busy <= page.sent
  /\ Committed = page.doc /\ through <= Committed
  /\ nav.coming => nav.requested

-----------------------------------------------------------------------------
(* Where the recorder is.                                                  *)

Finishing == {"ended", "write", "verify", "exited"}

Active == rec.pc \notin Finishing

\* The awaits of a gesture, and of a field.
Gestural == {"pin", "target", "before", "arm", "act", "settle", "checks"}
Fieldwise == {"field", "examine", "read"}

\* The event at hand is of the kind its await is for, and what the recorder has
\* ended with is empty.
PlaceInv ==
  /\ rec.pc = "handle" => rec.ev \in QueueEvents
  /\ rec.pc \in Gestural => rec.ev \in GestureMessages
  /\ rec.pc \in Fieldwise => rec.ev \in FillMessages
  /\ rec.pc = "open" => rec.ev \in NavEvents
  /\ rec.pc = "flushed" => rec.ev \in FlushMarks /\ rec.ev.doc \in Docs
  /\ rec.pc = "start" => page.doc = 0 /\ through = 0 /\ steps = <<>> /\ ignored = {} /\ chan = NoMessages
  /\ Active /\ rec.pc # "start" => page.doc # 0
  /\ rec.pc \in {"start", "flushed", "drain"} => ~rec.drained
  /\ Active => rec.end = "none"
  /\ ~Active => ~page.open /\ chan.flight = {} /\ chan.held = {}
  /\ chan.closed = ~page.open

\* The events the recorder has still to handle.
Coming == IF rec.drained THEN rec.backlog ELSE chan.queue

-----------------------------------------------------------------------------
(* Navigations.                                                            *)

IsNav(event, n) == event \in NavEvents /\ event.seq = n

\* The last navigation that was handled or is being handled.
Now ==
  IF rec.pc \in {"handle", "open"} /\ rec.ev \in NavEvents /\ rec.ev.seq > through
  THEN rec.ev.seq ELSE through

\* The steps and notices have each navigation up to `through`, once.
CountedInv ==
  /\ \A i, j \in DOMAIN steps : i # j => steps[i].navs \cap steps[j].navs = {}
  /\ \A i \in DOMAIN steps : steps[i].navs \cap ignored = {}
  /\ \A i \in DOMAIN steps : steps[i].kind \in FillKinds => steps[i].navs = {}
  /\ 1..through = ignored \cup UNION {steps[i].navs : i \in DOMAIN steps}

\* The navigation at hand is the next one or one that was counted.
HandInv ==
  rec.pc \in {"handle", "open"} /\ rec.ev \in NavEvents =>
    /\ rec.ev.seq <= through + 1 /\ rec.ev.seq <= Committed
    /\ rec.ev.seq = 0 => rec.pc = "open" /\ through = 0
    /\ rec.pc = "open" /\ rec.ev.seq # 0 => rec.ev.seq = through + 1

\* Those after it come one after the other.
ComingInv ==
  /\ \A i \in DOMAIN Coming : Coming[i] \in NavEvents =>
       /\ Coming[i].seq \in 1..Committed
       /\ Coming[i].seq > Now + 1 => \E j \in 1..(i - 1) : IsNav(Coming[j], Coming[i].seq - 1)
  /\ ~rec.drained => \A n \in (Now + 1)..Committed : \E i \in DOMAIN Coming : IsNav(Coming[i], n)

\* A gesture comes after every navigation up to its document's.
AfterInv ==
  /\ \A i \in DOMAIN Coming : Coming[i] \in GestureMessages =>
       \A n \in (Now + 1)..Coming[i].doc : \E j \in 1..(i - 1) : IsNav(Coming[j], n)
  /\ rec.pc \in {"handle"} \cup Gestural /\ rec.ev \in GestureMessages => rec.ev.doc <= through

\* What a gesture's step will account for starts where the steps before end.
GestureInv ==
  /\ rec.pc = "arm" => through <= rec.before /\ rec.before <= Committed
  /\ rec.pc \in {"act", "settle", "checks"} => rec.before = through
  /\ rec.pc = "checks" => \E k \in through..Committed : rec.navs = (through + 1)..k

NavInv ==
  /\ CountedInv
  /\ Active => HandInv /\ ComingInv /\ AfterInv /\ GestureInv

-----------------------------------------------------------------------------
(* Messages.                                                               *)

Pending == chan.flight \cup chan.held

\* Messages are numbered by document; those not yet released come after those
\* that were.
MessageInv ==
  /\ IsFiniteSet(page.dirty) /\ IsFiniteSet(chan.flight) /\ IsFiniteSet(chan.held)
  /\ chan.flight \cap chan.held = {}
  /\ \A m, n \in Pending : m.doc = n.doc /\ m.seq = n.seq => m = n
  /\ \A m \in Pending :
       /\ m.doc <= page.doc /\ chan.next[m.doc] <= m.seq
       /\ m.doc = page.doc => m.seq <= page.sent
  /\ \A d \in Docs :
       /\ chan.next[d] # 0
       /\ d > page.doc => chan.next[d] = 1
       /\ d = page.doc => chan.next[d] <= page.sent + 1

-----------------------------------------------------------------------------
(* Edits.                                                                  *)

IsFill(event, d, f) == event \in FillMessages /\ event.doc = d /\ event.el = f

\* The steps have the field's text, or withhold it.
Kept(d, f, v) ==
  \E j \in DOMAIN steps :
    /\ steps[j].kind \in FillKinds /\ steps[j].key = <<d, f>>
    /\ steps[j].secret \/ steps[j].value >= v

AtHand(d, f) == rec.pc \in {"handle"} \cup Fieldwise /\ IsFill(rec.ev, d, f)

Ahead(d, f, n) == \E j \in 1..n : j \in DOMAIN Coming /\ IsFill(Coming[j], d, f)

\* A number not yet released is the field's message, if there is one.
Underway(d, f, s) ==
  \E n \in chan.next[d]..(s - 1) :
    \A m \in Pending : m.doc = d /\ m.seq = n => IsFill(m, d, f)

Covered(d, f, v, n) == Kept(d, f, v) \/ AtHand(d, f) \/ Ahead(d, f, n)

\* The document is not older than what is said of it.
Reached(d, edits) == Active /\ d = page.doc => \A f \in Inputs : edits[f] <= page.value[f]

Listening == Active /\ ~rec.drained /\ ~chan.closed

\* What a gesture tells of the fields was in them, and comes before it.
GestureEdits ==
  /\ \A m \in Pending \cap GestureMessages :
       /\ Reached(m.doc, m.edits)
       /\ Listening => \A f \in Inputs : m.edits[f] > 0 =>
            Covered(m.doc, f, m.edits[f], Len(Coming)) \/ Underway(m.doc, f, m.seq)
  /\ \A i \in DOMAIN Coming : Coming[i] \in GestureMessages =>
       /\ Reached(Coming[i].doc, Coming[i].edits)
       /\ Active => \A f \in Inputs : Coming[i].edits[f] > 0 =>
            Covered(Coming[i].doc, f, Coming[i].edits[f], i - 1)
  /\ rec.pc \in {"handle"} \cup Gestural /\ rec.ev \in GestureMessages =>
       \A f \in Inputs : rec.ev.edits[f] > 0 => Kept(rec.ev.doc, f, rec.ev.edits[f])

\* An edited field is still to be reported, or was.
PageEdits ==
  Listening => \A f \in Inputs : page.value[f] > 0 =>
    \/ f \in page.dirty
    \/ Covered(page.doc, f, page.value[f], Len(Coming))
    \/ Underway(page.doc, f, page.sent + 1)

\* What the fields held when the page was asked to commit them.
LeftEdits ==
  rec.left # <<>> =>
    /\ rec.left.doc <= page.doc /\ Reached(rec.left.doc, rec.left.value)
    /\ Active => rec.drained \/ rec.pc \in {"flushed", "drain"}
    /\ Active /\ ~rec.late /\ ~(rec.pc \in {"flushed", "drain"} /\ chan.closed) =>
         \A f \in Inputs : rec.left.value[f] > 0 =>
           \/ Covered(rec.left.doc, f, rec.left.value[f], Len(Coming))
           \/ rec.pc = "flushed" /\ Underway(rec.left.doc, f, rec.upto + 1)
    /\ rec.pc = "flushed" => rec.ev.doc = rec.left.doc /\ (rec.left.doc = page.doc => rec.upto <= page.sent)

\* The window's closing is told last.
ClosedInv ==
  Active =>
    /\ \A i \in DOMAIN Coming : Coming[i].kind = "closed" => chan.closed /\ (rec.drained => rec.late)
    /\ rec.pc = "handle" /\ rec.ev.kind = "closed" => chan.closed /\ (rec.drained => rec.late)

StepValues ==
  Active => \A j \in DOMAIN steps : steps[j].kind \in FillKinds =>
    /\ steps[j].key[1] <= page.doc
    /\ \A f \in Inputs : steps[j].key = <<page.doc, f>> => steps[j].value <= page.value[f]

EditInv ==
  /\ GestureEdits /\ PageEdits /\ LeftEdits /\ ClosedInv /\ StepValues
  /\ EditsComeFirst /\ StopKeepsEdits /\ SecretsStayOnPage

Inv == Types /\ PlaceInv /\ NavInv /\ MessageInv /\ EditInv

-----------------------------------------------------------------------------
(* Facts about numbers and orders.                                         *)

LEMMA LeastNatural ==
  ASSUME NEW T \in SUBSET Nat, T # {}
  PROVE  \E n \in T : \A m \in T : n <= m
<1> DEFINE below == {0..n : n \in T}
           R == StrictSubsetOrdering(Nat)
<1>1. \A n \in T : IsFiniteSet(0..n) /\ 0..n \in SUBSET Nat
  <2> TAKE n \in T
  <2>1. 0 \in Int /\ n \in Int
    OBVIOUS
  <2> QED
    BY <2>1, FS_Interval
<1>2. below \subseteq FiniteSubsetsOf(Nat) /\ below # {}
  BY <1>1 DEF FiniteSubsetsOf
<1>3. PICK U \in below : \A V \in below : ~(<<V, U>> \in R)
  <2>1. IsWellFoundedOn(R, FiniteSubsetsOf(Nat))
    BY FS_StrictSubsetOrderingWellFounded
  <2> HIDE DEF below, R
  <2> QED
    BY <1>2, <2>1, WFMin
<1>4. PICK n \in T : U = 0..n
  BY <1>3
<1>5. ASSUME NEW m \in T, m < n PROVE FALSE
  <2>1. 0..m \subseteq 0..n /\ n \in 0..n /\ n \notin 0..m
    BY <1>5
  <2>2. 0..m \in SUBSET Nat /\ 0..n \in SUBSET Nat /\ 0..m # 0..n
    BY <2>1
  <2>3. <<0..m, 0..n>> \in R
    BY <2>1, <2>2 DEF StrictSubsetOrdering
  <2> QED
    BY <1>3, <1>4, <2>3
<1> QED
  BY <1>5

\* Held messages are released up to the first number that is missing.
LEMMA ReleasedUpto ==
  ASSUME NEW held \in SUBSET Messages, IsFiniteSet(held), NEW doc, NEW from \in Nat
  PROVE  /\ Release(held, doc, from) \in Nat /\ from <= Release(held, doc, from)
         /\ \A m \in held : m.doc = doc => m.seq # Release(held, doc, from)
         /\ \A n \in from..(Release(held, doc, from) - 1) :
              \E m \in held : m.doc = doc /\ m.seq = n
<1> DEFINE last == from + Cardinality(held)
           free == {n \in from..last : \A m \in held : <<m.doc, m.seq>> # <<doc, n>>}
<1>1. Cardinality(held) \in Nat
  BY FS_CardinalityType
<1>2. free # {}
  <2> SUFFICES ASSUME free = {} PROVE FALSE
    OBVIOUS
  <2>1. \A n \in from..last : \E m \in held : m.doc = doc /\ m.seq = n
    OBVIOUS
  <2> DEFINE carrier == [n \in from..last |-> CHOOSE m \in held : m.doc = doc /\ m.seq = n]
  <2>2. \A n \in from..last : carrier[n] \in held /\ carrier[n].seq = n
    BY <2>1
  <2>3. carrier \in [from..last -> held]
    BY <2>2
  <2>4. IsFiniteSet(from..last) /\ Cardinality(held) < Cardinality(from..last)
    <3>1. from \in Int /\ last \in Int /\ ~(from > last) /\ last - from + 1 = Cardinality(held) + 1
      BY <1>1
    <3> HIDE DEF last
    <3>2. IsFiniteSet(from..last) /\ Cardinality(from..last) = last - from + 1
      BY <3>1, FS_Interval
    <3> QED
      BY <1>1, <3>1, <3>2
  <2>5. \E x, y \in from..last : x # y /\ carrier[x] = carrier[y]
    <3> DEFINE span == from..last
    <3>1. carrier \in [span -> held] /\ IsFiniteSet(span) /\ Cardinality(held) < Cardinality(span)
      BY <2>3, <2>4
    <3> HIDE DEF carrier, span
    <3>2. \E x, y \in span : x # y /\ carrier[x] = carrier[y]
      BY <3>1, FS_PigeonHole
    <3> QED
      BY <3>2 DEF span
  <2> HIDE DEF carrier, last
  <2> QED
    BY <2>2, <2>5
<1>3. free \in SUBSET Nat
  BY <1>1
<1>4. Release(held, doc, from) \in free /\ \A n \in free : Release(held, doc, from) <= n
  <2>1. \E n \in free : \A m \in free : n <= m
    <3> HIDE DEF free
    <3> QED
      BY <1>2, <1>3, LeastNatural
  <2>2. Release(held, doc, from) = CHOOSE x \in free : \A y \in free : x <= y
    BY DEF Release, Upto, Min
  <2> HIDE DEF free
  <2> QED
    BY <2>1, <2>2
<1>5. ASSUME NEW n \in from..(Release(held, doc, from) - 1)
      PROVE  \E m \in held : m.doc = doc /\ m.seq = n
  <2>1. n \in from..last /\ n \notin free
    BY <1>1, <1>3, <1>4
  <2> QED
    BY <2>1
<1> QED
  BY <1>1, <1>4, <1>5

\* The messages released at once are released in the order of their numbers.
LEMMA InOrderOf ==
  ASSUME NEW S \in SUBSET Messages, IsFiniteSet(S), \A m, n \in S : m.seq = n.seq => m = n
  PROVE  /\ InOrder(S) \in [1..Cardinality(S) -> S] /\ Cardinality(S) \in Nat
         /\ \A m \in S : \E i \in 1..Cardinality(S) : InOrder(S)[i] = m
         /\ \A i, j \in 1..Cardinality(S) : InOrder(S)[i].seq < InOrder(S)[j].seq => i < j
<1> DEFINE seqs == {m.seq : m \in S}
           Lower(m) == {n \in seqs : n < m.seq}
           place == [m \in S |-> Cardinality(Lower(m)) + 1]
           number == [m \in S |-> m.seq]
           size == Cardinality(S)
<1>1. \A m \in S : m.seq \in Nat
  BY DEF Messages, FillMessages, GestureMessages, IgnoredMessages
<1>2. IsFiniteSet(seqs) /\ Cardinality(seqs) = size /\ size \in Nat
  <2>1. number \in Surjection(S, seqs) /\ number \in Injection(S, seqs)
    BY DEF Surjection, Injection, IsInjective
  <2> HIDE DEF seqs, number
  <2> QED
    BY <2>1, FS_Surjection, FS_CardinalityType
<1>3. \A m \in S : IsFiniteSet(Lower(m)) /\ Cardinality(Lower(m)) \in Nat /\ Cardinality(Lower(m)) < size
  <2> TAKE m \in S
  <2>1. Lower(m) \in SUBSET seqs /\ m.seq \in seqs /\ m.seq \notin Lower(m)
    BY <1>1
  <2> HIDE DEF seqs, Lower
  <2>2. IsFiniteSet(Lower(m)) /\ Cardinality(Lower(m)) <= size /\ Cardinality(Lower(m)) # size
    BY <1>2, <2>1, FS_Subset
  <2>3. Cardinality(Lower(m)) \in Nat
    BY <2>2, FS_CardinalityType
  <2> HIDE DEF size
  <2> QED
    BY <1>2, <2>2, <2>3
<1>4. \A m, n \in S : m.seq < n.seq => Cardinality(Lower(m)) < Cardinality(Lower(n))
  <2> SUFFICES ASSUME NEW m \in S, NEW n \in S, m.seq < n.seq
               PROVE  Cardinality(Lower(m)) < Cardinality(Lower(n))
    OBVIOUS
  <2>1. Lower(m) \in SUBSET Lower(n) /\ m.seq \in Lower(n) /\ m.seq \notin Lower(m)
    BY <1>1
  <2>2. /\ IsFiniteSet(Lower(n)) /\ Cardinality(Lower(m)) \in Nat /\ Cardinality(Lower(n)) \in Nat
    BY <1>3
  <2> HIDE DEF Lower
  <2> QED
    BY <2>1, <2>2, FS_Subset
<1>5. place \in [S -> 1..size]
  <2>1. \A m \in S : Cardinality(Lower(m)) + 1 \in 1..size
    <3> HIDE DEF Lower, size
    <3> QED
      BY <1>2, <1>3
  <2> HIDE DEF Lower, size
  <2> QED
    BY <2>1
<1>6. place \in Surjection(S, 1..size)
  <2>1. \A m, n \in S : place[m] = place[n] => m = n
    <3> SUFFICES ASSUME NEW m \in S, NEW n \in S, place[m] = place[n], m.seq # n.seq PROVE FALSE
      OBVIOUS
    <3>1. m.seq < n.seq \/ n.seq < m.seq
      BY <1>1
    <3>2. Cardinality(Lower(m)) = Cardinality(Lower(n))
      <4> HIDE DEF Lower
      <4> QED
        BY <1>3
    <3> HIDE DEF Lower
    <3> QED
      BY <1>3, <1>4, <3>1, <3>2
  <2>2. place \in Injection(S, 1..size)
    <3> HIDE DEF place
    <3> QED
      BY <1>5, <2>1 DEF Injection, IsInjective
  <2>3. IsFiniteSet(1..size) /\ Cardinality(1..size) = size
    <3> HIDE DEF size
    <3>1. 1 \in Int /\ size \in Int /\ (IF 1 > size THEN 0 ELSE size - 1 + 1) = size
      BY <1>2
    <3> QED
      BY <3>1, FS_Interval
  <2> HIDE DEF place
  <2>4. place \in Surjection(S, 1..Cardinality(S))
    BY <2>2, <2>3, FS_Injection
  <2> QED
    BY <2>4
<1>7. \A i \in 1..size : \E m \in S : place[m] = i
  BY <1>6 DEF Surjection
<1>8. \A i \in 1..size : InOrder(S)[i] \in S /\ place[InOrder(S)[i]] = i
  <2> TAKE i \in 1..size
  <2> DEFINE nth == CHOOSE m \in S : Cardinality(Lower(m)) = i - 1
  <2>1. \E m \in S : Cardinality(Lower(m)) = i - 1
    <3>1. PICK m \in S : place[m] = i
      BY <1>7
    <3>2. Cardinality(Lower(m)) = i - 1
      <4> HIDE DEF Lower
      <4> QED
        BY <1>3, <3>1
    <3> QED
      BY <3>2
  <2>2. nth \in S /\ Cardinality(Lower(nth)) = i - 1
    <3> HIDE DEF Lower
    <3> QED
      BY <2>1
  <2>3. InOrder(S)[i] = nth
    BY DEF InOrder
  <2> HIDE DEF nth, Lower
  <2> QED
    BY <2>2, <2>3
<1>9. InOrder(S) \in [1..size -> S]
  <2> DEFINE nth(i) == CHOOSE m \in S : Cardinality(Lower(m)) = i - 1
  <2>1. InOrder(S) = [i \in 1..size |-> nth(i)]
    BY Zenon DEF InOrder
  <2> HIDE DEF size, nth
  <2> QED
    BY <1>8, <2>1
<1>10. \A m \in S : \E i \in 1..size : InOrder(S)[i] = m
  <2> TAKE m \in S
  <2>1. place[m] \in 1..size
    BY <1>5
  <2>2. InOrder(S)[place[m]] \in S /\ place[InOrder(S)[place[m]]] = place[m]
    BY <1>8, <2>1
  <2>3. InOrder(S)[place[m]] = m
    <3> DEFINE o == InOrder(S)[place[m]]
    <3>1. o \in S /\ Cardinality(Lower(o)) = Cardinality(Lower(m))
      <4> HIDE DEF Lower, o
      <4>1. o \in S /\ place[o] = place[m]
        BY <2>2 DEF o
      <4> QED
        BY <1>3, <4>1
    <3> HIDE DEF Lower, o
    <3>2. ~(o.seq < m.seq) /\ ~(m.seq < o.seq)
      BY <1>3, <1>4, <3>1
    <3>3. o.seq = m.seq
      BY <1>1, <3>1, <3>2
    <3> QED
      BY <3>1, <3>3 DEF o
  <2> QED
    BY <2>1, <2>3
<1>11. \A i, j \in 1..size : InOrder(S)[i].seq < InOrder(S)[j].seq => i < j
  <2> SUFFICES ASSUME NEW i \in 1..size, NEW j \in 1..size, InOrder(S)[i].seq < InOrder(S)[j].seq
               PROVE  i < j
    OBVIOUS
  <2> DEFINE m == InOrder(S)[i]
             n == InOrder(S)[j]
  <2>1. m \in S /\ n \in S /\ m.seq < n.seq /\ place[m] = i /\ place[n] = j
    BY <1>8
  <2> HIDE DEF m, n, Lower
  <2>2. Cardinality(Lower(m)) < Cardinality(Lower(n)) /\ Cardinality(Lower(m)) \in Nat
        /\ Cardinality(Lower(n)) \in Nat
    BY <1>3, <1>4, <2>1
  <2> QED
    BY <2>1, <2>2
<1> QED
  BY <1>2, <1>9, <1>10, <1>11

\* The fields a page reports are all the edited ones, each once.
LEMMA OrderOfAll ==
  ASSUME NEW S, IsFiniteSet(S), NEW o \in Orders(S)
  PROVE  /\ o \in Seq(S) /\ Len(o) = Cardinality(S) /\ DOMAIN o = 1..Len(o)
         /\ \A x \in S : \E i \in DOMAIN o : o[i] = x
<1> DEFINE size == Cardinality(S)
<1>1. size \in Nat /\ o \in [1..size -> S]
  BY FS_CardinalityType DEF Orders
<1>2. o \in Seq(S) /\ Len(o) = size /\ DOMAIN o = 1..size
  <2> HIDE DEF size
  <2> QED
    BY <1>1
<1>3. o \in Surjection(1..size, S)
  <2>1. o \in Injection(1..size, S)
    BY <1>1 DEF Orders, Injection, IsInjective
  <2>2. Cardinality(1..size) = size
    <3> HIDE DEF size
    <3>1. 1 \in Int /\ size \in Int /\ (IF 1 > size THEN 0 ELSE size - 1 + 1) = size
      BY <1>1
    <3> QED
      BY <3>1, FS_Interval
  <2>3. Cardinality(1..size) = Cardinality(S)
    BY <2>2
  <2> HIDE DEF size
  <2> QED
    BY <2>1, <2>3, FS_Injection
<1> QED
  BY <1>2, <1>3 DEF Surjection

-----------------------------------------------------------------------------
(* Steps that leave the messages, the events to come and the steps alone.  *)

LEMMA KindsApart ==
  /\ \A e \in FillMessages : /\ e \notin GestureMessages /\ e \notin NavEvents /\ e \notin OtherEvents
                             /\ e \notin FlushMarks /\ e # NoEvent
                             /\ e.kind \in FillKinds /\ e.doc \in Docs /\ e.seq \in Nat \ {0}
                             /\ e.el \in Inputs
  /\ \A e \in GestureMessages : /\ e \notin NavEvents /\ e \notin OtherEvents /\ e \notin FlushMarks
                                /\ e # NoEvent /\ e.kind = "gesture" /\ e.doc \in Docs
                                /\ e.seq \in Nat \ {0} /\ e.edits \in Edits
                                /\ e.el \in Targets \cup {Nothing}
  /\ \A e \in NavEvents : /\ e \notin OtherEvents /\ e \notin FlushMarks /\ e # NoEvent
                          /\ e.kind = "navigated" /\ e.seq \in 0..MaxDocs
  /\ \A e \in Messages : /\ e.doc \in Docs /\ e.seq \in Nat \ {0}
                         /\ e.kind \in FillKinds \cup {"gesture", "ignored"}
  /\ \A e \in QueueEvents : /\ e.kind = "gesture" <=> e \in GestureMessages
                            /\ e.kind \in FillKinds <=> e \in FillMessages
                            /\ e.kind = "navigated" <=> e \in NavEvents
                            /\ e.kind = "ignored" <=> e \in IgnoredMessages
BY DEF FillMessages, GestureMessages, IgnoredMessages, Messages, NavEvents, OtherEvents, FlushMarks,
       QueueEvents, NoEvent, FillKinds

\* What Types says of the events to come.
LEMMA ComingTyped ==
  ASSUME Types
  PROVE  Coming \in Seq(QueueEvents) /\ Len(Coming) \in Nat /\ DOMAIN Coming = 1..Len(Coming)
BY DEF Types, Coming, ChanRecord, RecRecord

LEMMA StepsTyped ==
  ASSUME Types
  PROVE  /\ Len(steps) \in Nat /\ DOMAIN steps = 1..Len(steps)
         /\ \A j \in DOMAIN steps :
              /\ steps[j] \in StepRecord
              /\ steps[j].value \in Nat /\ steps[j].key \in (0..MaxDocs) \X Elems
              /\ steps[j].key[1] \in 0..MaxDocs /\ steps[j].navs \subseteq Docs
<1>1. steps \in Seq(StepRecord)
  BY DEF Types
<1>2. Len(steps) \in Nat /\ DOMAIN steps = 1..Len(steps) /\ \A j \in DOMAIN steps : steps[j] \in StepRecord
  <2> HIDE DEF StepRecord
  <2> QED
    BY <1>1
<1>3. \A s \in StepRecord : s.value \in Nat /\ s.key \in (0..MaxDocs) \X Elems /\ s.navs \subseteq Docs
  BY DEF StepRecord
<1> QED
  BY <1>2, <1>3

\* Nothing was sent, released or handled, and what was edited is to be reported.
Quiet ==
  /\ UNCHANGED <<steps, chan.flight, chan.held, chan.next, chan.closed, page.doc, page.sent>>
  /\ Coming' = Coming /\ Committed' = Committed
  /\ page.dirty \subseteq page'.dirty /\ IsFiniteSet(page'.dirty)
  /\ \A f \in Inputs : /\ page.value[f] <= page'.value[f]
                       /\ page'.value[f] = page.value[f] \/ f \in page'.dirty
  /\ rec.drained => rec'.drained

\* The event at hand is still at hand, if the steps have not all it says.
SameHand ==
  /\ \A d \in 0..MaxDocs, f \in Inputs : AtHand(d, f) => AtHand(d, f)'
  /\ rec'.pc \in {"handle"} \cup Gestural /\ rec'.ev \in GestureMessages =>
       rec.pc \in {"handle"} \cup Gestural /\ rec.ev \in GestureMessages /\ rec'.ev = rec.ev

LEMMA NavSteady ==
  ASSUME Types, NavInv, Active, Coming' = Coming, Committed' = Committed, Now' = Now,
         rec.drained => rec'.drained,
         CountedInv', HandInv', GestureInv',
         (rec.pc \in {"handle"} \cup Gestural /\ rec.ev \in GestureMessages => rec.ev.doc <= through)'
  PROVE  NavInv'
<1>1. ComingInv /\ AfterInv
  BY DEF NavInv
<1>2. ComingInv'
  BY <1>1 DEF ComingInv, IsNav
<1>3. AfterInv'
  BY <1>1 DEF AfterInv, IsNav
<1> QED
  BY <1>2, <1>3 DEF NavInv

LEMMA MessagesSteady ==
  ASSUME MessageInv, Quiet
  PROVE  MessageInv'
BY DEF MessageInv, Quiet, Pending

LEMMA CoveredSteady ==
  ASSUME Quiet, SameHand, NEW d \in 0..MaxDocs, NEW f \in Inputs, NEW v \in Nat, NEW n \in Nat
  PROVE  /\ Covered(d, f, v, n) => Covered(d, f, v, n)'
         /\ \A s \in Nat : Underway(d, f, s) => Underway(d, f, s)'
<1>1. Kept(d, f, v) => Kept(d, f, v)'
  BY DEF Kept, Quiet
<1>2. AtHand(d, f) => AtHand(d, f)'
  BY DEF SameHand
<1>3. Ahead(d, f, n) => Ahead(d, f, n)'
  BY DEF Ahead, Quiet, IsFill
<1>4. \A s \in Nat : Underway(d, f, s) => Underway(d, f, s)'
  BY DEF Underway, Quiet, Pending, IsFill
<1> QED
  BY <1>1, <1>2, <1>3, <1>4 DEF Covered

LEMMA EditsSteady ==
  ASSUME Types, Types', MessageInv, EditInv, Quiet, SameHand, Active, Active', PlaceInv', LeftEdits',
         ClosedInv'
  PROVE  EditInv'
<1> USE KindsApart
<1>1. Len(Coming) \in Nat /\ page.sent + 1 \in Nat /\ DOMAIN Coming = 1..Len(Coming)
      /\ Coming \in Seq(QueueEvents) /\ page.value \in Edits /\ page.doc \in 0..MaxDocs
      /\ page'.value \in Edits /\ Inputs = Inputs' /\ Docs \subseteq 0..MaxDocs
  BY SMTT(30), ComingTyped, RecordingAssumption DEF Types, PageRecord, Docs
<1>2. Pending' = Pending /\ (Listening' => Listening)
  BY DEF Pending, Quiet, Listening
<1>3. \A d, edits : edits \in Edits /\ Reached(d, edits) => Reached(d, edits)'
  BY <1>1 DEF Reached, Quiet, Edits
<1>4. GestureEdits'
  <2>1. \A m \in Pending \cap GestureMessages :
          /\ Reached(m.doc, m.edits)'
          /\ Listening' => \A f \in Inputs : m.edits[f] > 0 =>
               (Covered(m.doc, f, m.edits[f], Len(Coming)) \/ Underway(m.doc, f, m.seq))'
    <3> TAKE m \in Pending \cap GestureMessages
    <3>1. m.doc \in Docs /\ m.edits \in Edits /\ m.seq \in Nat /\ \A f \in Inputs : m.edits[f] \in Nat
      BY DEF Edits
    <3>2. Reached(m.doc, m.edits)'
      BY <1>3, <3>1 DEF EditInv, GestureEdits
    <3>3. ASSUME Listening', NEW f \in Inputs, m.edits[f] > 0
          PROVE  (Covered(m.doc, f, m.edits[f], Len(Coming)) \/ Underway(m.doc, f, m.seq))'
      <4>1. Covered(m.doc, f, m.edits[f], Len(Coming)) \/ Underway(m.doc, f, m.seq)
        BY <1>2, <3>3 DEF EditInv, GestureEdits
      <4>2. Coming' = Coming
        BY DEF Quiet
      <4> QED
        BY <1>1, <3>1, <4>1, <4>2, CoveredSteady
    <3> QED
      BY <3>2, <3>3
  <2>2. \A i \in DOMAIN Coming : Coming[i] \in GestureMessages =>
          /\ Reached(Coming[i].doc, Coming[i].edits)'
          /\ \A f \in Inputs : Coming[i].edits[f] > 0 => Covered(Coming[i].doc, f, Coming[i].edits[f], i - 1)'
    <3> SUFFICES ASSUME NEW i \in DOMAIN Coming, Coming[i] \in GestureMessages
                 PROVE  /\ Reached(Coming[i].doc, Coming[i].edits)'
                        /\ \A f \in Inputs : Coming[i].edits[f] > 0 =>
                             Covered(Coming[i].doc, f, Coming[i].edits[f], i - 1)'
      OBVIOUS
    <3> DEFINE m == Coming[i]
    <3>1. m.doc \in Docs /\ m.edits \in Edits /\ \A f \in Inputs : m.edits[f] \in Nat
      BY DEF Edits
    <3>4. Reached(m.doc, m.edits) /\ m' = m
      BY DEF EditInv, GestureEdits, Quiet
    <3>2. Reached(m.doc, m.edits)'
      <4> HIDE DEF m
      <4> QED
        BY <1>3, <3>1, <3>4
    <3>3. ASSUME NEW f \in Inputs, m.edits[f] > 0
          PROVE  Covered(m.doc, f, m.edits[f], i - 1)'
      <4>1. Covered(m.doc, f, m.edits[f], i - 1)
        BY <3>3 DEF EditInv, GestureEdits
      <4>2. i - 1 \in Nat /\ m' = m
        BY <1>1 DEF Quiet
      <4> HIDE DEF m
      <4> QED
        BY <1>1, <3>1, <4>1, <4>2, CoveredSteady
    <3> QED
      BY <3>2, <3>3
  <2>3. (rec.pc \in {"handle"} \cup Gestural /\ rec.ev \in GestureMessages =>
          \A f \in Inputs : rec.ev.edits[f] > 0 => Kept(rec.ev.doc, f, rec.ev.edits[f]))'
    <3> SUFFICES ASSUME rec'.pc \in {"handle"} \cup Gestural, rec'.ev \in GestureMessages
                 PROVE  (\A f \in Inputs : rec.ev.edits[f] > 0 => Kept(rec.ev.doc, f, rec.ev.edits[f]))'
      BY DEF Gestural, GestureMessages, Edits, Docs
    <3>1. rec.pc \in {"handle"} \cup Gestural /\ rec.ev \in GestureMessages /\ rec'.ev = rec.ev
      BY DEF SameHand
    <3>2. \A f \in Inputs : rec.ev.edits[f] > 0 => Kept(rec.ev.doc, f, rec.ev.edits[f])
      BY <3>1 DEF EditInv, GestureEdits
    <3> QED
      BY SMTT(30), <3>1, <3>2 DEF Kept, Quiet
  <2> QED
    BY <1>2, <2>1, <2>2, <2>3 DEF GestureEdits, Quiet
<1>5. PageEdits'
  <2> SUFFICES ASSUME Listening', NEW f \in Inputs, page'.value[f] > 0, f \notin page'.dirty
               PROVE  (Covered(page.doc, f, page.value[f], Len(Coming)) \/ Underway(page.doc, f, page.sent + 1))'
    BY DEF PageEdits
  <2>1. page'.value[f] = page.value[f] /\ f \notin page.dirty
    BY DEF Quiet
  <2>2. Covered(page.doc, f, page.value[f], Len(Coming)) \/ Underway(page.doc, f, page.sent + 1)
    BY <1>2, <2>1 DEF EditInv, PageEdits
  <2>3. page.value[f] \in Nat
    BY <1>1 DEF Edits
  <2> QED
    BY <1>1, <2>1, <2>2, <2>3, CoveredSteady DEF Quiet
<1>6. StepValues'
  <2>1. \A j \in DOMAIN steps : steps[j].value \in Nat
    BY StepsTyped
  <2>2. \A f \in Inputs : page.value[f] \in Nat /\ page'.value[f] \in Nat /\ page.value[f] <= page'.value[f]
    BY <1>1 DEF Edits, Quiet
  <2>3. StepValues /\ steps' = steps /\ page'.doc = page.doc
    BY DEF EditInv, Quiet
  <2> QED
    BY <2>1, <2>2, <2>3 DEF StepValues
<1>7. EditsComeFirst' /\ StopKeepsEdits' /\ SecretsStayOnPage'
  <2>1. steps' = steps /\ EditsComeFirst /\ SecretsStayOnPage
    BY DEF EditInv, Quiet
  <2>2. EditsComeFirst' /\ SecretsStayOnPage'
    BY <2>1 DEF EditsComeFirst, SecretsStayOnPage
  <2>3. rec'.end = "none"
    BY DEF PlaceInv
  <2> QED
    BY <2>2, <2>3 DEF StopKeepsEdits
<1> QED
  BY <1>4, <1>5, <1>6, <1>7 DEF EditInv

LEMMA LeftSteady ==
  ASSUME Types, Types', EditInv, Quiet, SameHand, Active, Active',
         rec'.left = rec.left, rec.late => rec'.late, rec'.drained = rec.drained,
         \/ UNCHANGED <<rec.pc, rec.ev, rec.upto>>
         \/ {rec.pc, rec'.pc} \cap {"flushed", "drain"} = {}
  PROVE  LeftEdits'
<1> SUFFICES ASSUME rec'.left # <<>> PROVE LeftEdits'
  BY DEF LeftEdits
<1>1. rec.left \in [doc : 0..MaxDocs, value : Edits] /\ LeftEdits
  BY DEF Types, RecRecord, EditInv
<1> DEFINE d == rec.left.doc
           v == rec.left.value
<1>2. d \in 0..MaxDocs /\ v \in Edits /\ \A f \in Inputs : v[f] \in Nat
  BY <1>1 DEF Edits
<1>3. /\ d <= page.doc /\ Reached(d, v) /\ (rec.drained \/ rec.pc \in {"flushed", "drain"})
      /\ rec.pc = "flushed" => rec.ev.doc = d /\ (d = page.doc => rec.upto <= page.sent)
  BY <1>1 DEF LeftEdits
<1>4. page.value \in Edits /\ page'.value \in Edits /\ Len(Coming) \in Nat /\ rec.upto + 1 \in Nat
  <2>1. page \in PageRecord /\ page' \in PageRecord /\ rec \in RecRecord
    BY DEF Types
  <2>2. page.value \in Edits /\ page'.value \in Edits
    BY <2>1 DEF PageRecord
  <2>3. rec.upto + 1 \in Nat
    BY <2>1 DEF RecRecord
  <2> QED
    BY <2>2, <2>3, ComingTyped
<1>5. d <= page'.doc /\ Reached(d, v)'
  BY <1>2, <1>3, <1>4 DEF Reached, Quiet, Edits
<1>6. ASSUME ~rec'.late, ~(rec'.pc \in {"flushed", "drain"} /\ chan'.closed), NEW f \in Inputs, v[f] > 0
      PROVE  (Covered(d, f, v[f], Len(Coming)) \/ (rec.pc = "flushed" /\ Underway(d, f, rec.upto + 1)))'
  <2>1. ~rec.late /\ ~(rec.pc \in {"flushed", "drain"} /\ chan.closed)
    BY <1>6 DEF Quiet
  <2>2. Covered(d, f, v[f], Len(Coming)) \/ (rec.pc = "flushed" /\ Underway(d, f, rec.upto + 1))
    BY <1>1, <1>6, <2>1 DEF LeftEdits
  <2>3. rec.pc = "flushed" => rec'.pc = "flushed" /\ rec'.upto = rec.upto
    OBVIOUS
  <2>4. Len(Coming)' = Len(Coming) /\ d' = d /\ v' = v
    BY DEF Quiet
  <2> HIDE DEF d, v
  <2> QED
    BY <1>2, <1>4, <2>2, <2>3, <2>4, CoveredSteady
<1>7. rec'.drained \/ rec'.pc \in {"flushed", "drain"}
  BY <1>3
<1>8. rec'.pc = "flushed" => rec'.ev.doc = d /\ (d = page'.doc => rec'.upto <= page'.sent)
  BY <1>3 DEF Quiet
<1>9. rec'.left.doc = d /\ rec'.left.value = v /\ d' = d /\ v' = v
  OBVIOUS
<1> HIDE DEF d, v
<1> QED
  BY <1>5, <1>6, <1>7, <1>8, <1>9 DEF LeftEdits

\* Only the page, the person or the navigation to come change.
LEMMA PageOnly ==
  ASSUME Inv, Types', UNCHANGED <<chan, rec, steps, ignored, through, nav.log>>, Active, Quiet,
         page.open = page'.open
  PROVE  Inv'
<1>1. Active' /\ SameHand /\ Now' = Now /\ Committed' = Committed /\ Coming' = Coming
  BY DEF Active, SameHand, Now, Committed, AtHand, IsFill, Coming
<1>2. PlaceInv'
  BY DEF Inv, PlaceInv, Active, Quiet
<1>3. NavInv'
  <2>1. CountedInv' /\ HandInv' /\ GestureInv'
    BY <1>1 DEF Inv, NavInv, CountedInv, HandInv, GestureInv, Active
  <2> QED
    BY <1>1, <2>1, NavSteady DEF Inv, NavInv, AfterInv
<1>4. MessageInv'
  BY MessagesSteady DEF Inv
<1>5. EditInv'
  <2>1. ClosedInv'
    BY <1>1 DEF Inv, EditInv, ClosedInv
  <2>2. LeftEdits'
    BY <1>1, LeftSteady DEF Inv
  <2> QED
    BY <1>1, <1>2, <2>1, <2>2, EditsSteady DEF Inv
<1> QED
  BY <1>2, <1>3, <1>4, <1>5 DEF Inv

-----------------------------------------------------------------------------
(* What the person and the site do without the channel.                    *)

\* What a step that changes the page and the person alone has to keep.
LEMMA PageTyped ==
  ASSUME Types, page' \in PageRecord, person' \in PersonRecord, nav' \in NavRecord,
         page'.busy <= page'.sent, page'.doc = page.doc, nav'.log = nav.log,
         nav'.coming => nav'.requested,
         UNCHANGED <<chan, rec, steps, ignored, through, out>>
  PROVE  Types'
BY DEF Types, Committed

LEMMA ActingTyped ==
  ASSUME Inv, NEW kind \in Kinds, Acting(kind)
  PROVE  person' \in PersonRecord /\ Active /\ Working /\ page.doc \in Docs /\ ~chan.closed
<1>1. person \in PersonRecord /\ person.left[kind] - 1 \in Nat
  BY DEF Inv, Types, Acting, PersonRecord
<1>2. [person.left EXCEPT ![kind] = @ - 1] \in [Kinds -> Nat]
  BY <1>1 DEF PersonRecord
<1>3. person' \in PersonRecord
  BY <1>1, <1>2 DEF Acting, PersonRecord
<1>4. page.doc \in 0..MaxDocs /\ page.doc > 0 /\ MaxDocs \in Nat
  BY RecordingAssumption DEF Inv, Types, PageRecord, Acting, Working
<1>5. page.doc \in Docs
  BY <1>4 DEF Docs
<1>6. Active /\ Working /\ ~chan.closed
  BY DEF Inv, PlaceInv, Types, ChanRecord, PageRecord, Acting, Working
<1> QED
  BY <1>3, <1>5, <1>6

LEMMA TypeKeeps ==
  ASSUME Inv, NEW f \in Fields, Type(f), UNCHANGED out
  PROVE  Inv'
<1> DEFINE value == [page.value EXCEPT ![f] = @ + 1]
           dirty == page.dirty \cup {f}
<1>1. page \in PageRecord /\ f \in Inputs /\ page.value \in Edits /\ page.dirty \in SUBSET Fields
      /\ IsFiniteSet(page.dirty)
  BY DEF Inv, Types, Inputs, MessageInv, PageRecord
<1>2. value \in Edits /\ dirty \in SUBSET Fields /\ IsFiniteSet(dirty)
  BY <1>1, FS_AddElement DEF Edits
<1>3. \A g \in Inputs : page.value[g] <= value[g] /\ (value[g] = page.value[g] \/ g \in dirty)
  BY <1>1 DEF Edits
<1>4. page' = [page EXCEPT !.value = value, !.dirty = dirty]
  BY DEF Type
<1> HIDE DEF value, dirty
<1>5. page' \in PageRecord
  BY <1>1, <1>2, <1>4 DEF PageRecord
<1>6. /\ page'.value = value /\ page'.dirty = dirty /\ page'.doc = page.doc /\ page'.sent = page.sent
      /\ page'.busy = page.busy /\ page'.open = page.open
  BY <1>1, <1>4 DEF PageRecord
<1>7. person' \in PersonRecord /\ Active
  BY ActingTyped DEF Type, Kinds
<1>8. UNCHANGED <<nav, chan, rec, steps, ignored, through>>
  BY DEF Type
<1>9. Types'
  BY <1>5, <1>6, <1>7, <1>8, PageTyped DEF Inv, Types
<1>10. page.dirty \subseteq dirty
  BY DEF dirty
<1>11. Coming' = Coming /\ Committed' = Committed
  BY <1>8 DEF Coming, Committed
<1>12. Quiet
  BY <1>2, <1>3, <1>6, <1>8, <1>10, <1>11 DEF Quiet
<1> QED
  BY <1>12, <1>6, <1>7, <1>8, <1>9, <1>10, PageOnly

LEMMA AnsweredKeeps ==
  ASSUME Inv, Answered, UNCHANGED out
  PROVE  Inv'
<1>1. page \in PageRecord /\ page' = [page EXCEPT !.busy = 0, !.armed = FALSE] /\ IsFiniteSet(page.dirty)
      /\ page.open
  BY DEF Inv, Types, Answered, MessageInv, Working
<1>2. page' \in PageRecord
  BY <1>1 DEF PageRecord
<1>3. /\ page'.value = page.value /\ page'.dirty = page.dirty /\ page'.doc = page.doc
      /\ page'.sent = page.sent /\ page'.busy = 0 /\ page'.open = page.open
  BY <1>1 DEF PageRecord
<1>4. UNCHANGED <<person, nav, chan, rec, steps, ignored, through>>
  BY DEF Answered
<1>5. Types'
  BY <1>2, <1>3, <1>4, PageTyped DEF Inv, Types, PageRecord
<1>6. Quiet
  BY <1>1, <1>3, <1>4 DEF Quiet, Coming, Committed, Inv, Types, PageRecord, Edits
<1>7. Active
  BY <1>1 DEF Inv, PlaceInv
<1> QED
  BY <1>3, <1>4, <1>5, <1>6, <1>7, PageOnly

LEMMA ToggleMaskKeeps ==
  ASSUME Inv, NEW f \in Inputs, ToggleMask(f), UNCHANGED out
  PROVE  Inv'
<1> DEFINE masked == IF f \in page.masked THEN page.masked \ {f} ELSE page.masked \cup {f}
<1>1. page \in PageRecord /\ page' = [page EXCEPT !.masked = masked] /\ IsFiniteSet(page.dirty)
  BY DEF Inv, Types, ToggleMask, MessageInv
<1>2. masked \in SUBSET Inputs
  BY <1>1 DEF PageRecord
<1> HIDE DEF masked
<1>3. page' \in PageRecord
  BY <1>1, <1>2 DEF PageRecord
<1>4. /\ page'.value = page.value /\ page'.dirty = page.dirty /\ page'.doc = page.doc
      /\ page'.sent = page.sent /\ page'.busy = page.busy /\ page'.open = page.open
  BY <1>1 DEF PageRecord
<1>5. person' \in PersonRecord /\ Active
  BY ActingTyped DEF ToggleMask, Kinds
<1>6. UNCHANGED <<nav, chan, rec, steps, ignored, through>>
  BY DEF ToggleMask
<1>7. Types'
  BY <1>3, <1>4, <1>5, <1>6, PageTyped DEF Inv, Types
<1>8. Quiet
  BY <1>1, <1>4, <1>6 DEF Quiet, Coming, Committed, Inv, Types, PageRecord, Edits
<1> QED
  BY <1>4, <1>5, <1>6, <1>7, <1>8, PageOnly

LEMMA RequestsKeep ==
  ASSUME Inv, PageRequests \/ RequestDropped \/ Stop, UNCHANGED out
  PROVE  Inv'
<1>1. UNCHANGED <<page, chan, rec, steps, ignored, through>> /\ nav \in NavRecord
      /\ person \in PersonRecord /\ (nav.coming => nav.requested) /\ page \in PageRecord
      /\ page.busy <= page.sent /\ IsFiniteSet(page.dirty)
  BY DEF Inv, Types, PageRequests, RequestDropped, Stop, MessageInv
<1>2. person' \in PersonRecord /\ Active
  <2>1. CASE PageRequests
    BY <2>1, ActingTyped DEF PageRequests, Kinds
  <2>2. CASE RequestDropped
    BY <2>2, ActingTyped DEF RequestDropped, Kinds
  <2>3. CASE Stop
    <3> DEFINE left == [person.left EXCEPT !["stop"] = @ - 1]
    <3>1. person.left["stop"] - 1 \in Nat /\ "stop" \in Kinds
      BY <1>1, <2>3 DEF Stop, PersonRecord, Kinds
    <3>2. left \in [Kinds -> Nat]
      BY <1>1, <3>1 DEF PersonRecord
    <3>3. person' = [person EXCEPT !.stopped = TRUE, !.left = left] /\ page.open
      BY <2>3 DEF Stop, Working
    <3> HIDE DEF left
    <3> QED
      BY <1>1, <3>2, <3>3 DEF Inv, PlaceInv, PersonRecord
  <2> QED
    BY <2>1, <2>2, <2>3
<1>3. nav' \in NavRecord /\ nav'.log = nav.log /\ (nav'.coming => nav'.requested)
  BY <1>1 DEF PageRequests, RequestDropped, Stop, NavRecord
<1>4. Types'
  BY <1>1, <1>2, <1>3, PageTyped DEF Inv
<1>5. Quiet
  BY <1>1, <1>3 DEF Quiet, Coming, Committed, PageRecord, Edits
<1> QED
  BY <1>1, <1>2, <1>3, <1>4, <1>5, PageOnly

-----------------------------------------------------------------------------
(* The recorder's steps between two events.                                *)

\* All the recorder changes is what it does, what it noted, and what the page holds back.
OnlyHand ==
  /\ UNCHANGED <<steps, page.doc, page.value, page.dirty, page.sent, page.open, chan.flight,
                 chan.held, chan.next, chan.queue, chan.closed, nav.log, rec.drained, rec.backlog,
                 rec.left, rec.late, rec.end>>
  /\ {rec.pc, rec'.pc} \cap ({"start", "flushed", "drain"} \cup Finishing) = {}
  /\ rec'.pc # "handle"

\* The event at hand, where it is of the kind the next await is for.
HandPlaced ==
  /\ rec.pc \in Gestural => rec.ev \in GestureMessages
  /\ rec.pc \in Fieldwise => rec.ev \in FillMessages
  /\ rec.pc = "open" => rec.ev \in NavEvents

LEMMA HandStep ==
  ASSUME Inv, Types', OnlyHand, HandPlaced', SameHand, Now' = Now, through <= through',
         CountedInv', HandInv', GestureInv'
  PROVE  Inv'
<1>1. Active /\ Active'
  BY DEF Active, OnlyHand
<1>2. Quiet
  <2>1. Coming' = Coming /\ Committed' = Committed
    BY DEF OnlyHand, Coming, Committed
  <2>2. page.value \in Edits /\ IsFiniteSet(page.dirty)
    BY DEF Inv, Types, PageRecord, MessageInv
  <2> QED
    BY <2>1, <2>2 DEF Quiet, OnlyHand, Edits
<1>3. PlaceInv'
  BY <1>1 DEF Inv, PlaceInv, OnlyHand, HandPlaced
<1>4. NavInv'
  <2>1. (rec.pc \in {"handle"} \cup Gestural /\ rec.ev \in GestureMessages => rec.ev.doc <= through)'
    <3> SUFFICES ASSUME rec'.pc \in {"handle"} \cup Gestural, rec'.ev \in GestureMessages
                 PROVE  rec'.ev.doc <= through'
      BY DEF Gestural, GestureMessages, Docs, Edits
    <3>1. rec'.ev = rec.ev /\ rec.ev.doc <= through
      BY <1>1 DEF SameHand, Inv, NavInv, AfterInv
    <3>2. rec.ev.doc \in Nat /\ through \in Nat /\ through' \in Nat
      BY <3>1, KindsApart DEF Inv, Types, Docs, SameHand
    <3> QED
      BY <3>1, <3>2
  <2>2. Coming' = Coming /\ Committed' = Committed /\ rec'.drained = rec.drained
    BY <1>2 DEF Quiet, OnlyHand
  <2> QED
    BY <1>1, <2>1, <2>2, NavSteady DEF Inv
<1>5. MessageInv'
  BY <1>2, MessagesSteady DEF Inv
<1>6. EditInv'
  <2>1. ClosedInv'
    BY <1>1, <1>2 DEF Inv, EditInv, ClosedInv, OnlyHand, Quiet
  <2>2. LeftEdits'
    BY <1>1, <1>2, LeftSteady DEF Inv, OnlyHand
  <2> QED
    BY <1>1, <1>2, <1>3, <2>1, <2>2, EditsSteady DEF Inv
<1> QED
  BY <1>3, <1>4, <1>5, <1>6 DEF Inv

\* The common case: nothing is counted.
LEMMA AwaitStep ==
  ASSUME Inv, Types', OnlyHand, HandPlaced', SameHand, UNCHANGED <<ignored, through>>,
         rec'.pc # "open", rec.pc \in {"handle", "open"} /\ rec.ev \in NavEvents => rec.ev.seq <= through,
         GestureInv'
  PROVE  Inv'
<1>1. Now = through /\ Now' = through /\ through \in Nat /\ through <= through'
  BY KindsApart DEF Now, OnlyHand, Inv, Types
<1>2. CountedInv'
  BY DEF Inv, NavInv, CountedInv, OnlyHand
<1>3. HandInv'
  BY DEF HandInv, OnlyHand
<1> QED
  BY <1>1, <1>2, <1>3, HandStep

LEMMA RecTyped ==
  ASSUME Types, page' \in PageRecord, chan' \in ChanRecord, nav' \in NavRecord, rec' \in RecRecord,
         UNCHANGED <<page.doc, page.busy, page.sent, nav.log, person, steps, ignored, through, out>>,
         nav'.coming => nav'.requested
  PROVE  Types'
BY DEF Types, Committed

LEMMA AwaitTyped ==
  ASSUME Types, rec' \in RecRecord, UNCHANGED <<page, chan, nav, person, steps, ignored, through, out>>
  PROVE  Types'
BY DEF Types, Committed

LEMMA NextEventIs ==
  ASSUME Types
  PROVE  /\ NextEvent \in RecRecord /\ NextEvent.pc = "next" /\ NextEvent.ev = NoEvent
         /\ NextEvent.drained = rec.drained /\ NextEvent.backlog = rec.backlog
         /\ NextEvent.left = rec.left /\ NextEvent.late = rec.late /\ NextEvent.end = rec.end
         /\ NextEvent.upto = rec.upto
<1>1. rec \in RecRecord /\ "next" \in Places /\ NoEvent \in QueueEvents /\ 0 \in 0..MaxDocs
  BY RecordingAssumption DEF Types, Places, NoEvent, QueueEvents, OtherEvents
<1> DEFINE first == [rec EXCEPT !.pc = "next", !.ev = NoEvent, !.before = 0]
<1>2. first \in RecRecord /\ NextEvent = [first EXCEPT !.navs = {}, !.masked = FALSE]
  BY <1>1 DEF RecRecord, NextEvent
<1>3. /\ first.pc = "next" /\ first.ev = NoEvent /\ first.drained = rec.drained
      /\ first.backlog = rec.backlog /\ first.left = rec.left /\ first.late = rec.late
      /\ first.end = rec.end /\ first.upto = rec.upto
  BY <1>1 DEF RecRecord
<1> HIDE DEF first
<1>4. [first EXCEPT !.navs = {}, !.masked = FALSE] \in RecRecord
  BY <1>2 DEF RecRecord
<1> QED
  BY <1>1, <1>2, <1>3, <1>4 DEF RecRecord

\* On to another await of the same event.
LEMMA SameEventKeeps ==
  ASSUME Inv, HandleGesture \/ HandleField \/ Pin \/ RecordTarget \/ PinField, UNCHANGED out
  PROVE  Inv'
<1>1. PICK pc \in {"before", "pin", "field", "target", "examine"} :
        /\ rec' = [rec EXCEPT !.pc = pc]
        /\ UNCHANGED <<page, person, nav, chan, steps, ignored, through>>
        /\ \/ rec.pc = "handle" /\ rec.ev.kind = "gesture" /\ pc \in {"before", "pin"}
           \/ rec.pc = "handle" /\ rec.ev.kind \in {"fill", "select"} /\ pc = "field"
           \/ rec.pc \in {"pin", "target"} /\ pc \in {"target", "before"}
           \/ rec.pc = "field" /\ pc = "examine"
  BY DEF HandleGesture, HandleField, Pin, RecordTarget, PinField, Await, Handling, At
<1>2. rec \in RecRecord /\ pc \in Places
  BY DEF Inv, Types, Places
<1>3. /\ rec' \in RecRecord /\ rec'.pc = pc /\ rec'.ev = rec.ev /\ rec'.drained = rec.drained
      /\ rec'.backlog = rec.backlog /\ rec'.left = rec.left /\ rec'.late = rec.late
      /\ rec'.end = rec.end
  BY <1>1, <1>2 DEF RecRecord
<1>4. Types'
  BY <1>1, <1>3, AwaitTyped DEF Inv
<1>5. OnlyHand
  BY <1>1, <1>3 DEF OnlyHand, Finishing
<1>6. \/ rec.pc \in {"handle"} \cup Gestural /\ rec.ev \in GestureMessages /\ pc \in Gestural
      \/ rec.pc \in {"handle"} \cup Fieldwise /\ rec.ev \in FillMessages /\ pc \in Fieldwise
  BY <1>1, KindsApart DEF Inv, PlaceInv, Gestural, Fieldwise, FillKinds
<1>7. HandPlaced' /\ SameHand /\ rec.ev \notin NavEvents
  BY <1>3, <1>6, KindsApart DEF HandPlaced, SameHand, AtHand, IsFill, Gestural, Fieldwise
<1>8. GestureInv'
  BY <1>1, <1>3 DEF GestureInv
<1> QED
  BY <1>1, <1>3, <1>4, <1>5, <1>7, <1>8, AwaitStep

LEMMA ExamineKeeps ==
  ASSUME Inv, Examine, UNCHANGED out
  PROVE  Inv'
<1>1. PICK masked \in BOOLEAN : /\ rec' = [rec EXCEPT !.pc = "read", !.masked = masked] /\ rec.pc = "examine"
                                /\ UNCHANGED <<page, person, nav, chan, steps, ignored, through>>
  BY DEF Examine, At, Await
<1>2. rec \in RecRecord /\ "read" \in Places
  BY DEF Inv, Types, Places
<1>3. /\ rec' \in RecRecord /\ rec'.pc = "read" /\ rec'.ev = rec.ev /\ rec'.drained = rec.drained
      /\ rec'.backlog = rec.backlog /\ rec'.left = rec.left /\ rec'.late = rec.late
      /\ rec'.end = rec.end
  BY <1>1, <1>2 DEF RecRecord
<1>4. Types'
  BY <1>1, <1>3, AwaitTyped DEF Inv
<1>5. OnlyHand
  BY <1>1, <1>3 DEF OnlyHand, Finishing
<1>6. rec.ev \in FillMessages
  BY <1>1 DEF Inv, PlaceInv, Fieldwise
<1>7. HandPlaced' /\ SameHand /\ rec.ev \notin NavEvents
  BY <1>1, <1>3, <1>6, KindsApart DEF HandPlaced, SameHand, AtHand, IsFill, Gestural, Fieldwise
<1>8. GestureInv'
  BY <1>1, <1>3 DEF GestureInv
<1> QED
  BY <1>1, <1>3, <1>4, <1>5, <1>7, <1>8, AwaitStep

\* The event is done with, and nothing came of it.
LEMMA NotedKeeps ==
  ASSUME Inv, HandleNoted \/ GestureIgnored, UNCHANGED out
  PROVE  Inv'
<1>1. /\ rec' = NextEvent /\ UNCHANGED <<person, nav, steps, ignored, through>>
      /\ \/ /\ rec.pc = "handle" /\ rec.ev.kind \in {"ignored", "navigated"}
            /\ rec.ev.kind = "navigated" => rec.ev.seq <= through
            /\ UNCHANGED <<page, chan>>
         \/ /\ rec.pc \in {"pin", "act"} /\ page' = [page EXCEPT !.armed = FALSE]
            /\ chan' = [chan EXCEPT !.waiting = Finished]
  BY DEF HandleNoted, GestureIgnored, Await, Handling, At, Attributed
<1>2. page \in PageRecord /\ chan \in ChanRecord /\ nav \in NavRecord /\ Finished \in SUBSET (Docs \X (Nat \ {0}))
  BY DEF Inv, Types, ChanRecord, Finished
<1>3. /\ page' \in PageRecord /\ page'.value = page.value /\ page'.dirty = page.dirty
      /\ page'.doc = page.doc /\ page'.sent = page.sent /\ page'.busy = page.busy
      /\ page'.open = page.open
  <2>1. CASE page' = page
    BY <1>2, <2>1
  <2>2. CASE page' = [page EXCEPT !.armed = FALSE]
    BY <1>2, <2>2 DEF PageRecord
  <2> QED
    BY <1>1, <2>1, <2>2
<1>4. /\ chan' \in ChanRecord /\ chan'.flight = chan.flight /\ chan'.held = chan.held
      /\ chan'.next = chan.next /\ chan'.queue = chan.queue /\ chan'.closed = chan.closed
  <2> HIDE DEF Finished
  <2> QED
    BY <1>1, <1>2 DEF ChanRecord
<1>5. /\ rec' \in RecRecord /\ rec'.pc = "next" /\ rec'.ev = NoEvent /\ rec'.drained = rec.drained
      /\ rec'.backlog = rec.backlog /\ rec'.left = rec.left /\ rec'.late = rec.late /\ rec'.end = rec.end
  BY <1>1, NextEventIs DEF Inv
<1>6. Types'
  BY <1>1, <1>2, <1>3, <1>4, <1>5, RecTyped DEF Inv, Types
<1>7. OnlyHand
  BY <1>1, <1>3, <1>4, <1>5 DEF OnlyHand, Finishing
<1>8. HandPlaced' /\ GestureInv'
  BY <1>5 DEF HandPlaced, GestureInv, Gestural, Fieldwise
<1>9. SameHand
  BY <1>1, <1>5, KindsApart DEF SameHand, AtHand, IsFill, Gestural, Fieldwise, FillKinds
<1>10. rec.pc \in {"handle", "open"} /\ rec.ev \in NavEvents => rec.ev.seq <= through
  BY <1>1, KindsApart
<1> QED
  BY <1>1, <1>5, <1>6, <1>7, <1>8, <1>9, <1>10, AwaitStep
\* A gesture's next await: its target, what was before, the page's letting it act.
LEMMA GesturingKeeps ==
  ASSUME Inv, rec.pc \in Gestural, rec'.pc \in Gestural, rec'.ev = rec.ev, rec' \in RecRecord,
         UNCHANGED <<rec.drained, rec.backlog, rec.left, rec.late, rec.end, chan, person, steps, ignored,
                     through, out, nav.log>>,
         page' = page \/ \E b \in BOOLEAN : page' = [page EXCEPT !.armed = b],
         nav' = nav \/ nav' = [nav EXCEPT !.requested = TRUE, !.coming = TRUE],
         GestureInv'
  PROVE  Inv'
<1>1. page \in PageRecord /\ chan \in ChanRecord /\ nav \in NavRecord
  BY DEF Inv, Types
<1>2. /\ page' \in PageRecord /\ page'.value = page.value /\ page'.dirty = page.dirty
      /\ page'.doc = page.doc /\ page'.sent = page.sent /\ page'.busy = page.busy
      /\ page'.open = page.open
  BY <1>1 DEF PageRecord
<1>3. nav' \in NavRecord /\ (nav'.coming => nav'.requested)
  BY <1>1 DEF NavRecord, Inv, Types
<1>4. Types'
  BY <1>1, <1>2, <1>3, RecTyped DEF Inv
<1>5. OnlyHand
  BY <1>2 DEF OnlyHand, Finishing, Gestural
<1>6. rec.ev \in GestureMessages
  BY DEF Inv, PlaceInv
<1>7. HandPlaced' /\ SameHand /\ rec.ev \notin NavEvents /\ rec'.pc # "open"
  BY <1>6, KindsApart DEF HandPlaced, SameHand, AtHand, IsFill, Gestural, Fieldwise
<1> QED
  BY <1>4, <1>5, <1>7, AwaitStep

LEMMA ObserveBeforeKeeps ==
  ASSUME Inv, ObserveBefore, UNCHANGED out
  PROVE  Inv'
<1>1. /\ rec.pc = "before" /\ rec' = [rec EXCEPT !.pc = "arm", !.before = Committed]
      /\ UNCHANGED <<page, person, nav, chan, steps, ignored, through>>
  BY DEF ObserveBefore, At, Await
<1>2. rec \in RecRecord /\ "arm" \in Places /\ Committed \in 0..MaxDocs /\ through <= Committed
  BY DEF Inv, Types, Places, PageRecord
<1>3. /\ rec' \in RecRecord /\ rec'.pc = "arm" /\ rec'.ev = rec.ev /\ rec'.drained = rec.drained
      /\ rec'.backlog = rec.backlog /\ rec'.left = rec.left /\ rec'.late = rec.late
      /\ rec'.end = rec.end /\ rec'.before = Committed
  BY <1>1, <1>2 DEF RecRecord
<1>4. GestureInv'
  BY <1>1, <1>2, <1>3 DEF GestureInv, Committed
<1> QED
  BY <1>1, <1>3, <1>4, GesturingKeeps DEF Gestural

LEMMA ArmKeeps ==
  ASSUME Inv, Arm, UNCHANGED out
  PROVE  Inv'
<1>1. /\ rec.pc = "arm" /\ rec' = [rec EXCEPT !.pc = "act"] /\ rec.ev.doc = page.doc
      /\ page' = [page EXCEPT !.armed = TRUE]
      /\ UNCHANGED <<person, nav, chan, steps, ignored, through>>
  BY DEF Arm, At, SameDocument
<1>2. rec \in RecRecord /\ "act" \in Places
  BY DEF Inv, Types, Places
<1>3. /\ rec' \in RecRecord /\ rec'.pc = "act" /\ rec'.ev = rec.ev /\ rec'.drained = rec.drained
      /\ rec'.backlog = rec.backlog /\ rec'.left = rec.left /\ rec'.late = rec.late
      /\ rec'.end = rec.end /\ rec'.before = rec.before
  BY <1>1, <1>2 DEF RecRecord
\* The document the gesture is of is counted, and none committed since.
<1>4. rec.before = through
  <2>1. Active /\ rec.ev \in GestureMessages
    BY <1>1 DEF Active, Finishing, Inv, PlaceInv, Gestural
  <2>2. rec.ev.doc <= through
    BY <1>1, <2>1 DEF Inv, NavInv, AfterInv, Gestural
  <2>3. through <= rec.before /\ rec.before <= Committed
    BY <1>1, <2>1 DEF Inv, NavInv, GestureInv
  <2>4. Committed = page.doc /\ page.doc \in Nat /\ through \in Nat /\ rec.before \in Nat
    BY <1>2, RecordingAssumption DEF Inv, Types, PageRecord, RecRecord
  <2> QED
    BY <1>1, <2>2, <2>3, <2>4
<1>5. GestureInv'
  BY <1>1, <1>3, <1>4 DEF GestureInv
<1> QED
  BY <1>1, <1>3, <1>5, GesturingKeeps DEF Gestural

\* The page was armed: the click or press was let through.
ActLetThrough ==
  /\ At("act") /\ page.open /\ page.armed
  /\ \/ UNCHANGED nav
     \/ ~nav.coming /\ nav' = [nav EXCEPT !.requested = TRUE, !.coming = TRUE]
  /\ page' = [page EXCEPT !.armed = FALSE]
  /\ rec' = [rec EXCEPT !.pc = "settle"]
  /\ UNCHANGED <<chan, person, steps, ignored, through>>

LEMMA ActLetThroughKeeps ==
  ASSUME Inv, ActLetThrough, UNCHANGED out
  PROVE  Inv'
<1>1. rec \in RecRecord /\ "settle" \in Places /\ rec.pc = "act" /\ nav \in NavRecord
  BY DEF Inv, Types, Places, ActLetThrough, At
<1>2. /\ rec' \in RecRecord /\ rec'.pc = "settle" /\ rec'.ev = rec.ev /\ rec'.drained = rec.drained
      /\ rec'.backlog = rec.backlog /\ rec'.left = rec.left /\ rec'.late = rec.late
      /\ rec'.end = rec.end /\ rec'.before = rec.before
  BY <1>1 DEF RecRecord, ActLetThrough
<1>3. rec.before = through
  BY <1>1 DEF Inv, NavInv, GestureInv, Active, Finishing
<1>4. GestureInv'
  BY <1>2, <1>3 DEF GestureInv, ActLetThrough
<1>5. nav'.log = nav.log
  BY <1>1 DEF ActLetThrough, NavRecord
<1> QED
  BY <1>1, <1>2, <1>4, <1>5, GesturingKeeps DEF Gestural, ActLetThrough

\* The page settled on what the gesture brought.
SettleFound ==
  /\ At("settle")
  /\ rec' = [rec EXCEPT !.pc = "checks", !.navs = NavsAfter(rec.before)]
  /\ UNCHANGED <<page, person, nav, chan, steps, ignored, through>>

LEMMA SettleFoundKeeps ==
  ASSUME Inv, SettleFound, UNCHANGED out
  PROVE  Inv'
<1>1. rec \in RecRecord /\ "checks" \in Places /\ rec.pc = "settle" /\ Committed \in 0..MaxDocs
      /\ through \in 0..MaxDocs /\ through <= Committed
  BY DEF Inv, Types, Places, SettleFound, At, PageRecord
<1>2. rec.before = through
  BY <1>1 DEF Inv, NavInv, GestureInv, Active, Finishing
<1>3. NavsAfter(rec.before) = (through + 1)..Committed /\ NavsAfter(rec.before) \in SUBSET Docs
  BY <1>1, <1>2, RecordingAssumption DEF NavsAfter, Docs
<1>4. /\ rec' \in RecRecord /\ rec'.pc = "checks" /\ rec'.ev = rec.ev /\ rec'.drained = rec.drained
      /\ rec'.backlog = rec.backlog /\ rec'.left = rec.left /\ rec'.late = rec.late
      /\ rec'.end = rec.end /\ rec'.before = rec.before /\ rec'.navs = (through + 1)..Committed
  <2> DEFINE navs == NavsAfter(rec.before)
  <2>1. navs \in SUBSET Docs /\ rec' = [rec EXCEPT !.pc = "checks", !.navs = navs] /\ navs = (through + 1)..Committed
    BY <1>3 DEF SettleFound
  <2> HIDE DEF navs
  <2> QED
    BY <1>1, <2>1 DEF RecRecord
<1>5. GestureInv'
  <2>1. through' = through /\ Committed' = Committed /\ Committed \in through..Committed
    BY <1>1, RecordingAssumption DEF SettleFound, Committed
  <2> QED
    BY <1>2, <1>4, <2>1 DEF GestureInv
<1> QED
  BY <1>1, <1>4, <1>5, GesturingKeeps DEF Gestural, SettleFound

LEMMA HandleBrowserNavigationKeeps ==
  ASSUME Inv, HandleBrowserNavigation, UNCHANGED out
  PROVE  Inv'
<1>1. /\ rec.pc = "handle" /\ rec.ev.kind = "navigated" /\ ~(rec.ev.seq <= through)
      /\ rec' = [rec EXCEPT !.pc = "open"]
      /\ UNCHANGED <<page, person, nav, chan, steps, ignored, through>>
  BY DEF HandleBrowserNavigation, Handling, At, Attributed, Await
<1>2. rec \in RecRecord /\ "open" \in Places /\ through \in 0..MaxDocs
  BY DEF Inv, Types, Places
<1>3. /\ rec' \in RecRecord /\ rec'.pc = "open" /\ rec'.ev = rec.ev /\ rec'.drained = rec.drained
      /\ rec'.backlog = rec.backlog /\ rec'.left = rec.left /\ rec'.late = rec.late
      /\ rec'.end = rec.end
  BY <1>1, <1>2 DEF RecRecord
<1>4. Types'
  BY <1>1, <1>3, AwaitTyped DEF Inv
<1>5. OnlyHand
  BY <1>1, <1>3 DEF OnlyHand, Finishing
<1>6. rec.ev \in NavEvents /\ rec.ev.seq > through /\ rec.ev.seq \in Nat /\ through \in Nat
  BY <1>1, <1>2, KindsApart, RecordingAssumption DEF Inv, PlaceInv
<1>7. HandPlaced' /\ SameHand
  BY <1>1, <1>3, <1>6, KindsApart DEF HandPlaced, SameHand, AtHand, IsFill, Gestural, Fieldwise
<1>8. Now' = Now /\ through <= through'
  BY <1>1, <1>3, <1>6 DEF Now
<1>9. CountedInv' /\ GestureInv'
  BY <1>1, <1>3 DEF Inv, NavInv, CountedInv, GestureInv
<1>10. HandInv'
  <2>1. rec.ev.seq <= through + 1 /\ rec.ev.seq <= Committed
    BY <1>1, <1>6 DEF Inv, NavInv, HandInv, Active, Finishing
  <2>2. rec.ev.seq = through + 1
    BY <1>6, <2>1
  <2> QED
    BY <1>1, <1>3, <1>6, <2>1, <2>2 DEF HandInv, Committed
<1> QED
  BY <1>4, <1>5, <1>7, <1>8, <1>9, <1>10, HandStep

LEMMA HandleIgnoredNavigationKeeps ==
  ASSUME Inv, HandleIgnoredNavigation, UNCHANGED out
  PROVE  Inv'
<1> DEFINE n == rec.ev.seq
<1>1. /\ rec.pc = "handle" /\ rec.ev.kind = "navigated" /\ ~(n <= through)
      /\ ignored' = ignored \cup {n} /\ through' = n /\ rec' = NextEvent
      /\ UNCHANGED <<page, person, nav, chan, steps>>
  BY DEF HandleIgnoredNavigation, Handling, At, Attributed
<1>2. Types /\ through \in Nat /\ Committed = page.doc /\ page.doc \in 0..MaxDocs
  BY RecordingAssumption DEF Inv, Types, PageRecord
<1>3. /\ rec' \in RecRecord /\ rec'.pc = "next" /\ rec'.ev = NoEvent /\ rec'.drained = rec.drained
      /\ rec'.backlog = rec.backlog /\ rec'.left = rec.left /\ rec'.late = rec.late /\ rec'.end = rec.end
  BY <1>1, NextEventIs DEF Inv
<1>4. rec.ev \in NavEvents /\ n \in Nat /\ n = through + 1 /\ n <= Committed
  <2>1. rec.ev \in NavEvents /\ n \in Nat
    BY <1>1, KindsApart, RecordingAssumption DEF Inv, PlaceInv
  <2>2. n <= through + 1 /\ n <= Committed
    BY <1>1, <2>1 DEF Inv, NavInv, HandInv, Active, Finishing
  <2> QED
    BY <1>1, <1>2, <2>1, <2>2
<1> HIDE DEF n
<1>5. n \in Docs
  BY <1>2, <1>4, RecordingAssumption DEF Docs
<1>6. Types'
  <2>1. ignored' \in SUBSET Docs /\ through' \in 0..MaxDocs /\ through' <= Committed'
    BY <1>1, <1>2, <1>4, <1>5, RecordingAssumption DEF Types, Docs, Committed
  <2> QED
    BY <1>1, <1>2, <1>3, <2>1 DEF Types, Committed
<1>7. OnlyHand
  BY <1>1, <1>3 DEF OnlyHand, Finishing
<1>8. HandPlaced' /\ GestureInv' /\ HandInv'
  BY <1>3 DEF HandPlaced, GestureInv, HandInv, Gestural, Fieldwise
<1>9. SameHand
  BY <1>1, <1>3, <1>4, KindsApart DEF SameHand, AtHand, IsFill, Gestural, Fieldwise
<1>10. Now' = Now /\ through <= through'
  BY <1>1, <1>2, <1>3, <1>4 DEF Now, n
\* The navigation was in no step and no notice, and is in this one.
<1>11. CountedInv'
  <2>1. CountedInv /\ n \notin 1..through /\ 1..n = (1..through) \cup {n}
    BY <1>2, <1>4 DEF Inv, NavInv
  <2>2. \A i \in DOMAIN steps : n \notin steps[i].navs
    BY <2>1 DEF CountedInv
  <2> QED
    BY <1>1, <2>1, <2>2 DEF CountedInv
<1> QED
  BY <1>6, <1>7, <1>8, <1>9, <1>10, <1>11, HandStep

-----------------------------------------------------------------------------
(* Stopping, between the flush and the events it left.                     *)

\* The recorder moves, and the events to come stay as they were.
LEMMA StoppingStep ==
  ASSUME Inv, Types', PlaceInv', Active, Active', Quiet,
         UNCHANGED <<ignored, through>>,
         rec.pc \in {"next", "flushed", "drain"}, rec'.pc \in {"drain", "next"}, LeftEdits', ClosedInv'
  PROVE  Inv'
<1>1. Now' = Now
  BY DEF Now
<1>2. SameHand
  BY DEF SameHand, AtHand, Gestural, Fieldwise
<1>3. CountedInv' /\ HandInv' /\ GestureInv'
  BY DEF Inv, NavInv, CountedInv, HandInv, GestureInv, Quiet
<1>4. (rec.pc \in {"handle"} \cup Gestural /\ rec.ev \in GestureMessages => rec.ev.doc <= through)'
  BY DEF Gestural
<1>5. NavInv'
  BY <1>1, <1>3, <1>4, NavSteady DEF Inv, Quiet
<1>6. MessageInv'
  BY MessagesSteady DEF Inv
<1>7. EditInv'
  BY <1>2, EditsSteady DEF Inv
<1> QED
  BY <1>5, <1>6, <1>7 DEF Inv

LEMMA QuietRec ==
  ASSUME Inv, UNCHANGED <<page, steps, nav, chan.flight, chan.held, chan.next, chan.closed>>,
         Coming' = Coming, rec.drained => rec'.drained
  PROVE  Quiet
<1>1. page.value \in Edits /\ IsFiniteSet(page.dirty)
  BY DEF Inv, Types, PageRecord, MessageInv
<1> QED
  BY <1>1 DEF Quiet, Edits, Committed

LEMMA WaitDeliveredKeeps ==
  ASSUME Inv, WaitDelivered, UNCHANGED out
  PROVE  Inv'
<1>1. /\ rec.pc = "flushed" /\ UNCHANGED <<page, person, nav, chan, steps, ignored, through>>
      /\ \/ chan.next[rec.ev.doc] > rec.upto /\ rec' = [rec EXCEPT !.pc = "drain"]
         \/ rec' = [rec EXCEPT !.pc = "drain", !.late = TRUE]
  BY DEF WaitDelivered, At, Delivered, Await
<1>2. rec \in RecRecord /\ "drain" \in Places /\ ~rec.drained /\ rec.ev.doc \in Docs
  BY <1>1 DEF Inv, Types, Places, PlaceInv
<1>3. /\ rec' \in RecRecord /\ rec'.pc = "drain" /\ rec'.ev = rec.ev /\ rec'.drained = rec.drained
      /\ rec'.backlog = rec.backlog /\ rec'.left = rec.left /\ (rec.late => rec'.late)
      /\ rec'.end = rec.end /\ (rec'.late \/ chan.next[rec.ev.doc] > rec.upto)
  <2>1. CASE rec' = [rec EXCEPT !.pc = "drain"] /\ chan.next[rec.ev.doc] > rec.upto
    BY <1>2, <2>1 DEF RecRecord
  <2>2. CASE rec' = [rec EXCEPT !.pc = "drain", !.late = TRUE]
    BY <1>2, <2>2 DEF RecRecord
  <2> QED
    BY <1>1, <2>1, <2>2
<1>4. Types'
  BY <1>1, <1>3, AwaitTyped DEF Inv
<1>5. Active /\ Active'
  BY <1>1, <1>3 DEF Active, Finishing
<1>6. Coming' = Coming
  BY <1>1, <1>3 DEF Coming
<1>7. Quiet
  BY <1>1, <1>3, <1>6, QuietRec
<1>8. PlaceInv'
  BY <1>1, <1>2, <1>3, <1>5 DEF Inv, PlaceInv, Active, Gestural, Fieldwise
<1>9. ClosedInv'
  BY <1>1, <1>3, <1>5, <1>6 DEF Inv, EditInv, ClosedInv
<1>10. LeftEdits'
  <2> SUFFICES ASSUME rec'.left # <<>> PROVE LeftEdits'
    BY DEF LeftEdits
  <2>1. LeftEdits /\ rec.left # <<>> /\ rec.ev.doc = rec.left.doc
    BY <1>1, <1>3 DEF Inv, EditInv, LeftEdits
  <2>2. rec.left.doc <= page'.doc /\ Reached(rec.left.doc, rec.left.value)'
    BY <1>1, <1>3, <1>5, <2>1 DEF LeftEdits, Reached
  <2>3. ASSUME ~rec'.late, ~chan'.closed, NEW f \in Inputs, rec'.left.value[f] > 0
        PROVE  Covered(rec.left.doc, f, rec.left.value[f], Len(Coming))'
    <3>1. \/ Covered(rec.left.doc, f, rec.left.value[f], Len(Coming))
          \/ Underway(rec.left.doc, f, rec.upto + 1)
      BY <1>1, <1>3, <1>5, <2>1, <2>3 DEF LeftEdits
    <3>2. ~Underway(rec.left.doc, f, rec.upto + 1)
      <4>1. chan.next[rec.ev.doc] > rec.upto /\ rec.upto \in Nat /\ chan.next[rec.ev.doc] \in Nat
        BY <1>2, <1>3, <2>3 DEF RecRecord, Inv, Types, ChanRecord
      <4> QED
        BY <2>1, <4>1 DEF Underway
    <3>3. ~AtHand(rec.left.doc, f)
      BY <1>1 DEF AtHand, Fieldwise
    <3> QED
      BY <1>1, <1>3, <1>6, <3>1, <3>2, <3>3 DEF Covered, Kept, Ahead
  <2> QED
    BY <1>3, <1>5, <2>2, <2>3 DEF LeftEdits
<1> QED
  BY <1>1, <1>3, <1>4, <1>5, <1>7, <1>8, <1>9, <1>10, StoppingStep

LEMMA DrainKeeps ==
  ASSUME Inv, Drain, UNCHANGED out
  PROVE  Inv'
<1>1. /\ rec.pc = "drain" /\ UNCHANGED <<page, person, nav, steps, ignored, through>>
      /\ rec' = [NextEvent EXCEPT !.drained = TRUE, !.backlog = chan.queue, !.late = @ \/ chan.closed]
      /\ chan' = [chan EXCEPT !.queue = <<>>]
  BY DEF Drain, At
<1>2. chan \in ChanRecord /\ chan.queue \in Seq(QueueEvents) /\ chan.closed \in BOOLEAN /\ ~rec.drained
      /\ rec.late \in BOOLEAN /\ page \in PageRecord /\ nav \in NavRecord
  BY <1>1 DEF Inv, Types, ChanRecord, RecRecord, PlaceInv
<1>3. /\ rec' \in RecRecord /\ rec'.pc = "next" /\ rec'.ev = NoEvent /\ rec'.drained /\ rec'.backlog = chan.queue
      /\ rec'.left = rec.left /\ rec'.late = (rec.late \/ chan.closed) /\ rec'.end = rec.end
  BY <1>1, <1>2, NextEventIs DEF RecRecord, Inv
<1>4. /\ chan' \in ChanRecord /\ chan'.flight = chan.flight /\ chan'.held = chan.held
      /\ chan'.next = chan.next /\ chan'.closed = chan.closed
  <2>1. <<>> \in Seq(QueueEvents)
    OBVIOUS
  <2> QED
    BY <1>1, <1>2, <2>1 DEF ChanRecord
<1>5. Types'
  BY <1>1, <1>2, <1>3, <1>4, RecTyped DEF Inv, Types
<1>6. Active /\ Active'
  BY <1>1, <1>3 DEF Active, Finishing
<1>7. Coming' = Coming
  BY <1>2, <1>3 DEF Coming
<1>8. Quiet
  BY <1>1, <1>3, <1>4, <1>7, QuietRec
<1>9. PlaceInv'
  BY <1>1, <1>3, <1>4, <1>6 DEF Inv, PlaceInv, Active, Gestural, Fieldwise
<1>10. ClosedInv'
  BY <1>1, <1>3, <1>4, <1>6, <1>7 DEF Inv, EditInv, ClosedInv
<1>11. LeftEdits'
  <2> SUFFICES ASSUME rec'.left # <<>> PROVE LeftEdits'
    BY DEF LeftEdits
  <2>1. LeftEdits /\ rec.left # <<>>
    BY <1>3 DEF Inv, EditInv
  <2>2. rec.left.doc <= page'.doc /\ Reached(rec.left.doc, rec.left.value)'
    BY <1>1, <1>3, <1>6, <2>1 DEF LeftEdits, Reached
  <2>3. ASSUME ~rec'.late, NEW f \in Inputs, rec'.left.value[f] > 0
        PROVE  Covered(rec.left.doc, f, rec.left.value[f], Len(Coming))'
    <3>1. Covered(rec.left.doc, f, rec.left.value[f], Len(Coming))
      BY <1>1, <1>3, <1>6, <2>1, <2>3 DEF LeftEdits
    <3>3. ~AtHand(rec.left.doc, f)
      BY <1>1 DEF AtHand, Fieldwise
    <3> QED
      BY <1>1, <1>3, <1>7, <3>1, <3>3 DEF Covered, Kept, Ahead
  <2> QED
    BY <1>3, <1>6, <2>2, <2>3 DEF LeftEdits
<1> QED
  BY <1>1, <1>3, <1>5, <1>6, <1>8, <1>9, <1>10, <1>11, StoppingStep

-----------------------------------------------------------------------------
(* The recording ends.                                                     *)

LEMMA FreshIs ==
  ASSUME NEW doc \in 0..MaxDocs
  PROVE  /\ Fresh(doc) \in PageRecord /\ Fresh(doc).doc = doc /\ Fresh(doc).dirty = {}
         /\ Fresh(doc).busy = 0 /\ Fresh(doc).sent = 0 /\ Fresh(doc).open = TRUE
         /\ \A f \in Inputs : Fresh(doc).value[f] = 0
<1>1. [f \in Inputs |-> 0] \in Edits
  BY DEF Edits
<1> QED
  BY <1>1 DEF Fresh, PageRecord

LEMMA NoMessagesIs ==
  /\ NoMessages \in ChanRecord /\ NoMessages.flight = {} /\ NoMessages.held = {}
  /\ NoMessages.queue = <<>> /\ NoMessages.closed = FALSE
  /\ \A d \in Docs : NoMessages.next[d] = 1
<1>1. <<>> \in Seq(QueueEvents) /\ [d \in Docs |-> 1] \in [Docs -> Nat]
  OBVIOUS
<1> QED
  BY <1>1 DEF NoMessages, ChanRecord, Docs

LEMMA IdleIs ==
  /\ Idle(NoEvent) \in RecRecord /\ Idle(NoEvent).ev = NoEvent /\ ~Idle(NoEvent).drained
  /\ Idle(NoEvent).backlog = <<>> /\ Idle(NoEvent).left = <<>> /\ Idle(NoEvent).end = "none"
  /\ Idle(NoEvent).late = FALSE
<1>1. <<>> \in Seq(QueueEvents) /\ NoEvent \in QueueEvents /\ "next" \in Places /\ 0 \in 0..MaxDocs
  BY RecordingAssumption DEF QueueEvents, OtherEvents, NoEvent, Places
<1> QED
  BY <1>1 DEF Idle, RecRecord, Outcomes

\* Whatever ends the recording: the steps it hands over are those it had.
LEMMA OverKeeps ==
  ASSUME Inv, NEW o \in Outcomes, Over(o), UNCHANGED out,
         (o = "recorded" /\ rec.left # <<>> /\ ~rec.late) =>
           \A f \in Inputs : rec.left.value[f] > 0 => Kept(rec.left.doc, f, rec.left.value[f])
  PROVE  Inv'
<1>1. Types /\ page.doc \in 0..MaxDocs /\ rec \in RecRecord
  BY DEF Inv, Types, PageRecord
<1>2. /\ UNCHANGED <<nav, steps, ignored, through, out>>
      /\ rec' = [Idle(NoEvent) EXCEPT !.pc = "ended", !.end = o, !.late = rec.late, !.left = rec.left]
      /\ page' = [Fresh(page.doc) EXCEPT !.open = FALSE]
      /\ chan' = [NoMessages EXCEPT !.closed = TRUE]
      /\ person' = [left |-> [k \in Kinds |-> 0], stopped |-> FALSE]
  BY DEF Over
<1>3. /\ page' \in PageRecord /\ page'.doc = page.doc /\ page'.dirty = {} /\ page'.busy = 0
      /\ page'.sent = 0 /\ page'.open = FALSE
  <2> DEFINE fresh == Fresh(page.doc)
  <2>1. fresh \in PageRecord /\ fresh.doc = page.doc /\ fresh.dirty = {} /\ fresh.busy = 0 /\ fresh.sent = 0
    BY <1>1, FreshIs
  <2>2. page' = [fresh EXCEPT !.open = FALSE]
    BY <1>2
  <2> HIDE DEF fresh
  <2> QED
    BY <2>1, <2>2 DEF PageRecord
<1>4. /\ chan' \in ChanRecord /\ chan'.flight = {} /\ chan'.held = {} /\ chan'.queue = <<>>
      /\ chan'.closed = TRUE /\ \A d \in Docs : chan'.next[d] = 1
  <2> DEFINE none == NoMessages
  <2>1. chan' = [none EXCEPT !.closed = TRUE] /\ none \in ChanRecord /\ none.flight = {} /\ none.held = {}
        /\ none.queue = <<>> /\ \A d \in Docs : none.next[d] = 1
    BY <1>2, NoMessagesIs
  <2> HIDE DEF none
  <2> QED
    BY <2>1 DEF ChanRecord
<1>5. /\ rec' \in RecRecord /\ rec'.pc = "ended" /\ rec'.end = o /\ rec'.late = rec.late
      /\ rec'.left = rec.left /\ ~rec'.drained
  <2> DEFINE idle == Idle(NoEvent)
             mid == [idle EXCEPT !.pc = "ended", !.end = o]
  <2>1. idle \in RecRecord /\ ~idle.drained /\ "ended" \in Places
    BY IdleIs DEF Places
  <2>2. rec' = [mid EXCEPT !.late = rec.late, !.left = rec.left]
    BY <1>2
  <2> HIDE DEF idle
  <2>3. mid \in RecRecord /\ mid.pc = "ended" /\ mid.end = o /\ ~mid.drained
    BY <2>1 DEF RecRecord
  <2> HIDE DEF mid
  <2> QED
    BY <1>1, <2>2, <2>3 DEF RecRecord
<1>6. person' \in PersonRecord
  BY <1>2 DEF PersonRecord
<1>7. Types'
  BY <1>1, <1>2, <1>3, <1>4, <1>5, <1>6 DEF Types, Committed, PageRecord
<1>8. ~Active' /\ Coming' = <<>> /\ Pending' = {} /\ ~Listening'
  BY <1>4, <1>5 DEF Active, Coming, Finishing, Pending, Listening
<1>9. PlaceInv'
  BY <1>3, <1>4, <1>5, <1>8 DEF PlaceInv, Gestural, Fieldwise
<1>10. NavInv'
  BY <1>2, <1>8 DEF Inv, NavInv, CountedInv
<1>11. MessageInv'
  BY <1>1, <1>3, <1>4, <1>8, FS_EmptySet DEF MessageInv
<1>12. EditInv'
  <2>1. GestureEdits'
    BY <1>5, <1>8 DEF GestureEdits, Gestural
  <2>2. PageEdits' /\ ClosedInv' /\ StepValues'
    BY <1>8 DEF PageEdits, ClosedInv, StepValues
  <2>3. LeftEdits'
    BY <1>3, <1>5, <1>8 DEF LeftEdits, Reached, Inv, EditInv
  <2>4. EditsComeFirst' /\ SecretsStayOnPage'
    BY <1>2 DEF Inv, EditInv, EditsComeFirst, SecretsStayOnPage
  <2>5. StopKeepsEdits'
    BY <1>2, <1>5 DEF StopKeepsEdits, Kept, FillKinds
  <2> QED
    BY <2>1, <2>2, <2>3, <2>4, <2>5 DEF EditInv
<1> QED
  BY <1>7, <1>9, <1>10, <1>11, <1>12 DEF Inv

\* It fails, is cancelled, or has nothing to return.
LEMMA FailingKeeps ==
  ASSUME Inv, BrowserClosed \/ Abort \/ CannotRecord \/ ElementGone \/ Unusable, UNCHANGED out
  PROVE  Inv'
<1>1. PICK o \in {"closed", "aborted", "unusable"} : Over(o)
  BY DEF BrowserClosed, Abort, CannotRecord, ElementGone, Unusable
<1>2. o \in Outcomes /\ o # "recorded"
  BY DEF Outcomes
<1> QED
  BY <1>1, <1>2, OverKeeps

\* It returns its steps when the window was closed, or when all events that the
\* flush left are handled.
LEMMA ReturnedKeeps ==
  ASSUME Inv, Returned, UNCHANGED out,
         \/ rec.pc = "handle" /\ rec.ev.kind = "closed"
         \/ rec.pc = "next" /\ rec.drained /\ rec.backlog = <<>>
  PROVE  Inv'
<1>1. PICK o \in {"nothing", "recorded"} : Over(o)
  BY DEF Returned
<1>2. o \in Outcomes /\ Active
  BY DEF Outcomes, Active, Finishing
<1>3. ASSUME rec.left # <<>>, ~rec.late, NEW f \in Inputs, rec.left.value[f] > 0
      PROVE  Kept(rec.left.doc, f, rec.left.value[f])
  <2>1. rec.drained
    BY <1>2, <1>3 DEF Inv, EditInv, LeftEdits
  <2>2. rec.pc = "next" /\ Coming = <<>>
    BY <1>2, <1>3, <2>1 DEF Inv, EditInv, ClosedInv, Coming
  <2>3. Covered(rec.left.doc, f, rec.left.value[f], Len(Coming))
    BY <1>2, <1>3, <2>2 DEF Inv, EditInv, LeftEdits
  <2>4. DOMAIN Coming = {} /\ Len(Coming) = 0
    BY <2>2
  <2> QED
    BY <2>2, <2>3, <2>4 DEF Covered, AtHand, Ahead, Fieldwise
<1> QED
  BY <1>1, <1>2, <1>3, OverKeeps

LEMMA EndKeeps ==
  ASSUME Inv, HandleEnd \/ Drained, UNCHANGED out
  PROVE  Inv'
<1>1. CASE HandleEnd
  BY <1>1, FailingKeeps, ReturnedKeeps DEF HandleEnd, Handling, At
<1>2. CASE Drained
  BY <1>2, ReturnedKeeps DEF Drained, At
<1> QED
  BY <1>1, <1>2

\* Once it ended, the command only names, writes and verifies.
LEMMA CommandKeeps ==
  ASSUME Inv, CommandLine
  PROVE  Inv'
<1>1. PICK pc \in {"write", "verify", "exited"} : rec' = [rec EXCEPT !.pc = pc]
  BY DEF CommandLine, Fail, Name, WriteFile, Verify, Exit, Command
<1>2. /\ rec.pc \in Finishing /\ UNCHANGED <<page, person, nav, chan, steps, ignored, through>>
      /\ out'.file \in {"none", "other", "ours"}
  BY DEF CommandLine, Fail, Name, WriteFile, Verify, Exit, Command, At, Finishing, Inv, Types
<1>3. rec \in RecRecord /\ pc \in Places
  BY DEF Inv, Types, Places
<1>4. /\ rec' \in RecRecord /\ rec'.pc = pc /\ rec'.end = rec.end /\ rec'.late = rec.late
      /\ rec'.left = rec.left /\ rec'.drained = rec.drained /\ rec'.backlog = rec.backlog
  BY <1>1, <1>3 DEF RecRecord
<1>5. Types'
  BY <1>2, <1>4 DEF Inv, Types, Committed
<1>6. ~Active /\ ~Active' /\ Coming' = Coming /\ Pending' = Pending /\ ~Listening'
  BY <1>2, <1>4 DEF Active, Coming, Pending, Finishing, Listening
<1>7. PlaceInv'
  BY <1>2, <1>4, <1>6 DEF Inv, PlaceInv, Gestural, Fieldwise
<1>8. NavInv' /\ MessageInv'
  BY <1>2, <1>6 DEF Inv, NavInv, CountedInv, MessageInv
<1>9. EditInv'
  <2>1. Pending = {}
    BY <1>6 DEF Inv, PlaceInv, Pending
  <2>2. GestureEdits'
    BY <1>2, <1>4, <1>6, <2>1 DEF GestureEdits, Gestural, Reached, Inv, EditInv, Active
  <2>3. PageEdits' /\ ClosedInv' /\ StepValues'
    BY <1>6 DEF PageEdits, ClosedInv, StepValues
  <2>4. LeftEdits'
    BY <1>2, <1>4, <1>6 DEF LeftEdits, Reached, Inv, EditInv
  <2>5. EditsComeFirst' /\ SecretsStayOnPage' /\ StopKeepsEdits'
    <3>1. steps' = steps /\ EditsComeFirst /\ SecretsStayOnPage /\ StopKeepsEdits
      BY <1>2 DEF Inv, EditInv
    <3>2. EditsComeFirst' /\ SecretsStayOnPage'
      BY <3>1 DEF EditsComeFirst, SecretsStayOnPage
    <3>3. StopKeepsEdits'
      BY <1>4, <3>1 DEF StopKeepsEdits
    <3> QED
      BY <3>2, <3>3
  <2> QED
    BY <2>2, <2>3, <2>4, <2>5 DEF EditInv
<1> QED
  BY <1>5, <1>7, <1>8, <1>9 DEF Inv

-----------------------------------------------------------------------------
(* The next event.                                                         *)

LEMMA TakeIs ==
  ASSUME Inv, Take, UNCHANGED out
  PROVE  /\ rec.pc = "next" /\ rec'.pc = "handle" /\ Coming # <<>> /\ rec'.ev = Coming[1]
         /\ Coming[1] \in QueueEvents /\ 1 \in DOMAIN Coming
         /\ Len(Coming)' = Len(Coming) - 1 /\ DOMAIN Coming' = 1..(Len(Coming) - 1)
         /\ \A i \in DOMAIN Coming' : Coming'[i] = Coming[i + 1] /\ i + 1 \in DOMAIN Coming
         /\ UNCHANGED <<page, person, nav, steps, ignored, through, rec.drained, rec.left, rec.late,
                        rec.end, rec.upto, chan.flight, chan.held, chan.next, chan.closed>>
         /\ Types'
<1>1. /\ rec.pc = "next" /\ UNCHANGED <<page, person, nav, steps, ignored, through>>
      /\ Coming # <<>> /\ rec \in RecRecord /\ chan \in ChanRecord /\ Coming \in Seq(QueueEvents)
      /\ page \in PageRecord /\ nav \in NavRecord
  BY ComingTyped DEF Take, At, Coming, Inv, Types
<1> DEFINE head == Head(Coming)
           tail == Tail(Coming)
<1>2. /\ head = Coming[1] /\ head \in QueueEvents /\ tail \in Seq(QueueEvents) /\ Len(Coming) \in Nat \ {0}
      /\ Len(tail) = Len(Coming) - 1 /\ DOMAIN tail = 1..(Len(Coming) - 1)
      /\ \A i \in 1..(Len(Coming) - 1) : tail[i] = Coming[i + 1]
  <2> HIDE DEF QueueEvents
  <2> QED
    BY <1>1, HeadTailProperties
<1>3. "handle" \in Places
  BY DEF Places
<1>4. CASE rec.drained
  <2>1. rec' = [rec EXCEPT !.pc = "handle", !.ev = head, !.backlog = tail] /\ UNCHANGED chan
    BY <1>4 DEF Take, Coming
  <2> HIDE DEF head, tail
  <2>2. /\ rec' \in RecRecord /\ rec'.pc = "handle" /\ rec'.ev = head /\ rec'.backlog = tail
        /\ rec'.drained = rec.drained /\ rec'.left = rec.left /\ rec'.late = rec.late
        /\ rec'.end = rec.end /\ rec'.upto = rec.upto
    BY <1>1, <1>2, <1>3, <2>1 DEF RecRecord
  <2>3. Types'
    BY <1>1, <2>1, <2>2, AwaitTyped DEF Inv, Take
  <2>4. Coming' = tail
    BY <1>4, <2>2 DEF Coming
  <2>5. DOMAIN Coming = 1..Len(Coming)
    BY ComingTyped DEF Inv
  <2> QED
    BY <1>1, <1>2, <2>1, <2>2, <2>3, <2>4, <2>5
<1>5. CASE ~rec.drained
  <2>1. rec' = [rec EXCEPT !.pc = "handle", !.ev = head] /\ chan' = [chan EXCEPT !.queue = tail]
    BY <1>5 DEF Take, Coming
  <2> HIDE DEF head, tail
  <2>2. /\ rec' \in RecRecord /\ rec'.pc = "handle" /\ rec'.ev = head /\ rec'.backlog = rec.backlog
        /\ rec'.drained = rec.drained /\ rec'.left = rec.left /\ rec'.late = rec.late
        /\ rec'.end = rec.end /\ rec'.upto = rec.upto
    BY <1>1, <1>2, <1>3, <2>1 DEF RecRecord
  <2>3. /\ chan' \in ChanRecord /\ chan'.flight = chan.flight /\ chan'.held = chan.held
        /\ chan'.next = chan.next /\ chan'.queue = tail /\ chan'.closed = chan.closed
    BY <1>1, <1>2, <2>1 DEF ChanRecord
  <2>4. Types'
    BY <1>1, <2>2, <2>3, RecTyped DEF Inv, Take, Types
  <2>5. Coming' = tail
    BY <1>5, <2>2, <2>3 DEF Coming
  <2>6. DOMAIN Coming = 1..Len(Coming)
    BY ComingTyped DEF Inv
  <2> QED
    BY <1>1, <1>2, <2>2, <2>3, <2>4, <2>5, <2>6
<1> QED
  BY <1>4, <1>5

LEMMA TakeKeeps ==
  ASSUME Inv, Take, UNCHANGED out
  PROVE  Inv'
<1>1. Types /\ through \in Nat /\ Committed \in Nat /\ through <= Committed /\ Len(Coming) \in Nat
      /\ DOMAIN Coming = 1..Len(Coming) /\ Coming \in Seq(QueueEvents)
  BY ComingTyped, RecordingAssumption DEF Inv, Types, PageRecord
<1>2. Active /\ Active' /\ Now = through /\ Committed' = Committed /\ Pending' = Pending
  BY TakeIs DEF Active, Finishing, Now, Committed, Pending
<1> DEFINE first == Coming[1]
<1>3. rec'.ev = first /\ first \in QueueEvents /\ 1 \in DOMAIN Coming
  BY TakeIs
<1>4. first \in NavEvents => first.seq \in Nat /\ first.seq <= through + 1 /\ first.seq \in 1..Committed
  <2> SUFFICES ASSUME first \in NavEvents
               PROVE  first.seq \in Nat /\ first.seq <= through + 1 /\ first.seq \in 1..Committed
    OBVIOUS
  <2>1. first.seq \in 1..Committed /\ (first.seq > through + 1 => \E j \in 1..0 : IsNav(Coming[j], first.seq - 1))
    BY <1>2, <1>3 DEF Inv, NavInv, ComingInv
  <2> QED
    BY <1>1, <2>1
<1>5. Now' = (IF first \in NavEvents /\ first.seq > through THEN through + 1 ELSE through)
  <2>1. through' = through /\ rec'.pc = "handle"
    BY TakeIs
  <2>2. Now' = IF first \in NavEvents /\ first.seq > through THEN first.seq ELSE through
    BY <1>3, <2>1 DEF Now
  <2>3. ASSUME first \in NavEvents, first.seq > through PROVE first.seq = through + 1
    BY <1>1, <1>4, <2>3
  <2> QED
    BY <2>2, <2>3
<1>6. \A n \in Nat : n > Now' => ~IsNav(first, n) \/ n <= through
  BY <1>1, <1>4, <1>5 DEF IsNav
<1>7. PlaceInv'
  BY <1>2, <1>3, TakeIs DEF Inv, PlaceInv, Active, Gestural, Fieldwise
<1>8. NavInv'
  <2>1. CountedInv'
    BY TakeIs DEF Inv, NavInv, CountedInv
  <2>2. HandInv'
    BY <1>1, <1>2, <1>3, <1>4, TakeIs DEF HandInv
  <2>3. GestureInv'
    BY TakeIs DEF GestureInv
  <2>4. ComingInv'
    <3>1. ASSUME NEW i \in DOMAIN Coming', Coming'[i] \in NavEvents
          PROVE  /\ Coming'[i].seq \in 1..Committed
                 /\ Coming'[i].seq > Now' + 1 => \E j \in 1..(i - 1) : IsNav(Coming'[j], Coming'[i].seq - 1)
      <4> DEFINE seq == Coming'[i].seq
      <4>1. Coming'[i] = Coming[i + 1] /\ i + 1 \in DOMAIN Coming /\ i \in Nat /\ i >= 1
        BY <1>1, TakeIs
      <4>2. seq \in 1..Committed /\ (seq > through + 1 => \E j \in 1..i : IsNav(Coming[j], seq - 1))
        <5>1. (i + 1) - 1 = i
          BY <4>1
        <5> QED
          BY <1>2, <3>1, <4>1, <5>1 DEF Inv, NavInv, ComingInv
      <4>3. ASSUME seq > Now' + 1 PROVE \E j \in 1..(i - 1) : IsNav(Coming'[j], seq - 1)
        <5>1. seq \in Nat /\ seq > through + 1 /\ seq - 1 \in Nat /\ seq - 1 > Now' /\ seq - 1 > through
          BY <1>1, <1>5, <4>2, <4>3
        <5>2. PICK j \in 1..i : IsNav(Coming[j], seq - 1)
          BY <4>2, <5>1
        <5>3. j # 1
          <6>1. ~IsNav(Coming[1], seq - 1)
            BY <1>1, <1>6, <5>1
          <6> QED
            BY <5>2, <6>1
        <5>4. j - 1 \in 1..(i - 1) /\ j - 1 \in DOMAIN Coming' /\ (j - 1) + 1 = j
          BY <1>1, <4>1, <5>2, <5>3, TakeIs
        <5>5. IsNav(Coming'[j - 1], seq - 1)
          BY <5>2, <5>4, TakeIs
        <5> QED
          BY <5>4, <5>5
      <4> QED
        BY <4>2, <4>3
    <3>2. ASSUME ~rec'.drained, NEW n \in (Now' + 1)..Committed
          PROVE  \E i \in DOMAIN Coming' : IsNav(Coming'[i], n)
      <4>1. n \in (through + 1)..Committed /\ n > Now' /\ n \in Nat /\ n > through
        BY <1>1, <1>5
      <4>2. PICK i \in DOMAIN Coming : IsNav(Coming[i], n)
        BY <1>2, <3>2, <4>1, TakeIs DEF Inv, NavInv, ComingInv
      <4>3. i # 1
        <5>1. ~IsNav(Coming[1], n)
          BY <1>1, <1>6, <4>1
        <5> QED
          BY <4>2, <5>1
      <4>4. i - 1 \in DOMAIN Coming' /\ (i - 1) + 1 = i
        BY <1>1, <4>2, <4>3, TakeIs
      <4> QED
        BY <4>2, <4>4, TakeIs
    <3> QED
      BY <1>2, <3>1, <3>2 DEF ComingInv, IsNav
  <2>5. AfterInv'
    <3>1. ASSUME NEW i \in DOMAIN Coming', Coming'[i] \in GestureMessages, NEW n \in (Now' + 1)..Coming'[i].doc
          PROVE  \E j \in 1..(i - 1) : IsNav(Coming'[j], n)
      <4>1. Coming'[i] = Coming[i + 1] /\ i + 1 \in DOMAIN Coming /\ i \in Nat /\ i >= 1 /\ (i + 1) - 1 = i
        BY <1>1, TakeIs
      <4>2. Coming'[i].doc \in Nat
        BY <3>1, KindsApart DEF Docs
      <4>3. n \in (through + 1)..Coming[i + 1].doc /\ n > Now' /\ n \in Nat /\ n > through
        BY <1>1, <1>5, <4>1, <4>2
      <4>4. PICK j \in 1..i : IsNav(Coming[j], n)
        BY <1>2, <3>1, <4>1, <4>3 DEF Inv, NavInv, AfterInv
      <4>5. j # 1
        <5>1. ~IsNav(Coming[1], n)
          BY <1>1, <1>6, <4>3
        <5> QED
          BY <4>4, <5>1
      <4>6. j - 1 \in 1..(i - 1) /\ j - 1 \in DOMAIN Coming' /\ (j - 1) + 1 = j
        BY <1>1, <4>1, <4>4, <4>5, TakeIs
      <4>7. IsNav(Coming'[j - 1], n)
        BY <4>4, <4>6, TakeIs
      <4> QED
        BY <4>6, <4>7
    <3>2. first \in GestureMessages => first.doc <= through
      <4> SUFFICES ASSUME first \in GestureMessages, ~(first.doc <= through) PROVE FALSE
        OBVIOUS
      <4>1. first.doc \in Nat
        BY KindsApart DEF Docs
      <4>2. through + 1 \in (through + 1)..first.doc
        BY <1>1, <4>1
      <4>3. \E j \in 1..0 : IsNav(Coming[j], through + 1)
        BY <1>2, <1>3, <4>2 DEF Inv, NavInv, AfterInv
      <4> QED
        BY <4>3
    <3> QED
      BY <1>3, <3>1, <3>2, TakeIs DEF AfterInv, IsNav, Gestural
  <2> QED
    BY <2>1, <2>2, <2>3, <2>4, <2>5 DEF NavInv
<1>9. MessageInv'
  BY <1>2, TakeIs DEF Inv, MessageInv
<1>10. EditInv'
  <2>1. \A d, f, v : Kept(d, f, v) => Kept(d, f, v)'
    BY TakeIs DEF Kept
  <2>2. ASSUME NEW d \in 0..MaxDocs, NEW f \in Inputs, NEW v, NEW n \in Nat, Covered(d, f, v, n)
        PROVE  Covered(d, f, v, n - 1)'
    <3>1. ~AtHand(d, f)
      BY TakeIs DEF AtHand, Fieldwise
    <3>2. CASE Kept(d, f, v)
      BY <2>1, <3>2 DEF Covered
    <3>3. CASE Ahead(d, f, n)
      <4>1. PICK j \in 1..n : j \in DOMAIN Coming /\ IsFill(Coming[j], d, f)
        BY <3>3 DEF Ahead
      <4>2. CASE j = 1
        BY <1>3, <4>1, <4>2, TakeIs DEF Covered, AtHand, IsFill
      <4>3. CASE j # 1
        <5>1. j - 1 \in 1..(n - 1) /\ j - 1 \in DOMAIN Coming' /\ Coming'[j - 1] = Coming[j]
          <6>1. j - 1 \in 1..(n - 1) /\ j - 1 \in DOMAIN Coming' /\ (j - 1) + 1 = j
            BY <1>1, <4>1, <4>3, TakeIs
          <6> QED
            BY <6>1, TakeIs
        <5>2. Ahead(d, f, n - 1)'
          BY <4>1, <5>1 DEF Ahead, IsFill
        <5> QED
          BY <5>2 DEF Covered
      <4> QED
        BY <4>2, <4>3
    <3> QED
      BY <2>2, <3>1, <3>2, <3>3 DEF Covered
  <2>3. \A d, f, s : Underway(d, f, s) => Underway(d, f, s)'
    BY <1>2, TakeIs DEF Underway, IsFill
  <2>4. (Listening' <=> Listening) /\ \A d, edits : Reached(d, edits) => Reached(d, edits)'
    BY <1>2, TakeIs DEF Listening, Reached
  <2>5. GestureEdits'
    <3>1. ASSUME NEW m \in Pending \cap GestureMessages
          PROVE  /\ Reached(m.doc, m.edits)'
                 /\ Listening' => \A f \in Inputs : m.edits[f] > 0 =>
                      (Covered(m.doc, f, m.edits[f], Len(Coming)) \/ Underway(m.doc, f, m.seq))'
      <4>1. m.doc \in 0..MaxDocs
        BY <3>1, KindsApart, RecordingAssumption DEF Docs
      <4>2. Reached(m.doc, m.edits)'
        BY <2>4, <3>1 DEF Inv, EditInv, GestureEdits
      <4>3. ASSUME Listening', NEW f \in Inputs, m.edits[f] > 0
            PROVE  (Covered(m.doc, f, m.edits[f], Len(Coming)) \/ Underway(m.doc, f, m.seq))'
        <5>1. Covered(m.doc, f, m.edits[f], Len(Coming)) \/ Underway(m.doc, f, m.seq)
          BY <2>4, <3>1, <4>3 DEF Inv, EditInv, GestureEdits
        <5>2. Len(Coming)' = Len(Coming) - 1
          BY TakeIs
        <5> QED
          BY <1>1, <2>2, <2>3, <4>1, <5>1, <5>2
      <4> QED
        BY <4>2, <4>3
    <3>2. ASSUME NEW i \in DOMAIN Coming', Coming'[i] \in GestureMessages
          PROVE  /\ Reached(Coming[i].doc, Coming[i].edits)'
                 /\ \A f \in Inputs : Coming'[i].edits[f] > 0 =>
                      Covered(Coming[i].doc, f, Coming[i].edits[f], i - 1)'
      <4> DEFINE m == Coming[i + 1]
      <4>1. Coming'[i] = m /\ i + 1 \in DOMAIN Coming /\ i \in Nat /\ (i + 1) - 1 = i
        BY <1>1, TakeIs
      <4>2. m \in GestureMessages /\ m.doc \in 0..MaxDocs
        BY <3>2, <4>1, KindsApart, RecordingAssumption DEF Docs
      <4>3. Reached(m.doc, m.edits) /\ \A f \in Inputs : m.edits[f] > 0 => Covered(m.doc, f, m.edits[f], i)
        BY <1>2, <4>1, <4>2 DEF Inv, EditInv, GestureEdits
      <4> HIDE DEF m
      <4>4. m.doc = Coming'[i].doc /\ m.edits = Coming'[i].edits
        BY <4>1
      <4>5. Reached(Coming[i].doc, Coming[i].edits)'
        BY <2>4, <4>3, <4>4
      <4> QED
        BY <2>2, <4>1, <4>2, <4>3, <4>4, <4>5
    <3>3. first \in GestureMessages => \A f \in Inputs : first.edits[f] > 0 => Kept(first.doc, f, first.edits[f])
      <4> SUFFICES ASSUME first \in GestureMessages, NEW f \in Inputs, first.edits[f] > 0
                   PROVE  Kept(first.doc, f, first.edits[f])
        OBVIOUS
      <4>1. Covered(first.doc, f, first.edits[f], 0)
        BY <1>2, <1>3 DEF Inv, EditInv, GestureEdits
      <4> QED
        BY <4>1, TakeIs DEF Covered, AtHand, Ahead, Fieldwise
    <3>4. (rec.pc \in {"handle"} \cup Gestural /\ rec.ev \in GestureMessages =>
            \A f \in Inputs : rec.ev.edits[f] > 0 => Kept(rec.ev.doc, f, rec.ev.edits[f]))'
      <4>1. rec'.ev = first /\ \A d, f, v : Kept(d, f, v) => Kept(d, f, v)'
        BY <1>3, <2>1
      <4> QED
        BY <3>3, <4>1
    <3> QED
      BY <1>2, <3>1, <3>2, <3>4 DEF GestureEdits
  <2>6. PageEdits'
    <3> SUFFICES ASSUME Listening', NEW f \in Inputs, page.value[f] > 0, f \notin page.dirty
                 PROVE  (Covered(page.doc, f, page.value[f], Len(Coming)) \/ Underway(page.doc, f, page.sent + 1))'
      BY TakeIs DEF PageEdits
    <3>1. Covered(page.doc, f, page.value[f], Len(Coming)) \/ Underway(page.doc, f, page.sent + 1)
      BY <2>4 DEF Inv, EditInv, PageEdits
    <3>2. page.doc \in 0..MaxDocs
      BY <1>1 DEF Types, PageRecord
    <3> QED
      BY <1>1, <2>2, <2>3, <3>1, <3>2, TakeIs
  <2>7. LeftEdits'
    <3> SUFFICES ASSUME rec'.left # <<>> PROVE LeftEdits'
      BY DEF LeftEdits
    <3> DEFINE d == rec.left.doc
               v == rec.left.value
    <3>1. rec.left # <<>> /\ rec.left = rec'.left /\ rec.late = rec'.late /\ rec.drained = rec'.drained
          /\ rec.pc = "next" /\ rec'.pc = "handle" /\ d \in 0..MaxDocs
      BY <1>1, TakeIs DEF Types, RecRecord
    <3>2. d <= page'.doc /\ Reached(d, v)'
      BY <2>4, <3>1, TakeIs DEF Inv, EditInv, LeftEdits
    <3>3. ASSUME ~rec'.late, NEW f \in Inputs, v[f] > 0
          PROVE  Covered(d, f, v[f], Len(Coming))'
      <4>1. Covered(d, f, v[f], Len(Coming))
        BY <1>2, <3>1, <3>3 DEF Inv, EditInv, LeftEdits
      <4>2. Len(Coming)' = Len(Coming) - 1 /\ d' = d /\ v' = v
        BY <3>1, TakeIs
      <4> HIDE DEF d, v
      <4> QED
        BY <1>1, <2>2, <3>1, <4>1, <4>2
    <3>4. rec'.drained
      BY <1>2, <3>1 DEF Inv, EditInv, LeftEdits
    <3> QED
      BY <3>1, <3>2, <3>3, <3>4 DEF LeftEdits
  <2>8. ClosedInv'
    <3>1. ClosedInv /\ Active
      BY <1>2 DEF Inv, EditInv
    <3>2. \A i \in DOMAIN Coming : Coming[i].kind = "closed" => chan'.closed /\ (rec'.drained => rec'.late)
      BY <3>1, TakeIs DEF ClosedInv
    <3> QED
      BY <1>3, <3>2, TakeIs DEF ClosedInv
  <2>9. StepValues' /\ EditsComeFirst' /\ StopKeepsEdits' /\ SecretsStayOnPage'
    <3>1. StepValues'
      BY <1>2, TakeIs DEF Inv, EditInv, StepValues
    <3>3. EditsComeFirst' /\ SecretsStayOnPage'
      <4>1. steps' = steps /\ EditsComeFirst /\ SecretsStayOnPage
        BY TakeIs DEF Inv, EditInv
      <4> QED
        BY <4>1 DEF EditsComeFirst, SecretsStayOnPage
    <3>2. StopKeepsEdits'
      <4>1. StopKeepsEdits /\ UNCHANGED <<steps, rec.left, rec.late, rec.end>>
        BY TakeIs DEF Inv, EditInv
      <4> QED
        BY <4>1 DEF StopKeepsEdits
    <3> QED
      BY <3>1, <3>2, <3>3
  <2> QED
    BY <2>5, <2>6, <2>7, <2>8, <2>9 DEF EditInv
<1> QED
  BY <1>7, <1>8, <1>9, <1>10, TakeIs DEF Inv

-----------------------------------------------------------------------------
(* Messages are posted, delivered or lost, and documents commit.           *)

LEMMA ComingDocs ==
  ASSUME Inv, Active
  PROVE  /\ Now \in 0..Committed
         /\ \A i \in DOMAIN Coming : Coming[i] \in GestureMessages => Coming[i].doc <= page.doc
<1>1. Committed = page.doc /\ page.doc \in Nat /\ through \in Nat /\ through <= Committed
  BY RecordingAssumption DEF Inv, Types, PageRecord
<1>2. Now \in 0..Committed
  <2>1. rec.pc \in {"handle", "open"} /\ rec.ev \in NavEvents => rec.ev.seq \in Nat /\ rec.ev.seq <= Committed
    BY KindsApart DEF Inv, NavInv, HandInv
  <2> QED
    BY <1>1, <2>1 DEF Now
<1>3. ASSUME NEW i \in DOMAIN Coming, Coming[i] \in GestureMessages, ~(Coming[i].doc <= page.doc)
      PROVE  FALSE
  <2> DEFINE d == Coming[i].doc
  <2>1. d \in Nat /\ i \in 1..Len(Coming) /\ DOMAIN Coming = 1..Len(Coming) /\ Len(Coming) \in Nat
    BY <1>3, KindsApart, ComingTyped DEF Docs, Inv
  <2>2. d \in (Now + 1)..d
    BY <1>1, <1>2, <1>3, <2>1
  <2>3. PICK j \in 1..(i - 1) : IsNav(Coming[j], d)
    BY <1>3, <2>2 DEF Inv, NavInv, AfterInv
  <2>4. j \in DOMAIN Coming
    BY <2>1
  <2>5. Coming[j].seq \in 1..Committed
    BY <2>3, <2>4 DEF Inv, NavInv, ComingInv, IsNav
  <2> QED
    BY <1>1, <1>3, <2>1, <2>3, <2>5 DEF IsNav
<1> QED
  BY <1>2, <1>3

\* Events are added after those to come, the page goes on or a new one comes,
\* and a message under way stays so or is released.
Grows ==
  /\ UNCHANGED <<steps, rec.drained>>
  /\ Len(Coming) <= Len(Coming)'
  /\ \A i \in DOMAIN Coming : i \in DOMAIN Coming' /\ Coming'[i] = Coming[i]
  /\ \/ /\ page'.doc = page.doc /\ page.sent <= page'.sent
        /\ \A f \in Inputs : page.value[f] <= page'.value[f]
     \/ page'.doc = page.doc + 1
  /\ Listening' => Listening
  /\ Listening' => \A d \in Docs, f \in Inputs, s \in Nat :
       (d = page.doc => s <= page.sent + 1) /\ Underway(d, f, s) =>
         Ahead(d, f, Len(Coming))' \/ Underway(d, f, s)'

LEMMA CoveredGrows ==
  ASSUME Types, Types', Grows, SameHand, NEW d \in 0..MaxDocs, NEW f \in Inputs, NEW v
  PROVE  /\ \A n \in Nat : Covered(d, f, v, n) => Covered(d, f, v, n)'
         /\ Covered(d, f, v, Len(Coming)) => Covered(d, f, v, Len(Coming))'
         /\ \A s \in Nat : d \in Docs /\ Listening' /\ (d = page.doc => s <= page.sent + 1) /\ Underway(d, f, s) =>
              Covered(d, f, v, Len(Coming))' \/ Underway(d, f, s)'
<1>1. Kept(d, f, v) => Kept(d, f, v)'
  BY DEF Kept, Grows
<1>2. AtHand(d, f) => AtHand(d, f)'
  BY DEF SameHand
<1>3. \A n : Ahead(d, f, n) => Ahead(d, f, n)'
  BY DEF Ahead, Grows, IsFill
<1>4. Ahead(d, f, Len(Coming)) => Ahead(d, f, Len(Coming))'
  <2>1. Len(Coming) \in Nat /\ Len(Coming)' \in Nat /\ Len(Coming) <= Len(Coming)'
    BY SMTT(30), ComingTyped DEF Grows, Types, Coming, ChanRecord, RecRecord
  <2>2. 1..Len(Coming) \subseteq 1..Len(Coming)'
    BY <2>1
  <2> QED
    BY <2>2 DEF Ahead, Grows, IsFill
<1>5. \A s \in Nat : d \in Docs /\ Listening' /\ (d = page.doc => s <= page.sent + 1) /\ Underway(d, f, s) =>
              Ahead(d, f, Len(Coming))' \/ Underway(d, f, s)'
  BY DEF Grows
<1> QED
  BY <1>1, <1>2, <1>3, <1>4, <1>5 DEF Covered

LEMMA ReachedGrows ==
  ASSUME Types, Types', Grows, Active, NEW d \in 0..MaxDocs, NEW edits \in Edits, d <= page.doc,
         Reached(d, edits)
  PROVE  Reached(d, edits)'
<1>1. page.doc \in Nat /\ page.value \in Edits /\ page'.value \in Edits
  BY RecordingAssumption DEF Types, PageRecord
<1> QED
  BY <1>1 DEF Reached, Grows, Edits

\* What is asked of a gesture's message, and of it as an event.
PostedFirst(m) ==
  /\ Reached(m.doc, m.edits)
  /\ Listening => \A f \in Inputs : m.edits[f] > 0 =>
       Covered(m.doc, f, m.edits[f], Len(Coming)) \/ Underway(m.doc, f, m.seq)

QueuedFirst(m, n) ==
  /\ Reached(m.doc, m.edits)
  /\ Active => \A f \in Inputs : m.edits[f] > 0 => Covered(m.doc, f, m.edits[f], n)

LEMMA EditsGrow ==
  ASSUME Inv, Types', PlaceInv', Active, Active', Grows, SameHand,
         \A m \in Pending' \cap GestureMessages : m \notin Pending => PostedFirst(m)',
         \A i \in DOMAIN Coming' : i \notin DOMAIN Coming /\ Coming'[i] \in GestureMessages =>
           QueuedFirst(Coming[i], i - 1)',
         PageEdits', LeftEdits', ClosedInv'
  PROVE  EditInv'
<1>1. Types /\ Len(Coming) \in Nat /\ DOMAIN Coming = 1..Len(Coming) /\ page.doc \in Nat /\ Docs \subseteq 0..MaxDocs
  BY SMTT(30), ComingTyped, RecordingAssumption DEF Inv, Types, PageRecord, Docs
<1>2. GestureEdits'
  <2>1. ASSUME NEW m \in Pending' \cap GestureMessages
        PROVE  PostedFirst(m)'
    <3> SUFFICES ASSUME m \in Pending PROVE PostedFirst(m)'
      OBVIOUS
    <3>1. m.doc \in Docs /\ m.doc \in 0..MaxDocs /\ m.edits \in Edits /\ m.seq \in Nat
      BY <1>1, <2>1, KindsApart
    <3>2. m.doc <= page.doc /\ (m.doc = page.doc => m.seq <= page.sent + 1) /\ Reached(m.doc, m.edits)
      <4>1. m.doc <= page.doc /\ (m.doc = page.doc => m.seq <= page.sent)
        BY DEF Inv, MessageInv
      <4>2. page.sent \in Nat
        BY <1>1 DEF Types, PageRecord
      <4>3. Reached(m.doc, m.edits)
        BY <2>1 DEF Inv, EditInv, GestureEdits
      <4> QED
        BY <3>1, <4>1, <4>2, <4>3
    <3>3. Reached(m.doc, m.edits)'
      BY <1>1, <3>1, <3>2, ReachedGrows
    <3>4. ASSUME Listening', NEW f \in Inputs, m.edits[f] > 0
          PROVE  (Covered(m.doc, f, m.edits[f], Len(Coming)) \/ Underway(m.doc, f, m.seq))'
      <4>1. Listening
        BY <3>4 DEF Grows
      <4>2. Covered(m.doc, f, m.edits[f], Len(Coming)) \/ Underway(m.doc, f, m.seq)
        BY <2>1, <3>4, <4>1 DEF Inv, EditInv, GestureEdits
      <4> QED
        BY <1>1, <3>1, <3>2, <3>4, <4>2, CoveredGrows
    <3> QED
      BY <3>3, <3>4 DEF PostedFirst
  <2>2. ASSUME NEW i \in DOMAIN Coming', Coming'[i] \in GestureMessages
        PROVE  QueuedFirst(Coming[i], i - 1)'
    <3> SUFFICES ASSUME i \in DOMAIN Coming PROVE QueuedFirst(Coming[i], i - 1)'
      BY <2>2
    <3> DEFINE m == Coming[i]
    <3>1. m \in GestureMessages /\ m' = m
      BY <2>2 DEF Grows
    <3>2. m.doc \in 0..MaxDocs /\ m.edits \in Edits /\ m.doc <= page.doc
      BY <1>1, <3>1, KindsApart, ComingDocs
    <3>3. Reached(m.doc, m.edits) /\ \A f \in Inputs : m.edits[f] > 0 => Covered(m.doc, f, m.edits[f], i - 1)
      BY <3>1 DEF Inv, EditInv, GestureEdits
    <3> HIDE DEF m
    <3>4. Reached(m.doc, m.edits)'
      <4> DEFINE d == m.doc
                 e == m.edits
      <4>1. d' = d /\ e' = e /\ d \in 0..MaxDocs /\ e \in Edits /\ d <= page.doc /\ Reached(d, e)
        BY <3>1, <3>2, <3>3
      <4> HIDE DEF d, e
      <4>2. Reached(d, e)'
        BY <1>1, <4>1, ReachedGrows DEF Reached
      <4> QED
        BY <4>2 DEF d, e
    <3>5. ASSUME NEW f \in Inputs, m.edits[f] > 0
          PROVE  Covered(m.doc, f, m.edits[f], i - 1)'
      <4>1. i - 1 \in Nat
        BY <1>1
      <4> QED
        BY <1>1, <3>1, <3>2, <3>3, <3>5, <4>1, CoveredGrows
    <3> QED
      BY <3>1, <3>4, <3>5 DEF QueuedFirst, m
  <2>3. (rec.pc \in {"handle"} \cup Gestural /\ rec.ev \in GestureMessages =>
          \A f \in Inputs : rec.ev.edits[f] > 0 => Kept(rec.ev.doc, f, rec.ev.edits[f]))'
    <3> SUFFICES ASSUME rec'.pc \in {"handle"} \cup Gestural, rec'.ev \in GestureMessages
                 PROVE  (\A f \in Inputs : rec.ev.edits[f] > 0 => Kept(rec.ev.doc, f, rec.ev.edits[f]))'
      BY DEF Gestural, GestureMessages, Edits, Docs
    <3>1. rec.pc \in {"handle"} \cup Gestural /\ rec.ev \in GestureMessages /\ rec'.ev = rec.ev
      BY DEF SameHand
    <3>2. \A f \in Inputs : rec.ev.edits[f] > 0 => Kept(rec.ev.doc, f, rec.ev.edits[f])
      BY <3>1 DEF Inv, EditInv, GestureEdits
    <3> QED
      BY <3>1, <3>2 DEF Kept, Grows
  <2> QED
    BY <2>1, <2>2, <2>3 DEF GestureEdits, PostedFirst, QueuedFirst
<1>3. StepValues'
  <2>1. \A j \in DOMAIN steps : steps[j].value \in Nat /\ steps[j].key \in (0..MaxDocs) \X Elems /\ steps[j].key[1] \in Nat
    BY <1>1, StepsTyped, RecordingAssumption
  <2>2. page.value \in Edits /\ page'.value \in Edits
    BY <1>1 DEF Types, PageRecord
  <2>3. StepValues /\ steps' = steps
    BY DEF Inv, EditInv, Grows
  <2> QED
    BY SMTT(30), <1>1, <2>1, <2>2, <2>3 DEF StepValues, Grows, Edits
<1>4. EditsComeFirst' /\ StopKeepsEdits' /\ SecretsStayOnPage'
  <2>1. steps' = steps /\ EditsComeFirst /\ SecretsStayOnPage
    BY DEF Inv, EditInv, Grows
  <2> QED
    BY <2>1 DEF EditsComeFirst, StopKeepsEdits, SecretsStayOnPage, PlaceInv
<1> QED
  BY <1>2, <1>3, <1>4 DEF EditInv

LEMMA LeftGrows ==
  ASSUME Inv, Types', PlaceInv', Active, Active', Grows, SameHand,
         UNCHANGED <<rec.left, rec.late>>, chan.closed => chan'.closed,
         \/ UNCHANGED <<rec.pc, rec.ev, rec.upto>>
         \/ {rec.pc, rec'.pc} \cap {"flushed", "drain"} = {}
  PROVE  LeftEdits'
<1> SUFFICES ASSUME rec'.left # <<>> PROVE LeftEdits'
  BY DEF LeftEdits
<1> DEFINE d == rec.left.doc
           v == rec.left.value
<1>1. Types /\ rec.left \in [doc : 0..MaxDocs, value : Edits] /\ LeftEdits /\ page.doc \in Nat /\ page.sent \in Nat
      /\ page'.sent \in Nat /\ rec.upto \in Nat
  BY SMTT(30), RecordingAssumption DEF Inv, Types, RecRecord, EditInv, PageRecord
<1>2. d \in 0..MaxDocs /\ v \in Edits /\ d \in Nat
  BY <1>1, RecordingAssumption
<1>3. /\ d <= page.doc /\ Reached(d, v) /\ (rec.drained \/ rec.pc \in {"flushed", "drain"})
      /\ rec.pc = "flushed" => rec.ev.doc = d /\ (d = page.doc => rec.upto <= page.sent)
  BY <1>1 DEF LeftEdits
<1>4. d <= page'.doc /\ Reached(d, v)'
  <2>1. d <= page'.doc
    BY <1>1, <1>2, <1>3 DEF Grows
  <2>2. d' = d /\ v' = v
    OBVIOUS
  <2> HIDE DEF d, v
  <2> QED
    BY <1>1, <1>2, <1>3, <2>1, <2>2, ReachedGrows
<1>5. ASSUME ~rec'.late, ~(rec'.pc \in {"flushed", "drain"} /\ chan'.closed), NEW f \in Inputs, v[f] > 0
      PROVE  (Covered(d, f, v[f], Len(Coming)) \/ (rec.pc = "flushed" /\ Underway(d, f, rec.upto + 1)))'
  <2>1. Covered(d, f, v[f], Len(Coming)) \/ (rec.pc = "flushed" /\ Underway(d, f, rec.upto + 1))
    BY <1>1, <1>5 DEF LeftEdits
  <2>2. CASE Covered(d, f, v[f], Len(Coming))
    <3>1. d' = d /\ v' = v
      OBVIOUS
    <3> HIDE DEF d, v
    <3> QED
      BY <1>1, <1>2, <2>2, <3>1, CoveredGrows
  <2>3. CASE rec.pc = "flushed" /\ Underway(d, f, rec.upto + 1)
    <3>1. rec'.pc = "flushed" /\ rec'.upto = rec.upto /\ ~chan'.closed /\ ~rec'.drained
      BY <1>5, <2>3 DEF PlaceInv
    <3>2. /\ Listening' /\ (d = page.doc => rec.upto + 1 <= page.sent + 1) /\ rec.upto + 1 \in Nat
          /\ d \in Docs
      BY <1>1, <1>3, <2>3, <3>1 DEF Listening, Inv, PlaceInv
    <3>3. d' = d /\ v' = v
      OBVIOUS
    <3> HIDE DEF d, v
    <3> QED
      BY <1>1, <1>2, <2>3, <3>1, <3>2, <3>3, CoveredGrows
  <2> QED
    BY <2>1, <2>2, <2>3
<1>6. rec'.drained \/ rec'.pc \in {"flushed", "drain"}
  BY <1>3 DEF Grows
<1>7. rec'.pc = "flushed" => rec'.ev.doc = d /\ (d = page'.doc => rec'.upto <= page'.sent)
  BY <1>1, <1>2, <1>3 DEF Grows
<1> QED
  BY <1>4, <1>5, <1>6, <1>7 DEF LeftEdits
\* The messages M are posted by the page that is shown.
Posts(M) ==
  /\ M \in SUBSET Messages /\ IsFiniteSet(M) /\ page.doc \in Docs
  /\ chan' = [chan EXCEPT !.flight = @ \cup M]
  /\ UNCHANGED <<page.doc, page.open, steps, nav.log, rec.drained, rec.backlog>>
  /\ page.sent <= page'.sent
  /\ \A m \in M : m.doc = page.doc /\ page.sent < m.seq /\ m.seq <= page'.sent
  /\ \A m, n \in M : m.seq = n.seq => m = n
  /\ IsFiniteSet(page'.dirty)
  /\ \A f \in Inputs : /\ page.value[f] <= page'.value[f]
                       /\ \/ f \in page'.dirty
                          \/ page'.value[f] = page.value[f] /\ f \notin page.dirty
                          \/ \E m \in M : IsFill(m, page.doc, f)
  /\ \A m \in M \cap GestureMessages :
       /\ m.edits = page.value /\ page'.value = page.value
       /\ \A f \in page.dirty : \E n \in M : IsFill(n, page.doc, f) /\ n.seq < m.seq

LEMMA PostsAre ==
  ASSUME Inv, NEW M, Posts(M)
  PROVE  /\ chan' \in ChanRecord /\ chan'.flight = chan.flight \cup M /\ chan'.held = chan.held
         /\ chan'.next = chan.next /\ chan'.queue = chan.queue /\ chan'.closed = chan.closed
         /\ chan'.waiting = chan.waiting /\ Pending' = Pending \cup M /\ Coming' = Coming
         /\ Committed' = Committed
<1>1. chan \in ChanRecord /\ M \in SUBSET Messages
  BY DEF Inv, Types, Posts
<1>2. /\ chan' \in ChanRecord /\ chan'.flight = chan.flight \cup M /\ chan'.held = chan.held
      /\ chan'.next = chan.next /\ chan'.queue = chan.queue /\ chan'.closed = chan.closed
      /\ chan'.waiting = chan.waiting
  <2>1. chan.flight \cup M \in SUBSET Messages /\ chan' = [chan EXCEPT !.flight = chan.flight \cup M]
    BY <1>1 DEF Posts, ChanRecord
  <2> HIDE DEF Messages
  <2> QED
    BY <1>1, <2>1 DEF ChanRecord
<1> QED
  BY <1>2 DEF Pending, Coming, Committed, Posts

LEMMA PostedMessages ==
  ASSUME Inv, Types', NEW M, Posts(M)
  PROVE  /\ MessageInv'
         /\ \A m \in M, f \in Inputs, s \in Nat : IsFill(m, page.doc, f) /\ m.seq < s =>
              Underway(page.doc, f, s)'
         /\ \A d \in 0..MaxDocs, f \in Inputs, s \in Nat :
              (d = page.doc => s <= page.sent + 1) /\ Underway(d, f, s) => Underway(d, f, s)'
<1>1. /\ page.sent \in Nat /\ page'.sent \in Nat /\ page.sent <= page'.sent /\ page.doc \in Docs
      /\ page'.doc = page.doc /\ page.doc \in Nat /\ chan.next \in [Docs -> Nat] /\ Docs \subseteq Nat
  <2>1. page \in PageRecord /\ page' \in PageRecord /\ chan \in ChanRecord
    BY DEF Inv, Types
  <2>2. page.sent \in Nat /\ page'.sent \in Nat /\ chan.next \in [Docs -> Nat]
    BY <2>1 DEF PageRecord, ChanRecord
  <2>3. page.sent <= page'.sent /\ page.doc \in Docs /\ page'.doc = page.doc
    BY DEF Posts
  <2>4. Docs \subseteq Nat
    BY RecordingAssumption DEF Docs
  <2> QED
    BY <2>2, <2>3, <2>4
<1>2. \A m \in M : /\ m.doc = page.doc /\ m.seq \in Nat /\ page.sent < m.seq /\ m.seq <= page'.sent
                   /\ m.doc \in Docs
  BY <1>1, KindsApart DEF Posts
<1>3. \A m \in Pending : m.doc \in Docs /\ m.seq \in Nat
  BY KindsApart DEF Inv, Types, ChanRecord, Pending
<1>4. MessageInv
  BY DEF Inv
<1>5. \A m \in M, n \in Pending : ~(m.doc = n.doc /\ m.seq = n.seq)
  BY <1>1, <1>2, <1>3, <1>4 DEF MessageInv
<1>6. MessageInv'
  <2>1. IsFiniteSet(page'.dirty) /\ IsFiniteSet(chan'.flight) /\ IsFiniteSet(chan'.held)
    <3>1. IsFiniteSet(chan.flight) /\ IsFiniteSet(M) /\ IsFiniteSet(page'.dirty) /\ IsFiniteSet(chan.held)
      BY <1>4 DEF MessageInv, Posts
    <3>2. IsFiniteSet(chan.flight \cup M)
      BY <3>1, FS_Union
    <3> QED
      BY <3>1, <3>2, PostsAre
  <2>2. chan'.flight \cap chan'.held = {}
    BY <1>4, <1>5, PostsAre DEF MessageInv, Pending
  <2>3. \A m, n \in Pending' : m.doc = n.doc /\ m.seq = n.seq => m = n
    BY <1>2, <1>4, <1>5, PostsAre DEF MessageInv, Posts
  <2>4. chan.next[page.doc] <= page.sent + 1 /\ chan.next[page.doc] \in Nat
    BY <1>1, <1>4 DEF MessageInv
  <2>5. ASSUME NEW m \in Pending'
        PROVE  /\ m.doc <= page.doc /\ chan.next[m.doc] <= m.seq
               /\ m.doc = page.doc => m.seq <= page'.sent
    <3>1. CASE m \in M
      BY <1>1, <1>2, <2>4, <3>1
    <3>2. CASE m \in Pending
      <4>1. m.doc <= page.doc /\ chan.next[m.doc] <= m.seq /\ (m.doc = page.doc => m.seq <= page.sent)
        BY <1>4, <3>2 DEF MessageInv
      <4> QED
        BY <1>1, <1>3, <3>2, <4>1
    <3> QED
      BY <3>1, <3>2, PostsAre
  <2>6. \A d \in Docs : /\ chan.next[d] # 0
                        /\ d > page.doc => chan.next[d] = 1
                        /\ d = page.doc => chan.next[d] <= page'.sent + 1
    BY <1>1, <1>4, <2>4 DEF MessageInv
  <2> QED
    BY <1>1, <2>1, <2>2, <2>3, <2>5, <2>6, PostsAre DEF MessageInv
<1>7. ASSUME NEW m \in M, NEW f \in Inputs, NEW s \in Nat, IsFill(m, page.doc, f), m.seq < s
      PROVE  Underway(page.doc, f, s)'
  <2>1. m.seq \in chan.next[page.doc]..(s - 1)
    <3>1. chan.next[page.doc] <= page.sent + 1 /\ chan.next[page.doc] \in Nat
      BY <1>1, <1>4 DEF MessageInv
    <3> QED
      BY <1>1, <1>2, <1>7, <3>1
  <2>2. \A n \in Pending' : n.doc = page.doc /\ n.seq = m.seq => n = m
    BY <1>2, <1>5, PostsAre DEF Posts
  <2> QED
    BY <1>1, <1>7, <2>1, <2>2, PostsAre DEF Underway, IsFill
<1>8. ASSUME NEW d \in 0..MaxDocs, NEW f \in Inputs, NEW s \in Nat,
             d = page.doc => s <= page.sent + 1, Underway(d, f, s)
      PROVE  Underway(d, f, s)'
  <2>1. PICK n \in chan.next[d]..(s - 1) : \A m \in Pending : m.doc = d /\ m.seq = n => IsFill(m, d, f)
    BY <1>8 DEF Underway
  <2>2. \A m \in M : ~(m.doc = d /\ m.seq = n)
    <3> SUFFICES ASSUME NEW m \in M, m.doc = d, m.seq = n PROVE FALSE
      OBVIOUS
    <3>1. s <= page.sent + 1 /\ page.sent < n /\ n \in Nat
      BY <1>2, <1>8
    <3> QED
      BY <1>1, <2>1, <3>1
  <2> QED
    BY <2>1, <2>2, PostsAre DEF Underway, IsFill
<1> QED
  BY <1>6, <1>7, <1>8

LEMMA PostsGrow ==
  ASSUME Inv, Types', NEW M, Posts(M), Active, Active', SameHand, page.open
  PROVE  /\ Grows /\ PageEdits' /\ \A m \in M \cap GestureMessages : PostedFirst(m)'
<1>1. /\ Types /\ page.sent \in Nat /\ page'.sent \in Nat /\ page'.doc = page.doc /\ page.doc \in 0..MaxDocs
      /\ page.value \in Edits /\ page'.value \in Edits /\ Len(Coming) \in Nat /\ page.sent <= page'.sent
  BY ComingTyped DEF Inv, Types, PageRecord, Posts
<1>2. Listening' <=> Listening
  BY PostsAre DEF Listening, Posts
<1>3. Grows
  <2>1. \A d \in Docs, f \in Inputs, s \in Nat :
          (d = page.doc => s <= page.sent + 1) /\ Underway(d, f, s) => Underway(d, f, s)'
    <3>1. Docs \subseteq 0..MaxDocs
      BY RecordingAssumption DEF Docs
    <3> QED
      BY <3>1, PostedMessages
  <2>2. Coming' = Coming /\ steps' = steps /\ rec'.drained = rec.drained
        /\ \A f \in Inputs : page.value[f] <= page'.value[f]
    BY PostsAre DEF Posts
  <2> QED
    BY <1>1, <1>2, <2>1, <2>2 DEF Grows
<1>4. PageEdits'
  <2> SUFFICES ASSUME Listening', NEW f \in Inputs, page'.value[f] > 0, f \notin page'.dirty
               PROVE  (Covered(page.doc, f, page.value[f], Len(Coming)) \/ Underway(page.doc, f, page.sent + 1))'
    BY DEF PageEdits
  <2>1. page'.sent + 1 \in Nat /\ page.sent + 1 \in Nat
    BY <1>1
  <2>2. CASE \E m \in M : IsFill(m, page.doc, f)
    <3>1. PICK m \in M : IsFill(m, page.doc, f)
      BY <2>2
    <3>2. m.seq <= page'.sent /\ m.seq \in Nat
      BY KindsApart DEF Posts
    <3>3. m.seq < page'.sent + 1
      BY <1>1, <3>2
    <3>4. \A s \in Nat : m.seq < s => Underway(page.doc, f, s)'
      BY <3>1, PostedMessages
    <3>5. Underway(page.doc, f, page.sent + 1)'
      BY <2>1, <3>3, <3>4
    <3> QED
      BY <3>5
  <2>3. CASE page'.value[f] = page.value[f] /\ f \notin page.dirty
    <3>1. Covered(page.doc, f, page.value[f], Len(Coming)) \/ Underway(page.doc, f, page.sent + 1)
      BY <1>2, <2>3 DEF Inv, EditInv, PageEdits
    <3>2. CASE Covered(page.doc, f, page.value[f], Len(Coming))
      BY <1>1, <1>3, <2>3, <3>2, CoveredGrows
    <3>3. CASE Underway(page.doc, f, page.sent + 1)
      <4>1. \A s \in Nat : s = page.sent + 1 => Underway(page.doc, f, s)'
        BY <1>1, <2>1, <3>3, PostedMessages
      <4>2. chan'.next[page.doc]..(page.sent + 1 - 1) \subseteq chan'.next[page.doc]..(page'.sent + 1 - 1)
        BY SMTT(30), <1>1, PostsAre DEF Inv, Types, ChanRecord, Posts
      <4> QED
        BY SMTT(30), <1>1, <2>1, <4>1, <4>2 DEF Underway
    <3> QED
      BY <3>1, <3>2, <3>3
  <2> QED
    BY <2>2, <2>3 DEF Posts
<1>5. ASSUME NEW m \in M \cap GestureMessages
      PROVE  PostedFirst(m)'
  <2>1. /\ m.edits = page.value /\ page'.value = page.value /\ m.doc = page.doc /\ m.seq \in Nat
        /\ page.sent < m.seq
    BY KindsApart DEF Posts
  <2>2. Reached(m.doc, m.edits)'
    BY <1>1, <2>1 DEF Reached, Edits
  <2>3. ASSUME Listening', NEW f \in Inputs, m.edits[f] > 0
        PROVE  (Covered(m.doc, f, m.edits[f], Len(Coming)) \/ Underway(m.doc, f, m.seq))'
    <3>1. CASE f \in page.dirty
      BY <2>1, <3>1, PostedMessages DEF Posts
    <3>2. CASE f \notin page.dirty
      <4>1. Covered(m.doc, f, m.edits[f], Len(Coming)) \/ Underway(page.doc, f, page.sent + 1)
        BY <1>2, <2>1, <2>3, <3>2 DEF Inv, EditInv, PageEdits
      <4>2. CASE Covered(m.doc, f, m.edits[f], Len(Coming))
        BY <1>1, <1>3, <2>1, <4>2, CoveredGrows
      <4>3. CASE Underway(page.doc, f, page.sent + 1)
        <5>1. \A s \in Nat : s = page.sent + 1 => Underway(page.doc, f, s)'
          BY <1>1, <4>3, PostedMessages
        <5>2. page.sent + 1 <= m.seq
          BY <1>1, <2>1
        <5>3. Underway(page.doc, f, m.seq)'
          <6>0. page.sent + 1 \in Nat
            BY <1>1
          <6>1. chan.next[page.doc]..(page.sent + 1 - 1) \subseteq chan.next[page.doc]..(m.seq - 1)
            BY <1>1, <2>1, <5>2 DEF Inv, Types, ChanRecord, Posts
          <6> QED
            BY <1>1, <5>1, <6>0, <6>1, PostsAre DEF Underway
        <5> QED
          BY <1>1, <2>1, <5>3
      <4> QED
        BY <4>1, <4>2, <4>3
    <3> QED
      BY <3>1, <3>2
  <2> QED
    BY <2>2, <2>3 DEF PostedFirst
<1> QED
  BY <1>3, <1>4, <1>5

LEMMA PostKeeps ==
  ASSUME Inv, Types', NEW M, Posts(M), page.open,
         UNCHANGED <<ignored, through, rec.left, rec.late, rec.end>>,
         \/ UNCHANGED rec
         \/ /\ rec.pc \in Gestural /\ rec'.pc \in Gestural /\ rec'.ev = rec.ev
            /\ GestureInv'
  PROVE  Inv'
<1>1. Active /\ Active' /\ page.doc \in Docs /\ page.doc \in Nat /\ page.doc # 0
  BY DEF Inv, PlaceInv, Active, Posts, Docs, Gestural, Finishing
<1>2. SameHand
  <2>1. CASE UNCHANGED rec
    BY <2>1 DEF SameHand, AtHand, IsFill
  <2>2. CASE rec.pc \in Gestural /\ rec'.pc \in Gestural /\ rec'.ev = rec.ev
    <3>1. rec.ev \in GestureMessages
      BY <2>2 DEF Inv, PlaceInv
    <3> QED
      BY <2>2, <3>1 DEF SameHand, AtHand, Gestural, Fieldwise
  <2> QED
    BY <2>1, <2>2
<1>3. Coming' = Coming /\ Committed' = Committed /\ (rec.drained => rec'.drained)
  BY PostsAre DEF Posts
<1>4. rec.pc \in Gestural => rec.ev \in GestureMessages /\ rec.ev \notin NavEvents
  BY KindsApart DEF Inv, PlaceInv
<1>5. PlaceInv'
  <2>1. page'.doc = page.doc /\ page'.open = page.open /\ chan'.closed = chan.closed
        /\ rec'.drained = rec.drained /\ rec'.end = rec.end
    BY PostsAre DEF Posts
  <2>2. PlaceInv
    BY DEF Inv
  <2>3. CASE UNCHANGED rec
    BY <1>1, <2>1, <2>2, <2>3 DEF PlaceInv, Active
  <2>4. CASE rec.pc \in Gestural /\ rec'.pc \in Gestural /\ rec'.ev = rec.ev
    BY <1>1, <1>4, <2>1, <2>2, <2>4 DEF PlaceInv, Active, Gestural, Fieldwise
  <2> QED
    BY <2>3, <2>4
<1>6. NavInv'
  <2>1. Now' = Now /\ HandInv' /\ GestureInv'
    <3>1. CASE UNCHANGED rec
      BY <1>1, <1>3, <3>1 DEF Now, HandInv, GestureInv, Inv, NavInv, Committed
    <3>2. CASE rec.pc \in Gestural /\ rec'.pc \in Gestural /\ rec'.ev = rec.ev /\ GestureInv'
      BY <1>4, <3>2 DEF Now, HandInv, Gestural
    <3> QED
      BY <3>1, <3>2
  <2>2. CountedInv'
    BY DEF Posts, CountedInv, Inv, NavInv
  <2>3. (rec.pc \in {"handle"} \cup Gestural /\ rec.ev \in GestureMessages => rec.ev.doc <= through)'
    <3>1. rec.pc \in {"handle"} \cup Gestural /\ rec.ev \in GestureMessages => rec.ev.doc <= through
      BY <1>1 DEF Inv, NavInv, AfterInv
    <3> QED
      BY <3>1
  <2> QED
    BY <1>1, <1>3, <2>1, <2>2, <2>3, NavSteady DEF Inv
<1>7. MessageInv'
  BY PostedMessages
<1>8. EditInv'
  <2>1. Grows /\ PageEdits' /\ \A m \in M \cap GestureMessages : PostedFirst(m)'
    BY <1>1, <1>2, PostsGrow
  <2>2. \A m \in Pending' : m \notin Pending => m \in M
    BY PostsAre
  <2>3. ClosedInv'
    <3>1. ClosedInv /\ chan'.closed = chan.closed
      BY PostsAre DEF Inv, EditInv
    <3>2. rec'.pc = "handle" => UNCHANGED rec
      BY DEF Gestural
    <3> QED
      BY <1>1, <1>3, <3>1, <3>2 DEF ClosedInv, Posts
  <2>4. LeftEdits'
    <3>1. UNCHANGED <<rec.pc, rec.ev, rec.upto>> \/ {rec.pc, rec'.pc} \cap {"flushed", "drain"} = {}
      BY DEF Gestural
    <3> QED
      BY <1>1, <1>2, <1>5, <2>1, <3>1, LeftGrows, PostsAre DEF Posts
  <2>5. \A i \in DOMAIN Coming' : i \in DOMAIN Coming
    BY <1>3
  <2> QED
    BY <1>1, <1>2, <1>5, <2>1, <2>2, <2>3, <2>4, <2>5, EditsGrow
<1> QED
  BY <1>5, <1>6, <1>7, <1>8 DEF Inv

\* The fills of all edited fields, each under a number of its own.
LEMMA FillsAre ==
  ASSUME Types, page.doc \in Docs, NEW S \in SUBSET Inputs, IsFiniteSet(S), NEW order \in Orders(S)
  PROVE  /\ Fills(order, page.sent) \in SUBSET FillMessages /\ IsFiniteSet(Fills(order, page.sent))
         /\ Len(order) \in Nat
         /\ \A m \in Fills(order, page.sent) : m.doc = page.doc /\ page.sent < m.seq /\ m.seq <= page.sent + Len(order)
         /\ \A m, n \in Fills(order, page.sent) : m.seq = n.seq => m = n
         /\ \A f \in S : \E m \in Fills(order, page.sent) : IsFill(m, page.doc, f)
<1>1. order \in Seq(S) /\ DOMAIN order = 1..Len(order) /\ (\A x \in S : \E i \in DOMAIN order : order[i] = x)
      /\ Len(order) \in Nat /\ \A i \in DOMAIN order : order[i] \in S
  BY OrderOfAll
<1>2. page.sent \in Nat
  BY DEF Types, PageRecord
<1> DEFINE Fill(i) == [kind |-> "fill", doc |-> page.doc, seq |-> page.sent + i, el |-> order[i]]
<1>3. Fills(order, page.sent) = {Fill(i) : i \in DOMAIN order}
  BY DEF Fills
<1>4. \A i \in DOMAIN order :
        /\ Fill(i) \in FillMessages /\ IsFill(Fill(i), page.doc, order[i]) /\ Fill(i).doc = page.doc
        /\ Fill(i).seq = page.sent + i /\ page.sent < Fill(i).seq /\ Fill(i).seq <= page.sent + Len(order)
  BY <1>1, <1>2 DEF IsFill, FillMessages, FillKinds
<1>5. IsFiniteSet({Fill(i) : i \in DOMAIN order})
  <2> DEFINE fill == [i \in DOMAIN order |-> Fill(i)]
  <2>1. IsFiniteSet(DOMAIN order)
    <3>1. 1 \in Int /\ Len(order) \in Int
      BY <1>1
    <3> QED
      BY <1>1, <3>1, FS_Interval
  <2>2. fill \in Surjection(DOMAIN order, {Fill(i) : i \in DOMAIN order})
    BY DEF Surjection
  <2> HIDE DEF fill, Fill
  <2> QED
    BY <2>1, <2>2, FS_Surjection
<1>6. \A m, n \in Fills(order, page.sent) : m.seq = n.seq => m = n
  <2> SUFFICES ASSUME NEW m \in Fills(order, page.sent), NEW n \in Fills(order, page.sent), m.seq = n.seq
               PROVE  m = n
    OBVIOUS
  <2>1. PICK i \in DOMAIN order, j \in DOMAIN order : m = Fill(i) /\ n = Fill(j)
    BY <1>3
  <2>2. page.sent + i = page.sent + j
    BY <1>4, <2>1
  <2>3. i = j
    BY <1>1, <1>2, <2>2
  <2> QED
    BY <2>1, <2>3
<1> HIDE DEF Fill
<1> QED
  BY <1>1, <1>3, <1>4, <1>5, <1>6

LEMMA PostTyped ==
  ASSUME Inv, NEW M, Posts(M), page' \in PageRecord, page'.busy <= page'.sent, person' \in PersonRecord,
         UNCHANGED <<nav, steps, ignored, through, out>>, rec' \in RecRecord
  PROVE  Types'
BY PostsAre DEF Inv, Types, Committed, Posts

LEMMA CommitKeeps ==
  ASSUME Inv, NEW f \in Fields, Commit(f), UNCHANGED out
  PROVE  Inv'
<1> DEFINE M == Fills(<<f>>, page.sent)
           dirty == page.dirty \ {f}
           sent == page.sent + 1
<1>1. /\ Types /\ page \in PageRecord /\ page.open /\ page.doc \in Docs /\ f \in Inputs /\ page.sent \in Nat
      /\ f \in page.dirty /\ IsFiniteSet(page.dirty) /\ page.value \in Edits /\ page.dirty \in SUBSET Fields
      /\ person \in PersonRecord /\ rec \in RecRecord
  BY RecordingAssumption DEF Inv, Types, PageRecord, Commit, Working, Inputs, MessageInv, Docs
<1>2. /\ page' = [page EXCEPT !.dirty = dirty, !.sent = sent] /\ chan' = [chan EXCEPT !.flight = @ \cup M]
      /\ UNCHANGED <<person, nav, rec, steps, ignored, through>>
  BY DEF Commit, Post
<1>3. dirty \in SUBSET Fields /\ IsFiniteSet(dirty) /\ sent \in Nat
  BY <1>1, FS_RemoveElement
<1>4. /\ M \in SUBSET FillMessages /\ IsFiniteSet(M) /\ \A m, n \in M : m.seq = n.seq => m = n
      /\ \A m \in M : m.doc = page.doc /\ page.sent < m.seq /\ m.seq <= sent
      /\ \E m \in M : IsFill(m, page.doc, f)
  <2>1. IsFiniteSet({f}) /\ <<f>> \in Orders({f}) /\ Len(<<f>>) = 1 /\ {f} \in SUBSET Inputs
    <3>1. Cardinality({f}) = 1 /\ IsFiniteSet({f})
      BY FS_Singleton
    <3> QED
      BY <1>1, <3>1 DEF Orders
  <2>2. /\ M \in SUBSET FillMessages /\ IsFiniteSet(M) /\ \A m, n \in M : m.seq = n.seq => m = n
        /\ \A m \in M : m.doc = page.doc /\ page.sent < m.seq /\ m.seq <= page.sent + Len(<<f>>)
        /\ \A g \in {f} : \E m \in M : IsFill(m, page.doc, g)
    BY <1>1, <2>1, FillsAre
  <2> QED
    BY <2>1, <2>2
<1> HIDE DEF M, dirty, sent
<1>5. page' \in PageRecord
  BY <1>1, <1>2, <1>3 DEF PageRecord
<1>6. /\ page'.value = page.value /\ page'.dirty = dirty /\ page'.doc = page.doc /\ page'.sent = sent
      /\ page'.busy = page.busy /\ page'.open = page.open
  BY <1>1, <1>2 DEF PageRecord
<1>7. page.sent <= sent /\ page.busy <= sent
  BY <1>1 DEF sent, Types, PageRecord
<1>8. Posts(M)
  <2>1. M \in SUBSET Messages /\ M \cap GestureMessages = {}
    BY <1>4, KindsApart DEF Messages
  <2>2. \A g \in Inputs : page.value[g] \in Nat /\ (g \in dirty \/ g \notin page.dirty \/ g = f)
    BY <1>1 DEF Edits, dirty
  <2>3. \A g \in Inputs : /\ page.value[g] <= page'.value[g]
                          /\ \/ g \in page'.dirty
                             \/ page'.value[g] = page.value[g] /\ g \notin page.dirty
                             \/ \E n \in M : IsFill(n, page.doc, g)
    BY <1>4, <1>6, <2>2
  <2> QED
    BY <1>1, <1>2, <1>3, <1>4, <1>6, <1>7, <2>1, <2>3 DEF Posts
<1>9. Types'
  BY <1>1, <1>2, <1>5, <1>6, <1>7, <1>8, PostTyped
<1> QED
  BY <1>1, <1>2, <1>8, <1>9, PostKeeps

LEMMA ChooseKeeps ==
  ASSUME Inv, NEW f \in Lists, Choose(f), UNCHANGED out
  PROVE  Inv'
<1> DEFINE m == [kind |-> "select", doc |-> page.doc, seq |-> page.sent + 1, el |-> f]
           value == [page.value EXCEPT ![f] = @ + 1]
           sent == page.sent + 1
<1>1. /\ Types /\ page \in PageRecord /\ page.open /\ page.doc \in Docs /\ f \in Inputs /\ page.sent \in Nat
      /\ IsFiniteSet(page.dirty) /\ page.value \in Edits /\ person' \in PersonRecord /\ rec \in RecRecord
      /\ page.busy <= page.sent /\ page.busy \in Nat
  BY ActingTyped DEF Inv, Types, PageRecord, Choose, Working, Inputs, MessageInv, Kinds
<1>2. /\ page' = [page EXCEPT !.value = value, !.sent = sent] /\ chan' = [chan EXCEPT !.flight = @ \cup {m}]
      /\ UNCHANGED <<nav, rec, steps, ignored, through>>
  BY DEF Choose, Post
<1>3. value \in Edits /\ sent \in Nat /\ page.sent <= sent /\ page.busy <= sent
      /\ \A g \in Inputs : page.value[g] <= value[g] /\ (value[g] = page.value[g] \/ g = f)
  BY <1>1 DEF Edits
<1>4. m \in FillMessages /\ m.doc = page.doc /\ page.sent < m.seq /\ m.seq <= sent /\ IsFill(m, page.doc, f)
  BY <1>1 DEF FillMessages, FillKinds, IsFill
<1> HIDE DEF m, value, sent
<1>5. page' \in PageRecord
  BY <1>1, <1>2, <1>3 DEF PageRecord
<1>6. /\ page'.value = value /\ page'.dirty = page.dirty /\ page'.doc = page.doc /\ page'.sent = sent
      /\ page'.busy = page.busy /\ page'.open = page.open
  BY <1>1, <1>2 DEF PageRecord
<1>7. Posts({m})
  <2>1. {m} \in SUBSET Messages /\ {m} \cap GestureMessages = {} /\ IsFiniteSet({m})
    BY <1>4, KindsApart, FS_Singleton DEF Messages
  <2>2. f \notin page.dirty
    BY <1>1, RecordingAssumption DEF PageRecord
  <2>3. \A g \in Inputs : /\ page.value[g] <= page'.value[g]
                          /\ \/ g \in page'.dirty
                             \/ page'.value[g] = page.value[g] /\ g \notin page.dirty
                             \/ \E n \in {m} : IsFill(n, page.doc, g)
    BY <1>3, <1>4, <1>6
  <2> QED
    BY <1>1, <1>2, <1>3, <1>4, <1>6, <2>1, <2>3 DEF Posts
<1>8. Types'
  BY <1>1, <1>2, <1>3, <1>5, <1>6, <1>7, PostTyped
<1> QED
  BY <1>1, <1>2, <1>7, <1>8, PostKeeps
\* A reported gesture comes with the fills of the edited fields, and after them.
LEMMA ReportPosts ==
  ASSUME Inv, page.doc \in Docs, NEW e \in Targets \cup {Nothing}, NEW order \in Flushed, Report(e, order),
         UNCHANGED <<steps, nav.log, rec.drained, rec.backlog>>
  PROVE  /\ \E M : Posts(M)
         /\ page' \in PageRecord /\ page'.busy <= page'.sent
<1> DEFINE fills == Fills(order, page.sent)
           seq == page.sent + Len(order) + 1
           m == [kind |-> "gesture", doc |-> page.doc, seq |-> seq, el |-> e, edits |-> page.value]
           M == fills \cup {m}
<1>1. /\ Types /\ page \in PageRecord /\ page.sent \in Nat /\ page.value \in Edits /\ IsFiniteSet(page.dirty)
      /\ page.dirty \in SUBSET Inputs
  BY DEF Inv, Types, PageRecord, MessageInv, Inputs
<1>2. /\ page' = [page EXCEPT !.dirty = {}, !.sent = seq, !.busy = seq]
      /\ chan' = [chan EXCEPT !.flight = @ \cup M]
  BY DEF Report, Post
<1>3. /\ fills \in SUBSET FillMessages /\ IsFiniteSet(fills) /\ Len(order) \in Nat
      /\ \A n \in fills : n.doc = page.doc /\ page.sent < n.seq /\ n.seq <= page.sent + Len(order)
      /\ \A n, k \in fills : n.seq = k.seq => n = k
      /\ \A f \in page.dirty : \E n \in fills : IsFill(n, page.doc, f)
  BY <1>1, FillsAre DEF Flushed
<1>4. seq \in Nat /\ page.sent < seq /\ page.sent + Len(order) < seq /\ seq # 0
  BY <1>1, <1>3
<1>5. /\ m \in GestureMessages /\ m.doc = page.doc /\ m.seq = seq /\ m.edits = page.value
  BY <1>1, <1>4 DEF GestureMessages
<1> HIDE DEF fills, m, seq
<1>6. page' \in PageRecord
  BY <1>1, <1>2, <1>4 DEF PageRecord
<1>7. /\ page'.value = page.value /\ page'.dirty = {} /\ page'.doc = page.doc /\ page'.sent = seq
      /\ page'.busy = seq /\ page'.open = page.open
  BY <1>1, <1>2 DEF PageRecord
<1>8. \A n \in fills : n \in FillMessages /\ n \notin GestureMessages /\ n.seq \in Nat /\ n.seq < seq
  <2>1. \A n \in fills : n \in FillMessages /\ n \notin GestureMessages /\ n.seq \in Nat /\ n.seq <= page.sent + Len(order)
    BY <1>3, KindsApart
  <2> QED
    BY <1>1, <1>3, <1>4, <2>1
<1>9. Posts(M)
  <2>1. M \in SUBSET Messages /\ IsFiniteSet(M)
    BY <1>3, <1>5, FS_AddElement DEF Messages
  <2>2. \A n \in M : n.doc = page.doc /\ page.sent < n.seq /\ n.seq <= seq
    BY <1>3, <1>4, <1>5, <1>8
  <2>3. \A n, k \in M : n.seq = k.seq => n = k
    BY <1>3, <1>4, <1>5, <1>8
  <2>4. \A f \in Inputs : /\ page.value[f] <= page'.value[f]
                          /\ \/ f \in page'.dirty
                             \/ page'.value[f] = page.value[f] /\ f \notin page.dirty
                             \/ \E n \in M : IsFill(n, page.doc, f)
    BY <1>1, <1>3, <1>7 DEF Edits
  <2>5. \A n \in M \cap GestureMessages :
          /\ n.edits = page.value /\ page'.value = page.value
          /\ \A f \in page.dirty : \E k \in M : IsFill(k, page.doc, f) /\ k.seq < n.seq
    BY <1>3, <1>5, <1>7, <1>8
  <2>6. IsFiniteSet(page'.dirty) /\ page.sent <= page'.sent
    BY <1>1, <1>4, <1>7, FS_EmptySet
  <2> HIDE DEF M
  <2> QED
    BY <1>2, <1>7, <2>1, <2>2, <2>3, <2>4, <2>5, <2>6 DEF Posts
<1> QED
  BY <1>4, <1>6, <1>7, <1>9

LEMMA GestureKeeps ==
  ASSUME Inv, NEW e \in Targets \cup {Nothing}, Gesture(e), UNCHANGED out
  PROVE  Inv'
<1>1. /\ Types /\ page \in PageRecord /\ page.open /\ page.doc \in Docs /\ page.sent \in Nat
      /\ IsFiniteSet(page.dirty) /\ page.value \in Edits /\ person' \in PersonRecord /\ rec \in RecRecord
      /\ page.busy <= page.sent /\ page.busy \in Nat
      /\ UNCHANGED <<nav, rec, steps, ignored, through>>
  BY ActingTyped DEF Inv, Types, PageRecord, Gesture, Working, MessageInv, Kinds
<1>2. \E M : Posts(M) /\ page' \in PageRecord /\ page'.busy <= page'.sent
  <2>1. CASE page.busy # 0
    <3> DEFINE m == [kind |-> "ignored", doc |-> page.doc, seq |-> page.sent + 1]
               sent == page.sent + 1
    <3>1. page' = [page EXCEPT !.sent = sent] /\ chan' = [chan EXCEPT !.flight = @ \cup {m}]
      BY <2>1 DEF Gesture, Post
    <3>2. m \in IgnoredMessages /\ m.doc = page.doc /\ page.sent < m.seq /\ m.seq <= sent /\ sent \in Nat
          /\ page.sent <= sent /\ page.busy <= sent
      BY <1>1 DEF IgnoredMessages
    <3> HIDE DEF m, sent
    <3>3. page' \in PageRecord
      BY <1>1, <3>1, <3>2 DEF PageRecord
    <3>4. /\ page'.value = page.value /\ page'.dirty = page.dirty /\ page'.doc = page.doc /\ page'.sent = sent
          /\ page'.busy = page.busy /\ page'.open = page.open
      BY <1>1, <3>1 DEF PageRecord
    <3>5. {m} \in SUBSET Messages /\ {m} \cap GestureMessages = {} /\ IsFiniteSet({m})
      <4>1. m.kind = "ignored" /\ m \in Messages
        BY <3>2 DEF IgnoredMessages, Messages
      <4> QED
        BY <4>1, KindsApart, FS_Singleton
    <3>6. \A f \in Inputs : page.value[f] <= page'.value[f] /\ (f \in page'.dirty \/ f \notin page.dirty)
      BY <1>1, <3>4 DEF Edits
    <3>7. Posts({m})
      BY <1>1, <3>1, <3>2, <3>4, <3>5, <3>6 DEF Posts
    <3> QED
      BY <3>2, <3>3, <3>4, <3>7
  <2>2. CASE page.busy = 0
    <3>1. PICK order \in Flushed : Report(e, order)
      BY <2>2 DEF Gesture
    <3> QED
      BY <1>1, <3>1, ReportPosts
  <2> QED
    BY <2>1, <2>2
<1>3. PICK M : Posts(M) /\ page' \in PageRecord /\ page'.busy <= page'.sent
  BY <1>2
<1>4. Types'
  BY <1>1, <1>3, PostTyped
<1> QED
  BY <1>1, <1>3, <1>4, PostKeeps

\* A key with nothing focused, pressed in a page that is not armed, is held
\* back and reported like the person's.
ActHeldBack ==
  /\ At("act") /\ page.open /\ ~page.armed /\ rec.ev.el = Nothing
  /\ \E order \in Flushed : Report(Nothing, order)
  /\ rec' = [rec EXCEPT !.pc = "settle"]
  /\ UNCHANGED <<nav, person, steps, ignored, through>>

LEMMA ActHeldBackKeeps ==
  ASSUME Inv, ActHeldBack, UNCHANGED out
  PROVE  Inv'
<1>1. rec \in RecRecord /\ "settle" \in Places /\ rec.pc = "act" /\ page.open /\ Types
  BY DEF Inv, Types, Places, ActHeldBack, At
<1>2. /\ rec' \in RecRecord /\ rec'.pc = "settle" /\ rec'.ev = rec.ev /\ rec'.drained = rec.drained
      /\ rec'.backlog = rec.backlog /\ rec'.left = rec.left /\ rec'.late = rec.late
      /\ rec'.end = rec.end /\ rec'.before = rec.before
  BY <1>1 DEF RecRecord, ActHeldBack
<1>3. page.doc \in Docs
  <2>1. rec.ev \in GestureMessages /\ rec.ev.doc <= through /\ through <= Committed /\ Committed = page.doc
    BY <1>1 DEF Inv, PlaceInv, NavInv, AfterInv, Active, Finishing, Gestural, Types
  <2>2. rec.ev.doc \in Docs /\ page.doc \in 0..MaxDocs /\ through \in 0..MaxDocs
    BY <1>1, <2>1, KindsApart DEF Types, PageRecord
  <2> QED
    BY <2>1, <2>2, RecordingAssumption DEF Docs
<1>4. rec.before = through
  BY <1>1 DEF Inv, NavInv, GestureInv, Active, Finishing
<1>5. GestureInv'
  BY <1>2, <1>4 DEF GestureInv, ActHeldBack
<1>6. PICK order \in Flushed : Report(Nothing, order)
  BY DEF ActHeldBack
<1>7. (\E M : Posts(M)) /\ page' \in PageRecord /\ page'.busy <= page'.sent
  BY <1>2, <1>3, <1>6, ReportPosts DEF ActHeldBack
<1>8. PICK M : Posts(M)
  BY <1>7
<1>9. Types'
  BY <1>1, <1>2, <1>7, <1>8, PostTyped DEF ActHeldBack, Types
<1> QED
  BY <1>1, <1>2, <1>5, <1>8, <1>9, PostKeeps DEF ActHeldBack, Gestural
\* The page does not answer: what it holds may be lost, and that is noted.
LEMMA FlushUnansweredKeeps ==
  ASSUME Inv, rec.pc = "next", ~rec.drained, chan.queue = <<>>,
         rec' = [rec EXCEPT !.pc = "drain", !.late = TRUE],
         UNCHANGED <<page, person, nav, chan, steps, ignored, through, out>>
  PROVE  Inv'
<1>1. rec \in RecRecord /\ "drain" \in Places
  BY DEF Inv, Types, Places
<1>2. /\ rec' \in RecRecord /\ rec'.pc = "drain" /\ rec'.drained = rec.drained
      /\ rec'.backlog = rec.backlog /\ rec'.left = rec.left /\ rec'.end = rec.end
  BY <1>1 DEF RecRecord
<1>3. Types'
  BY <1>2, AwaitTyped DEF Inv
<1>4. Active /\ Active' /\ Coming' = Coming
  BY <1>2 DEF Active, Finishing, Coming
<1>5. Quiet
  BY <1>2, <1>4, QuietRec
<1>6. PlaceInv'
  BY <1>2, <1>4 DEF Inv, PlaceInv, Active, Gestural, Fieldwise
<1>7. ClosedInv'
  BY <1>2, <1>4 DEF Inv, EditInv, ClosedInv
<1>8. LeftEdits'
  BY <1>2, <1>4 DEF Inv, EditInv, LeftEdits
<1> QED
  BY <1>2, <1>3, <1>4, <1>5, <1>6, <1>7, <1>8, StoppingStep
\* The page commits its fields: each is in the steps, or under way.
LEMMA FlushAnsweredKeeps ==
  ASSUME Inv, rec.pc = "next", ~rec.drained, chan.queue = <<>>, page.open, NEW order \in Flushed,
         page' = [page EXCEPT !.dirty = {}, !.sent = page.sent + Len(order)],
         Post(Fills(order, page.sent)),
         rec' = [rec EXCEPT !.pc = "flushed", !.upto = page.sent + Len(order), !.ev = [doc |-> page.doc],
                            !.left = [doc |-> page.doc, value |-> page.value]],
         UNCHANGED <<person, nav, steps, ignored, through, out>>
  PROVE  Inv'
<1> DEFINE M == Fills(order, page.sent)
           upto == page.sent + Len(order)
           mark == [doc |-> page.doc]
           left == [doc |-> page.doc, value |-> page.value]
<1>1. /\ Types /\ page \in PageRecord /\ page.doc \in 0..MaxDocs /\ page.sent \in Nat /\ IsFiniteSet(page.dirty)
      /\ page.value \in Edits /\ rec \in RecRecord /\ page.dirty \in SUBSET Inputs /\ ~chan.closed
      /\ page.busy <= page.sent /\ page.busy \in Nat /\ person \in PersonRecord /\ page.doc # 0
  BY DEF Inv, Types, PageRecord, MessageInv, PlaceInv, Inputs, ChanRecord, Active, Finishing
<1>2. page.doc \in Docs
  BY <1>1, RecordingAssumption DEF Docs
<1>3. /\ M \in SUBSET FillMessages /\ IsFiniteSet(M) /\ Len(order) \in Nat
      /\ \A n \in M : n.doc = page.doc /\ page.sent < n.seq /\ n.seq <= upto
      /\ \A n, k \in M : n.seq = k.seq => n = k
      /\ \A f \in page.dirty : \E n \in M : IsFill(n, page.doc, f)
  BY <1>1, <1>2, FillsAre DEF Flushed
<1>4. upto \in Nat /\ page.sent <= upto /\ page.busy <= upto /\ "flushed" \in Places
  BY <1>1, <1>3 DEF Places
<1>5. mark \in FlushMarks /\ mark.doc = page.doc /\ left \in [doc : 0..MaxDocs, value : Edits]
      /\ left.doc = page.doc /\ left.value = page.value
  BY <1>1 DEF FlushMarks
<1>6. chan' = [chan EXCEPT !.flight = @ \cup M] /\ page' = [page EXCEPT !.dirty = {}, !.sent = upto]
  BY DEF Post
<1> HIDE DEF M, upto, mark, left
<1>7. /\ page' \in PageRecord /\ page'.value = page.value /\ page'.dirty = {} /\ page'.doc = page.doc
      /\ page'.sent = upto /\ page'.busy = page.busy /\ page'.open = page.open
  BY <1>1, <1>4, <1>6 DEF PageRecord
<1>8. /\ rec' \in RecRecord /\ rec'.pc = "flushed" /\ rec'.upto = upto /\ rec'.ev = mark /\ rec'.left = left
      /\ rec'.drained = rec.drained /\ rec'.backlog = rec.backlog /\ rec'.late = rec.late /\ rec'.end = rec.end
  <2> DEFINE mid == [rec EXCEPT !.pc = "flushed", !.upto = upto]
  <2>1. /\ mid \in RecRecord /\ mid.pc = "flushed" /\ mid.upto = upto /\ mid.drained = rec.drained
        /\ mid.backlog = rec.backlog /\ mid.late = rec.late /\ mid.end = rec.end
    BY <1>1, <1>4 DEF RecRecord
  <2> DEFINE last == [mid EXCEPT !.ev = mark]
  <2>2. rec' = [last EXCEPT !.left = left]
    BY DEF upto, mark, left
  <2> HIDE DEF mid
  <2>3. /\ last \in RecRecord /\ last.pc = "flushed" /\ last.upto = upto /\ last.ev = mark
        /\ last.drained = rec.drained /\ last.backlog = rec.backlog /\ last.late = rec.late /\ last.end = rec.end
    BY <1>5, <2>1 DEF RecRecord
  <2> HIDE DEF last
  <2> QED
    BY <1>5, <2>2, <2>3 DEF RecRecord
<1>9. Posts(M)
  <2>1. M \in SUBSET Messages /\ M \cap GestureMessages = {}
    BY <1>3, KindsApart DEF Messages
  <2>2. IsFiniteSet(page'.dirty)
    BY <1>7, FS_EmptySet
  <2>3. \A g \in Inputs : /\ page.value[g] <= page'.value[g]
                          /\ \/ g \in page'.dirty
                             \/ page'.value[g] = page.value[g] /\ g \notin page.dirty
                             \/ \E n \in M : IsFill(n, page.doc, g)
    BY <1>1, <1>3, <1>7 DEF Edits
  <2> QED
    BY <1>2, <1>3, <1>4, <1>6, <1>7, <1>8, <2>1, <2>2, <2>3 DEF Posts
<1>10. Types'
  BY <1>1, <1>4, <1>7, <1>8, <1>9, PostTyped
<1>11. Active /\ Active' /\ SameHand
  BY <1>8 DEF Active, Finishing, SameHand, AtHand, Gestural, Fieldwise
<1>12. Coming' = Coming /\ Committed' = Committed /\ Coming = <<>> /\ chan'.closed = chan.closed
  BY <1>9, PostsAre DEF Coming
<1>13. PlaceInv'
  BY <1>1, <1>2, <1>5, <1>7, <1>8, <1>11, <1>12 DEF Inv, PlaceInv, Active, Gestural, Fieldwise
<1>14. NavInv'
  <2>1. Now' = Now
    BY <1>8 DEF Now
  <2>2. CountedInv' /\ HandInv' /\ GestureInv'
    BY <1>8 DEF Inv, NavInv, CountedInv, HandInv, GestureInv
  <2>3. (rec.pc \in {"handle"} \cup Gestural /\ rec.ev \in GestureMessages => rec.ev.doc <= through)'
    BY <1>8 DEF Gestural
  <2> QED
    BY <1>8, <1>11, <1>12, <2>1, <2>2, <2>3, NavSteady DEF Inv
<1>15. MessageInv'
  BY <1>9, <1>10, PostedMessages
<1>16. EditInv'
  <2>1. Grows /\ PageEdits' /\ \A m \in M \cap GestureMessages : PostedFirst(m)'
    BY <1>9, <1>10, <1>11, PostsGrow
  <2>2. \A m \in Pending' : m \notin Pending => m \in M
    BY <1>9, PostsAre
  <2>3. ClosedInv'
    BY <1>8, <1>11, <1>12 DEF Inv, EditInv, ClosedInv
  <2>4. LeftEdits'
    <3>1. page.doc <= page'.doc /\ Reached(page.doc, page.value)'
      BY <1>1, <1>7 DEF Reached, Edits
    <3>2. ASSUME NEW f \in Inputs, page.value[f] > 0
          PROVE  (Covered(page.doc, f, page.value[f], Len(Coming)) \/ Underway(page.doc, f, rec.upto + 1))'
      <4>1. Listening' /\ f \notin page'.dirty
        BY <1>1, <1>7, <1>8, <1>11, <1>12 DEF Listening
      <4>2. (Covered(page.doc, f, page.value[f], Len(Coming)) \/ Underway(page.doc, f, page.sent + 1))'
        BY <1>7, <2>1, <3>2, <4>1 DEF PageEdits
      <4> QED
        BY <1>7, <1>8, <4>2 DEF Underway
    <3> QED
      BY <1>1, <1>5, <1>7, <1>8, <3>1, <3>2 DEF LeftEdits
  <2>5. \A i \in DOMAIN Coming' : i \in DOMAIN Coming
    BY <1>12
  <2> QED
    BY <1>10, <1>11, <1>13, <2>1, <2>2, <2>3, <2>4, <2>5, EditsGrow
<1> QED
  BY <1>10, <1>13, <1>14, <1>15, <1>16 DEF Inv

LEMMA FlushKeeps ==
  ASSUME Inv, Flush, UNCHANGED out
  PROVE  Inv'
<1>1. /\ rec.pc = "next" /\ ~rec.drained /\ chan.queue = <<>>
      /\ UNCHANGED <<person, nav, steps, ignored, through>>
  BY DEF Flush, At
<1>2. CASE rec' = [rec EXCEPT !.pc = "drain", !.late = TRUE] /\ UNCHANGED <<page, chan>>
  BY <1>1, <1>2, FlushUnansweredKeeps
<1>3. ASSUME page.open, NEW order \in Flushed,
             page' = [page EXCEPT !.dirty = {}, !.sent = page.sent + Len(order)],
             Post(Fills(order, page.sent)),
             rec' = [rec EXCEPT !.pc = "flushed", !.upto = page.sent + Len(order), !.ev = [doc |-> page.doc],
                                !.left = [doc |-> page.doc, value |-> page.value]]
      PROVE  Inv'
  BY <1>1, <1>3, FlushAnsweredKeeps
<1> QED
  BY <1>2, <1>3 DEF Flush
\* Events come after those there were, in an order that NavInv allows.
LEMMA NavExtends ==
  ASSUME Inv, Active, UNCHANGED <<steps, ignored, through, rec>>,
         Committed \in Nat, Committed' \in Nat, Committed <= Committed',
         \A i \in DOMAIN Coming : i \in DOMAIN Coming' /\ Coming'[i] = Coming[i],
         \A i \in DOMAIN Coming' : i \notin DOMAIN Coming =>
           /\ Coming'[i] \in NavEvents =>
                /\ Coming'[i].seq \in 1..Committed'
                /\ Coming'[i].seq > Now + 1 => \E j \in 1..(i - 1) : IsNav(Coming'[j], Coming'[i].seq - 1)
           /\ Coming'[i] \in GestureMessages =>
                \A n \in (Now + 1)..Coming'[i].doc : \E j \in 1..(i - 1) : IsNav(Coming'[j], n),
         ~rec.drained => \A n \in (Committed + 1)..Committed' : \E i \in DOMAIN Coming' : IsNav(Coming'[i], n)
  PROVE  NavInv'
<1>1. Now' = Now /\ Active' /\ Now \in 0..Committed /\ Len(Coming) \in Nat /\ DOMAIN Coming = 1..Len(Coming)
  BY ComingDocs, ComingTyped DEF Now, Active, Inv
<1>2. CountedInv' /\ GestureInv'
  <2>1. GestureInv'
    <3>1. GestureInv /\ Committed' \in Nat /\ Committed <= Committed' /\ through \in Nat /\ through <= Committed
          /\ rec.before \in Nat
      BY RecordingAssumption DEF Inv, NavInv, Types, RecRecord
    <3>2. through..Committed \subseteq through..Committed'
      BY <3>1
    <3> QED
      BY <3>1, <3>2 DEF GestureInv
  <2> QED
    BY <2>1 DEF Inv, NavInv, CountedInv
<1>3. HandInv'
  <2>1. HandInv /\ (rec.pc \in {"handle", "open"} /\ rec.ev \in NavEvents => rec.ev.seq \in Nat)
    BY KindsApart DEF Inv, NavInv
  <2> QED
    BY <2>1 DEF HandInv
<1>4. \A i \in DOMAIN Coming : \A n : (\E j \in 1..(i - 1) : IsNav(Coming[j], n)) =>
        \E j \in 1..(i - 1) : IsNav(Coming'[j], n)
  <2> SUFFICES ASSUME NEW i \in DOMAIN Coming, NEW n, NEW j \in 1..(i - 1), IsNav(Coming[j], n)
               PROVE  IsNav(Coming'[j], n)
    OBVIOUS
  <2>1. j \in DOMAIN Coming
    BY <1>1
  <2> QED
    BY <2>1
<1>5. ComingInv'
  <2>1. ASSUME NEW i \in DOMAIN Coming', Coming'[i] \in NavEvents
        PROVE  /\ Coming'[i].seq \in 1..Committed'
               /\ Coming'[i].seq > Now + 1 => \E j \in 1..(i - 1) : IsNav(Coming'[j], Coming'[i].seq - 1)
    <3>1. CASE i \in DOMAIN Coming
      <4>1. Coming'[i] = Coming[i]
        BY <3>1
      <4>2. /\ Coming[i].seq \in 1..Committed
            /\ Coming[i].seq > Now + 1 => \E j \in 1..(i - 1) : IsNav(Coming[j], Coming[i].seq - 1)
        BY <2>1, <3>1, <4>1 DEF Inv, NavInv, ComingInv
      <4> QED
        BY <1>4, <3>1, <4>1, <4>2
    <3> QED
      BY <2>1, <3>1
  <2>2. ASSUME ~rec'.drained, NEW n \in (Now + 1)..Committed'
        PROVE  \E i \in DOMAIN Coming' : IsNav(Coming'[i], n)
    <3>1. CASE n \in (Now + 1)..Committed
      BY <2>2, <3>1 DEF Inv, NavInv, ComingInv
    <3>2. CASE n \in (Committed + 1)..Committed'
      BY <2>2, <3>2
    <3> QED
      BY <1>1, <3>1, <3>2
  <2> QED
    BY <1>1, <2>1, <2>2 DEF ComingInv, IsNav
<1>6. AfterInv'
  <2>1. ASSUME NEW i \in DOMAIN Coming', Coming'[i] \in GestureMessages, NEW n \in (Now + 1)..Coming'[i].doc
        PROVE  \E j \in 1..(i - 1) : IsNav(Coming'[j], n)
    <3>1. CASE i \in DOMAIN Coming
      <4>1. \E j \in 1..(i - 1) : IsNav(Coming[j], n)
        BY <2>1, <3>1 DEF Inv, NavInv, AfterInv
      <4> QED
        BY <1>4, <3>1, <4>1
    <3> QED
      BY <2>1, <3>1
  <2>2. rec.pc \in {"handle"} \cup Gestural /\ rec.ev \in GestureMessages => rec.ev.doc <= through
    BY DEF Inv, NavInv, AfterInv
  <2> QED
    BY <1>1, <2>1, <2>2 DEF AfterInv, IsNav
<1> QED
  BY <1>2, <1>3, <1>5, <1>6 DEF NavInv

\* A document takes with it what it sent and nobody received.
LEMMA LostKeeps ==
  ASSUME Inv, NEW m, Lost(m), UNCHANGED out
  PROVE  Inv'
<1>1. /\ m \in chan.flight /\ chan' = [chan EXCEPT !.flight = @ \ {m}]
      /\ UNCHANGED <<page, person, nav, rec, steps, ignored, through>>
  BY DEF Lost
<1>2. Types /\ chan \in ChanRecord /\ page \in PageRecord /\ nav \in NavRecord /\ rec \in RecRecord
  BY DEF Inv, Types
<1>3. /\ chan' \in ChanRecord /\ chan'.flight = chan.flight \ {m} /\ chan'.held = chan.held
      /\ chan'.next = chan.next /\ chan'.queue = chan.queue /\ chan'.closed = chan.closed
  <2> HIDE DEF Messages
  <2> QED
    BY <1>1, <1>2 DEF ChanRecord
<1>4. Types'
  BY <1>1, <1>2, <1>3, RecTyped DEF Types
<1>5. Active /\ Active' /\ SameHand /\ Coming' = Coming /\ Committed' = Committed /\ Pending' \subseteq Pending
  BY <1>1, <1>3 DEF Inv, PlaceInv, Active, SameHand, AtHand, IsFill, Coming, Committed, Pending
<1>6. PlaceInv'
  BY <1>1, <1>3, <1>5 DEF Inv, PlaceInv, Active, NoMessages
<1>7. NavInv'
  <2>1. Now' = Now /\ CountedInv' /\ HandInv' /\ GestureInv'
    BY <1>1, <1>5 DEF Now, Inv, NavInv, CountedInv, HandInv, GestureInv
  <2>2. (rec.pc \in {"handle"} \cup Gestural /\ rec.ev \in GestureMessages => rec.ev.doc <= through)'
    BY <1>1, <1>5 DEF Inv, NavInv, AfterInv
  <2> QED
    BY <1>1, <1>5, <2>1, <2>2, NavSteady DEF Inv
<1>8. MessageInv'
  <2>1. IsFiniteSet(chan'.flight)
    <3>1. IsFiniteSet(chan.flight)
      BY DEF Inv, MessageInv
    <3>2. IsFiniteSet(chan.flight \ {m})
      BY <3>1, FS_RemoveElement
    <3> QED
      BY <1>3, <3>2
  <2> QED
    BY <1>1, <1>3, <1>5, <2>1 DEF Inv, MessageInv
<1>9. EditInv'
  <2>1. Listening' <=> Listening
    BY <1>1, <1>3, <1>5 DEF Listening
  <2>2. \A d, f, s : Underway(d, f, s) => Underway(d, f, s)'
    BY <1>3, <1>5 DEF Underway, IsFill
  <2>3. page.value \in Edits /\ Len(Coming) \in Nat /\ page.sent \in Nat
    BY <1>2, ComingTyped DEF PageRecord
  <2>4. Grows
    BY <1>1, <1>5, <2>1, <2>2, <2>3 DEF Grows, Edits
  <2>5. PageEdits'
    <3> SUFFICES ASSUME Listening', NEW f \in Inputs, page.value[f] > 0, f \notin page.dirty
                 PROVE  (Covered(page.doc, f, page.value[f], Len(Coming)) \/ Underway(page.doc, f, page.sent + 1))'
      BY <1>1 DEF PageEdits
    <3>1. Covered(page.doc, f, page.value[f], Len(Coming)) \/ Underway(page.doc, f, page.sent + 1)
      BY <2>1 DEF Inv, EditInv, PageEdits
    <3>2. page.doc \in 0..MaxDocs /\ page.sent + 1 \in Nat
      BY <1>2, <2>3 DEF PageRecord
    <3> QED
      BY <1>1, <1>2, <1>4, <1>5, <2>2, <2>4, <3>1, <3>2, CoveredGrows
  <2>6. LeftEdits'
    BY <1>1, <1>3, <1>4, <1>5, <1>6, <2>4, LeftGrows
  <2>7. ClosedInv'
    BY <1>1, <1>3, <1>5 DEF Inv, EditInv, ClosedInv
  <2> QED
    BY <1>4, <1>5, <1>6, <2>4, <2>5, <2>6, <2>7, EditsGrow
<1> QED
  BY <1>4, <1>6, <1>7, <1>8, <1>9 DEF Inv
\* What one delivered message lets the channel release.
Ready(m) ==
  {h \in chan.held \cup {m} :
     h.doc = m.doc /\ h.seq < Release(chan.held \cup {m}, m.doc, chan.next[m.doc])}

LEMMA ReadyIs ==
  ASSUME Inv, NEW m \in chan.flight
  PROVE  /\ Ready(m) \in SUBSET Pending /\ IsFiniteSet(Ready(m)) /\ m \in Messages
         /\ \A h \in Ready(m) : h.doc = m.doc
         /\ \A h, k \in Ready(m) : h.seq = k.seq => h = k
         /\ Release(chan.held \cup {m}, m.doc, chan.next[m.doc]) \in Nat
         /\ chan.next[m.doc] <= Release(chan.held \cup {m}, m.doc, chan.next[m.doc])
         /\ \A n \in chan.next[m.doc]..(Release(chan.held \cup {m}, m.doc, chan.next[m.doc]) - 1) :
              \E h \in Ready(m) : h.seq = n
         /\ \A h \in Pending \ Ready(m) : h.doc = m.doc =>
              Release(chan.held \cup {m}, m.doc, chan.next[m.doc]) <= h.seq
<1> DEFINE held == chan.held \cup {m}
           from == chan.next[m.doc]
           next == Release(held, m.doc, from)
<1>1. /\ chan.flight \in SUBSET Messages /\ chan.held \in SUBSET Messages /\ chan.next \in [Docs -> Nat]
      /\ m \in Messages /\ m.doc \in Docs
  BY KindsApart DEF Inv, Types, ChanRecord
<1>2. held \in SUBSET Messages /\ IsFiniteSet(held) /\ held \subseteq Pending /\ from \in Nat
  <2>1. IsFiniteSet(chan.held)
    BY DEF Inv, MessageInv
  <2> QED
    BY <1>1, <2>1, FS_AddElement DEF Pending
<1>3. /\ next \in Nat /\ from <= next
      /\ \A h \in held : h.doc = m.doc => h.seq # next
      /\ \A n \in from..(next - 1) : \E h \in held : h.doc = m.doc /\ h.seq = n
  <2> HIDE DEF held, from
  <2> QED
    BY <1>2, ReleasedUpto
<1>4. Ready(m) = {h \in held : h.doc = m.doc /\ h.seq < next}
  BY DEF Ready
<1> HIDE DEF held, from, next
<1>5. \A h \in Pending : h.seq \in Nat /\ h \in Messages /\ h.doc \in Docs
  BY <1>1, KindsApart DEF Pending
<1>6. \A h, k \in Pending : h.doc = k.doc /\ h.seq = k.seq => h = k
  BY DEF Inv, MessageInv
<1>7. \A h \in Pending : h.doc = m.doc => from <= h.seq
  BY DEF Inv, MessageInv, from
<1>8. IsFiniteSet(Ready(m)) /\ Ready(m) \in SUBSET Pending
  <2>1. Ready(m) \in SUBSET held
    BY <1>4
  <2> QED
    BY <1>2, <2>1, FS_Subset
<1>9. \A n \in from..(next - 1) : \E h \in Ready(m) : h.seq = n
  <2> TAKE n \in from..(next - 1)
  <2>1. PICK h \in held : h.doc = m.doc /\ h.seq = n
    BY <1>3
  <2>2. h.seq < next
    BY <1>2, <1>3, <2>1
  <2> QED
    BY <1>4, <2>1, <2>2
<1>10. ASSUME NEW h \in Pending \ Ready(m), h.doc = m.doc
       PROVE  next <= h.seq
  <2> SUFFICES ASSUME h.seq < next PROVE FALSE
    BY <1>3, <1>5
  <2>1. h.seq \in from..(next - 1)
    BY <1>2, <1>3, <1>5, <1>7, <1>10
  <2>2. PICK k \in Ready(m) : k.seq = h.seq
    BY <1>9, <2>1
  <2>3. k \in Pending /\ k.doc = h.doc
    BY <1>4, <1>8, <1>10, <2>2
  <2> QED
    BY <1>6, <1>10, <2>2, <2>3
<1>11. \A h, k \in Ready(m) : h.seq = k.seq => h = k
  BY <1>4, <1>6, <1>8
<1> QED
  BY <1>1, <1>3, <1>4, <1>8, <1>9, <1>10, <1>11 DEF held, from, next

\* The released messages as the events they are queued as.
LEMMA ReleasedIs ==
  ASSUME Inv, NEW m \in chan.flight
  PROVE  /\ InOrder(Ready(m)) \in Seq(QueueEvents) /\ Len(InOrder(Ready(m))) \in Nat
         /\ \A i \in 1..Len(InOrder(Ready(m))) : InOrder(Ready(m))[i] \in Ready(m)
         /\ \A h \in Ready(m) : \E i \in 1..Len(InOrder(Ready(m))) : InOrder(Ready(m))[i] = h
         /\ \A i, j \in 1..Len(InOrder(Ready(m))) :
              InOrder(Ready(m))[i].seq < InOrder(Ready(m))[j].seq => i < j
<1> DEFINE S == Ready(m)
           o == InOrder(S)
           size == Cardinality(S)
<1>1. S \in SUBSET Messages /\ IsFiniteSet(S) /\ \A h, k \in S : h.seq = k.seq => h = k
  BY ReadyIs DEF Pending, Inv, Types, ChanRecord
<1> HIDE DEF S
<1>2. /\ o \in [1..size -> S] /\ size \in Nat
      /\ \A h \in S : \E i \in 1..size : o[i] = h
      /\ \A i, j \in 1..size : o[i].seq < o[j].seq => i < j
  BY <1>1, InOrderOf
<1> HIDE DEF o, size
<1>3. o \in Seq(S) /\ Len(o) = size
  BY <1>2
<1>4. o \in Seq(QueueEvents)
  BY <1>1, <1>3, SeqMonotonic DEF QueueEvents
<1> QED
  BY <1>2, <1>3, <1>4 DEF o, S

LEMMA DeliverIs ==
  ASSUME Inv, NEW m, Deliver(m), UNCHANGED out
  PROVE  /\ m \in chan.flight /\ UNCHANGED <<page, person, nav, rec, steps, ignored, through, chan.closed>>
         /\ Types' /\ IsFiniteSet(chan'.flight) /\ IsFiniteSet(chan'.held) /\ chan'.flight \cap chan'.held = {}
         /\ Pending' = Pending \ Ready(m) /\ chan'.next \in [Docs -> Nat]
         /\ \A d \in Docs : chan'.next[d] = IF d = m.doc
                                            THEN Release(chan.held \cup {m}, m.doc, chan.next[m.doc])
                                            ELSE chan.next[d]
         /\ Coming' = IF chan.closed \/ rec.drained THEN Coming ELSE Coming \o InOrder(Ready(m))
<1> DEFINE held == chan.held \cup {m}
           next == Release(held, m.doc, chan.next[m.doc])
           ready == Ready(m)
           flight == chan.flight \ {m}
           waiting == IF m.kind = "gesture" /\ ~chan.closed
                      THEN chan.waiting \cup {<<m.doc, m.seq>>} ELSE chan.waiting
           left == held \ ready
           nexts == [chan.next EXCEPT ![m.doc] = next]
           queue == IF chan.closed THEN chan.queue ELSE chan.queue \o InOrder(ready)
           mid == [chan EXCEPT !.flight = flight, !.waiting = waiting, !.held = left]
<1>1. /\ m \in chan.flight /\ UNCHANGED <<page, person, nav, rec, steps, ignored, through>>
      /\ chan' = [mid EXCEPT !.next = nexts, !.queue = queue]
  <2>1. ready = {h \in held : h.doc = m.doc /\ h.seq < next}
    BY DEF Ready
  <2>2. chan \in ChanRecord
    BY DEF Inv, Types
  <2>3. chan' = [chan EXCEPT !.flight = flight, !.waiting = waiting, !.held = left, !.next[m.doc] = next,
                             !.queue = queue]
    BY <2>1 DEF Deliver
  <2> HIDE DEF flight, waiting, left, next, queue, ready
  <2>4. m \in chan.flight /\ UNCHANGED <<page, person, nav, rec, steps, ignored, through>>
    BY DEF Deliver
  <2> QED
    BY <2>2, <2>3, <2>4 DEF ChanRecord
<1>2. /\ Types /\ chan \in ChanRecord /\ m \in Messages /\ m.doc \in Docs /\ m.seq \in Nat \ {0}
      /\ page \in PageRecord /\ nav \in NavRecord /\ rec \in RecRecord
  BY <1>1, KindsApart DEF Inv, Types, ChanRecord
<1>3. flight \in SUBSET Messages /\ left \in SUBSET Messages /\ waiting \in SUBSET (Docs \X (Nat \ {0}))
      /\ nexts \in [Docs -> Nat] /\ queue \in Seq(QueueEvents) /\ next \in Nat
  <2>1. next \in Nat
    BY <1>1, ReadyIs
  <2>2. nexts \in [Docs -> Nat]
    BY <1>2, <2>1 DEF ChanRecord
  <2>3. queue \in Seq(QueueEvents)
    <3>1. chan.queue \in Seq(QueueEvents) /\ InOrder(ready) \in Seq(QueueEvents)
      BY <1>1, <1>2, ReleasedIs DEF ChanRecord
    <3> HIDE DEF ready, QueueEvents
    <3> QED
      BY <3>1
  <2>4. flight \in SUBSET Messages /\ left \in SUBSET Messages /\ waiting \in SUBSET (Docs \X (Nat \ {0}))
    BY <1>2 DEF ChanRecord
  <2> QED
    BY <2>1, <2>2, <2>3, <2>4
<1>4. IsFiniteSet(flight) /\ IsFiniteSet(left) /\ flight \cap left = {} /\ flight \cup left = Pending \ ready
  <2>1. IsFiniteSet(chan.flight) /\ IsFiniteSet(chan.held) /\ chan.flight \cap chan.held = {}
    BY DEF Inv, MessageInv
  <2>2. IsFiniteSet(held) /\ ready \subseteq held
    BY <2>1, FS_AddElement DEF Ready
  <2>3. left \in SUBSET held
    OBVIOUS
  <2>4. IsFiniteSet(flight) /\ IsFiniteSet(left)
    BY <2>1, <2>2, <2>3, FS_Subset, FS_RemoveElement
  <2> HIDE DEF ready
  <2> QED
    BY <1>1, <2>1, <2>2, <2>4 DEF Pending
<1>5. \A d \in Docs : nexts[d] = IF d = m.doc THEN next ELSE chan.next[d]
  BY <1>2 DEF ChanRecord
<1> HIDE DEF held, next, ready, flight, waiting, left, nexts, queue
<1>6. mid \in ChanRecord /\ mid.flight = flight /\ mid.held = left /\ mid.closed = chan.closed
  BY <1>2, <1>3 DEF ChanRecord
<1> HIDE DEF mid
<1>7. /\ chan' \in ChanRecord /\ chan'.flight = flight /\ chan'.held = left /\ chan'.next = nexts
      /\ chan'.queue = queue /\ chan'.closed = chan.closed
  BY <1>1, <1>3, <1>6 DEF ChanRecord
<1>8. Types'
  BY <1>1, <1>2, <1>7, RecTyped DEF Types
<1>9. Coming' = IF chan.closed \/ rec.drained THEN Coming ELSE Coming \o InOrder(ready)
  BY <1>1, <1>7 DEF Coming, queue
<1>10. Pending' = Pending \ ready
  BY <1>4, <1>7 DEF Pending
<1> QED
  BY <1>1, <1>3, <1>4, <1>5, <1>7, <1>8, <1>9, <1>10 DEF ready, next, held

LEMMA DeliverKeeps ==
  ASSUME Inv, NEW m, Deliver(m), UNCHANGED out
  PROVE  Inv'
<1> DEFINE ready == Ready(m)
           queued == InOrder(ready)
           next == Release(chan.held \cup {m}, m.doc, chan.next[m.doc])
           size == Len(Coming)
<1>1. /\ m \in chan.flight /\ UNCHANGED <<page, person, nav, rec, steps, ignored, through, chan.closed>>
      /\ Types' /\ Types /\ Pending' = Pending \ ready
      /\ Coming' = IF chan.closed \/ rec.drained THEN Coming ELSE Coming \o queued
  BY DeliverIs DEF Inv
<1>2. /\ ready \in SUBSET Pending /\ m.doc \in Docs /\ next \in Nat /\ chan.next[m.doc] <= next
      /\ \A h \in ready : h.doc = m.doc
      /\ \A n \in chan.next[m.doc]..(next - 1) : \E h \in ready : h.seq = n
      /\ \A h \in Pending \ ready : h.doc = m.doc => next <= h.seq
  BY <1>1, ReadyIs, KindsApart
<1>3. /\ queued \in Seq(QueueEvents) /\ Len(queued) \in Nat
      /\ \A i \in 1..Len(queued) : queued[i] \in ready
      /\ \A h \in ready : \E i \in 1..Len(queued) : queued[i] = h
      /\ \A i, j \in 1..Len(queued) : queued[i].seq < queued[j].seq => i < j
  BY <1>1, ReleasedIs
<1>4. chan'.next \in [Docs -> Nat] /\ \A d \in Docs : chan'.next[d] = IF d = m.doc THEN next ELSE chan.next[d]
  BY DeliverIs
<1>5. /\ page.doc \in Nat /\ page.sent \in Nat /\ page.value \in Edits /\ size \in Nat /\ DOMAIN Coming = 1..size
      /\ Coming \in Seq(QueueEvents) /\ chan.next \in [Docs -> Nat] /\ Docs \subseteq 0..MaxDocs
      /\ Committed = page.doc
  <2>1. size \in Nat /\ DOMAIN Coming = 1..size /\ Coming \in Seq(QueueEvents)
    BY <1>1, ComingTyped
  <2>2. Docs \subseteq 0..MaxDocs /\ page.doc \in Nat
    BY <1>1, RecordingAssumption DEF Types, PageRecord, Docs
  <2>3. page.sent \in Nat /\ page.value \in Edits /\ chan.next \in [Docs -> Nat] /\ Committed = page.doc
    BY <1>1 DEF Types, PageRecord, ChanRecord
  <2> QED
    BY <2>1, <2>2, <2>3
<1>6. \A h \in Pending : /\ h \in Messages /\ h.doc \in Docs /\ h.seq \in Nat /\ h.doc <= page.doc
                         /\ h.doc \in Nat /\ h \notin NavEvents /\ chan.next[h.doc] <= h.seq
                         /\ h.doc = page.doc => h.seq <= page.sent
  <2>1. \A h \in Pending : h \in Messages /\ h.doc \in Docs /\ h.seq \in Nat /\ h \notin NavEvents
    BY <1>1, KindsApart DEF Types, ChanRecord, Pending, FillKinds
  <2>2. \A h \in Pending : h.doc <= page.doc /\ chan.next[h.doc] <= h.seq /\ (h.doc = page.doc => h.seq <= page.sent)
    BY DEF Inv, MessageInv
  <2> QED
    BY <2>1, <2>2, RecordingAssumption DEF Docs
<1> HIDE DEF ready, queued, next, size
<1>7. Active /\ Active' /\ SameHand /\ Committed' = Committed /\ (Listening' <=> Listening)
  BY <1>1 DEF Inv, PlaceInv, Active, SameHand, AtHand, IsFill, Committed, Listening
\* Where the released messages come among the events.
<1>8. DOMAIN Coming' = 1..Len(Coming') /\ \A i \in DOMAIN Coming : i \in DOMAIN Coming' /\ Coming'[i] = Coming[i]
  BY <1>1, <1>3, <1>5
<1>9. size <= Len(Coming)' /\ Len(Coming)' \in Nat
  BY <1>1, <1>3, <1>5 DEF size
\* The events that are new are the released messages.
<1>10. ASSUME NEW i \in DOMAIN Coming', i \notin DOMAIN Coming
       PROVE  /\ ~chan.closed /\ ~rec.drained /\ i - size \in 1..Len(queued) /\ Coming'[i] = queued[i - size]
              /\ Coming'[i] \in ready /\ i - 1 \in Nat /\ size <= i - 1
  <2>1. Coming' = Coming \o queued /\ ~chan.closed /\ ~rec.drained
    BY <1>1, <1>10
  <2>2. Len(Coming') = size + Len(queued) /\ \A k \in 1..(size + Len(queued)) :
          Coming'[k] = IF k <= size THEN Coming[k] ELSE queued[k - size]
    BY <1>3, <1>5, <2>1, ConcatProperties DEF size
  <2> QED
    BY SMTT(30), <1>3, <1>5, <1>8, <1>10, <2>1, <2>2
<1>11. ASSUME ~chan.closed, ~rec.drained, NEW j \in 1..Len(queued)
       PROVE  size + j \in DOMAIN Coming' /\ Coming'[size + j] = queued[j]
  <2>1. Coming' = Coming \o queued
    BY <1>1, <1>11
  <2>2. Len(Coming') = size + Len(queued) /\ \A k \in 1..(size + Len(queued)) :
          Coming'[k] = IF k <= size THEN Coming[k] ELSE queued[k - size]
    BY <1>3, <1>5, <2>1, ConcatProperties DEF size
  <2>3. size + j \in 1..(size + Len(queued)) /\ ~(size + j <= size) /\ (size + j) - size = j
    BY <1>3, <1>5
  <2> QED
    BY <1>8, <2>2, <2>3
<1>12. PlaceInv'
  BY <1>1, <1>6, <1>7, DeliverIs DEF Inv, PlaceInv, Active, NoMessages
<1>13. NavInv'
  <2>1. ASSUME NEW i \in DOMAIN Coming', i \notin DOMAIN Coming
        PROVE  /\ Coming'[i] \notin NavEvents
               /\ Coming'[i] \in GestureMessages =>
                    \A n \in (Now + 1)..Coming'[i].doc : \E j \in 1..(i - 1) : IsNav(Coming'[j], n)
    <3>1. Coming'[i] \in Pending /\ Coming'[i] \notin NavEvents /\ Coming'[i].doc \in Nat
          /\ Coming'[i].doc <= Committed /\ ~rec.drained /\ size <= i - 1 /\ i - 1 \in Nat
      BY <1>2, <1>5, <1>6, <1>10, <2>1
    <3>2. ASSUME NEW n \in (Now + 1)..Coming'[i].doc
          PROVE  \E j \in 1..(i - 1) : IsNav(Coming'[j], n)
      <4>1. n \in (Now + 1)..Committed
        BY <1>5, <1>7, <3>1, ComingDocs
      <4>2. PICK j \in DOMAIN Coming : IsNav(Coming[j], n)
        BY <1>7, <3>1, <4>1 DEF Inv, NavInv, ComingInv
      <4>3. j \in 1..(i - 1)
        BY <1>5, <3>1
      <4> QED
        BY <1>8, <4>2, <4>3
    <3> QED
      BY <3>1, <3>2
  <2>2. Committed \in Nat /\ Committed' \in Nat /\ Committed <= Committed' /\ (Committed + 1)..Committed' = {}
    BY <1>5, <1>7
  <2> QED
    BY <1>1, <1>7, <1>8, <2>1, <2>2, NavExtends
<1>14. MessageInv'
  <2>1. IsFiniteSet(page.dirty) /\ IsFiniteSet(chan'.flight) /\ IsFiniteSet(chan'.held) /\ chan'.flight \cap chan'.held = {}
    BY DeliverIs DEF Inv, MessageInv
  <2>2. \A h, k \in Pending' : h.doc = k.doc /\ h.seq = k.seq => h = k
    BY <1>1 DEF Inv, MessageInv
  <2>3. \A h \in Pending' : /\ h.doc <= page.doc /\ chan'.next[h.doc] <= h.seq
                            /\ h.doc = page.doc => h.seq <= page.sent
    BY <1>1, <1>2, <1>4, <1>6
  <2>4. ASSUME NEW d \in Docs
        PROVE  /\ chan'.next[d] # 0
               /\ d > page.doc => chan'.next[d] = 1
               /\ d = page.doc => chan'.next[d] <= page.sent + 1
    <3>1. /\ chan.next[d] # 0 /\ chan.next[d] \in Nat
          /\ d > page.doc => chan.next[d] = 1
          /\ d = page.doc => chan.next[d] <= page.sent + 1
      BY <1>5 DEF Inv, MessageInv
    <3>2. CASE d # m.doc
      BY <1>4, <3>1, <3>2
    <3>3. CASE d = m.doc
      <4>1. m.doc <= page.doc /\ d \in Nat /\ m \in Pending
        BY <1>1, <1>6, <3>3 DEF Pending
      <4>2. chan'.next[d] = next /\ next # 0 /\ ~(d > page.doc)
        BY <1>2, <1>4, <1>5, <3>1, <3>3, <4>1
      <4>3. ASSUME d = page.doc PROVE next <= page.sent + 1
        <5>1. CASE next = chan.next[d]
          BY <3>1, <4>3, <5>1
        <5>2. CASE next # chan.next[d]
          <6>1. next - 1 \in chan.next[m.doc]..(next - 1)
            BY <1>2, <3>1, <3>3, <5>2
          <6>2. PICK h \in ready : h.seq = next - 1
            BY <1>2, <6>1
          <6>3. h.seq <= page.sent
            BY <1>2, <1>6, <3>3, <4>3
          <6> QED
            BY <1>2, <1>5, <6>2, <6>3
        <5> QED
          BY <5>1, <5>2
      <4> QED
        BY <4>2, <4>3
    <3> QED
      BY <3>2, <3>3
  <2> QED
    BY <1>1, <2>1, <2>2, <2>3, <2>4 DEF MessageInv
\* A message under way is released, before any with a later number, or stays.
<1>15. ASSUME ~chan.closed, ~rec.drained, NEW d \in Docs, NEW f \in Inputs, NEW s \in Nat, Underway(d, f, s)
       PROVE  \/ Underway(d, f, s)'
              \/ d = m.doc /\ \E j \in 1..Len(queued) : IsFill(queued[j], d, f) /\ queued[j].seq < s
  <2>1. PICK n \in chan.next[d]..(s - 1) : \A h \in Pending : h.doc = d /\ h.seq = n => IsFill(h, d, f)
    BY <1>15 DEF Underway
  <2>2. CASE d # m.doc
    <3>1. chan'.next[d] = chan.next[d]
      BY <1>4, <2>2
    <3> QED
      BY <1>1, <2>1, <3>1 DEF Underway, IsFill
  <2>3. CASE d = m.doc
    <3>1. chan'.next[d] = next /\ chan.next[d] \in Nat /\ d \in Docs
      BY <1>2, <1>4, <1>5, <2>3
    <3>2. n \in Nat /\ n < s
      BY <1>15, <2>1, <3>1
    <3>3. CASE next <= n
      <4>1. n \in chan'.next[d]..(s - 1)
        BY <1>2, <1>15, <3>1, <3>2, <3>3
      <4> QED
        BY <1>1, <2>1, <4>1 DEF Underway, IsFill
    <3>4. CASE ~(next <= n)
      <4>1. n \in chan.next[m.doc]..(next - 1)
        BY <1>2, <2>1, <2>3, <3>1, <3>2, <3>4
      <4>2. PICK h \in ready : h.seq = n
        BY <1>2, <4>1
      <4>3. IsFill(h, d, f)
        BY <1>2, <2>1, <2>3, <4>2
      <4> QED
        BY <1>3, <2>3, <3>2, <4>2, <4>3
    <3> QED
      BY <3>3, <3>4
  <2> QED
    BY <2>2, <2>3
<1>16. EditInv'
  <2>1. Grows
    <3>1. ASSUME Listening', NEW d \in Docs, NEW f \in Inputs, NEW s \in Nat, Underway(d, f, s)
          PROVE  Ahead(d, f, Len(Coming))' \/ Underway(d, f, s)'
      <4>1. ~chan.closed /\ ~rec.drained
        BY <1>7, <3>1 DEF Listening
      <4>2. CASE d = m.doc /\ \E j \in 1..Len(queued) : IsFill(queued[j], d, f) /\ queued[j].seq < s
        <5>1. PICK j \in 1..Len(queued) : IsFill(queued[j], d, f)
          BY <4>2
        <5>2. size + j \in DOMAIN Coming' /\ Coming'[size + j] = queued[j] /\ size + j \in 1..Len(Coming)'
          BY <1>8, <1>11, <4>1
        <5> QED
          BY <5>1, <5>2 DEF Ahead, IsFill
      <4> QED
        BY <1>15, <3>1, <4>1, <4>2
    <3>2. page'.doc = page.doc /\ page.sent <= page'.sent /\ \A f \in Inputs : page.value[f] <= page'.value[f]
      BY <1>1, <1>5 DEF Edits
    <3> QED
      BY <1>1, <1>7, <1>8, <1>9, <3>1, <3>2 DEF Grows, size
  <2>2. PageEdits'
    <3> SUFFICES ASSUME Listening', NEW f \in Inputs, page.value[f] > 0, f \notin page.dirty
                 PROVE  (Covered(page.doc, f, page.value[f], Len(Coming)) \/ Underway(page.doc, f, page.sent + 1))'
      BY <1>1 DEF PageEdits
    <3>1. Covered(page.doc, f, page.value[f], Len(Coming)) \/ Underway(page.doc, f, page.sent + 1)
      BY <1>7 DEF Inv, EditInv, PageEdits
    <3>2. page.doc \in Docs /\ page.doc \in 0..MaxDocs /\ page.sent + 1 \in Nat
      <4>1. page.doc # 0
        BY <1>1, <1>2, <1>6 DEF Inv, PlaceInv, NoMessages, Pending, Active
      <4> QED
        BY <1>1, <1>5, <4>1, RecordingAssumption DEF Types, PageRecord, Docs
    <3> QED
      BY <1>1, <1>5, <1>7, <2>1, <3>1, <3>2, CoveredGrows
  <2>3. LeftEdits'
    BY <1>1, <1>7, <1>12, <2>1, LeftGrows
  <2>4. ClosedInv'
    <3>1. \A i \in DOMAIN Coming' : i \notin DOMAIN Coming => Coming'[i].kind # "closed"
      BY <1>2, <1>6, <1>10, KindsApart DEF FillKinds
    <3>2. ClosedInv
      BY DEF Inv, EditInv
    <3> QED
      BY <1>1, <1>7, <1>8, <3>1, <3>2 DEF ClosedInv
  <2>5. ASSUME NEW i \in DOMAIN Coming', i \notin DOMAIN Coming, Coming'[i] \in GestureMessages
        PROVE  QueuedFirst(Coming[i], i - 1)'
    <3> DEFINE g == queued[i - size]
               k == i - size
    <3>1. /\ ~chan.closed /\ ~rec.drained /\ k \in 1..Len(queued) /\ Coming'[i] = g /\ g \in ready
          /\ i - 1 \in Nat /\ size <= i - 1 /\ k + size = i
      <4>1. i \in Nat
        BY <1>8, <1>9, <2>5
      <4>2. /\ ~chan.closed /\ ~rec.drained /\ k \in 1..Len(queued) /\ Coming'[i] = g /\ Coming'[i] \in ready
            /\ i - 1 \in Nat /\ size <= i - 1
        BY <1>10, <2>5
      <4> HIDE DEF g
      <4> QED
        BY <1>5, <4>1, <4>2
    <3>2. g \in GestureMessages /\ g \in Pending /\ g.doc = m.doc
      BY <1>2, <2>5, <3>1
    <3>3. g.doc \in 0..MaxDocs /\ g.edits \in Edits /\ g.doc <= page.doc /\ g.seq \in Nat /\ g.doc \in Docs
      BY <1>5, <1>6, <3>2, KindsApart
    <3>4. Reached(g.doc, g.edits) /\ \A f \in Inputs : g.edits[f] > 0 =>
            Covered(g.doc, f, g.edits[f], size) \/ Underway(g.doc, f, g.seq)
      BY <1>7, <3>1, <3>2 DEF Inv, EditInv, GestureEdits, Listening, size
    <3> HIDE DEF g
    <3>5. Reached(Coming[i].doc, Coming[i].edits)'
      BY <1>1, <3>1, <3>4 DEF Reached, Active
    <3>6. ASSUME NEW f \in Inputs, g.edits[f] > 0
          PROVE  Covered(Coming[i].doc, f, Coming[i].edits[f], i - 1)'
      <4>1. g.edits[f] \in Nat /\ \A n \in Nat : Covered(g.doc, f, g.edits[f], n) =>
              \A d \in 0..MaxDocs, v \in Nat : d = g.doc /\ v = g.edits[f] => Covered(d, f, v, n)'
        <5> DEFINE d == g.doc
                   v == g.edits[f]
        <5>1. d \in 0..MaxDocs /\ v \in Nat
          BY <3>3 DEF Edits
        <5>2. \A e \in 0..MaxDocs, w \in Nat, n \in Nat : Covered(e, f, w, n) => Covered(e, f, w, n)'
          BY <1>1, <1>7, <2>1, CoveredGrows
        <5> QED
          BY <5>1, <5>2
      <4>2. CASE Covered(g.doc, f, g.edits[f], size)
        <5>1. 1..size \subseteq 1..(i - 1)
          BY <1>5, <3>1
        <5>2. Covered(g.doc, f, g.edits[f], i - 1)
          BY <4>2, <5>1 DEF Covered, Ahead
        <5> QED
          BY <3>1, <3>3, <4>1, <5>2
      <4>3. CASE Underway(g.doc, f, g.seq)
        <5>1. PICK n \in chan.next[g.doc]..(g.seq - 1) : \A h \in Pending : h.doc = g.doc /\ h.seq = n => IsFill(h, g.doc, f)
          BY <4>3 DEF Underway
        <5>2. g.seq < next
          BY <3>1 DEF Ready, ready, next
        <5>3. n \in chan.next[m.doc]..(next - 1) /\ n \in Nat /\ n < g.seq
          BY <1>2, <1>5, <3>2, <3>3, <5>1, <5>2
        <5>4. PICK h \in ready : h.seq = n
          BY <1>2, <5>3
        <5>5. IsFill(h, g.doc, f)
          BY <1>2, <3>2, <5>1, <5>4
        <5>6. PICK j \in 1..Len(queued) : queued[j] = h
          BY <1>3, <5>4
        <5>7. j < k
          BY <1>3, <3>1, <5>3, <5>4, <5>6 DEF g
        <5>8. size + j \in 1..(i - 1) /\ size + j \in DOMAIN Coming' /\ Coming'[size + j] = h
          BY SMTT(30), <1>3, <1>5, <1>11, <3>1, <5>6, <5>7
        <5>9. Ahead(Coming[i].doc, f, i - 1)'
          BY <3>1, <5>5, <5>8 DEF Ahead, IsFill
        <5> QED
          BY <5>9 DEF Covered
      <4> QED
        BY <3>4, <3>6, <4>2, <4>3
    <3> QED
      BY <3>1, <3>5, <3>6 DEF QueuedFirst
  <2>6. \A g \in Pending' \cap GestureMessages : g \in Pending
    BY <1>1
  <2> QED
    BY <1>1, <1>7, <1>12, <2>1, <2>2, <2>3, <2>4, <2>5, <2>6, EditsGrow
<1> QED
  BY <1>1, <1>12, <1>13, <1>14, <1>16 DEF Inv

-----------------------------------------------------------------------------
(* A document commits.                                                     *)

\* Its event is the last one queued.
LEMMA CommitIs ==
  ASSUME Inv, page.open, NEW by \in By, NEW restored \in BOOLEAN, CommitDocument(by, restored)
  PROVE  /\ page.doc + 1 \in Docs /\ Committed = page.doc /\ page.doc \in Nat
         /\ page' \in PageRecord /\ page'.doc = page.doc + 1 /\ page'.dirty = {} /\ page'.busy = 0
         /\ page'.sent = 0 /\ page'.open = TRUE /\ \A f \in Inputs : page'.value[f] = 0
         /\ nav' \in NavRecord /\ Len(nav'.log) = page.doc + 1 /\ nav'.coming = FALSE
         /\ chan' \in ChanRecord /\ chan'.flight = chan.flight /\ chan'.held = chan.held
         /\ chan'.next = chan.next /\ ~chan.closed /\ ~chan'.closed
         /\ Len(chan.queue) \in Nat /\ Len(chan'.queue) \in Nat /\ Len(chan.queue) < Len(chan'.queue)
         /\ \A i \in 1..Len(chan.queue) : chan'.queue[i] = chan.queue[i]
         /\ IsNav(chan'.queue[Len(chan'.queue)], page.doc + 1)
         /\ \A i \in (Len(chan.queue) + 1)..(Len(chan'.queue) - 1) :
              /\ chan'.queue[i] = [kind |-> "restored"] /\ restored
<1> DEFINE seen == IF nav.requested THEN "page" ELSE "browser"
           back == [kind |-> "restored"]
           event == Navigated(page.doc + 1, seen)
           queue == IF restored THEN Append(chan.queue, back) ELSE chan.queue
           log == Append(nav.log, [by |-> by, seen |-> seen])
<1>1. /\ page.doc \in 0..MaxDocs /\ page.doc < MaxDocs /\ Committed = page.doc /\ ~chan.closed
      /\ chan \in ChanRecord /\ nav \in NavRecord /\ MaxDocs \in Nat
  BY RecordingAssumption DEF Inv, Types, PageRecord, PlaceInv, CommitDocument
<1>2. /\ page' = Fresh(page.doc + 1) /\ nav' = [log |-> log, requested |-> FALSE, coming |-> FALSE]
      /\ chan' = [chan EXCEPT !.queue = Append(queue, event)]
  BY <1>1 DEF CommitDocument, Put
<1>3. page.doc + 1 \in Docs /\ page.doc + 1 \in 0..MaxDocs /\ page.doc \in Nat
  BY <1>1 DEF Docs
<1>4. event \in QueueEvents /\ back \in QueueEvents /\ IsNav(event, page.doc + 1)
  BY <1>3 DEF QueueEvents, NavEvents, OtherEvents, Navigated, By, IsNav
<1>5. log \in Seq([by : By, seen : By]) /\ Len(log) = page.doc + 1
  <2>1. [by |-> by, seen |-> seen] \in [by : By, seen : By]
    BY DEF By
  <2>2. nav.log \in Seq([by : By, seen : By]) /\ Len(nav.log) = page.doc
    BY <1>1 DEF NavRecord, Committed
  <2> QED
    BY <2>1, <2>2
<1>6. chan.queue \in Seq(QueueEvents) /\ Len(chan.queue) \in Nat
  BY <1>1 DEF ChanRecord
<1> HIDE DEF event, back, log
<1>7. /\ queue \in Seq(QueueEvents) /\ Len(queue) \in Nat /\ Len(chan.queue) <= Len(queue)
      /\ \A i \in 1..Len(chan.queue) : queue[i] = chan.queue[i] /\ i \in 1..Len(queue)
      /\ \A i \in (Len(chan.queue) + 1)..Len(queue) : queue[i] = back /\ restored
  <2>1. CASE restored
    <3> DEFINE q == chan.queue
    <3>1. queue = Append(q, back) /\ q \in Seq(QueueEvents) /\ Len(q) \in Nat
      BY <1>6, <2>1
    <3> HIDE DEF q, queue
    <3>2. /\ queue \in Seq(QueueEvents) /\ Len(queue) = Len(q) + 1
          /\ \A i \in 1..Len(q) : queue[i] = q[i]
          /\ queue[Len(q) + 1] = back
      BY <1>4, <3>1, AppendProperties
    <3>3. \A i \in 1..Len(q) : i \in 1..Len(queue)
      BY <3>1, <3>2
    <3>4. \A i \in (Len(q) + 1)..Len(queue) : i = Len(q) + 1
      BY <3>1, <3>2
    <3> QED
      BY <2>1, <3>1, <3>2, <3>3, <3>4 DEF q
  <2>2. CASE ~restored
    BY <1>6, <2>2
  <2> QED
    BY <2>1, <2>2
<1> HIDE DEF queue
<1> DEFINE new == Append(queue, event)
<1>8. /\ new \in Seq(QueueEvents) /\ Len(new) = Len(queue) + 1
      /\ \A i \in 1..Len(queue) : new[i] = queue[i]
      /\ new[Len(queue) + 1] = event
  BY <1>4, <1>7, AppendProperties
<1> HIDE DEF new
<1>9. /\ chan' \in ChanRecord /\ chan'.flight = chan.flight /\ chan'.held = chan.held
      /\ chan'.next = chan.next /\ chan'.queue = new /\ chan'.closed = chan.closed
  <2>1. chan' = [chan EXCEPT !.queue = new]
    BY <1>2 DEF new
  <2> QED
    BY <1>1, <1>8, <2>1 DEF ChanRecord
<1>10. nav' \in NavRecord /\ nav'.log = log /\ nav'.coming = FALSE
  BY <1>2, <1>5 DEF NavRecord
<1>11. /\ page' \in PageRecord /\ page'.doc = page.doc + 1 /\ page'.dirty = {} /\ page'.busy = 0
       /\ page'.sent = 0 /\ page'.open = TRUE /\ \A f \in Inputs : page'.value[f] = 0
  BY <1>2, <1>3, FreshIs
<1>12. \A i \in 1..Len(chan.queue) : new[i] = chan.queue[i]
  BY <1>7, <1>8
<1>13. \A i \in (Len(chan.queue) + 1)..(Len(new) - 1) : new[i] = back /\ restored
  BY <1>6, <1>7, <1>8
<1>14. IsNav(new[Len(new)], page.doc + 1) /\ Len(new) \in Nat /\ Len(chan.queue) < Len(new)
  BY <1>4, <1>6, <1>7, <1>8
<1> QED
  BY <1>1, <1>3, <1>5, <1>6, <1>9, <1>10, <1>11, <1>12, <1>13, <1>14 DEF back

LEMMA CommittedKeeps ==
  ASSUME Inv, Working, NEW by \in By, NEW restored \in BOOLEAN, CommitDocument(by, restored),
         person' \in PersonRecord, UNCHANGED <<rec, steps, ignored, through, out>>
  PROVE  Inv'
<1>1. page.open /\ page.doc # 0 /\ Types /\ rec \in RecRecord
  BY DEF Inv, Types, PageRecord, Working
<1> DEFINE size == Len(chan.queue)
           last == Len(chan'.queue)
           doc == page.doc + 1
<1>2. /\ doc \in Docs /\ Committed = page.doc /\ page.doc \in Nat
      /\ page' \in PageRecord /\ page'.doc = doc /\ page'.dirty = {} /\ page'.busy = 0
      /\ page'.sent = 0 /\ page'.open = TRUE /\ \A f \in Inputs : page'.value[f] = 0
      /\ nav' \in NavRecord /\ Committed' = doc /\ nav'.coming = FALSE
      /\ chan' \in ChanRecord /\ chan'.flight = chan.flight /\ chan'.held = chan.held
      /\ chan'.next = chan.next /\ ~chan.closed /\ ~chan'.closed
      /\ size \in Nat /\ last \in Nat /\ size < last
      /\ \A i \in 1..size : chan'.queue[i] = chan.queue[i]
      /\ IsNav(chan'.queue[last], doc)
      /\ \A i \in (size + 1)..(last - 1) : chan'.queue[i] = [kind |-> "restored"]
  BY <1>1, CommitIs DEF Committed
<1>3. Active /\ Active' /\ SameHand /\ Pending' = Pending /\ (Listening' <=> Listening) /\ rec.pc # "start"
  BY <1>1, <1>2 DEF Inv, PlaceInv, Active, SameHand, AtHand, IsFill, Pending, Listening
<1>4. Types'
  BY <1>1, <1>2 DEF Types
<1>5. DOMAIN Coming' = 1..Len(Coming') /\ DOMAIN Coming = 1..Len(Coming) /\ Len(Coming) \in Nat /\ Len(Coming') \in Nat
  <2>1. Coming \in Seq(QueueEvents)
    BY <1>1, ComingTyped
  <2>2. Coming' \in Seq(QueueEvents)
    BY <1>2, <1>1 DEF Coming, ChanRecord, RecRecord
  <2> QED
    BY <2>1, <2>2
<1>6. /\ \A i \in DOMAIN Coming : i \in DOMAIN Coming' /\ Coming'[i] = Coming[i]
      /\ Len(Coming) <= Len(Coming')
      /\ \A i \in DOMAIN Coming' : i \notin DOMAIN Coming =>
           /\ Coming'[i] = [kind |-> "restored"] \/ IsNav(Coming'[i], doc)
           /\ ~rec.drained /\ Len(Coming) <= i - 1
      /\ ~rec.drained => \E i \in DOMAIN Coming' : IsNav(Coming'[i], doc)
  <2>1. CASE rec.drained
    BY <1>5, <2>1 DEF Coming
  <2>2. CASE ~rec.drained
    <3>1. Coming = chan.queue /\ Coming' = chan'.queue
      BY <2>2 DEF Coming
    <3>2. Len(Coming) = size /\ Len(Coming') = last /\ DOMAIN Coming = 1..size /\ DOMAIN Coming' = 1..last
      BY <1>5, <3>1
    <3> HIDE DEF size, last
    <3>3. \A i \in 1..size : i \in 1..last
      BY <1>2
    <3>4. \A i \in 1..last : i \notin 1..size => i = last \/ i \in (size + 1)..(last - 1)
      BY <1>2
    <3>5. last \in 1..last /\ size <= last /\ \A i \in 1..last : i \notin 1..size => size <= i - 1
      BY <1>2
    <3> QED
      BY <1>2, <2>2, <3>1, <3>2, <3>3, <3>4, <3>5 DEF size, last
  <2> QED
    BY <2>1, <2>2
<1> HIDE DEF size, last
<1>7. \A i \in DOMAIN Coming' : i \notin DOMAIN Coming =>
        /\ Coming'[i] \notin GestureMessages /\ Coming'[i].kind # "closed"
        /\ Coming'[i] \in NavEvents => Coming'[i].seq = doc
  <2>1. \A e : e = [kind |-> "restored"] =>
          e \notin GestureMessages /\ e \notin NavEvents /\ e.kind # "closed"
    BY DEF GestureMessages, NavEvents
  <2>2. \A e : IsNav(e, doc) => e \notin GestureMessages /\ e.kind # "closed" /\ e.seq = doc
    BY KindsApart DEF IsNav
  <2> HIDE DEF doc
  <2> QED
    BY <1>6, <2>1, <2>2
<1>8. PlaceInv'
  <2>1. chan'.closed = FALSE
    BY <1>2 DEF ChanRecord
  <2>2. page'.doc # 0
    BY <1>2
  <2> QED
    BY <1>1, <1>2, <1>3, <2>1, <2>2 DEF Inv, PlaceInv, Active
<1>9. NavInv'
  <2>1. ASSUME NEW i \in DOMAIN Coming', i \notin DOMAIN Coming, Coming'[i] \in NavEvents
        PROVE  /\ Coming'[i].seq \in 1..Committed'
               /\ Coming'[i].seq > Now + 1 => \E j \in 1..(i - 1) : IsNav(Coming'[j], Coming'[i].seq - 1)
    <3>1. Coming'[i].seq = doc /\ doc \in 1..Committed' /\ doc - 1 = Committed /\ i \in Nat
      <4>1. doc \in 1..Committed' /\ doc - 1 = Committed
        BY <1>2
      <4>2. i \in Nat
        BY <1>5
      <4> HIDE DEF doc
      <4> QED
        BY <1>7, <2>1, <4>1, <4>2
    <3>2. ASSUME doc > Now + 1 PROVE \E j \in 1..(i - 1) : IsNav(Coming'[j], Committed)
      <4>1. Committed \in (Now + 1)..Committed
        BY <1>2, <1>3, <3>2, ComingDocs
      <4>2. PICK j \in DOMAIN Coming : IsNav(Coming[j], Committed)
        BY <1>3, <1>6, <2>1, <4>1 DEF Inv, NavInv, ComingInv
      <4>3. j \in 1..(i - 1)
        BY <1>5, <1>6, <2>1, <3>1
      <4> QED
        BY <1>6, <4>2, <4>3
    <3> HIDE DEF doc
    <3> QED
      BY <3>1, <3>2
  <2>2. Committed \in Nat /\ Committed' \in Nat /\ Committed <= Committed' /\ \A n \in (Committed + 1)..Committed' : n = doc
    BY <1>2
  <2> HIDE DEF doc
  <2> QED
    BY <1>3, <1>6, <1>7, <2>1, <2>2, NavExtends
<1>10. MessageInv'
  <2>1. MessageInv /\ IsFiniteSet(page'.dirty)
    BY <1>2, FS_EmptySet DEF Inv
  <2>2. \A h \in Pending : h.doc \in Nat /\ h.seq \in Nat
    BY <1>1, KindsApart, RecordingAssumption DEF Types, ChanRecord, Pending, Docs
  <2>3. \A h \in Pending : /\ h.doc <= page'.doc /\ chan.next[h.doc] <= h.seq /\ h.doc # page'.doc
    BY <1>2, <2>1, <2>2 DEF MessageInv
  <2>4. \A d \in Docs : /\ chan.next[d] # 0
                        /\ d > page'.doc => chan.next[d] = 1
                        /\ d = page'.doc => chan.next[d] <= page'.sent + 1
    <3>1. Docs \subseteq Nat
      BY RecordingAssumption DEF Docs
    <3> QED
      BY <1>2, <2>1, <3>1 DEF MessageInv
  <2> QED
    BY <1>2, <1>3, <2>1, <2>3, <2>4 DEF MessageInv
<1>11. EditInv'
  <2>1. Grows
    <3>1. \A d, f, s : Underway(d, f, s) => Underway(d, f, s)'
      BY <1>2, <1>3 DEF Underway, IsFill
    <3> QED
      BY <1>2, <1>3, <1>6, <3>1 DEF Grows
  <2>2. PageEdits'
    BY <1>2 DEF PageEdits
  <2>3. LeftEdits'
    BY <1>2, <1>3, <1>4, <1>8, <2>1, LeftGrows
  <2>4. ClosedInv'
    BY <1>2, <1>3, <1>6, <1>7 DEF Inv, EditInv, ClosedInv
  <2> QED
    BY <1>3, <1>4, <1>7, <1>8, <2>1, <2>2, <2>3, <2>4, EditsGrow
<1> QED
  BY <1>4, <1>8, <1>9, <1>10, <1>11 DEF Inv

LEMMA NavigatesKeeps ==
  ASSUME Inv, PageNavigates \/ BrowserNavigates, UNCHANGED out
  PROVE  Inv'
<1>1. CASE PageNavigates
  <2>1. person' \in PersonRecord
    BY <1>1 DEF PageNavigates, Inv, Types
  <2> QED
    BY <1>1, <2>1, CommittedKeeps DEF PageNavigates, By
<1>2. CASE BrowserNavigates
  <2>1. PICK kind \in Kinds, restored \in BOOLEAN : Acting(kind) /\ CommitDocument("browser", restored)
    BY <1>2 DEF BrowserNavigates, Kinds
  <2>2. person' \in PersonRecord /\ Working
    BY <2>1, ActingTyped
  <2> QED
    BY <1>2, <2>1, <2>2, CommittedKeeps DEF BrowserNavigates, By
<1> QED
  BY <1>1, <1>2

\* The first document: nothing came before it.
LEMMA StartKeeps ==
  ASSUME Inv, StartOpens, UNCHANGED out
  PROVE  Inv'
<1> DEFINE event == Navigated(0, "browser")
<1>1. /\ rec.pc = "start" /\ page.open /\ CommitDocument("browser", FALSE)
      /\ rec' = [rec EXCEPT !.pc = "open", !.ev = event] /\ UNCHANGED <<person, steps, ignored, through>>
  BY DEF StartOpens, At
<1>2. /\ Types /\ rec \in RecRecord /\ page.doc = 0 /\ through = 0 /\ steps = <<>> /\ ignored = {}
      /\ chan = NoMessages /\ ~rec.drained /\ Active /\ rec.end = "none"
  BY <1>1 DEF Inv, Types, PlaceInv, Active, Finishing
<1>3. rec.left = <<>>
  BY <1>1, <1>2 DEF Inv, EditInv, LeftEdits
<1>4. event \in QueueEvents /\ event \in NavEvents /\ event.seq = 0 /\ "open" \in Places
  BY RecordingAssumption DEF QueueEvents, NavEvents, Navigated, By, Places
<1> HIDE DEF event
<1>5. /\ rec' \in RecRecord /\ rec'.pc = "open" /\ rec'.ev = event /\ rec'.left = <<>> /\ ~rec'.drained
      /\ rec'.end = "none"
  BY <1>1, <1>2, <1>3, <1>4 DEF RecRecord
<1> DEFINE last == Len(chan'.queue)
<1>6. /\ 1 \in Docs /\ page' \in PageRecord /\ page'.doc = 1 /\ page'.dirty = {} /\ page'.busy = 0
      /\ page'.sent = 0 /\ page'.open = TRUE /\ \A f \in Inputs : page'.value[f] = 0
      /\ nav' \in NavRecord /\ Committed' = 1 /\ nav'.coming = FALSE
      /\ chan' \in ChanRecord /\ chan'.flight = {} /\ chan'.held = {}
      /\ chan'.next = chan.next /\ ~chan'.closed
      /\ last \in Nat /\ 0 < last /\ IsNav(chan'.queue[last], 1) /\ ~(2 <= last)
  <2>1. Len(chan.queue) = 0 /\ chan.flight = {} /\ chan.held = {}
    BY <1>2, NoMessagesIs
  <2>2. "browser" \in By /\ FALSE \in BOOLEAN
    BY DEF By
  <2>3. /\ page.doc + 1 \in Docs
        /\ page' \in PageRecord /\ page'.doc = page.doc + 1 /\ page'.dirty = {} /\ page'.busy = 0
        /\ page'.sent = 0 /\ page'.open = TRUE /\ \A f \in Inputs : page'.value[f] = 0
        /\ nav' \in NavRecord /\ Len(nav'.log) = page.doc + 1 /\ nav'.coming = FALSE
        /\ chan' \in ChanRecord /\ chan'.flight = chan.flight /\ chan'.held = chan.held
        /\ chan'.next = chan.next /\ ~chan'.closed
        /\ last \in Nat /\ Len(chan.queue) < last
        /\ IsNav(chan'.queue[last], page.doc + 1)
        /\ \A i \in (Len(chan.queue) + 1)..(last - 1) : FALSE
    BY <1>1, <2>2, CommitIs
  <2> HIDE DEF last
  <2>4. ~(2 <= last)
    <3>1. 2 <= last => 1 \in (0 + 1)..(last - 1)
      BY <2>3
    <3> QED
      BY <2>1, <2>3, <3>1
  <2> QED
    BY <1>2, <2>1, <2>3, <2>4 DEF Committed
<1>7. /\ Coming' = chan'.queue /\ last = 1 /\ DOMAIN Coming' = {1} /\ IsNav(Coming'[1], 1)
      /\ Coming'[1] \in NavEvents /\ Coming'[1].seq = 1
      /\ Coming'[1] \notin GestureMessages /\ Coming'[1].kind # "closed"
  <2>1. Coming' = chan'.queue /\ last = 1 /\ chan'.queue \in Seq(QueueEvents)
    <3>1. Coming' = chan'.queue
      BY <1>5 DEF Coming
    <3>2. chan'.queue \in Seq(QueueEvents)
      BY <1>6 DEF ChanRecord
    <3> HIDE DEF last
    <3> QED
      BY <1>6, <3>1, <3>2
  <2>2. DOMAIN Coming' = 1..last
    BY <2>1
  <2>3. IsNav(Coming'[1], 1) /\ DOMAIN Coming' = {1}
    BY <1>6, <2>1, <2>2
  <2> QED
    BY <2>1, <2>3, KindsApart DEF IsNav
<1> HIDE DEF last
<1>8. Types'
  BY <1>1, <1>2, <1>5, <1>6 DEF Types
<1>9. /\ Active' /\ Pending' = {} /\ Now' = 0 /\ through' = 0 /\ steps' = <<>> /\ ignored' = {}
      /\ rec'.ev \in NavEvents /\ rec'.ev.seq = 0
  <2>1. Active' /\ Pending' = {} /\ through' = 0 /\ steps' = <<>> /\ ignored' = {}
    BY <1>1, <1>2, <1>5, <1>6 DEF Active, Finishing, Pending
  <2> QED
    BY <1>4, <1>5, <2>1 DEF Now
<1>10. PlaceInv'
  <2>1. chan'.closed = FALSE
    BY <1>6 DEF ChanRecord
  <2>2. page'.doc # 0 /\ rec'.pc = "open" /\ rec'.end = "none"
    BY <1>5, <1>6
  <2>3. chan'.closed = ~page'.open
    BY <1>6, <2>1
  <2> QED
    BY <1>9, <2>2, <2>3 DEF PlaceInv, Gestural, Fieldwise
<1>11. NavInv'
  <2>1. CountedInv'
    BY <1>9 DEF CountedInv
  <2>2. HandInv' /\ GestureInv'
    BY <1>5, <1>6, <1>9 DEF HandInv, GestureInv
  <2>3. ComingInv'
    <3>1. \A n \in (0 + 1)..1 : n = 1
      OBVIOUS
    <3>2. 1 \in 1..1 /\ ~(1 > 0 + 1)
      OBVIOUS
    <3> QED
      BY <1>6, <1>7, <1>9, <3>1, <3>2 DEF ComingInv
  <2>4. AfterInv'
    BY <1>5, <1>7 DEF AfterInv, Gestural
  <2> QED
    BY <2>1, <2>2, <2>3, <2>4 DEF NavInv
<1>12. MessageInv'
  <2>1. \A d \in Docs : chan'.next[d] = 1
    BY <1>2, <1>6, NoMessagesIs
  <2> QED
    BY <1>6, <1>9, <2>1, FS_EmptySet DEF MessageInv
<1>13. EditInv'
  <2>1. GestureEdits'
    BY <1>5, <1>7, <1>9 DEF GestureEdits, Gestural
  <2>2. PageEdits' /\ LeftEdits'
    BY <1>5, <1>6 DEF PageEdits, LeftEdits
  <2>3. ClosedInv'
    BY <1>5, <1>7 DEF ClosedInv
  <2>4. StepValues' /\ EditsComeFirst' /\ StopKeepsEdits' /\ SecretsStayOnPage'
    BY <1>5, <1>9 DEF StepValues, EditsComeFirst, StopKeepsEdits, SecretsStayOnPage
  <2> QED
    BY <2>1, <2>2, <2>3, <2>4 DEF EditInv
<1> QED
  BY <1>8, <1>10, <1>11, <1>12, <1>13 DEF Inv
\* The person closes the window: the channel tells of it last.
LEMMA CloseWindowKeeps ==
  ASSUME Inv, CloseWindow, UNCHANGED out
  PROVE  Inv'
<1> DEFINE event == [kind |-> "closed"]
           queue == Append(chan.queue, event)
<1>1. /\ page' = [page EXCEPT !.open = FALSE]
      /\ chan' = [chan EXCEPT !.waiting = {}, !.closed = TRUE, !.queue = queue]
      /\ UNCHANGED <<nav, rec, steps, ignored, through>>
  BY DEF CloseWindow, Closed
<1>2. /\ person' \in PersonRecord /\ Active /\ page.open /\ page.doc # 0 /\ ~chan.closed
      /\ page.doc \in Docs
  BY ActingTyped DEF CloseWindow, Kinds, Working, Docs
<1>3. /\ Types /\ page \in PageRecord /\ chan \in ChanRecord /\ page.busy <= page.sent /\ page.doc \in 0..MaxDocs
      /\ chan.queue \in Seq(QueueEvents) /\ Len(chan.queue) \in Nat /\ Committed \in Nat /\ page.value \in Edits
      /\ page.sent \in Nat
  BY SMTT(30), RecordingAssumption DEF Inv, Types, PageRecord, ChanRecord
<1>4. event \in QueueEvents /\ event.kind = "closed" /\ event \notin NavEvents /\ event \notin GestureMessages
  BY DEF QueueEvents, OtherEvents, NavEvents, GestureMessages
<1> HIDE DEF event
<1>5. /\ queue \in Seq(QueueEvents) /\ Len(queue) = Len(chan.queue) + 1
      /\ \A i \in 1..Len(chan.queue) : queue[i] = chan.queue[i]
      /\ queue[Len(chan.queue) + 1] = event
  BY <1>3, <1>4, AppendProperties
<1> HIDE DEF queue
<1>6. /\ chan' \in ChanRecord /\ chan'.flight = chan.flight /\ chan'.held = chan.held
      /\ chan'.next = chan.next /\ chan'.queue = queue /\ chan'.closed = TRUE
  BY <1>1, <1>3, <1>5 DEF ChanRecord
<1>7. /\ page' \in PageRecord /\ page'.value = page.value /\ page'.dirty = page.dirty /\ page'.doc = page.doc
      /\ page'.sent = page.sent /\ page'.busy = page.busy /\ page'.open = FALSE
  BY <1>1, <1>3 DEF PageRecord
<1>8. Types'
  BY <1>1, <1>2, <1>3, <1>6, <1>7 DEF Types, Committed
<1>9. Active' /\ SameHand /\ Pending' = Pending /\ ~Listening' /\ rec.pc # "start" /\ Committed' = Committed
  BY <1>1, <1>2, <1>6 DEF Inv, PlaceInv, Active, SameHand, AtHand, IsFill, Pending, Listening, Committed
<1>10. /\ \A i \in DOMAIN Coming : i \in DOMAIN Coming' /\ Coming'[i] = Coming[i]
       /\ Len(Coming) <= Len(Coming')
       /\ \A i \in DOMAIN Coming' : i \notin DOMAIN Coming => Coming'[i] = event /\ ~rec.drained
  <2>1. CASE rec.drained
    <3>1. Coming' = Coming /\ Len(Coming) \in Nat
      BY <1>1, <1>3, <2>1, ComingTyped DEF Coming
    <3> QED
      BY <3>1
  <2>2. CASE ~rec.drained
    <3>1. Coming = chan.queue /\ Coming' = queue
      BY <1>1, <1>6, <2>2 DEF Coming
    <3>2. DOMAIN Coming = 1..Len(chan.queue) /\ DOMAIN Coming' = 1..(Len(chan.queue) + 1)
      BY <1>3, <1>5, <3>1
    <3>3. \A i \in 1..Len(chan.queue) : i \in 1..(Len(chan.queue) + 1)
      BY <1>3
    <3>4. \A i \in 1..(Len(chan.queue) + 1) : i \notin 1..Len(chan.queue) => i = Len(chan.queue) + 1
      BY <1>3
    <3> QED
      BY <1>3, <1>5, <2>2, <3>1, <3>2, <3>3, <3>4
  <2> QED
    BY <2>1, <2>2
<1>11. PlaceInv'
  <2>1. chan'.closed = ~page'.open
    BY <1>6, <1>7
  <2> QED
    BY <1>1, <1>2, <1>7, <1>9, <2>1 DEF Inv, PlaceInv, Active
<1>12. NavInv'
  <2>1. Committed <= Committed' /\ (Committed + 1)..Committed' = {}
    BY <1>3, <1>9
  <2> QED
    BY <1>1, <1>2, <1>3, <1>4, <1>9, <1>10, <2>1, NavExtends
<1>13. MessageInv'
  BY <1>6, <1>7, <1>9 DEF Inv, MessageInv
<1>14. EditInv'
  <2>1. Grows
    BY <1>1, <1>3, <1>7, <1>9, <1>10 DEF Grows, Edits
  <2>2. PageEdits'
    BY <1>9 DEF PageEdits
  <2>3. LeftEdits'
    BY <1>1, <1>2, <1>6, <1>8, <1>9, <1>11, <2>1, LeftGrows
  <2>4. ClosedInv'
    <3>1. ClosedInv
      BY DEF Inv, EditInv
    <3> QED
      BY <1>1, <1>2, <1>6, <1>9, <1>10, <3>1 DEF ClosedInv
  <2> QED
    BY <1>2, <1>4, <1>8, <1>9, <1>10, <1>11, <2>1, <2>2, <2>3, <2>4, EditsGrow
<1> QED
  BY <1>8, <1>11, <1>12, <1>13, <1>14 DEF Inv

-----------------------------------------------------------------------------
(* A step is added.                                                        *)

LEMMA MaxIs ==
  ASSUME NEW S \in SUBSET Nat, NEW k \in S, \A n \in S : n <= k
  PROVE  Max(S) = k
<1>1. \A x \in S : (\A y \in S : x >= y) => x = k
  OBVIOUS
<1>2. \A y \in S : k >= y
  OBVIOUS
<1> QED
  BY <1>1, <1>2 DEF Max

\* The steps have what they had and what was at hand, and count on.
LEMMA AddedKeeps ==
  ASSUME Inv, Types', rec.pc \in {"open", "checks", "read"}, rec' = NextEvent,
         UNCHANGED <<page, nav, ignored, chan.flight, chan.held, chan.next, chan.queue, chan.closed>>,
         \A d \in 0..MaxDocs, f \in Inputs, v \in Nat :
           (d = page.doc => v <= page.value[f]) /\ (Kept(d, f, v) \/ AtHand(d, f)) => Kept(d, f, v)',
         CountedInv', Now <= through',
         StepValues', EditsComeFirst', SecretsStayOnPage'
  PROVE  Inv'
<1>1. Types /\ page.doc \in 0..MaxDocs /\ page.value \in Edits /\ Docs \subseteq 0..MaxDocs /\ Committed = page.doc
      /\ through' \in Nat /\ page.doc \in Nat /\ rec \in RecRecord
  BY RecordingAssumption DEF Inv, Types, PageRecord, Docs
<1>2. /\ rec'.pc = "next" /\ rec'.drained = rec.drained /\ rec'.backlog = rec.backlog
      /\ rec'.left = rec.left /\ rec'.late = rec.late /\ rec'.end = rec.end
  BY <1>1, NextEventIs
<1>3. /\ Active /\ Active' /\ Coming' = Coming /\ Pending' = Pending /\ Committed' = Committed /\ Now' = through'
      /\ (Listening' <=> Listening)
  BY <1>2 DEF Active, Finishing, Coming, Pending, Committed, Now, Listening
<1>4. /\ Len(Coming) \in Nat /\ DOMAIN Coming = 1..Len(Coming) /\ Coming \in Seq(QueueEvents)
  BY <1>1, ComingTyped
<1>5. Now \in Nat
  BY <1>1, <1>3, ComingDocs
<1>6. PlaceInv'
  BY <1>2, <1>3 DEF Inv, PlaceInv, Active, Gestural, Fieldwise
<1>7. NavInv'
  <2>1. HandInv' /\ GestureInv'
    BY <1>2 DEF HandInv, GestureInv
  <2>2. ComingInv'
    <3>1. \A i \in DOMAIN Coming : Coming[i] \in NavEvents => Coming[i].seq \in Nat
      BY KindsApart, RecordingAssumption
    <3>2. \A i \in DOMAIN Coming : Coming[i] \in NavEvents =>
            /\ Coming[i].seq \in 1..Committed
            /\ Coming[i].seq > through' + 1 => \E j \in 1..(i - 1) : IsNav(Coming[j], Coming[i].seq - 1)
      BY <1>1, <1>3, <1>5, <3>1 DEF Inv, NavInv, ComingInv
    <3>3. ~rec.drained => \A n \in (through' + 1)..Committed : \E i \in DOMAIN Coming : IsNav(Coming[i], n)
      <4>1. (through' + 1)..Committed \subseteq (Now + 1)..Committed
        BY <1>1, <1>5
      <4> QED
        BY <1>3, <4>1 DEF Inv, NavInv, ComingInv
    <3> QED
      BY <1>2, <1>3, <3>2, <3>3 DEF ComingInv, IsNav
  <2>3. AfterInv'
    <3>1. ASSUME NEW i \in DOMAIN Coming, Coming[i] \in GestureMessages, NEW n \in (through' + 1)..Coming[i].doc
          PROVE  \E j \in 1..(i - 1) : IsNav(Coming[j], n)
      <4>1. Coming[i].doc \in Nat
        BY <1>1, <3>1, KindsApart, RecordingAssumption DEF Docs
      <4>2. n \in (Now + 1)..Coming[i].doc
        <5> DEFINE d == Coming[i].doc
        <5>1. d \in Nat /\ n \in (through' + 1)..d
          BY <3>1, <4>1
        <5> HIDE DEF d
        <5>2. \A p, q \in Nat : p <= q /\ n \in (q + 1)..d => n \in (p + 1)..d
          BY <5>1
        <5>3. n \in (Now + 1)..d
          BY <1>1, <1>5, <5>1, <5>2
        <5> QED
          BY <5>3 DEF d
      <4> QED
        BY <1>3, <3>1, <4>2 DEF Inv, NavInv, AfterInv
    <3> QED
      BY <1>2, <1>3, <3>1 DEF AfterInv, IsNav, Gestural
  <2> QED
    BY <2>1, <2>2, <2>3 DEF NavInv
<1>8. MessageInv'
  BY <1>1, <1>3 DEF Inv, MessageInv
<1>9. \A d \in 0..MaxDocs, f \in Inputs, v \in Nat, n \in Nat :
        (d = page.doc => v <= page.value[f]) /\ Covered(d, f, v, n) => Covered(d, f, v, n)'
  BY <1>3 DEF Covered, Ahead, IsFill
<1>10. \A d, f, s : Underway(d, f, s) => Underway(d, f, s)'
  BY <1>3 DEF Underway, IsFill
<1>11. \A d, edits : Reached(d, edits) => Reached(d, edits)'
  BY <1>3 DEF Reached
<1>12. EditInv'
  <2>1. ASSUME NEW m \in Pending \cap GestureMessages
        PROVE  PostedFirst(m)'
    <3>1. m.doc \in 0..MaxDocs /\ m.edits \in Edits /\ \A f \in Inputs : m.edits[f] \in Nat
      BY <1>1, <2>1, KindsApart DEF Edits
    <3>2. Reached(m.doc, m.edits)
      BY <2>1 DEF Inv, EditInv, GestureEdits
    <3>3. ASSUME Listening', NEW f \in Inputs, m.edits[f] > 0
          PROVE  (Covered(m.doc, f, m.edits[f], Len(Coming)) \/ Underway(m.doc, f, m.seq))'
      <4>1. Covered(m.doc, f, m.edits[f], Len(Coming)) \/ Underway(m.doc, f, m.seq)
        BY <1>3, <2>1, <3>3 DEF Inv, EditInv, GestureEdits
      <4>2. m.doc = page.doc => m.edits[f] <= page.value[f]
        BY <1>3, <3>2 DEF Reached
      <4> QED
        BY <1>3, <1>4, <1>9, <1>10, <3>1, <4>1, <4>2
    <3> QED
      BY <1>11, <3>2, <3>3 DEF PostedFirst
  <2>2. ASSUME NEW i \in DOMAIN Coming, Coming[i] \in GestureMessages
        PROVE  QueuedFirst(Coming[i], i - 1)'
    <3> DEFINE m == Coming[i]
    <3>1. m.doc \in 0..MaxDocs /\ m.edits \in Edits /\ (\A f \in Inputs : m.edits[f] \in Nat) /\ m' = m
          /\ i - 1 \in Nat
      <4>1. m.doc \in 0..MaxDocs /\ m.edits \in Edits
        BY <1>1, <2>2, KindsApart
      <4>2. \A f \in Inputs : m.edits[f] \in Nat
        BY <4>1 DEF Edits
      <4>3. m' = m
        BY <1>3
      <4>4. i - 1 \in Nat
        BY <1>4, <2>2
      <4> HIDE DEF m
      <4> QED
        BY <4>1, <4>2, <4>3, <4>4
    <3>2. Reached(m.doc, m.edits) /\ \A f \in Inputs : m.edits[f] > 0 => Covered(m.doc, f, m.edits[f], i - 1)
      BY <1>3, <2>2 DEF Inv, EditInv, GestureEdits
    <3> DEFINE d == m.doc
               e == m.edits
    <3>3. d \in 0..MaxDocs /\ (\A f \in Inputs : e[f] \in Nat) /\ d' = d /\ e' = e
      BY <3>1
    <3>4. Reached(d, e) /\ \A f \in Inputs : e[f] > 0 => Covered(d, f, e[f], i - 1)
      BY <3>2
    <3>5. QueuedFirst(m, i - 1)' <=> (Reached(d, e) /\ (Active => \A f \in Inputs : e[f] > 0 => Covered(d, f, e[f], i - 1)))'
      BY DEF QueuedFirst
    <3> HIDE DEF d, e, m
    <3>6. Reached(d, e)'
      BY <1>11, <3>3, <3>4 DEF Reached
    <3>7. ASSUME NEW f \in Inputs, e[f] > 0 PROVE Covered(d, f, e[f], i - 1)'
      <4>1. d = page.doc => e[f] <= page.value[f]
        BY <1>3, <3>4 DEF Reached
      <4> QED
        BY <1>9, <3>1, <3>3, <3>4, <3>7, <4>1
    <3> QED
      BY <3>3, <3>5, <3>6, <3>7 DEF m
  <2>3. GestureEdits'
    BY <1>2, <1>3, <2>1, <2>2 DEF GestureEdits, PostedFirst, QueuedFirst, Gestural
  <2>4. PageEdits'
    <3> SUFFICES ASSUME Listening', NEW f \in Inputs, page.value[f] > 0, f \notin page.dirty
                 PROVE  (Covered(page.doc, f, page.value[f], Len(Coming)) \/ Underway(page.doc, f, page.sent + 1))'
      BY DEF PageEdits
    <3>1. Covered(page.doc, f, page.value[f], Len(Coming)) \/ Underway(page.doc, f, page.sent + 1)
      BY <1>3 DEF Inv, EditInv, PageEdits
    <3>2. page.value[f] \in Nat
      BY <1>1 DEF Edits
    <3> QED
      BY <1>1, <1>3, <1>4, <1>9, <1>10, <3>1, <3>2
  <2>5. LeftEdits'
    <3> SUFFICES ASSUME rec.left # <<>> PROVE LeftEdits'
      BY <1>2 DEF LeftEdits
    <3> DEFINE d == rec.left.doc
               e == rec.left.value
    <3>1. d \in 0..MaxDocs /\ e \in Edits /\ rec'.left = rec.left
      BY <1>1, <1>2 DEF RecRecord
    <3>2. /\ d <= page.doc /\ Reached(d, e) /\ rec.drained
          /\ ~rec.late => \A f \in Inputs : e[f] > 0 => Covered(d, f, e[f], Len(Coming))
      BY <1>3 DEF Inv, EditInv, LeftEdits
    <3>3. d' = d /\ e' = e
      BY <3>1
    <3>4. LeftEdits' <=> (d <= page.doc /\ Reached(d, e) /\ (Active => rec.drained)
                          /\ (Active /\ ~rec.late => \A f \in Inputs : e[f] > 0 => Covered(d, f, e[f], Len(Coming))))'
      BY <1>2, <3>1 DEF LeftEdits
    <3> HIDE DEF d, e
    <3>5. ASSUME ~rec.late, NEW f \in Inputs, e[f] > 0 PROVE Covered(d, f, e[f], Len(Coming))'
      <4>1. e[f] \in Nat /\ (d = page.doc => e[f] <= page.value[f])
        BY <1>3, <3>1, <3>2 DEF Reached, Edits
      <4> QED
        BY <1>3, <1>4, <1>9, <3>1, <3>2, <3>3, <3>5, <4>1
    <3>6. Reached(d, e)'
      BY <1>11, <3>2, <3>3 DEF Reached
    <3> QED
      BY <1>2, <3>2, <3>3, <3>4, <3>5, <3>6
  <2>6. ClosedInv'
    BY <1>2, <1>3 DEF Inv, EditInv, ClosedInv
  <2>7. StopKeepsEdits'
    BY <1>2, <1>3 DEF StopKeepsEdits, Inv, PlaceInv
  <2> QED
    BY <2>3, <2>4, <2>5, <2>6, <2>7 DEF EditInv
<1> QED
  BY <1>6, <1>7, <1>8, <1>12 DEF Inv

\* A step that is appended accounts for the navigations up to k.
LEMMA CountedOn ==
  ASSUME Types, CountedInv, NEW k \in through..Committed, NEW s \in StepRecord,
         s.navs = (through + 1)..k, s.kind \in FillKinds => s.navs = {},
         steps' = Append(steps, s), ignored' = ignored, through' = k
  PROVE  /\ CountedInv' /\ steps' \in Seq(StepRecord)
         /\ Len(steps') = Len(steps) + 1 /\ DOMAIN steps' = 1..(Len(steps) + 1) /\ steps'[Len(steps) + 1] = s
         /\ \A i \in DOMAIN steps : i \in DOMAIN steps' /\ steps'[i] = steps[i]
         /\ \A i \in DOMAIN steps' : i \in DOMAIN steps \/ i = Len(steps) + 1
<1>1. steps \in Seq(StepRecord) /\ Len(steps) \in Nat /\ DOMAIN steps = 1..Len(steps)
  BY StepsTyped DEF Types
<1> DEFINE size == Len(steps)
<1>2. /\ steps' \in Seq(StepRecord) /\ Len(steps') = size + 1 /\ steps'[size + 1] = s
      /\ \A i \in 1..size : steps'[i] = steps[i]
  BY <1>1, AppendProperties
<1>3. DOMAIN steps' = 1..(size + 1) /\ size \in Nat /\ DOMAIN steps = 1..size
  BY <1>1, <1>2
<1> HIDE DEF size
<1>4. /\ \A i \in DOMAIN steps : i \in DOMAIN steps' /\ steps'[i] = steps[i]
      /\ \A i \in DOMAIN steps' : i \in DOMAIN steps \/ i = size + 1
      /\ size + 1 \in DOMAIN steps' /\ size + 1 \notin DOMAIN steps
  BY <1>2, <1>3
<1>5. through \in Nat /\ k \in Nat /\ 1..k = (1..through) \cup s.navs /\ (1..through) \cap s.navs = {}
  BY RecordingAssumption DEF Types
<1>6. \A i \in DOMAIN steps : steps[i].navs \subseteq 1..through
  BY DEF CountedInv
<1>7. ignored \subseteq 1..through
  BY DEF CountedInv
<1>8. UNION {steps'[i].navs : i \in DOMAIN steps'} = s.navs \cup UNION {steps[i].navs : i \in DOMAIN steps}
  <2>1. \A n : (\E i \in DOMAIN steps' : n \in steps'[i].navs) <=>
              (n \in s.navs \/ \E i \in DOMAIN steps : n \in steps[i].navs)
    BY <1>2, <1>4
  <2> QED
    BY <2>1
<1>9. 1..through = ignored \cup UNION {steps[i].navs : i \in DOMAIN steps}
  BY DEF CountedInv
<1>10. CountedInv'
  <2>1. \A i, j \in DOMAIN steps' : i # j => steps'[i].navs \cap steps'[j].navs = {}
    <3>1. \A i, j \in DOMAIN steps : i # j => steps[i].navs \cap steps[j].navs = {}
      BY DEF CountedInv
    <3>2. \A i \in DOMAIN steps : steps[i].navs \cap s.navs = {}
      BY <1>5, <1>6
    <3>3. s = steps'[size + 1] /\ \A i \in DOMAIN steps' : i # size + 1 => i \in DOMAIN steps /\ steps'[i] = steps[i]
      BY <1>2, <1>4
    <3> SUFFICES ASSUME NEW i \in DOMAIN steps', NEW j \in DOMAIN steps', i # j
                 PROVE  steps'[i].navs \cap steps'[j].navs = {}
      OBVIOUS
    <3>4. CASE i = size + 1
      <4>1. j \in DOMAIN steps /\ steps'[j] = steps[j] /\ steps'[i] = s
        BY <3>3, <3>4
      <4> QED
        BY <3>2, <4>1
    <3>5. CASE j = size + 1
      <4>1. i \in DOMAIN steps /\ steps'[i] = steps[i] /\ steps'[j] = s
        BY <3>3, <3>5
      <4> QED
        BY <3>2, <4>1
    <3>6. CASE i # size + 1 /\ j # size + 1
      BY <3>1, <3>3, <3>6
    <3> QED
      BY <3>4, <3>5, <3>6
  <2>2. \A i \in DOMAIN steps' : steps'[i].navs \cap ignored = {}
    <3>1. \A i \in DOMAIN steps : steps[i].navs \cap ignored = {}
      BY DEF CountedInv
    <3> QED
      BY <1>2, <1>4, <1>5, <1>7, <3>1
  <2>3. \A i \in DOMAIN steps' : steps'[i].kind \in FillKinds => steps'[i].navs = {}
    BY <1>2, <1>4 DEF CountedInv
  <2>4. 1..through' = ignored \cup UNION {steps'[i].navs : i \in DOMAIN steps'}
    BY <1>5, <1>8, <1>9
  <2> QED
    BY <2>1, <2>2, <2>3, <2>4 DEF CountedInv
<1> QED
  BY <1>2, <1>3, <1>4, <1>10 DEF size
\* What a step says of the field that was read.
SaysField(s) ==
  /\ rec.pc = "read" => s.kind \in FillKinds
  /\ s.kind \in FillKinds =>
       /\ rec.pc = "read" /\ rec.ev.doc = page.doc /\ rec.ev.el \in Inputs
       /\ s.key = <<page.doc, rec.ev.el>> /\ s.value = page.value[rec.ev.el]
  /\ s.hidden => s.secret

LEMMA AppendedKeeps ==
  ASSUME Inv, Types', rec.pc \in {"open", "checks", "read"}, rec' = NextEvent,
         UNCHANGED <<page, nav, ignored, chan.flight, chan.held, chan.next, chan.queue, chan.closed>>,
         NEW s \in StepRecord, NEW k \in through..Committed,
         s.navs = (through + 1)..k, s.kind \in FillKinds => s.navs = {},
         steps' = Append(steps, s), through' = k, Now <= k, SaysField(s),
         s.kind = "gesture" => \A f \in Inputs : s.edits[f] > 0 => Kept(s.key[1], f, s.edits[f])
  PROVE  Inv'
<1> DEFINE size == Len(steps)
<1>1. /\ Types /\ size \in Nat /\ DOMAIN steps = 1..size /\ page.value \in Edits
      /\ \A j \in DOMAIN steps : steps[j].value \in Nat /\ steps[j].key \in (0..MaxDocs) \X Elems
      /\ \A f \in Inputs : page.value[f] \in Nat
  BY StepsTyped DEF Inv, Types, PageRecord, Edits
<1>2. /\ CountedInv' /\ DOMAIN steps' = 1..(size + 1) /\ steps'[size + 1] = s
      /\ \A i \in DOMAIN steps : i \in DOMAIN steps' /\ steps'[i] = steps[i]
      /\ \A i \in DOMAIN steps' : i \in DOMAIN steps \/ i = size + 1
  BY CountedOn DEF Inv, NavInv
<1> HIDE DEF size
<1>3. size + 1 \in DOMAIN steps'
  BY <1>1, <1>2
<1>4. \A d, f, v : Kept(d, f, v) => Kept(d, f, v)'
  BY <1>2 DEF Kept
<1>5. ASSUME NEW d \in 0..MaxDocs, NEW f \in Inputs, NEW v \in Nat, d = page.doc => v <= page.value[f], AtHand(d, f)
      PROVE  Kept(d, f, v)'
  <2>1. rec.pc = "read" /\ rec.ev.doc = d /\ rec.ev.el = f
    BY <1>5 DEF AtHand, IsFill, Fieldwise
  <2>2. s.kind \in FillKinds /\ s.key = <<d, f>> /\ s.value = page.value[f] /\ d = page.doc
    BY <2>1 DEF SaysField
  <2>3. s.value >= v
    BY <1>1, <1>5, <2>2
  <2> QED
    BY <1>2, <1>3, <2>2, <2>3 DEF Kept
<1>6. StepValues'
  <2>1. StepValues /\ Active
    BY DEF Inv, EditInv, Active, Finishing
  <2>2. s.kind \in FillKinds => /\ s.key[1] = page.doc
                                /\ \A f \in Inputs : s.key = <<page.doc, f>> => s.value <= page.value[f]
    BY <1>1 DEF SaysField
  <2>3. page.doc <= page.doc
    BY <1>1, RecordingAssumption DEF Types, PageRecord
  <2> QED
    BY <1>2, <2>1, <2>2, <2>3 DEF StepValues
<1>7. EditsComeFirst'
  <2> SUFFICES ASSUME NEW i \in DOMAIN steps', steps'[i].kind = "gesture", NEW f \in Inputs, steps'[i].edits[f] > 0
               PROVE  \E j \in 1..(i - 1) :
                        /\ steps'[j].kind \in FillKinds /\ steps'[j].key = <<steps'[i].key[1], f>>
                        /\ steps'[j].secret \/ steps'[j].value >= steps'[i].edits[f]
    BY DEF EditsComeFirst, FillKinds
  <2>1. CASE i \in DOMAIN steps
    <3>1. PICK j \in 1..(i - 1) :
                        /\ steps[j].kind \in FillKinds /\ steps[j].key = <<steps[i].key[1], f>>
                        /\ steps[j].secret \/ steps[j].value >= steps[i].edits[f]
      <4>1. steps[i] = steps'[i] /\ EditsComeFirst
        BY <1>2, <2>1 DEF Inv, EditInv
      <4>2. steps[i].kind = "gesture" /\ steps[i].edits[f] > 0
        BY <4>1
      <4> QED
        BY <2>1, <4>1, <4>2 DEF EditsComeFirst, FillKinds
    <3>2. j \in DOMAIN steps
      BY <1>1, <2>1
    <3> QED
      BY <1>2, <2>1, <3>1, <3>2
  <2>2. CASE i = size + 1
    <3>1. steps'[i] = s
      BY <1>2, <2>2
    <3>2. PICK j \in DOMAIN steps :
                        /\ steps[j].kind \in FillKinds /\ steps[j].key = <<s.key[1], f>>
                        /\ steps[j].secret \/ steps[j].value >= s.edits[f]
      BY <3>1 DEF Kept
    <3>3. j \in 1..(i - 1)
      BY <1>1, <2>2
    <3> QED
      BY <1>2, <3>1, <3>2, <3>3
  <2> QED
    BY <1>2, <2>1, <2>2
<1>8. SecretsStayOnPage'
  BY <1>2 DEF Inv, EditInv, SecretsStayOnPage, SaysField
<1> QED
  BY <1>2, <1>4, <1>5, <1>6, <1>7, <1>8, AddedKeeps

\* The drafts, as they are added.
LEMMA DraftIs ==
  ASSUME NEW kind \in FillKinds \cup {"gesture", "navigate"}
  PROVE  /\ Draft(kind) \in StepRecord /\ Draft(kind).kind = kind /\ Draft(kind).hidden = FALSE
         /\ Draft(kind).secret = FALSE /\ Draft(kind).navs = {}
<1>1. <<0, Nothing>> \in (0..MaxDocs) \X Elems
  BY RecordingAssumption DEF Elems
<1>2. <<>> \in {<<>>} \cup Edits /\ {} \in SUBSET Docs /\ 0 \in Nat /\ FALSE \in BOOLEAN
  OBVIOUS
<1> DEFINE place == <<0, Nothing>>
           none == <<>>
<1>3. Draft(kind) = [kind |-> kind, key |-> place, value |-> 0, secret |-> FALSE, hidden |-> FALSE,
                     edits |-> none, navs |-> {}]
  BY DEF Draft
<1>4. place \in (0..MaxDocs) \X Elems /\ none \in {<<>>} \cup Edits
  BY <1>1, <1>2
<1> HIDE DEF place, none
<1> QED
  BY <1>2, <1>3, <1>4 DEF StepRecord

\* The page was opened by nobody's step: it gets one, and every navigation
\* up to now is accounted for.
LEMMA PageStepKeeps ==
  ASSUME Inv, PageStep, UNCHANGED out
  PROVE  Inv'
<1> DEFINE navs == ({rec.ev.seq} \cup NavsAfter(rec.ev.seq)) \ {0}
           s == [Draft("navigate") EXCEPT !.navs = navs]
<1>1. /\ rec.pc = "open" /\ page.open /\ steps' = Merged(s) /\ through' = Max({rec.ev.seq, through, Committed})
      /\ rec' = NextEvent /\ UNCHANGED <<page, person, nav, chan, ignored>>
  BY DEF PageStep, At
<1>2. /\ Types /\ through \in Nat /\ through <= Committed /\ Committed \in 0..MaxDocs /\ Committed \in Nat
  BY RecordingAssumption DEF Inv, Types, PageRecord
<1>3. rec.ev \in NavEvents /\ rec.ev.seq \in Nat /\ rec.ev.seq <= Committed
      /\ ((rec.ev.seq = 0 /\ through = 0) \/ rec.ev.seq = through + 1)
  <2>1. rec.ev \in NavEvents /\ rec.ev.seq \in Nat
    BY <1>1, KindsApart, RecordingAssumption DEF Inv, PlaceInv
  <2>2. HandInv
    BY <1>1 DEF Inv, NavInv, Active, Finishing
  <2> QED
    BY <1>1, <2>1, <2>2 DEF HandInv
<1>4. navs = (through + 1)..Committed /\ navs \in SUBSET Docs
  <2> DEFINE q == rec.ev.seq
  <2>1. NavsAfter(q) = {i \in 1..Committed : i > q} /\ q \in Nat /\ q <= Committed
        /\ ((q = 0 /\ through = 0) \/ q = through + 1)
    BY <1>3 DEF NavsAfter
  <2> HIDE DEF q
  <2>2. (({q} \cup NavsAfter(q)) \ {0}) = (through + 1)..Committed
    BY <1>2, <2>1
  <2>3. (through + 1)..Committed \subseteq 1..MaxDocs
    BY <1>2, RecordingAssumption
  <2> QED
    BY <2>2, <2>3 DEF q, Docs
<1>5. through' = Committed
  <2> DEFINE S == {rec.ev.seq, through, Committed}
  <2>1. S \in SUBSET Nat /\ Committed \in S /\ \A n \in S : n <= Committed
    BY <1>2, <1>3
  <2> HIDE DEF S
  <2>2. Max(S) = Committed
    BY <2>1, MaxIs
  <2> QED
    BY <1>1, <2>2 DEF S
<1> HIDE DEF navs
<1>6. /\ s \in StepRecord /\ s.navs = navs /\ s.kind = "navigate" /\ s.hidden = FALSE
  <2> DEFINE d == Draft("navigate")
  <2>1. d \in StepRecord /\ d.kind = "navigate" /\ d.hidden = FALSE
    BY DraftIs
  <2> HIDE DEF d
  <2>2. [d EXCEPT !.navs = navs] \in StepRecord /\ [d EXCEPT !.navs = navs].navs = navs
        /\ [d EXCEPT !.navs = navs].kind = d.kind /\ [d EXCEPT !.navs = navs].hidden = d.hidden
    BY <1>4, <2>1 DEF StepRecord
  <2> QED
    BY <2>1, <2>2 DEF d
<1>7. steps' = Append(steps, s)
  BY <1>1, <1>6 DEF Merged
<1> HIDE DEF s
<1>8. steps' \in Seq(StepRecord)
  BY <1>2, <1>6, <1>7, AppendProperties DEF Types
<1>9. Types'
  <2>1. rec' \in RecRecord
    BY <1>1, <1>2, NextEventIs
  <2>2. Committed' = Committed
    BY <1>1 DEF Committed
  <2>3. through' \in 0..MaxDocs /\ through' <= Committed'
    BY <1>2, <1>5, <2>2
  <2> QED
    BY <1>1, <1>2, <1>8, <2>1, <2>2, <2>3 DEF Types
<1>10. SaysField(s)
  BY <1>1, <1>6 DEF SaysField, FillKinds
<1>11. Now <= Committed /\ Committed \in through..Committed /\ s.kind \notin FillKinds /\ s.kind # "gesture"
  BY <1>2, <1>3, <1>6 DEF Now, FillKinds
<1> QED
  BY <1>1, <1>4, <1>5, <1>6, <1>7, <1>9, <1>10, <1>11, AppendedKeeps

\* The gesture becomes a step, after the fills of what it tells of the fields.
LEMMA AddGestureKeeps ==
  ASSUME Inv, AddGesture, UNCHANGED out
  PROVE  Inv'
<1> DEFINE key == <<rec.ev.doc, rec.ev.el>>
           edits == rec.ev.edits
           navs == rec.navs
           draft == Draft("gesture")
           s == [draft EXCEPT !.key = key, !.navs = navs, !.edits = edits]
<1>1. /\ rec.pc = "checks" /\ page.open
      /\ steps' = Merged(s)
      /\ through' = Through /\ chan' = [chan EXCEPT !.waiting = Finished]
      /\ rec' = NextEvent /\ UNCHANGED <<page, person, nav, ignored>>
  BY DEF AddGesture, At, Key
<1>2. /\ Types /\ through \in Nat /\ through <= Committed /\ Committed \in 0..MaxDocs /\ Committed \in Nat
      /\ rec \in RecRecord /\ chan \in ChanRecord
  BY RecordingAssumption DEF Inv, Types, PageRecord
<1>3. /\ rec.ev \in GestureMessages /\ key \in (0..MaxDocs) \X Elems /\ edits \in Edits /\ navs \in SUBSET Docs
      /\ key[1] = rec.ev.doc
  <2>1. rec.ev \in GestureMessages
    BY <1>1 DEF Inv, PlaceInv, Gestural
  <2>2. rec.ev.doc \in 0..MaxDocs /\ rec.ev.el \in Elems /\ edits \in Edits
    BY <2>1, KindsApart, RecordingAssumption DEF Docs, Elems
  <2>3. navs \in SUBSET Docs
    BY <1>2 DEF RecRecord
  <2> QED
    BY <2>1, <2>2, <2>3
<1>4. rec.before = through /\ \E k \in through..Committed : navs = (through + 1)..k
  BY <1>1 DEF Inv, NavInv, GestureInv, Active, Finishing
<1>5. PICK k \in through..Committed : navs = (through + 1)..k
  BY <1>4
<1>6. through' = k
  <2> DEFINE S == {through, rec.before} \cup navs
  <2>1. S = through..k /\ k \in Nat
    BY <1>2, <1>4, <1>5
  <2>2. S \in SUBSET Nat /\ k \in S /\ \A n \in S : n <= k
    BY <1>2, <2>1
  <2> HIDE DEF S
  <2>3. Max(S) = k
    BY <2>2, MaxIs
  <2> QED
    BY <1>1, <2>3 DEF S, Through
<1>7. \A f \in Inputs : edits[f] > 0 => Kept(rec.ev.doc, f, edits[f])
  <2>1. GestureEdits /\ rec.pc \in Gestural
    BY <1>1 DEF Inv, EditInv, Gestural
  <2> QED
    BY <1>3, <2>1 DEF GestureEdits
<1> HIDE DEF key, edits, navs
<1>8. s \in StepRecord /\ s.kind = "gesture" /\ s.key = key /\ s.edits = edits /\ s.navs = navs
      /\ s.hidden = FALSE
  <2>1. draft \in StepRecord /\ draft.kind = "gesture" /\ draft.hidden = FALSE
    BY DraftIs
  <2> HIDE DEF draft
  <2>2. edits \in {<<>>} \cup Edits
    BY <1>3
  <2> HIDE DEF Edits
  <2> QED
    BY <1>3, <2>1, <2>2 DEF StepRecord
<1>9. steps' = Append(steps, s)
  <2> HIDE DEF s
  <2> QED
    BY <1>1, <1>8 DEF Merged
<1>10. s.kind = "gesture" /\ s.key = key /\ s.edits = edits /\ s.navs = navs /\ s.hidden = FALSE
  BY <1>8
<1> HIDE DEF s
<1>11. steps' \in Seq(StepRecord)
  BY <1>2, <1>8, <1>9, AppendProperties DEF Types
<1>12. /\ chan' \in ChanRecord /\ chan'.flight = chan.flight /\ chan'.held = chan.held
       /\ chan'.next = chan.next /\ chan'.queue = chan.queue /\ chan'.closed = chan.closed
  <2>1. Finished \in SUBSET (Docs \X (Nat \ {0}))
    BY <1>2 DEF ChanRecord, Finished
  <2> HIDE DEF Finished
  <2> QED
    BY <1>1, <1>2, <2>1 DEF ChanRecord
<1>13. k \in 0..MaxDocs /\ k <= Committed
  BY <1>2, RecordingAssumption
<1>14. Types'
  <2>1. rec' \in RecRecord
    BY <1>1, <1>2, NextEventIs
  <2> QED
    BY <1>1, <1>2, <1>6, <1>11, <1>12, <1>13, <2>1 DEF Types, Committed
<1>15. SaysField(s)
  BY <1>1, <1>10 DEF SaysField, FillKinds
<1>16. Now <= k /\ s.kind \notin FillKinds
  BY <1>1, <1>2, <1>10 DEF Now, FillKinds
<1>17. \A f \in Inputs : s.edits[f] > 0 => Kept(s.key[1], f, s.edits[f])
  BY <1>3, <1>7, <1>10
<1> QED
  BY <1>1, <1>5, <1>6, <1>8, <1>9, <1>10, <1>12, <1>14, <1>15, <1>16, <1>17, AppendedKeeps
\* A fill that repeats the last step's field replaces it: the field's text is
\* no older than what that step had.
LEMMA ReplacedKeeps ==
  ASSUME Inv, Types', rec.pc = "read", rec' = NextEvent,
         UNCHANGED <<page, nav, ignored, through, chan.flight, chan.held, chan.next, chan.queue, chan.closed>>,
         NEW s \in StepRecord, SaysField(s), s.navs = {}, s.kind = "fill", steps # <<>>,
         steps[Len(steps)].kind = "fill", steps[Len(steps)].key = s.key,
         steps' = [steps EXCEPT ![Len(steps)] = s]
  PROVE  Inv'
<1> DEFINE size == Len(steps)
<1>1. /\ Types /\ size \in Nat /\ DOMAIN steps = 1..size /\ page.value \in Edits
      /\ \A j \in DOMAIN steps : steps[j].value \in Nat /\ steps[j].key \in (0..MaxDocs) \X Elems
      /\ \A f \in Inputs : page.value[f] \in Nat
  BY StepsTyped DEF Inv, Types, PageRecord, Edits
<1>2. size \in DOMAIN steps /\ "fill" \in FillKinds
  <2>1. size # 0 /\ steps \in Seq(StepRecord)
    BY <1>1 DEF Types
  <2> QED
    BY <1>1, <2>1 DEF FillKinds
<1>3. /\ DOMAIN steps' = DOMAIN steps /\ steps'[size] = s
      /\ \A i \in DOMAIN steps : i # size => steps'[i] = steps[i]
  BY <1>2
<1>4. /\ rec.ev.doc = page.doc /\ rec.ev.el \in Inputs /\ s.key = <<page.doc, rec.ev.el>>
      /\ s.value = page.value[rec.ev.el] /\ steps[size].kind = "fill" /\ steps[size].key = s.key
  BY <1>2 DEF SaysField
<1> HIDE DEF size
<1>5. StepValues /\ CountedInv /\ EditsComeFirst /\ SecretsStayOnPage
  BY DEF Inv, EditInv, NavInv
<1>6. CountedInv'
  <2>1. \A i \in DOMAIN steps : steps'[i].navs = steps[i].navs
    BY <1>2, <1>3, <1>4, <1>5 DEF CountedInv
  <2>2. \A i \in DOMAIN steps : steps'[i].kind \in FillKinds => steps[i].kind \in FillKinds
    BY <1>2, <1>3, <1>4
  <2>3. UNION {steps'[i].navs : i \in DOMAIN steps'} = UNION {steps[i].navs : i \in DOMAIN steps}
    <3>1. \A n : (\E i \in DOMAIN steps' : n \in steps'[i].navs) <=> \E i \in DOMAIN steps : n \in steps[i].navs
      BY <1>3, <2>1
    <3> QED
      BY <3>1
  <2> QED
    BY <1>3, <1>5, <2>1, <2>2, <2>3 DEF CountedInv
<1>7. ASSUME NEW d \in 0..MaxDocs, NEW f \in Inputs, NEW v \in Nat, d = page.doc => v <= page.value[f],
             Kept(d, f, v) \/ AtHand(d, f)
      PROVE  Kept(d, f, v)'
  <2>1. CASE d = page.doc /\ f = rec.ev.el
    <3>1. s.key = <<d, f>> /\ s.value >= v /\ s.kind \in FillKinds
      BY <1>1, <1>2, <1>4, <1>7, <2>1
    <3> QED
      BY <1>2, <1>3, <3>1 DEF Kept
  <2>2. CASE ~(d = page.doc /\ f = rec.ev.el)
    <3>1. ~AtHand(d, f)
      BY <1>4, <2>2 DEF AtHand, IsFill
    <3>2. PICK j \in DOMAIN steps : /\ steps[j].kind \in FillKinds /\ steps[j].key = <<d, f>>
                                    /\ steps[j].secret \/ steps[j].value >= v
      BY <1>7, <3>1 DEF Kept
    <3>3. j # size
      BY <1>4, <2>2, <3>2
    <3> QED
      BY <1>3, <3>2, <3>3 DEF Kept
  <2> QED
    BY <2>1, <2>2
<1>8. StepValues'
  <2>1. page.doc <= page.doc /\ s.key[1] = page.doc
    BY <1>1, <1>4, RecordingAssumption DEF Types, PageRecord
  <2>2. \A f \in Inputs : s.key = <<page.doc, f>> => s.value <= page.value[f]
    BY <1>1, <1>4
  <2>3. Active
    BY DEF Active, Finishing
  <2> QED
    BY <1>2, <1>3, <1>5, <2>1, <2>2, <2>3 DEF StepValues
<1>9. EditsComeFirst'
  <2> SUFFICES ASSUME NEW i \in DOMAIN steps', steps'[i].kind = "gesture", NEW f \in Inputs, steps'[i].edits[f] > 0
               PROVE  \E j \in 1..(i - 1) :
                        /\ steps'[j].kind \in FillKinds /\ steps'[j].key = <<steps'[i].key[1], f>>
                        /\ steps'[j].secret \/ steps'[j].value >= steps'[i].edits[f]
    BY DEF EditsComeFirst, FillKinds
  <2>1. i # size /\ i \in DOMAIN steps /\ steps'[i] = steps[i]
    BY <1>3
  <2>2. PICK j \in 1..(i - 1) :
                        /\ steps[j].kind \in FillKinds /\ steps[j].key = <<steps[i].key[1], f>>
                        /\ steps[j].secret \/ steps[j].value >= steps[i].edits[f]
    BY <1>5, <2>1 DEF EditsComeFirst, FillKinds
  <2>3. j \in DOMAIN steps /\ j # size
    BY <1>1, <2>1
  <2> QED
    BY <1>3, <2>1, <2>2, <2>3
<1>10. SecretsStayOnPage'
  BY <1>2, <1>3, <1>5 DEF SecretsStayOnPage, SaysField
<1>11. Now <= through'
  BY RecordingAssumption, <1>1 DEF Now, Types
<1> QED
  BY <1>6, <1>7, <1>8, <1>9, <1>10, <1>11, AddedKeeps

\* A field is read: what the steps have of it is what it holds.
LEMMA ReadFieldKeeps ==
  ASSUME Inv, ReadField, UNCHANGED out
  PROVE  Inv'
<1> DEFINE f == rec.ev.el
           unread == rec.masked \/ IsMasked(f)
           hide == f \in page.masked
           read == [Draft("fill") EXCEPT !.key = Key, !.value = page.value[f], !.secret = unread, !.hidden = hide]
           s == [read EXCEPT !.kind = rec.ev.kind]
<1>1. /\ rec.pc = "read" /\ page.open /\ rec.ev.doc = page.doc
      /\ \/ Unusable
         \/ steps' = Merged(s) /\ rec' = NextEvent /\ UNCHANGED <<page, person, nav, chan, ignored, through>>
  BY DEF ReadField, At, SameDocument
<1>2. CASE Unusable
  BY <1>2, FailingKeeps
<1>3. CASE steps' = Merged(s) /\ rec' = NextEvent /\ UNCHANGED <<page, person, nav, chan, ignored, through>>
  <2>1. /\ Types /\ through \in Nat /\ page.value \in Edits /\ rec \in RecRecord /\ page.doc \in 0..MaxDocs
        /\ through \in 0..MaxDocs /\ Committed \in 0..MaxDocs /\ through <= Committed
    BY RecordingAssumption DEF Inv, Types, PageRecord
  <2>2. rec.ev \in FillMessages
    BY <1>1 DEF Inv, PlaceInv, Fieldwise
  <2>3. f \in Inputs /\ rec.ev.kind \in FillKinds /\ Key = <<page.doc, f>>
    BY <1>1, <2>2, KindsApart DEF Key
  <2>4. Key \in (0..MaxDocs) \X Elems /\ page.value[f] \in Nat /\ unread \in BOOLEAN /\ hide \in BOOLEAN
        /\ (hide => unread)
    BY <2>1, <2>3 DEF Elems, Edits, RecRecord, IsMasked
  <2> DEFINE draft == Draft("fill")
             key == Key
             value == page.value[f]
             kind == rec.ev.kind
             base == [draft EXCEPT !.key = key, !.value = value, !.secret = unread, !.hidden = hide]
  <2>5. draft \in StepRecord /\ draft.navs = {}
    BY DraftIs DEF FillKinds
  <2>6. s = [base EXCEPT !.kind = kind]
    OBVIOUS
  <2>7. key \in (0..MaxDocs) \X Elems /\ value \in Nat /\ kind \in FillKinds /\ unread \in BOOLEAN /\ hide \in BOOLEAN
    BY <2>3, <2>4
  <2> HIDE DEF draft, key, value, kind, unread, hide, s, f
  <2>8. base \in StepRecord /\ base.key = key /\ base.value = value /\ base.secret = unread /\ base.hidden = hide
        /\ base.navs = {}
    BY <2>5, <2>7 DEF StepRecord
  <2> HIDE DEF base
  <2>9. s \in StepRecord /\ s.kind = kind /\ s.key = key /\ s.value = value /\ s.secret = unread /\ s.hidden = hide
        /\ s.navs = {}
    BY <2>6, <2>7, <2>8 DEF StepRecord
  <2>10. SaysField(s)
    <3>1. s.kind \in FillKinds /\ s.key = <<page.doc, rec.ev.el>> /\ s.value = page.value[rec.ev.el]
          /\ rec.ev.el \in Inputs /\ (s.hidden => s.secret)
      BY <2>3, <2>4, <2>7, <2>9 DEF key, value, f
    <3> QED
      BY <1>1, <3>1 DEF SaysField
  <2>11. steps \in Seq(StepRecord) /\ Len(steps) \in Nat /\ DOMAIN steps = 1..Len(steps)
    BY <2>1, StepsTyped DEF Types
  <2>12. steps' \in Seq(StepRecord)
    <3>1. Append(steps, s) \in Seq(StepRecord)
      BY <2>9, <2>11, AppendProperties
    <3>2. steps # <<>> => [steps EXCEPT ![Len(steps)] = s] \in Seq(StepRecord)
      <4>1. steps # <<>> => Len(steps) \in 1..Len(steps)
        BY <2>11
      <4> QED
        BY <2>9, <2>11, <4>1, ExceptSeq
    <3> QED
      BY <1>3, <3>1, <3>2 DEF Merged
  <2>13. Types'
    <3>1. rec' \in RecRecord
      BY <1>3, <2>1, NextEventIs
    <3>2. Committed' = Committed
      BY <1>3 DEF Committed
    <3> QED
      BY <1>3, <2>1, <2>12, <3>1, <3>2 DEF Types
  <2>14. CASE steps # <<>> /\ s.kind = "fill" /\ steps[Len(steps)].kind = "fill" /\ steps[Len(steps)].key = s.key
    <3>1. steps' = [steps EXCEPT ![Len(steps)] = s]
      BY <1>3, <2>14 DEF Merged
    <3> QED
      BY <1>1, <1>3, <2>9, <2>10, <2>13, <2>14, <3>1, ReplacedKeeps
  <2>15. CASE steps' = Append(steps, s)
    <3>1. s.navs = (through + 1)..through /\ through \in through..Committed /\ Now <= through /\ s.kind # "gesture"
      BY <1>1, <2>1, <2>7, <2>9, RecordingAssumption DEF Now, FillKinds
    <3> QED
      BY <1>1, <1>3, <2>9, <2>10, <2>13, <2>15, <3>1, AppendedKeeps
  <2> QED
    BY <1>3, <2>14, <2>15 DEF Merged
<1> QED
  BY <1>1, <1>2, <1>3-----------------------------------------------------------------------------
(* The recording.                                                          *)

LEMMA InitHolds ==
  ASSUME Init
  PROVE  Inv
<1> USE KindsApart
<1>1. /\ page \in PageRecord /\ page.doc = 0 /\ page.dirty = {} /\ page.busy = 0 /\ page.sent = 0
      /\ page.open = TRUE /\ \A f \in Inputs : page.value[f] = 0
  <2>1. page = Fresh(0) /\ 0 \in 0..MaxDocs
    BY RecordingAssumption DEF Init
  <2> QED
    BY <2>1, FreshIs
<1>2. person \in PersonRecord
  BY RecordingAssumption DEF Init, PersonRecord
<1>3. /\ nav \in NavRecord /\ Committed = 0 /\ nav.coming = FALSE
  <2>1. <<>> \in Seq([by : By, seen : By]) /\ Len(<<>>) = 0
    OBVIOUS
  <2>2. nav = [log |-> <<>>, requested |-> FALSE, coming |-> FALSE]
    BY DEF Init
  <2> QED
    BY <2>1, <2>2 DEF NavRecord, Committed
<1>4. /\ chan = NoMessages /\ chan \in ChanRecord /\ chan.flight = {} /\ chan.held = {}
      /\ chan.queue = <<>> /\ chan.closed = FALSE /\ \A d \in Docs : chan.next[d] = 1
  BY NoMessagesIs DEF Init
<1>5. /\ rec \in RecRecord /\ rec.pc = "start" /\ rec.drained = FALSE /\ rec.left = <<>> /\ rec.late = FALSE
      /\ rec.end = "none"
  <2>1. rec = [Idle(NoEvent) EXCEPT !.pc = "start"] /\ "start" \in Places
    BY DEF Init, Places
  <2> QED
    BY <2>1, IdleIs DEF RecRecord
<1>6. steps = <<>> /\ steps \in Seq(StepRecord) /\ DOMAIN steps = {} /\ ignored = {} /\ through = 0
      /\ out.file = "none"
  BY DEF Init
<1>7. Active /\ Coming = <<>> /\ DOMAIN Coming = {} /\ Len(Coming) = 0 /\ Now = 0 /\ Pending = {}
  BY <1>4, <1>5, <1>6 DEF Active, Finishing, Coming, Now, Pending
<1>8. Types
  <2>1. 0 \in 0..MaxDocs /\ {} \in SUBSET Docs
    BY RecordingAssumption
  <2> QED
    BY <1>1, <1>2, <1>3, <1>4, <1>5, <1>6, <2>1 DEF Types
<1>9. PlaceInv
  BY <1>1, <1>4, <1>5, <1>6, <1>7 DEF PlaceInv, Gestural, Fieldwise
<1>10. NavInv
  <2>1. CountedInv
    <3>1. 1..through = {}
      BY <1>6
    <3> QED
      BY <1>6, <3>1 DEF CountedInv
  <2>2. HandInv /\ GestureInv
    BY <1>5 DEF HandInv, GestureInv
  <2>3. ComingInv
    BY <1>3, <1>7 DEF ComingInv
  <2>4. AfterInv
    BY <1>5, <1>7 DEF AfterInv, Gestural
  <2> QED
    BY <2>1, <2>2, <2>3, <2>4 DEF NavInv
<1>11. MessageInv
  <2>1. IsFiniteSet({})
    BY FS_EmptySet
  <2> QED
    BY <1>1, <1>4, <1>7, <2>1 DEF MessageInv
<1>12. EditInv
  <2>1. GestureEdits
    BY <1>5, <1>7 DEF GestureEdits, Gestural
  <2>2. PageEdits
    BY <1>1 DEF PageEdits
  <2>3. LeftEdits /\ ClosedInv /\ StepValues
    BY <1>5, <1>6, <1>7 DEF LeftEdits, ClosedInv, StepValues
  <2>4. EditsComeFirst /\ StopKeepsEdits /\ SecretsStayOnPage
    BY <1>5, <1>6 DEF EditsComeFirst, StopKeepsEdits, SecretsStayOnPage
  <2> QED
    BY <2>1, <2>2, <2>3, <2>4 DEF EditInv
<1> QED
  BY <1>8, <1>9, <1>10, <1>11, <1>12 DEF Inv

LEMMA StutterKeeps ==
  ASSUME Inv, UNCHANGED vars
  PROVE  Inv'
<1>1. UNCHANGED <<page, person, nav, chan, rec, steps, ignored, through, out>>
  BY DEF vars
<1>2. /\ Active' = Active /\ Coming' = Coming /\ Pending' = Pending /\ Listening' = Listening
      /\ Now' = Now /\ Committed' = Committed
  BY <1>1 DEF Active, Coming, Pending, Listening, Now, Committed
<1>3. Types'
  BY <1>1, <1>2 DEF Inv, Types
<1>4. PlaceInv'
  BY <1>1, <1>2 DEF Inv, PlaceInv
<1>5. NavInv'
  BY <1>1, <1>2 DEF Inv, NavInv, CountedInv, HandInv, ComingInv, AfterInv, GestureInv
<1>6. MessageInv'
  BY <1>1, <1>2 DEF Inv, MessageInv
<1>7. EditInv'
  <2>1. GestureEdits'
    <3>1. \A d, edits : Reached(d, edits)' = Reached(d, edits)
      BY <1>1, <1>2 DEF Reached
    <3>2. \A d, f, v, n : Covered(d, f, v, n)' = Covered(d, f, v, n)
      BY <1>1, <1>2 DEF Covered, Kept, AtHand, Ahead
    <3>3. \A d, f, s : Underway(d, f, s)' = Underway(d, f, s)
      BY <1>1, <1>2 DEF Underway
    <3>4. \A d, f, v : Kept(d, f, v)' = Kept(d, f, v)
      BY <1>1 DEF Kept
    <3> QED
      BY <1>1, <1>2, <3>1, <3>2, <3>3, <3>4 DEF Inv, EditInv, GestureEdits
  <2>2. PageEdits' /\ LeftEdits'
    <3>1. \A d, edits : Reached(d, edits)' = Reached(d, edits)
      BY <1>1, <1>2 DEF Reached
    <3>2. \A d, f, v, n : Covered(d, f, v, n)' = Covered(d, f, v, n)
      BY <1>1, <1>2 DEF Covered, Kept, AtHand, Ahead
    <3>3. \A d, f, s : Underway(d, f, s)' = Underway(d, f, s)
      BY <1>1, <1>2 DEF Underway
    <3>4. PageEdits'
      BY <1>1, <1>2, <3>2, <3>3 DEF Inv, EditInv, PageEdits
    <3>5. LeftEdits'
      BY <1>1, <1>2, <3>1, <3>2, <3>3 DEF Inv, EditInv, LeftEdits
    <3> QED
      BY <3>4, <3>5
  <2>3. ClosedInv' /\ StepValues' /\ EditsComeFirst' /\ StopKeepsEdits' /\ SecretsStayOnPage'
    BY <1>1, <1>2 DEF Inv, EditInv, ClosedInv, StepValues, EditsComeFirst, StopKeepsEdits, SecretsStayOnPage
  <2> QED
    BY <2>1, <2>2, <2>3 DEF EditInv
<1> QED
  BY <1>3, <1>4, <1>5, <1>6, <1>7 DEF Inv

LEMMA PersonKeeps ==
  ASSUME Inv, Person, UNCHANGED out
  PROVE  Inv'
BY TypeKeeps, CommitKeeps, ChooseKeeps, GestureKeeps, NavigatesKeeps, CloseWindowKeeps, RequestsKeep
   DEF Person

LEMMA SiteKeeps ==
  ASSUME Inv, Site, UNCHANGED out
  PROVE  Inv'
BY RequestsKeep, NavigatesKeeps, ToggleMaskKeeps DEF Site

LEMMA ChannelKeeps ==
  ASSUME Inv, Channel, UNCHANGED out
  PROVE  Inv'
BY AnsweredKeeps, DeliverKeeps, LostKeeps DEF Channel

LEMMA RecorderKeeps ==
  ASSUME Inv, Recorder, UNCHANGED out
  PROVE  Inv'
<1>1. CASE Events
  BY <1>1, StartKeeps, PageStepKeeps, TakeKeeps, SameEventKeeps, NotedKeeps, HandleBrowserNavigationKeeps,
     HandleIgnoredNavigationKeeps, EndKeeps DEF Events
<1>2. CASE Act
  <2>1. ActLetThrough \/ ActHeldBack
    BY <1>2 DEF Act, ActLetThrough, ActHeldBack
  <2> QED
    BY <2>1, ActLetThroughKeeps, ActHeldBackKeeps
<1>3. CASE Settle
  <2>1. Unusable \/ SettleFound
    BY <1>3 DEF Settle, SettleFound, Await, At
  <2> QED
    BY <2>1, FailingKeeps, SettleFoundKeeps
<1>4. CASE Gesturing /\ ~Act /\ ~Settle
  BY <1>4, NotedKeeps, SameEventKeeps, ObserveBeforeKeeps, ArmKeeps, AddGestureKeeps DEF Gesturing
<1>5. CASE PinField \/ Examine \/ ReadField
  BY <1>5, SameEventKeeps, ExamineKeeps, ReadFieldKeeps
<1>6. CASE Flush \/ WaitDelivered \/ Drain \/ Drained
  BY <1>6, FlushKeeps, WaitDeliveredKeeps, DrainKeeps, EndKeeps
<1>7. CASE Failing
  BY <1>7, FailingKeeps DEF Failing
<1> QED
  BY <1>1, <1>2, <1>3, <1>4, <1>5, <1>6, <1>7 DEF Recorder

LEMMA NextKeeps ==
  ASSUME Inv, [Next]_vars
  PROVE  Inv'
<1>1. CASE UNCHANGED vars
  BY <1>1, StutterKeeps
<1>2. CASE CommandLine
  BY <1>2, CommandKeeps
<1>3. CASE (Person \/ Site \/ Channel \/ Recorder \/ Abort) /\ UNCHANGED out
  BY <1>3, PersonKeeps, SiteKeeps, ChannelKeeps, RecorderKeeps, FailingKeeps
<1> QED
  BY <1>1, <1>2, <1>3 DEF Next

LEMMA InvTypes ==
  ASSUME Inv
  PROVE  TypeOK
<1>1. Types
  BY DEF Inv
<1>2. /\ page \in PageRecord /\ person \in PersonRecord /\ nav \in NavRecord
      /\ chan \in ChanRecord /\ rec \in RecRecord
  BY <1>1 DEF Types
<1>3. page.doc \in 0..MaxDocs /\ page.value \in [Inputs -> Nat] /\ page.dirty \subseteq Fields
      /\ page.masked \subseteq Inputs /\ page.armed \in BOOLEAN /\ page.open \in BOOLEAN
      /\ page.busy \in Nat /\ page.sent \in Nat
  BY <1>2 DEF PageRecord, Edits
<1>4. page.busy \in 0..page.sent
  BY <1>1, <1>3 DEF Types
<1>5. person.left \in [Kinds -> Nat] /\ person.stopped \in BOOLEAN /\ nav.requested \in BOOLEAN
  BY <1>2 DEF PersonRecord, NavRecord
<1>6. \A w \in chan.waiting : w[1] \in 1..MaxDocs
  BY <1>2 DEF ChanRecord, Docs
<1>7. rec.pc \in Places /\ rec.before \in 0..MaxDocs
  BY <1>2 DEF RecRecord
<1>8. ignored \subseteq 1..MaxDocs /\ through \in 0..MaxDocs /\ out.file \in {"none", "other", "ours"}
      /\ Committed = page.doc /\ (nav.coming => nav.requested)
  BY <1>1 DEF Types, Docs
<1> QED
  BY <1>3, <1>4, <1>5, <1>6, <1>7, <1>8 DEF TypeOK

-----------------------------------------------------------------------------
(* What holds of every recording.                                          *)

\* No navigation of the main frame is recorded twice or forgotten: each one
\* committed up to `through` is in one step's effects or in one notice.
THEOREM NavigationsAreCountedOnce == Spec => []NavigationsCountedOnce
<1>1. Init => Inv
  BY InitHolds
<1>2. Inv /\ [Next]_vars => Inv'
  BY NextKeeps
<1>3. Inv => NavigationsCountedOnce
  BY DEF Inv, NavInv, CountedInv, NavigationsCountedOnce
<1> QED
  BY <1>1, <1>2, <1>3, PTL DEF Spec

\* The steps are what the person did: what a gesture rests on was filled before
\* it, stopping leaves no edit out, and no text the page masked is in them.
THEOREM StepsStayFaithful == Spec => []StepsAreFaithful
<1>1. Init => Inv
  BY InitHolds
<1>2. Inv /\ [Next]_vars => Inv'
  BY NextKeeps
<1>3. Inv => StepsAreFaithful
  BY InvTypes DEF Inv, EditInv, StepsAreFaithful
<1> QED
  BY <1>1, <1>2, <1>3, PTL DEF Spec
=============================================================================
