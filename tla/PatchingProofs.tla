---------------------------- MODULE PatchingProofs ----------------------------
(***************************************************************************)
(* Promoting heals is sound for every workflow, every number of processes  *)
(* and runs, and every policy: the versions are the log that VersionLog    *)
(* promises, no success that was counted is forgotten, every heal that     *)
(* became a version was verified as often as its policy asks, none comes   *)
(* back after a rollback, and records say what became of it.               *)
(***************************************************************************)
EXTENDS PatchingProperties, TLAPS, FiniteSetTheorems, SequenceTheorems, WellFoundedInduction

-----------------------------------------------------------------------------
(* Types.                                                                  *)

\* Where a process executes a run, where its run has succeeded, where heals are
\* left to be placed, and where a version is planned.
Working == Location \ {"idle", "planned"}
Succeeded == {"hold", "count", "place", "link", "replace", "record"}
Placing == {"place", "link"}
Planning == {"first", "planned", "link"}

\* What the location of a process says of the type of what it works on: a run
\* has a version to execute once it has its source, and a heal that is placed
\* after several successes is a pending patch.
Typed(p) ==
  /\ pc[p] \in Working => RunTypeOK(run[p])
  /\ pc[p] \in Succeeded => run[p].seen \in [Steps -> Seen]
  /\ pc[p] \in Placing =>
       /\ run[p].todo # {}
       /\ run[p].policy # "immediate" =>
            \A s \in run[p].todo : HealAt(run[p], s) \in DOMAIN run[p].patches
  /\ pc[p] \in Working \ {"link", "record"} => run[p].attempt < Attempts
  /\ pc[p] \in Planning => plan[p] \in Plans
  /\ pc[p] \in Working \ {"first"} => history # <<>>

TypeInv == TypeOK /\ \A p \in Procs : Typed(p)

-----------------------------------------------------------------------------
(* The lock on the pending patches, and what its holder has read.          *)

\* The process has read the pending patches and has not written them back.
Holding(p) == pc[p] \in {"count", "place", "link", "replace"} /\ run[p].policy # "immediate"

Held(p) ==
  /\ pc[p] \in {"hold", "count", "replace"} => run[p].policy # "immediate"
  /\ pc[p] = "count" => run[p].patches = pending
  /\ Holding(p) =>
       /\ lock = p
       /\ \A heal \in DOMAIN pending \cap DOMAIN run[p].patches :
            pending[heal].runs \subseteq run[p].patches[heal].runs

LockInv == \A p \in Procs : Held(p)

-----------------------------------------------------------------------------
(* Evidence: who verified what is tried, counted and published.            *)

IsChange(heal) == heal.new # heal.base.target

\* Runs that are known to have verified the heal.
Evidence(ids, heal, known) == ids # {} /\ \A id \in ids : <<id, heal>> \in known

Proven(patches, known) ==
  \A heal \in DOMAIN patches : IsChange(heal) /\ Evidence(patches[heal].runs, heal, known)

\* The heals that are left were verified by this run and, if they were to wait,
\* by as many as the policy asks for.
ToPlace(r, known) ==
  \A s \in r.todo :
    /\ IsChange(HealAt(r, s)) /\ <<r.id, HealAt(r, s)>> \in known
    /\ r.policy # "immediate" =>
         /\ r.id \in r.patches[HealAt(r, s)].runs
         /\ Cardinality(r.patches[HealAt(r, s)].runs) >= Required

\* A run at a location is backed by what is known to be verified.
Backed(r, at, known) ==
  /\ at \in Working => (\A heal \in r.tries : IsChange(heal)) /\ Proven(r.patches, known)
  /\ at \in Succeeded =>
       \A s \in Heals(r) \cup At(r, "tried") : <<r.id, HealAt(r, s)>> \in known
  /\ at \in Succeeded => \A s \in At(r, "tried") : IsChange(HealAt(r, s))
  /\ at \in Placing => ToPlace(r, known)

Supported(p) == Backed(run[p], pc[p], verified)

EvidenceInv == Proven(pending, verified) /\ \A p \in Procs : Supported(p)

-----------------------------------------------------------------------------
(* Plans: each is a true child of the version its process read, which stays *)
(* where it is however the history grows.                                   *)

PlannedByPerson(log, n, v) ==
  \/ n = 0 /\ v.change = First
  \/ n # 0 /\ v.change = Edit /\ v.content # log[n].content
  \/ \E m \in 1..(n - 1) :
       v.change = Rollback(m) /\ v.content = log[m].content /\ v.content # log[n].content

\* A rollback up to version n undid the heal.
Undone(log, n, heal) ==
  \E j \in 1..n :
    /\ log[j].change.kind = "rollback"
    /\ log[j].content[heal.step].target = heal.base.target
    /\ \E i \in 1..(j - 1) : IsHeal(log[i], heal) /\ log[j].change.restored < i

PlannedHeal(log, n, r, v) ==
  LET heal == HealAt(r, Current(r)) IN
  /\ n # 0 /\ v.change = Change(r)
  /\ v = HealVersion(log[n], v.change)
  /\ log[n].content[heal.step] = heal.base
  /\ ~HealProblem(log[n], v.change)
  /\ ~Undone(log, n, heal)

Planned(p) ==
  /\ pc[p] \in Planning => plan[p].parent <= Len(history)
  /\ pc[p] = "first" => plan[p].parent = 0
  /\ pc[p] \in {"first", "planned"} =>
       PlannedByPerson(history, plan[p].parent, plan[p].child)
  /\ pc[p] = "link" => PlannedHeal(history, plan[p].parent, run[p], plan[p].child)

PlanInv == \A p \in Procs : Planned(p)

-----------------------------------------------------------------------------
(* Versions: what is stored, as PatchingProperties states it; a heal has a  *)
(* parent.                                                                  *)

HealsHaveParents == \A n \in HealVersions : n # 1

VersionInv == HealsHaveParents /\ EvidenceIsReal /\ RolledBackStaysBack

-----------------------------------------------------------------------------
(* Reports: what is said of a heal is true of the versions, and a heal is   *)
(* left to be placed or has an outcome.                                     *)

Tells(log, r, o) ==
  LET named == log[o.version]
      heal == HealAt(r, o.step)
  IN /\ o.result \in {"published", "already_applied", "stale", "previously_rolled_back"} =>
          o.version \in 1..Len(log)
     /\ o.result = "published" => IsHeal(named, heal) /\ r.id \in named.change.runs
     /\ o.result = "already_applied" =>
          named.content[o.step] = [heal.base EXCEPT !.target = heal.new]
     /\ o.result = "previously_rolled_back" =>
          /\ named.change.kind = "rollback"
          /\ named.content[o.step].target = heal.base.target
     /\ o.result = "stale" => named.content[o.step] # heal.base

Told(r, s) == \E o \in r.outcomes : o.step = s /\ o.result # "discarded"

Reported(p) ==
  /\ pc[p] \in {"idle", "planned", "first", "tries", "running"} => run[p].outcomes = {}
  /\ \A o \in run[p].outcomes : Tells(history, run[p], o)
  /\ pc[p] \in {"hold", "count"} => Refused(run[p]) \subseteq run[p].outcomes
  /\ pc[p] \in {"place", "link", "replace"} =>
       \A s \in At(run[p], "healed") \cup At(run[p], "uncaptured") :
         s \in run[p].todo \/ Told(run[p], s)
  /\ pc[p] = "replace" => run[p].todo = {}
  /\ pc[p] = "record" =>
       \A s \in At(run[p], "healed") \cup At(run[p], "uncaptured") : Told(run[p], s)

ReportInv == \A p \in Procs : Reported(p)

Inv == TypeInv /\ LockInv /\ EvidenceInv /\ PlanInv /\ VersionInv /\ ReportInv

LEMMA InitInv == Init => Inv
<1> SUFFICES ASSUME Init PROVE Inv
  OBVIOUS
<1> USE PatchingAssumption DEF Init
<1>1. TypeOK
  BY DEF TypeOK, Location, Plans
<1>2. \A p \in Procs : Typed(p) /\ Held(p) /\ Supported(p) /\ Planned(p) /\ Reported(p)
  BY DEF Typed, Held, Holding, Supported, Backed, Planned, Reported, Working, Succeeded,
    Placing, Planning, NoRun, Run
<1>3. Proven(pending, verified)
  BY DEF Proven
<1>4. VersionInv
  BY DEF VersionInv, HealsHaveParents, EvidenceIsReal, RolledBackStaysBack, HealVersions
<1> QED
  BY <1>1, <1>2, <1>3, <1>4 DEF Inv, TypeInv, LockInv, EvidenceInv, PlanInv, ReportInv

-----------------------------------------------------------------------------
(* What is placed, and what a version is made of.                          *)

\* A set of numbers has a least: the initial segments up to its members, ordered
\* by inclusion, are finite sets.
LEMMA LeastNatural ==
  ASSUME NEW T \in SUBSET Nat, T # {}
  PROVE  \E n \in T : \A m \in T : n <= m
<1> DEFINE below == {0..n : n \in T}
           R == StrictSubsetOrdering(Nat)
<1>1. \A n \in T : IsFiniteSet(0..n)
  <2> TAKE n \in T
  <2>1. 0 \in Int /\ n \in Int
    OBVIOUS
  <2> QED BY <2>1, FS_Interval
<1>2. below \subseteq FiniteSubsetsOf(Nat) /\ below # {}
  <2>1. \A n \in T : 0..n \in SUBSET Nat
    OBVIOUS
  <2>2. \A n \in T : 0..n \in FiniteSubsetsOf(Nat)
    BY <1>1, <2>1 DEF FiniteSubsetsOf
  <2> QED
    BY <2>2
<1>3. PICK U \in below : \A V \in below : ~(<<V, U>> \in R)
  <2>1. IsWellFoundedOn(R, FiniteSubsetsOf(Nat))
    BY FS_StrictSubsetOrderingWellFounded
  <2> HIDE DEF below, R
  <2> QED
    BY <1>2, <2>1, WFMin
<1>4. PICK n \in T : U = 0..n
  BY <1>3
<1>5. ASSUME NEW m \in T, m < n PROVE FALSE
  <2>1. 0..m \subseteq 0..n /\ n \in 0..n /\ n \notin 0..m
    BY <1>5
  <2>2. 0..m \in SUBSET Nat /\ 0..n \in SUBSET Nat /\ 0..m # 0..n
    BY <2>1
  <2>3. <<0..m, 0..n>> \in R
    BY <2>1, <2>2 DEF StrictSubsetOrdering
  <2> QED
    BY <1>3, <1>4, <2>3
<1> QED
  BY <1>5

LEMMA CurrentIsLeft ==
  ASSUME NEW r, r.todo \subseteq Steps, r.todo # {}
  PROVE  Current(r) \in r.todo
<1> DEFINE tried == r.todo \cap At(r, "tried")
           first == IF tried # {} THEN tried ELSE r.todo
<1>1. first # {} /\ first \in SUBSET Nat /\ first \subseteq r.todo
  BY VersionsAssumption DEF Steps
<1>2. Current(r) = CHOOSE s \in first : \A t \in first : s <= t
  BY DEF Current
<1> HIDE DEF first
<1>3. \E s \in first : \A t \in first : s <= t
  BY <1>1, LeastNatural
<1> QED
  BY <1>1, <1>2, <1>3

LEMMA HealIsHeal ==
  ASSUME NEW r, NEW s \in Steps, r.content \in Content, r.seen \in [Steps -> Seen]
  PROVE  HealAt(r, s) \in Heal /\ HealAt(r, s).step = s /\ HealAt(r, s).base = r.content[s]
BY DEF HealAt, Heal, Content, Step, Seen

LEMMA VersionTypes ==
  /\ \A file \in Content : Version(file, First) \in [content : Content, change : Changes]
  /\ \A file \in Content : Version(file, Edit) \in [content : Content, change : Changes]
  /\ \A content \in Content, n \in Nat :
       Version(content, Rollback(n)) \in [content : Content, change : Changes]
BY DEF Version, Changes, First, Edit, Rollback

Versions == [content : Content, change : Changes]

LEMMA HealVersionType ==
  ASSUME NEW heal \in Heal, NEW approved \in BOOLEAN, NEW policy \in Policies,
         NEW ids \in SUBSET Runs
  PROVE  /\ HealChange(heal, approved, policy, ids) \in Changes
         /\ \A v \in Versions :
              HealVersion(v, HealChange(heal, approved, policy, ids)) \in Versions
<1> DEFINE change == HealChange(heal, approved, policy, ids)
<1>1. change \in Changes /\ change.step \in Steps /\ change.new \in Targets
  BY DEF HealChange, Changes, Heal, Step
<1> HIDE DEF change
<1>2. ASSUME NEW v \in Versions
      PROVE  HealVersion(v, change) \in Versions
  <2>1. [v.content[change.step] EXCEPT !.target = change.new] \in Step
    BY <1>1 DEF Versions, Content, Step
  <2>2. [v.content EXCEPT ![change.step].target = change.new] \in Content
    BY <1>1, <2>1 DEF Versions, Content
  <2> QED
    BY <1>1, <2>2 DEF HealVersion, Version, Versions
<1> QED
  BY <1>1, <1>2 DEF change

\* A process works on its own run and plan only.
OnlyMoves(p) ==
  /\ pc' \in [Procs -> Location] /\ DOMAIN run' = Procs /\ DOMAIN plan' = Procs
  /\ \A q \in Procs \ {p} : pc'[q] = pc[q] /\ run'[q] = run[q] /\ plan'[q] = plan[q]

\* What a step of one process keeps of the types, if what it writes has its own.
LEMMA MovesKeepTypes ==
  ASSUME TypeInv, NEW p \in Procs, OnlyMoves(p), Typed(p)',
         run'[p] = NoRun \/ RunTypeOK(run'[p]), plan'[p] \in Plans \cup {NoPlan},
         history' \in Seq(Versions), history # <<>> => history' # <<>>,
         DOMAIN pending' \subseteq Heal,
         \A heal \in DOMAIN pending' : pending'[heal] \in PendingPatch,
         lock' \in Procs \cup {NoProc}, runs' \in 0..MaxRuns, verified' \subseteq Runs \X Heal
  PROVE  TypeInv'
<1>1. TypeOK'
  BY DEF TypeInv, TypeOK, OnlyMoves, Versions
<1>2. ASSUME NEW q \in Procs, q # p PROVE Typed(q)'
  BY <1>2 DEF TypeInv, Typed, OnlyMoves
<1> QED
  BY <1>1, <1>2 DEF TypeInv

\* The changes its steps make to a run keep it one.
LEMMA RunUpdates ==
  ASSUME NEW r, RunTypeOK(r)
  PROVE  /\ \A content \in Content : RunTypeOK([r EXCEPT !.content = content])
         /\ \A tries \in SUBSET Heal : RunTypeOK([r EXCEPT !.tries = tries])
         /\ \A i \in 0..Attempts : RunTypeOK([r EXCEPT !.attempt = i])
BY DEF RunTypeOK

LEMMA OutcomeUpdates ==
  ASSUME NEW r, RunTypeOK(r),
         NEW outcomes \in SUBSET [step : Steps, result : Results, version : Nat]
  PROVE  /\ RunTypeOK([r EXCEPT !.outcomes = outcomes])
         /\ \A seen \in [Steps -> Seen], todo \in SUBSET Steps :
              RunTypeOK([r EXCEPT !.seen = seen, !.todo = todo, !.outcomes = outcomes])
BY DEF RunTypeOK

LEMMA PatchUpdates ==
  ASSUME NEW r, RunTypeOK(r), NEW patches, DOMAIN patches \subseteq Heal,
         \A heal \in DOMAIN patches : patches[heal] \in PendingPatch,
         NEW todo \in SUBSET Steps,
         NEW outcomes \in SUBSET [step : Steps, result : Results, version : Nat]
  PROVE  /\ RunTypeOK([r EXCEPT !.patches = patches])
         /\ RunTypeOK([r EXCEPT !.patches = patches, !.todo = todo, !.outcomes = outcomes])
         /\ RunTypeOK([r EXCEPT !.todo = todo, !.attempt = 0, !.outcomes = outcomes, !.patches = patches])
BY PatchingAssumption DEF RunTypeOK

LEMMA NewRun ==
  ASSUME NEW id \in Runs, NEW policy \in Policies, NEW content \in Content
  PROVE  /\ RunTypeOK(Run(id, policy, content))
         /\ Run(id, policy, content).attempt = 0
         /\ Run(id, policy, content).policy = policy
BY PatchingAssumption DEF RunTypeOK, Run, NoRun

LEMMA LatestIsVersion ==
  ASSUME history \in Seq(Versions), history # <<>>
  PROVE  /\ Len(history) \in Nat \ {0}
         /\ Latest(history) \in Versions /\ Latest(history).content \in Content
<1>1. Len(history) \in Nat \ {0}
  BY EmptySeq, LenProperties
<1>2. history[Len(history)] \in Versions
  BY <1>1, ElementOfSeq
<1> QED
  BY <1>1, <1>2 DEF Latest, Versions

LEMMA Appended ==
  ASSUME history \in Seq(Versions), NEW v \in Versions
  PROVE  /\ Append(history, v) \in Seq(Versions) /\ Append(history, v) # <<>>
         /\ Len(Append(history, v)) = Len(history) + 1
         /\ Append(history, v)[Len(history) + 1] = v
         /\ \A n \in 1..Len(history) : Append(history, v)[n] = history[n]
OBVIOUS

\* What each action writes.  A run starts, or a command of a person ends.
LEMMA StartTypes ==
  ASSUME TypeInv, NEW p \in Procs, StartRun(p)
  PROVE  TypeInv'
<1> USE DEF StartRun, To, Keep, Plan, Sourced
<1>1. /\ history \in Seq(Versions) /\ pc \in [Procs -> Location]
      /\ DOMAIN run = Procs /\ DOMAIN plan = Procs /\ plan[p] \in Plans \cup {NoPlan}
      /\ runs \in 0..MaxRuns
  BY DEF TypeInv, TypeOK, Versions
<1>2. runs + 1 \in Runs
  BY <1>1, PatchingAssumption DEF Runs
<1>3. PICK file \in Files, policy \in Policies :
        \/ /\ history = <<>>
           /\ To(p, "first") /\ Keep(p, Run(runs + 1, policy, file))
           /\ Plan(p, 0, Version(file, First))
        \/ /\ Saves(history, file)
           /\ Sourced(p, Run(runs + 1, policy, Latest(history).content))
           /\ UNCHANGED plan
  OBVIOUS
<1>4. file \in Content
  BY PatchingAssumption
<1>5. OnlyMoves(p)
  BY <1>1, <1>3 DEF OnlyMoves, Location
<1>6. /\ RunTypeOK(run'[p])
      /\ plan'[p] \in Plans \cup {NoPlan}
      /\ Typed(p)'
  <2>1. CASE /\ history = <<>>
             /\ To(p, "first") /\ Keep(p, Run(runs + 1, policy, file))
             /\ Plan(p, 0, Version(file, First))
    <3>1. [parent |-> 0, child |-> Version(file, First)] \in Plans
      BY <1>4, VersionTypes DEF Plans
    <3> QED
      BY <1>1, <1>2, <1>4, <2>1, <3>1, NewRun, PatchingAssumption
        DEF Typed, Working, Succeeded, Placing, Planning
  <2>2. CASE /\ Saves(history, file)
             /\ Sourced(p, Run(runs + 1, policy, Latest(history).content))
             /\ UNCHANGED plan
    <3>1. history # <<>>
      BY <2>2 DEF Saves
    <3>2. RunTypeOK(run'[p]) /\ run'[p].attempt = 0
      BY <1>1, <1>2, <2>2, <3>1, LatestIsVersion, NewRun
    <3> QED
      BY <1>1, <2>2, <3>1, <3>2, PatchingAssumption
        DEF Typed, Working, Succeeded, Placing, Planning
  <2> QED
    BY <1>3, <2>1, <2>2
<1>7. /\ history' = history /\ lock' \in Procs \cup {NoProc} /\ runs' \in 0..MaxRuns
      /\ verified' \subseteq Runs \X Heal /\ DOMAIN pending' \subseteq Heal
      /\ \A heal \in DOMAIN pending' : pending'[heal] \in PendingPatch
  BY <1>2 DEF TypeInv, TypeOK, Runs
<1> QED
  BY <1>1, <1>5, <1>6, <1>7, MovesKeepTypes

LEMMA LeaveTypes ==
  ASSUME TypeInv, NEW p \in Procs, Leave(p),
         history' \in Seq(Versions), history # <<>> => history' # <<>>,
         lock' \in Procs \cup {NoProc}, UNCHANGED <<pending, runs, verified>>
  PROVE  TypeInv'
<1>1. OnlyMoves(p) /\ pc'[p] = "idle" /\ run'[p] = NoRun /\ plan'[p] = NoPlan
  BY DEF TypeInv, TypeOK, Leave, To, Keep, Unplan, OnlyMoves, Location
<1>2. Typed(p)'
  BY <1>1 DEF Typed, Working, Succeeded, Placing, Planning
<1> QED
  BY <1>1, <1>2, MovesKeepTypes DEF TypeInv, TypeOK

\* What a run executes and saw does not change while its heals are placed.
SameRun(p) ==
  /\ run'[p].id = run[p].id /\ run'[p].policy = run[p].policy
  /\ run'[p].content = run[p].content /\ run'[p].tries = run[p].tries
  /\ run'[p].seen = run[p].seen

LEMMA SameHeals ==
  ASSUME NEW p, SameRun(p)
  PROVE  /\ \A s : HealAt(run'[p], s) = HealAt(run[p], s)
         /\ \A how : At(run'[p], how) = At(run[p], how)
         /\ Heals(run'[p]) = Heals(run[p]) /\ Refused(run'[p]) = Refused(run[p])
BY DEF SameRun, HealAt, At, Heals, Refused, Unapproved

\* The current heal is settled: it gets its outcome, and leaves the others alone.
LEMMA SettleSays ==
  ASSUME TypeInv, NEW p \in Procs, pc[p] \in Placing,
         NEW result \in Results, NEW n \in Nat, Settle(p, result, n)
  PROVE  LET s == Current(run[p]) IN
         /\ s \in run[p].todo /\ run[p].todo \subseteq Steps
         /\ SameRun(p) /\ RunTypeOK(run'[p])
         /\ run'[p].todo = run[p].todo \ {s} /\ run'[p].attempt = 0
         /\ run'[p].outcomes = run[p].outcomes \cup {Outcome(s, result, n)}
         /\ DOMAIN run'[p].patches \subseteq DOMAIN run[p].patches
         /\ \A heal \in DOMAIN run'[p].patches : run'[p].patches[heal] = run[p].patches[heal]
         /\ \A t \in run'[p].todo : HealAt(run[p], t) \in DOMAIN run[p].patches
                                      => HealAt(run[p], t) \in DOMAIN run'[p].patches
         /\ pc'[p] = IF run'[p].todo # {} THEN "place"
                     ELSE IF run[p].policy = "immediate" THEN "record" ELSE "replace"
         /\ \A q \in Procs \ {p} : pc'[q] = pc[q] /\ run'[q] = run[q]
         /\ pc' \in [Procs -> Location] /\ DOMAIN run' = Procs
<1> DEFINE r == run[p]
           s == Current(r)
           rest == r.todo \ {s}
           left == DOMAIN r.patches \ (IF result = "conflict" THEN {} ELSE {HealAt(r, s)})
           patches == [heal \in left |-> r.patches[heal]]
           outcomes == r.outcomes \cup {Outcome(s, result, n)}
           new == [r EXCEPT !.todo = rest, !.attempt = 0, !.outcomes = outcomes, !.patches = patches]
<1>1. RunTypeOK(r) /\ r.todo # {} /\ r.todo \subseteq Steps
  BY DEF TypeInv, Typed, Working, Location, Placing, RunTypeOK
<1>2. s \in r.todo
  BY <1>1, CurrentIsLeft
<1>3. RunTypeOK(new)
  <2>1. outcomes \in SUBSET [step : Steps, result : Results, version : Nat]
    BY <1>1, <1>2 DEF RunTypeOK, Outcome
  <2>2. rest \in SUBSET Steps
    BY <1>1
  <2>3. /\ DOMAIN patches \subseteq Heal
        /\ \A heal \in DOMAIN patches : patches[heal] \in PendingPatch
    BY <1>1 DEF RunTypeOK
  <2> HIDE DEF outcomes, rest, patches, r
  <2> QED
    BY <1>1, <2>1, <2>2, <2>3, PatchUpdates
<1>4. /\ new.id = r.id /\ new.policy = r.policy /\ new.content = r.content
      /\ new.tries = r.tries /\ new.seen = r.seen /\ new.todo = rest
      /\ new.attempt = 0 /\ new.outcomes = outcomes /\ new.patches = patches
  BY <1>1 DEF RunTypeOK, NoRun, Run
<1>5. /\ run' = [run EXCEPT ![p] = new]
      /\ pc' = [pc EXCEPT ![p] = IF rest # {} THEN "place"
                                 ELSE IF r.policy = "immediate" THEN "record" ELSE "replace"]
  BY DEF Settle, Keep, To
<1>6. \A t \in rest : HealAt(r, t) # HealAt(r, s)
  BY DEF HealAt
<1>7. DOMAIN run = Procs /\ pc \in [Procs -> Location]
  BY DEF TypeInv, TypeOK
<1>8. run'[p] = new
  BY <1>5, <1>7
<1> HIDE DEF new
<1> QED
  BY <1>1, <1>2, <1>3, <1>4, <1>5, <1>6, <1>7, <1>8 DEF SameRun, Location

\* Where a heal stands says what the latest version, or an earlier one, is.
LEMMA PlaceSays ==
  ASSUME NEW log \in Seq(Versions), log # <<>>, NEW heal
  PROVE  LET placed == Place(log, heal)
             current == Latest(log).content[heal.step] IN
         /\ placed.placement \in Placement /\ placed.version \in 1..Len(log)
         /\ placed.placement = "publish" =>
              current = heal.base /\ UndoingRollbacks(log, heal) = {}
         /\ placed.placement = "already_applied" =>
              /\ placed.version = Len(log)
              /\ current = [heal.base EXCEPT !.target = heal.new]
         /\ placed.placement = "stale" => placed.version = Len(log) /\ current # heal.base
         /\ placed.placement = "previously_rolled_back" =>
              placed.version \in UndoingRollbacks(log, heal)
<1>1. Len(log) \in 1..Len(log)
  BY EmptySeq, LenProperties
<1>2. UndoingRollbacks(log, heal) \subseteq 1..Len(log)
  BY DEF UndoingRollbacks
<1>3. UndoingRollbacks(log, heal) # {} =>
        (CHOOSE j \in UndoingRollbacks(log, heal) : TRUE) \in UndoingRollbacks(log, heal)
  OBVIOUS
<1> QED
  BY <1>1, <1>2, <1>3 DEF Place, Placed, Placement

\* The change of the heal that is placed, and what it says.
LEMMA ChangeSays ==
  ASSUME TypeInv, NEW p \in Procs, pc[p] \in Placing
  PROVE  LET r == run[p]
             heal == HealAt(r, Current(r)) IN
         /\ Current(r) \in Steps /\ Current(r) \in r.todo
         /\ heal \in Heal /\ heal.step = Current(r) /\ heal.base = r.content[heal.step]
         /\ Change(r) \in Changes
         /\ Change(r).kind = "heal" /\ Change(r).step = heal.step
         /\ Change(r).old = heal.base.target /\ Change(r).new = heal.new
         /\ Change(r).policy = r.policy
         /\ Change(r).runs = IF r.policy = "immediate" THEN {r.id} ELSE r.patches[heal].runs
         /\ \A v \in Versions : HealVersion(v, Change(r)) \in Versions
<1> DEFINE r == run[p]
           heal == HealAt(r, Current(r))
           approved == IF r.policy = "immediate" THEN r.seen[heal.step].approved
                       ELSE r.patches[heal].approved
           ids == IF r.policy = "immediate" THEN {r.id} ELSE r.patches[heal].runs
<1>1. /\ RunTypeOK(r) /\ r.todo # {} /\ r.todo \subseteq Steps /\ r.seen \in [Steps -> Seen]
      /\ r.policy # "immediate" => \A s \in r.todo : HealAt(r, s) \in DOMAIN r.patches
  BY DEF TypeInv, Typed, Working, Succeeded, Location, Placing, RunTypeOK
<1>2. Current(r) \in r.todo /\ Current(r) \in Steps
  BY <1>1, CurrentIsLeft
<1>3. heal \in Heal /\ heal.step = Current(r) /\ heal.base = r.content[heal.step]
  BY <1>1, <1>2, HealIsHeal DEF RunTypeOK
<1>4. /\ approved \in BOOLEAN /\ ids \in SUBSET Runs /\ r.policy \in Policies
  BY <1>1, <1>2, <1>3 DEF RunTypeOK, PendingPatch, Seen
<1>5. Change(r) = HealChange(heal, approved, r.policy, ids)
  BY DEF Change
<1> HIDE DEF heal, approved, ids, r
<1>6. /\ Change(r) \in Changes
      /\ \A v \in Versions : HealVersion(v, Change(r)) \in Versions
  BY <1>3, <1>4, <1>5, HealVersionType
<1>7. /\ Change(r).kind = "heal" /\ Change(r).step = heal.step
      /\ Change(r).old = heal.base.target /\ Change(r).new = heal.new
      /\ Change(r).policy = r.policy /\ Change(r).runs = ids
  BY <1>5 DEF HealChange
<1> QED
  BY <1>2, <1>3, <1>6, <1>7 DEF r, heal, ids

LEMMA PlaceTypes ==
  ASSUME TypeInv, NEW p \in Procs, PlaceHeal(p)
  PROVE  TypeInv'
<1> DEFINE r == run[p]
           placed == Place(history, HealAt(r, Current(r)))
           next == [r EXCEPT !.attempt = @ + 1]
<1>1. /\ pc[p] = "place" /\ pc[p] \in Placing /\ history \in Seq(Versions) /\ history # <<>>
      /\ RunTypeOK(r) /\ DOMAIN run = Procs /\ DOMAIN plan = Procs
      /\ pc \in [Procs -> Location] /\ plan[p] \in Plans \cup {NoPlan}
      /\ r.attempt < Attempts /\ Typed(p)
  <2>1. pc[p] = "place" /\ Typed(p) /\ TypeOK
    BY DEF PlaceHeal, TypeInv
  <2>2. pc[p] \in Placing /\ RunTypeOK(r) /\ history # <<>> /\ r.attempt < Attempts
    BY <2>1 DEF Typed, Working, Location, Placing
  <2> QED
    BY <2>1, <2>2 DEF TypeOK, Versions
<1>2. Len(history) \in Nat /\ Latest(history) \in Versions
  BY <1>1, LatestIsVersion
<1>3. /\ placed.placement \in Results \cup {"publish"} /\ placed.version \in Nat
      /\ "refused" \in Results
  <2>1. placed.placement \in Placement /\ placed.version \in 1..Len(history)
    BY <1>1, PlaceSays
  <2> QED
    BY <1>2, <2>1 DEF Placement, Results
<1>4. /\ UNCHANGED <<history, pending, lock, runs, verified>>
      /\ \/ placed.placement # "publish" /\ Settle(p, placed.placement, placed.version)
            /\ UNCHANGED plan
         \/ Settle(p, "refused", 0) /\ UNCHANGED plan
         \/ /\ Plan(p, Len(history), HealVersion(Latest(history), Change(r)))
            /\ Keep(p, next) /\ To(p, "link")
  BY DEF PlaceHeal
<1>5. ASSUME NEW result \in Results, NEW n \in Nat, Settle(p, result, n), UNCHANGED plan
      PROVE  OnlyMoves(p) /\ RunTypeOK(run'[p]) /\ plan'[p] \in Plans \cup {NoPlan} /\ Typed(p)'
  <2>1. /\ OnlyMoves(p) /\ RunTypeOK(run'[p]) /\ SameRun(p) /\ run'[p].attempt = 0
        /\ pc'[p] = IF run'[p].todo # {} THEN "place"
                    ELSE IF run[p].policy = "immediate" THEN "record" ELSE "replace"
        /\ run'[p].todo \subseteq run[p].todo
        /\ \A t \in run'[p].todo : HealAt(run[p], t) \in DOMAIN run[p].patches
                                     => HealAt(run[p], t) \in DOMAIN run'[p].patches
    BY <1>1, <1>5, SettleSays DEF OnlyMoves
  <2>2. \A s : HealAt(run'[p], s) = HealAt(run[p], s)
    BY <2>1, SameHeals
  <2> QED
    BY <1>1, <1>4, <1>5, <2>1, <2>2, PatchingAssumption
      DEF Typed, SameRun, Working, Succeeded, Placing, Planning, Location
<1>6. ASSUME Plan(p, Len(history), HealVersion(Latest(history), Change(r))),
             Keep(p, next), To(p, "link")
      PROVE  OnlyMoves(p) /\ RunTypeOK(run'[p]) /\ plan'[p] \in Plans \cup {NoPlan} /\ Typed(p)'
  <2>1. r.attempt + 1 \in 0..Attempts
    BY <1>1, PatchingAssumption DEF RunTypeOK
  <2>2. RunTypeOK(next)
    BY <1>1, <2>1, RunUpdates
  <2>3. /\ run'[p] = next /\ pc'[p] = "link"
        /\ plan'[p] = [parent |-> Len(history), child |-> HealVersion(Latest(history), Change(r))]
        /\ OnlyMoves(p)
    BY <1>1, <1>6 DEF Plan, Keep, To, OnlyMoves, Location
  <2>4. SameRun(p) /\ next.todo = r.todo /\ next.patches = r.patches
    BY <1>1, <2>3 DEF SameRun, RunTypeOK, NoRun, Run
  <2>5. plan'[p] \in Plans
    <3>1. HealVersion(Latest(history), Change(r)) \in Versions
      BY <1>1, <1>2, ChangeSays
    <3> QED
      BY <1>2, <2>3, <3>1 DEF Plans, Versions
  <2>6. \A s : HealAt(run'[p], s) = HealAt(run[p], s)
    BY <2>4, SameHeals
  <2> HIDE DEF next
  <2> QED
    BY <1>1, <1>4, <2>2, <2>3, <2>4, <2>5, <2>6
      DEF Typed, SameRun, Working, Succeeded, Placing, Planning, Location
<1>7. OnlyMoves(p) /\ RunTypeOK(run'[p]) /\ plan'[p] \in Plans \cup {NoPlan} /\ Typed(p)'
  BY <1>3, <1>4, <1>5, <1>6
<1> QED
  BY <1>1, <1>4, <1>7, MovesKeepTypes DEF TypeInv, TypeOK

LEMMA LinkTypes ==
  ASSUME TypeInv, NEW p \in Procs, LinkHeal(p) \/ Conflict(p)
  PROVE  TypeInv'
<1>1. /\ pc[p] = "link" /\ pc[p] \in Placing /\ Typed(p) /\ TypeOK
      /\ DOMAIN run = Procs /\ DOMAIN plan = Procs /\ pc \in [Procs -> Location]
      /\ history \in Seq(Versions) /\ Unplan(p)
      /\ UNCHANGED <<pending, lock, runs, verified>>
  BY DEF LinkHeal, Conflict, TypeInv, TypeOK, Placing, Versions
<1>2. history # <<>> /\ plan[p] \in Plans /\ RunTypeOK(run[p])
  BY <1>1 DEF Typed, Working, Planning, Location
<1>3. Len(history) + 1 \in Nat
  BY <1>1, LenProperties
<1>4. history' \in Seq(Versions) /\ history' # <<>>
  <2>1. plan[p].child \in Versions
    BY <1>2 DEF Plans, Versions
  <2> QED
    BY <1>1, <1>2, <2>1, Appended DEF LinkHeal, Conflict
<1>5. plan'[p] = NoPlan /\ DOMAIN plan' = Procs /\ \A q \in Procs \ {p} : plan'[q] = plan[q]
  BY <1>1 DEF Unplan
<1>6. ASSUME NEW result \in Results, NEW n \in Nat, Settle(p, result, n)
      PROVE  OnlyMoves(p) /\ RunTypeOK(run'[p]) /\ Typed(p)'
  <2>1. /\ OnlyMoves(p) /\ RunTypeOK(run'[p]) /\ SameRun(p) /\ run'[p].attempt = 0
        /\ pc'[p] = IF run'[p].todo # {} THEN "place"
                    ELSE IF run[p].policy = "immediate" THEN "record" ELSE "replace"
        /\ run'[p].todo \subseteq run[p].todo
        /\ \A t \in run'[p].todo : HealAt(run[p], t) \in DOMAIN run[p].patches
                                     => HealAt(run[p], t) \in DOMAIN run'[p].patches
    BY <1>1, <1>5, <1>6, SettleSays DEF OnlyMoves
  <2>2. \A s : HealAt(run'[p], s) = HealAt(run[p], s)
    BY <2>1, SameHeals
  <2> QED
    BY <1>1, <1>4, <2>1, <2>2, PatchingAssumption
      DEF Typed, SameRun, Working, Succeeded, Placing, Planning, Location
<1>7. ASSUME run[p].attempt < Attempts, To(p, "place"), UNCHANGED run
      PROVE  OnlyMoves(p) /\ RunTypeOK(run'[p]) /\ Typed(p)'
  <2>1. OnlyMoves(p) /\ pc'[p] = "place" /\ run'[p] = run[p]
    BY <1>1, <1>5, <1>7 DEF To, OnlyMoves, Location
  <2> QED
    BY <1>1, <1>2, <1>4, <1>7, <2>1
      DEF Typed, Working, Succeeded, Placing, Planning, Location
<1>8. OnlyMoves(p) /\ RunTypeOK(run'[p]) /\ Typed(p)'
  <2>1. {"published", "conflict"} \subseteq Results /\ 0 \in Nat
    BY DEF Results
  <2> QED
    BY <1>3, <1>6, <1>7, <2>1 DEF LinkHeal, Conflict
<1> QED
  BY <1>1, <1>4, <1>5, <1>8, MovesKeepTypes DEF TypeOK

\* The source of a run, and what its steps saw.
LEMMA SourceTypes ==
  ASSUME TypeInv, NEW p \in Procs, PublishFirst(p) \/ ChooseAgain(p) \/ ReadTries(p)
  PROVE  TypeInv'
<1>1. /\ pc[p] \in {"first", "tries"} /\ Typed(p) /\ TypeOK
      /\ DOMAIN run = Procs /\ DOMAIN plan = Procs /\ pc \in [Procs -> Location]
      /\ history \in Seq(Versions) /\ plan[p] \in Plans \cup {NoPlan}
  BY DEF PublishFirst, ChooseAgain, ReadTries, TypeInv, TypeOK, Versions
<1>2. /\ RunTypeOK(run[p]) /\ run[p].attempt < Attempts
      /\ pc[p] = "first" => plan[p] \in Plans
      /\ pc[p] = "tries" => history # <<>>
  BY <1>1 DEF Typed, Working, Planning, Location
<1>3. CASE PublishFirst(p)
  <2>1. history' \in Seq(Versions) /\ history' # <<>>
    <3>1. plan[p].child \in Versions
      BY <1>2, <1>3 DEF Plans, Versions, PublishFirst
    <3> QED
      BY <1>1, <1>3, <3>1, Appended DEF PublishFirst, SameBytes
  <2>2. /\ OnlyMoves(p) /\ run'[p] = run[p] /\ plan'[p] = NoPlan
        /\ pc'[p] \in {"running", "tries"}
    BY <1>1, <1>3 DEF PublishFirst, Sourced, Keep, To, Unplan, OnlyMoves, Location
  <2>3. Typed(p)'
    BY <1>2, <2>1, <2>2 DEF Typed, Working, Succeeded, Placing, Planning
  <2> QED
    BY <1>1, <1>2, <1>3, <2>1, <2>2, <2>3, MovesKeepTypes DEF PublishFirst, TypeOK
<1>4. CASE ChooseAgain(p) /\ Saves(history, run[p].content)
  <2> DEFINE r == [run[p] EXCEPT !.content = Latest(history).content]
  <2>1. history # <<>>
    BY <1>4 DEF Saves
  <2>2. RunTypeOK(r) /\ r.attempt = run[p].attempt
    BY <1>1, <1>2, <2>1, LatestIsVersion, RunUpdates DEF RunTypeOK, NoRun, Run
  <2>3. /\ OnlyMoves(p) /\ run'[p] = r /\ plan'[p] = NoPlan
        /\ pc'[p] \in {"running", "tries"}
    BY <1>1, <1>4 DEF ChooseAgain, Sourced, Keep, To, Unplan, OnlyMoves, Location
  <2> HIDE DEF r
  <2>4. Typed(p)'
    BY <1>2, <1>4, <2>1, <2>2, <2>3 DEF Typed, Working, Succeeded, Placing, Planning, ChooseAgain
  <2> QED
    BY <1>1, <1>4, <2>1, <2>2, <2>3, <2>4, MovesKeepTypes DEF ChooseAgain, TypeOK
<1>5. CASE ChooseAgain(p) /\ ~Saves(history, run[p].content)
  BY <1>1, <1>5, LeaveTypes DEF ChooseAgain, TypeOK
<1>6. CASE ReadTries(p)
  <2>1. PICK tries \in {{}, FirstTries(pending, run[p].content)} :
          Keep(p, [run[p] EXCEPT !.tries = tries])
    BY <1>6 DEF ReadTries
  <2> DEFINE r == [run[p] EXCEPT !.tries = tries]
  <2>2. tries \in SUBSET Heal
    BY <1>1, <2>1 DEF FirstTries, TypeOK
  <2>3. RunTypeOK(r) /\ r.attempt = run[p].attempt
    BY <1>2, <2>2, RunUpdates DEF RunTypeOK, NoRun, Run
  <2>4. OnlyMoves(p) /\ run'[p] = r /\ pc'[p] = "running" /\ plan'[p] = plan[p]
    BY <1>1, <1>6, <2>1 DEF ReadTries, Keep, To, OnlyMoves, Location
  <2> HIDE DEF r
  <2>5. Typed(p)'
    BY <1>2, <1>6, <2>3, <2>4 DEF Typed, Working, Succeeded, Placing, Planning, ReadTries
  <2> QED
    BY <1>1, <1>6, <2>3, <2>4, <2>5, MovesKeepTypes DEF ReadTries, TypeOK
<1> QED
  BY <1>3, <1>4, <1>5, <1>6

OutcomeSet == SUBSET [step : Steps, result : Results, version : Nat]

LEMMA RefusedTypes == \A r : Refused(r) \in OutcomeSet
BY DEF Refused, At, Unapproved, Outcome, OutcomeSet, Results

\* A run that succeeds leaves the heals that change something to be placed, and
\* has told of the others.
LEMMA SucceedSays ==
  ASSUME TypeInv, NEW p \in Procs, RunSucceeds(p)
  PROVE  LET new == run'[p] IN
         /\ RunTypeOK(new) /\ new.seen \in [Steps -> Seen]
         /\ new.id = run[p].id /\ new.policy = run[p].policy /\ new.content = run[p].content
         /\ new.tries = run[p].tries /\ new.patches = run[p].patches
         /\ new.attempt = run[p].attempt /\ new.attempt < Attempts
         /\ new.todo = IF new.policy = "immediate" THEN Heals(new) \ NoChange(new) ELSE {}
         /\ new.outcomes = Refused(new) \cup
              (IF new.policy = "immediate"
               THEN {Outcome(s, "refused", 0) : s \in NoChange(new)} ELSE {})
         /\ \A s \in Steps : Observable(new, s)
         /\ verified' = verified \cup
              {<<new.id, HealAt(new, s)>> : s \in Heals(new) \cup At(new, "tried")}
         /\ pc'[p] = IF new.todo # {} THEN "place"
                     ELSE IF /\ new.policy # "immediate"
                             /\ Heals(new) \cup At(new, "tried") \cup At(new, "recorded") # {}
                     THEN "hold" ELSE "record"
         /\ OnlyMoves(p) /\ UNCHANGED <<history, pending, lock, plan, runs>>
<1>1. /\ pc[p] = "running" /\ RunTypeOK(run[p]) /\ run[p].attempt < Attempts
      /\ DOMAIN run = Procs /\ DOMAIN plan = Procs /\ pc \in [Procs -> Location]
      /\ UNCHANGED <<history, pending, lock, plan, runs>>
  BY DEF RunSucceeds, TypeInv, TypeOK, Typed, Working, Location
<1>2. PICK seen \in [Steps -> Seen] :
        LET r == [run[p] EXCEPT !.seen = seen]
            now == r.policy = "immediate"
            todo == IF now THEN Heals(r) \ NoChange(r) ELSE {}
            refused == IF now THEN {Outcome(s, "refused", 0) : s \in NoChange(r)} ELSE {}
        IN /\ \A s \in Steps : Observable(r, s)
           /\ Keep(p, [r EXCEPT !.todo = todo, !.outcomes = Refused(r) \cup refused])
           /\ verified' = verified \cup
                {<<r.id, HealAt(r, s)>> : s \in Heals(r) \cup At(r, "tried")}
           /\ To(p, IF todo # {} THEN "place"
                    ELSE IF ~now /\ Heals(r) \cup At(r, "tried") \cup At(r, "recorded") # {}
                    THEN "hold" ELSE "record")
  BY DEF RunSucceeds
<1> DEFINE r == [run[p] EXCEPT !.seen = seen]
           todo == IF r.policy = "immediate" THEN Heals(r) \ NoChange(r) ELSE {}
           refused == IF r.policy = "immediate"
                      THEN {Outcome(s, "refused", 0) : s \in NoChange(r)} ELSE {}
           new == [r EXCEPT !.todo = todo, !.outcomes = Refused(r) \cup refused]
<1>3. RunTypeOK(new)
  <2>1. Refused(r) \cup refused \in SUBSET [step : Steps, result : Results, version : Nat]
    BY RefusedTypes DEF OutcomeSet, NoChange, Heals, At, Outcome, Results
  <2>2. todo \in SUBSET Steps
    BY DEF Heals, At
  <2>3. new = [run[p] EXCEPT !.seen = seen, !.todo = todo, !.outcomes = Refused(r) \cup refused]
    OBVIOUS
  <2> HIDE DEF todo, refused, r
  <2> QED
    BY <1>1, <2>1, <2>2, <2>3, OutcomeUpdates
<1>4. /\ r.id = run[p].id /\ r.policy = run[p].policy /\ r.content = run[p].content
      /\ r.tries = run[p].tries /\ r.patches = run[p].patches /\ r.seen = seen
      /\ r.attempt = run[p].attempt /\ DOMAIN r = DOMAIN run[p]
  BY <1>1 DEF RunTypeOK, NoRun, Run
<1>5. /\ new.id = r.id /\ new.policy = r.policy /\ new.content = r.content
      /\ new.tries = r.tries /\ new.patches = r.patches /\ new.seen = r.seen
      /\ new.attempt = r.attempt /\ new.todo = todo /\ new.outcomes = Refused(r) \cup refused
  <2> HIDE DEF todo, refused
  <2> QED
    BY <1>1, <1>4 DEF RunTypeOK, NoRun, Run
<1> HIDE DEF r, new
<1>6. /\ \A s : HealAt(new, s) = HealAt(r, s) /\ (Observable(new, s) <=> Observable(r, s))
      /\ \A how : At(new, how) = At(r, how)
      /\ Heals(new) = Heals(r) /\ NoChange(new) = NoChange(r) /\ Refused(new) = Refused(r)
  BY <1>5 DEF HealAt, At, Heals, NoChange, Refused, Unapproved, Observable
<1>7. /\ run' = [run EXCEPT ![p] = new] /\ run'[p] = new
      /\ pc' = [pc EXCEPT ![p] = IF todo # {} THEN "place"
                   ELSE IF r.policy # "immediate" /\ Heals(r) \cup At(r, "tried") \cup At(r, "recorded") # {}
                   THEN "hold" ELSE "record"]
      /\ \A s \in Steps : Observable(r, s)
      /\ verified' = verified \cup
           {<<r.id, HealAt(r, s)>> : s \in Heals(r) \cup At(r, "tried")}
  <2>1. /\ Keep(p, new)
        /\ To(p, IF todo # {} THEN "place"
                 ELSE IF r.policy # "immediate" /\ Heals(r) \cup At(r, "tried") \cup At(r, "recorded") # {}
                 THEN "hold" ELSE "record")
        /\ \A s \in Steps : Observable(r, s)
        /\ verified' = verified \cup
             {<<r.id, HealAt(r, s)>> : s \in Heals(r) \cup At(r, "tried")}
    BY <1>2 DEF r, new
  <2> HIDE DEF todo
  <2> QED
    BY <1>1, <2>1 DEF Keep, To
<1>8. OnlyMoves(p)
  BY <1>1, <1>7 DEF OnlyMoves, Location
<1>9. /\ todo = IF new.policy = "immediate" THEN Heals(new) \ NoChange(new) ELSE {}
      /\ refused = IF new.policy = "immediate"
                   THEN {Outcome(s, "refused", 0) : s \in NoChange(new)} ELSE {}
      /\ {<<new.id, HealAt(new, s)>> : s \in Heals(new) \cup At(new, "tried")}
           = {<<r.id, HealAt(r, s)>> : s \in Heals(r) \cup At(r, "tried")}
  BY <1>5, <1>6
<1>10. pc'[p] = IF new.todo # {} THEN "place"
                ELSE IF /\ new.policy # "immediate"
                        /\ Heals(new) \cup At(new, "tried") \cup At(new, "recorded") # {}
                THEN "hold" ELSE "record"
  BY <1>1, <1>5, <1>6, <1>7, <1>9
<1> QED
  BY <1>1, <1>2, <1>3, <1>4, <1>5, <1>6, <1>7, <1>8, <1>9, <1>10

LEMMA SucceedTypes ==
  ASSUME TypeInv, NEW p \in Procs, RunSucceeds(p)
  PROVE  TypeInv'
<1> DEFINE new == run'[p]
<1>1. /\ RunTypeOK(new) /\ new.seen \in [Steps -> Seen] /\ new.attempt < Attempts
      /\ new.todo # {} => new.policy = "immediate"
      /\ pc'[p] = IF new.todo # {} THEN "place"
                  ELSE IF /\ new.policy # "immediate"
                          /\ Heals(new) \cup At(new, "tried") \cup At(new, "recorded") # {}
                  THEN "hold" ELSE "record"
      /\ OnlyMoves(p) /\ UNCHANGED <<history, pending, lock, plan, runs>>
      /\ verified' = verified \cup
           {<<new.id, HealAt(new, s)>> : s \in Heals(new) \cup At(new, "tried")}
  BY SucceedSays
<1>2. history # <<>> /\ TypeOK /\ plan[p] \in Plans \cup {NoPlan}
  BY DEF TypeInv, TypeOK, Typed, RunSucceeds, Working, Location
<1>3. Typed(p)'
  BY <1>1, <1>2 DEF Typed, Working, Succeeded, Placing, Planning
<1>4. verified' \subseteq Runs \X Heal
  <2>1. \A s \in Steps : HealAt(new, s) \in Heal
    BY <1>1, HealIsHeal DEF RunTypeOK
  <2>2. new.id \in Runs /\ Heals(new) \cup At(new, "tried") \subseteq Steps
    BY <1>1 DEF RunTypeOK, Heals, At
  <2> HIDE DEF new
  <2> QED
    BY <1>1, <1>2, <2>1, <2>2 DEF TypeOK
<1> QED
  BY <1>1, <1>2, <1>3, <1>4, MovesKeepTypes DEF TypeOK, Versions

LEMMA HoldTypes ==
  ASSUME TypeInv, NEW p \in Procs, Hold(p) \/ Replace(p)
  PROVE  TypeInv'
<1>1. /\ Typed(p) /\ TypeOK /\ DOMAIN run = Procs /\ DOMAIN plan = Procs
      /\ pc \in [Procs -> Location] /\ pc[p] \in {"hold", "replace"}
      /\ plan[p] \in Plans \cup {NoPlan}
  BY DEF Hold, Replace, TypeInv, TypeOK
<1>2. /\ RunTypeOK(run[p]) /\ run[p].seen \in [Steps -> Seen]
      /\ run[p].attempt < Attempts /\ history # <<>>
  BY <1>1 DEF Typed, Working, Succeeded, Location
<1>3. CASE Hold(p)
  <2> DEFINE r == [run[p] EXCEPT !.patches = pending]
  <2>1. RunTypeOK(r)
    BY <1>1, <1>2 DEF RunTypeOK, TypeOK
  <2>2. r.attempt = run[p].attempt /\ r.seen = run[p].seen
    BY <1>2 DEF RunTypeOK, NoRun, Run
  <2>3. OnlyMoves(p) /\ run'[p] = r /\ pc'[p] = "count" /\ lock' = p
        /\ UNCHANGED <<history, pending, plan, runs, verified>>
    BY <1>1, <1>3 DEF Hold, Keep, To, OnlyMoves, Location
  <2> HIDE DEF r
  <2>4. Typed(p)'
    BY <1>2, <2>1, <2>2, <2>3 DEF Typed, Working, Succeeded, Placing, Planning, Location
  <2> QED
    BY <1>1, <2>1, <2>3, <2>4, MovesKeepTypes DEF TypeOK, Versions
<1>4. CASE Replace(p)
  <2>1. OnlyMoves(p) /\ run'[p] = run[p] /\ pc'[p] = "record" /\ lock' = NoProc
        /\ pending' = run[p].patches /\ UNCHANGED <<history, plan, runs, verified>>
    BY <1>1, <1>4 DEF Replace, To, OnlyMoves, Location
  <2>2. Typed(p)'
    BY <1>2, <2>1 DEF Typed, Working, Succeeded, Placing, Planning, Location
  <2>3. DOMAIN pending' \subseteq Heal /\ \A heal \in DOMAIN pending' : pending'[heal] \in PendingPatch
    BY <1>2, <2>1 DEF RunTypeOK
  <2> QED
    BY <1>1, <1>2, <2>1, <2>2, <2>3, MovesKeepTypes DEF TypeOK, Versions
<1> QED
  BY <1>3, <1>4

\* What a hold counts: the patches it keeps, each heal's new count, and the heals
\* with enough of them.
Kept(r) ==
  {heal \in DOMAIN r.patches :
     ~Retired(heal, Latest(history).content, r.content, At(r, "recorded"))}

LEMMA CountSays ==
  ASSUME TypeInv, NEW p \in Procs, Count(p)
  PROVE  LET r == run[p]
             counted == Counted(r, Kept(r)) IN
         /\ counted \subseteq Steps /\ SameRun(p) /\ RunTypeOK(run'[p])
         /\ run'[p].attempt = r.attempt
         /\ run'[p].patches = NewPatches(r, Kept(r), counted)
         /\ run'[p].todo =
              {s \in counted : Cardinality(run'[p].patches[HealAt(r, s)].runs) >= Required}
         /\ run'[p].outcomes = r.outcomes \cup Displaced(r)
              \cup {Outcome(heal.step, "discarded", 0) : heal \in DOMAIN r.patches \ Kept(r)}
              \cup {Outcome(s, "pending", 0) : s \in counted \ run'[p].todo}
         /\ pc'[p] = IF run'[p].todo # {} THEN "place" ELSE "replace"
         /\ OnlyMoves(p) /\ UNCHANGED <<history, pending, lock, plan, runs, verified>>
<1> DEFINE r == run[p]
           kept == Kept(r)
           counted == Counted(r, kept)
           patches == NewPatches(r, kept, counted)
           enough == {s \in counted : Cardinality(patches[HealAt(r, s)].runs) >= Required}
           outcomes == r.outcomes \cup Displaced(r)
                         \cup {Outcome(heal.step, "discarded", 0) : heal \in DOMAIN r.patches \ kept}
                         \cup {Outcome(s, "pending", 0) : s \in counted \ enough}
           new == [r EXCEPT !.patches = patches, !.todo = enough, !.outcomes = outcomes]
<1>1. /\ pc[p] = "count" /\ RunTypeOK(r) /\ r.seen \in [Steps -> Seen]
      /\ history \in Seq(Versions) /\ history # <<>>
      /\ DOMAIN run = Procs /\ DOMAIN plan = Procs /\ pc \in [Procs -> Location]
  BY DEF Count, TypeInv, TypeOK, Typed, Working, Succeeded, Location, Versions
<1>2. counted \subseteq Steps /\ kept \subseteq DOMAIN r.patches
  BY DEF Counted, Heals, At, Kept
<1>3. \A s \in Steps : HealAt(r, s) \in Heal /\ HealAt(r, s).step = s
  BY <1>1, HealIsHeal DEF RunTypeOK
<1>4. DOMAIN patches \subseteq Heal /\ \A heal \in DOMAIN patches : patches[heal] \in PendingPatch
  <2> HIDE DEF kept, counted
  <2>1. patches = [heal \in kept \cup {HealAt(r, s) : s \in counted} |->
                     IF heal \notin {HealAt(r, s) : s \in counted} THEN r.patches[heal]
                     ELSE IF heal \in kept
                     THEN Patch(r.patches[heal].runs \cup {r.id}, r.patches[heal].approved)
                     ELSE Patch({r.id}, r.seen[heal.step].approved)]
    BY DEF NewPatches
  <2>2. \A heal \in kept : heal \in Heal /\ r.patches[heal] \in PendingPatch
    BY <1>1, <1>2 DEF RunTypeOK
  <2>3. r.id \in Runs
    BY <1>1 DEF RunTypeOK
  <2>4. \A heal \in {HealAt(r, s) : s \in counted} :
          heal \in Heal /\ r.seen[heal.step].approved \in BOOLEAN
    BY <1>1, <1>2, <1>3 DEF Seen
  <2> QED
    BY <2>1, <2>2, <2>3, <2>4 DEF Patch, PendingPatch
<1>5. outcomes \in SUBSET [step : Steps, result : Results, version : Nat]
  <2>1. Displaced(r) \in OutcomeSet
    <3>1. ASSUME NEW s \in Steps
          PROVE  LET placed == Place(history, HealAt(r, s)) IN
                 /\ placed.placement \in Placement /\ placed.version \in Nat
      <4>1. Place(history, HealAt(r, s)).version \in 1..Len(history)
            /\ Place(history, HealAt(r, s)).placement \in Placement
        BY <1>1, PlaceSays
      <4> QED
        BY <1>1, <4>1, LenProperties
    <3>2. {t \in Heals(r) : ~Placeable(r, t)} \subseteq Steps
          /\ {t \in NoChange(r) : Placeable(r, t)} \subseteq Steps
      BY DEF Heals, NoChange, At
    <3>3. \A s \in Heals(r) : ~Placeable(r, s) =>
            Place(history, HealAt(r, s)).placement \in Placement \ {"publish"}
      BY <3>1, <3>2 DEF Placeable
    <3>4. Placement \ {"publish"} \subseteq Results /\ "refused" \in Results
      BY DEF Placement, Results
    <3> QED
      BY <3>1, <3>2, <3>3, <3>4 DEF Displaced, Outcome, OutcomeSet
  <2>2. \A heal \in DOMAIN r.patches : heal.step \in Steps
    BY <1>1 DEF RunTypeOK, Heal
  <2>3. r.outcomes \in OutcomeSet
    BY <1>1 DEF RunTypeOK, OutcomeSet
  <2>4. {Outcome(heal.step, "discarded", 0) : heal \in DOMAIN r.patches \ kept} \in OutcomeSet
    BY <2>2 DEF Outcome, OutcomeSet, Results
  <2>5. {Outcome(s, "pending", 0) : s \in counted \ enough} \in OutcomeSet
    BY <1>2 DEF Outcome, OutcomeSet, Results
  <2> HIDE DEF kept, counted, enough
  <2> QED
    BY <2>1, <2>3, <2>4, <2>5 DEF OutcomeSet
<1>6. RunTypeOK(new)
  <2>1. enough \in SUBSET Steps
    BY <1>2
  <2> HIDE DEF patches, enough, outcomes, r
  <2> QED
    BY <1>1, <1>4, <1>5, <2>1, PatchUpdates
<1>7. /\ new.id = r.id /\ new.policy = r.policy /\ new.content = r.content /\ new.tries = r.tries
      /\ new.seen = r.seen /\ new.attempt = r.attempt /\ new.patches = patches
      /\ new.todo = enough /\ new.outcomes = outcomes
  <2> HIDE DEF patches, enough, outcomes
  <2> QED
    BY <1>1 DEF RunTypeOK, NoRun, Run
<1>8. /\ Keep(p, new) /\ To(p, IF enough # {} THEN "place" ELSE "replace")
      /\ UNCHANGED <<history, pending, lock, plan, runs, verified>>
  BY DEF Count, Kept
<1> HIDE DEF new, enough, patches, outcomes, counted
<1>9. /\ run'[p] = new /\ pc'[p] = IF enough # {} THEN "place" ELSE "replace"
      /\ OnlyMoves(p)
  BY <1>1, <1>8 DEF Keep, To, OnlyMoves, Location
<1>10. enough = {s \in counted : Cardinality(patches[HealAt(r, s)].runs) >= Required}
  BY DEF enough
<1> QED
  BY <1>2, <1>6, <1>7, <1>8, <1>9, <1>10 DEF SameRun, patches, outcomes, counted

LEMMA CountTypes ==
  ASSUME TypeInv, NEW p \in Procs, Count(p)
  PROVE  TypeInv'
<1> DEFINE r == run[p]
           counted == Counted(r, Kept(r))
<1>1. /\ SameRun(p) /\ RunTypeOK(run'[p]) /\ run'[p].attempt = r.attempt
      /\ run'[p].todo \subseteq counted
      /\ run'[p].patches = NewPatches(r, Kept(r), counted)
      /\ pc'[p] = IF run'[p].todo # {} THEN "place" ELSE "replace"
      /\ OnlyMoves(p) /\ UNCHANGED <<history, pending, lock, plan, runs, verified>>
  BY CountSays
<1>2. /\ TypeOK /\ history # <<>> /\ r.attempt < Attempts /\ r.seen \in [Steps -> Seen]
      /\ plan[p] \in Plans \cup {NoPlan}
  BY DEF TypeInv, TypeOK, Typed, Count, Working, Succeeded, Location
<1>3. \A s \in counted : HealAt(r, s) \in DOMAIN NewPatches(r, Kept(r), counted)
  BY DEF NewPatches
<1>4. \A s : HealAt(run'[p], s) = HealAt(r, s)
  BY <1>1, SameHeals
<1> HIDE DEF counted
<1>5. Typed(p)'
  BY <1>1, <1>2, <1>3, <1>4
    DEF Typed, SameRun, Working, Succeeded, Placing, Planning, Location
<1> QED
  BY <1>1, <1>2, <1>5, MovesKeepTypes DEF TypeOK, Versions

\* What a store that fails may have done all the same.
LEMMA MayLandSays ==
  ASSUME TypeInv, NEW p \in Procs, MayLand(p)
  PROVE  /\ history' = history \/
              /\ pc[p] = "link" /\ Unlinked(p)
              /\ plan[p].child \in Versions /\ history' = Append(history, plan[p].child)
         /\ pending' = pending \/
              /\ pc[p] = "replace" /\ RunTypeOK(run[p]) /\ pending' = run[p].patches
         /\ pc[p] = "replace" => UNCHANGED history
  BY DEF MayLand, TypeInv, Typed, Working, Planning, Location, Plans, Versions

LEMMA FailTypes ==
  ASSUME TypeInv, NEW p \in Procs, StoreFails(p)
  PROVE  TypeInv'
<1> DEFINE r == [run[p] EXCEPT !.outcomes = Refused(run[p]) \cup
                   {Outcome(s, "store_unavailable", 0) : s \in Heals(run[p])}]
<1>1. /\ TypeOK /\ pc[p] \in Promoting /\ RunTypeOK(run[p]) /\ run[p].seen \in [Steps -> Seen]
      /\ history # <<>> /\ DOMAIN run = Procs /\ DOMAIN plan = Procs
      /\ pc \in [Procs -> Location] /\ MayLand(p)
  BY DEF StoreFails, Promoting, TypeInv, TypeOK, Typed, Working, Succeeded, Location
<1>2. RunTypeOK(r)
  <2>1. {Outcome(s, "store_unavailable", 0) : s \in Heals(run[p])} \in OutcomeSet
    BY DEF Heals, At, Outcome, OutcomeSet, Results
  <2>2. Refused(run[p]) \in OutcomeSet
    BY RefusedTypes
  <2> QED
    BY <1>1, <2>1, <2>2, OutcomeUpdates DEF OutcomeSet
<1>3. r.seen = run[p].seen
  BY <1>1 DEF RunTypeOK, NoRun, Run
<1> HIDE DEF r
<1>4. /\ OnlyMoves(p) /\ run'[p] = r /\ pc'[p] = "record" /\ plan'[p] = NoPlan
      /\ lock' \in Procs \cup {NoProc} /\ UNCHANGED <<runs, verified>>
  BY <1>1 DEF StoreFails, Keep, To, Unplan, Unlock, OnlyMoves, Location, TypeOK, r
<1>5. /\ history' \in Seq(Versions) /\ history' # <<>>
      /\ DOMAIN pending' \subseteq Heal
      /\ \A heal \in DOMAIN pending' : pending'[heal] \in PendingPatch
  <2>1. history \in Seq(Versions)
    BY <1>1 DEF TypeOK, Versions
  <2>2. history' \in Seq(Versions) /\ history' # <<>>
    <3>1. CASE history' = history
      BY <1>1, <2>1, <3>1
    <3>2. CASE plan[p].child \in Versions /\ history' = Append(history, plan[p].child)
      BY <2>1, <3>2, Appended
    <3> QED
      BY <1>1, <3>1, <3>2, MayLandSays
  <2>3. pending' = pending \/ pending' = run[p].patches
    BY <1>1, MayLandSays
  <2> QED
    BY <1>1, <2>2, <2>3 DEF TypeOK, RunTypeOK
<1>6. Typed(p)'
  BY <1>1, <1>2, <1>3, <1>4, <1>5 DEF Typed, Working, Succeeded, Placing, Planning, Location
<1> QED
  BY <1>1, <1>2, <1>4, <1>5, <1>6, MovesKeepTypes DEF TypeOK

\* A person's plan is a version.
LEMMA PlanSays ==
  ASSUME TypeInv, NEW p \in Procs, PlanImport(p) \/ PlanRollback(p)
  PROVE  /\ plan'[p].parent = Len(history) /\ plan'[p] \in Plans
         /\ PlannedByPerson(history, Len(history), plan'[p].child)
         /\ pc[p] = "idle" /\ pc'[p] = "planned" /\ run' = run /\ OnlyMoves(p)
         /\ UNCHANGED <<history, pending, lock, runs, verified>>
<1>1. /\ history \in Seq(Versions) /\ DOMAIN run = Procs /\ DOMAIN plan = Procs
      /\ pc \in [Procs -> Location] /\ Len(history) \in Nat
      /\ Len(history) = 0 => history = <<>>
  BY EmptySeq, LenProperties DEF TypeInv, TypeOK, Versions
<1>2. PICK child : /\ child \in Versions /\ PlannedByPerson(history, Len(history), child)
                   /\ Plan(p, Len(history), child)
  <2>1. ASSUME NEW file \in Files, history # <<>> => file # Latest(history).content,
               Plan(p, Len(history), ImportVersion(history, file))
        PROVE  /\ ImportVersion(history, file) \in Versions
               /\ PlannedByPerson(history, Len(history), ImportVersion(history, file))
    <3>1. file \in Content
      BY PatchingAssumption
    <3>2. ImportVersion(history, file) = Version(file, IF history = <<>> THEN First ELSE Edit)
      BY DEF ImportVersion
    <3>3. CASE history = <<>>
      <4>1. Len(history) = 0
        BY <3>3
      <4> QED
        BY <3>1, <3>2, <3>3, <4>1, VersionTypes DEF PlannedByPerson, Version, Versions
    <3>4. CASE history # <<>>
      <4>1. Len(history) # 0 /\ file # history[Len(history)].content
        BY <1>1, <2>1, <3>4 DEF Latest
      <4> QED
        BY <3>1, <3>2, <3>4, <4>1, VersionTypes DEF PlannedByPerson, Version, Versions
    <3> QED
      BY <3>3, <3>4
  <2>2. ASSUME NEW n \in Restorable(history)
        PROVE  /\ RollBackVersion(history, n) \in Versions
               /\ PlannedByPerson(history, Len(history), RollBackVersion(history, n))
    <3>1. n \in 1..(Len(history) - 1) /\ history[n].content # Latest(history).content
      BY DEF Restorable
    <3>2. n \in Nat /\ history[n] \in Versions
      BY <1>1, <3>1, ElementOfSeq
    <3> QED
      BY <3>1, <3>2, VersionTypes DEF RollBackVersion, PlannedByPerson, Version, Versions, Latest
  <2> QED
    BY <2>1, <2>2 DEF PlanImport, PlanRollback, RollbackPlans
<1>3. To(p, "planned") /\ pc[p] = "idle" /\ UNCHANGED <<history, pending, lock, run, runs, verified>>
  BY DEF PlanImport, PlanRollback
<1> QED
  BY <1>1, <1>2, <1>3 DEF Plan, Plans, To, OnlyMoves, Location, Versions

LEMMA PersonTypes ==
  ASSUME TypeInv, NEW p \in Procs, PlanImport(p) \/ PlanRollback(p)
  PROVE  TypeInv'
<1>1. /\ plan'[p] \in Plans /\ pc[p] = "idle" /\ pc'[p] = "planned" /\ run' = run
      /\ OnlyMoves(p) /\ UNCHANGED <<history, pending, lock, runs, verified>>
  BY PlanSays
<1>2. TypeOK
  BY DEF TypeInv
<1>3. Typed(p)'
  BY <1>1 DEF Typed, Working, Succeeded, Placing, Planning
<1> QED
  BY <1>1, <1>2, <1>3, MovesKeepTypes DEF TypeOK, Versions

LEMMA EndTypes ==
  ASSUME TypeInv, NEW p \in Procs, RunFails(p) \/ Record(p) \/ PublishPlan(p) \/ Stops(p)
  PROVE  TypeInv'
<1>1. TypeOK /\ Typed(p) /\ Leave(p) /\ UNCHANGED <<pending, runs, verified>>
  BY DEF TypeInv, RunFails, Record, PublishPlan, Stops
<1>2. lock' \in Procs \cup {NoProc}
  BY <1>1 DEF TypeOK, RunFails, Record, PublishPlan, Stops, Unlock
<1>3. history' \in Seq(Versions) /\ (history # <<>> => history' # <<>>)
  <2>1. CASE PublishPlan(p)
    <3>1. plan[p].child \in Versions
      BY <1>1, <2>1 DEF PublishPlan, Typed, Planning, Plans, Versions
    <3> QED
      BY <1>1, <2>1, <3>1, Appended DEF PublishPlan, TypeOK, Versions
  <2>2. CASE history' = history
    BY <1>1, <2>2 DEF TypeOK, Versions
  <2> QED
    BY <2>1, <2>2 DEF RunFails, Record, Stops
<1> QED
  BY <1>1, <1>2, <1>3, LeaveTypes

LEMMA TypeStep == TypeInv /\ [Next]_vars => TypeInv'
<1> SUFFICES ASSUME TypeInv, [Next]_vars PROVE TypeInv'
  OBVIOUS
<1>1. CASE UNCHANGED vars
  BY <1>1 DEF vars, TypeInv, TypeOK, Typed
<1>2. CASE Next
  BY <1>2, StartTypes, SourceTypes, SucceedTypes, HoldTypes, CountTypes, PlaceTypes, LinkTypes,
    PersonTypes, FailTypes, EndTypes DEF Next
<1> QED
  BY <1>1, <1>2

\* Every variable of the processes that publish versions has its type, in the
\* change records, in the stores' documents and on the stack of a promotion.
THEOREM PatchingTypes == Spec => []TypeOK
<1>1. Init => TypeInv
  BY InitInv DEF Inv
<1>2. TypeInv => TypeOK
  BY DEF TypeInv
<1> QED
  BY <1>1, <1>2, TypeStep, PTL DEF Spec

-----------------------------------------------------------------------------
(* What the steps have in common.                                          *)

\* The steps of one process; Next is one of somebody's.
Acts(p) ==
  \/ StartRun(p) \/ PublishFirst(p) \/ ChooseAgain(p) \/ ReadTries(p)
  \/ RunFails(p) \/ RunSucceeds(p) \/ Record(p)
  \/ Hold(p) \/ Count(p) \/ Replace(p)
  \/ PlaceHeal(p) \/ LinkHeal(p) \/ Conflict(p)
  \/ PlanImport(p) \/ PlanRollback(p) \/ PublishPlan(p)
  \/ StoreFails(p) \/ Stops(p)

\* A step stores its own plan if it is still the next version, writes the pending
\* patches only at the end of a hold, and takes or gives back only its own lock.
Footprint(p) ==
  /\ OnlyMoves(p)
  /\ \/ history' = history
     \/ /\ pc[p] \in Planning /\ Unlinked(p) /\ plan[p].child \in Versions
        /\ history' = Append(history, plan[p].child)
  /\ \/ pending' = pending
     \/ pc[p] = "replace" /\ pending' = run[p].patches
  /\ \/ lock' = lock
     \/ lock = NoProc /\ lock' = p
     \/ lock' = NoProc /\ (lock = p \/ pc[p] = "replace")
  /\ verified \subseteq verified'

\* A place or a link settles the current heal, or goes on with it.
LEMMA PlacingSays ==
  ASSUME TypeInv, NEW p \in Procs, PlaceHeal(p) \/ LinkHeal(p) \/ Conflict(p)
  PROVE  /\ pc[p] \in Placing /\ OnlyMoves(p) /\ SameRun(p) /\ RunTypeOK(run'[p])
         /\ DOMAIN run'[p].patches \subseteq DOMAIN run[p].patches
         /\ \A heal \in DOMAIN run'[p].patches : run'[p].patches[heal] = run[p].patches[heal]
         /\ \/ /\ \E result \in Results, n \in Nat : Settle(p, result, n)
               /\ pc'[p] = IF run'[p].todo # {} THEN "place"
                           ELSE IF run[p].policy = "immediate" THEN "record" ELSE "replace"
            \/ /\ run'[p].todo = run[p].todo /\ run'[p].patches = run[p].patches
               /\ run'[p].outcomes = run[p].outcomes /\ pc'[p] \in Placing
<1> DEFINE r == run[p]
           next == [r EXCEPT !.attempt = @ + 1]
<1>1. /\ TypeOK /\ Typed(p) /\ pc[p] \in Placing /\ RunTypeOK(r) /\ history # <<>>
      /\ DOMAIN run = Procs /\ DOMAIN plan = Procs /\ pc \in [Procs -> Location]
      /\ history \in Seq(Versions)
  BY DEF PlaceHeal, LinkHeal, Conflict, TypeInv, TypeOK, Typed, Working, Placing, Location, Versions
<1>2. plan' = plan \/ Unplan(p) \/ Plan(p, Len(history), HealVersion(Latest(history), Change(r)))
  BY DEF PlaceHeal, LinkHeal, Conflict
<1>3. DOMAIN plan' = Procs /\ \A q \in Procs \ {p} : plan'[q] = plan[q]
  BY <1>1, <1>2 DEF Plan, Unplan
<1>4. ASSUME NEW result \in Results, NEW n \in Nat, Settle(p, result, n)
      PROVE  /\ OnlyMoves(p) /\ SameRun(p) /\ RunTypeOK(run'[p])
             /\ DOMAIN run'[p].patches \subseteq DOMAIN run[p].patches
             /\ \A heal \in DOMAIN run'[p].patches : run'[p].patches[heal] = run[p].patches[heal]
             /\ pc'[p] = IF run'[p].todo # {} THEN "place"
                         ELSE IF run[p].policy = "immediate" THEN "record" ELSE "replace"
  BY <1>1, <1>3, <1>4, SettleSays DEF OnlyMoves
<1>5. ASSUME \/ Keep(p, next) /\ To(p, "link")
             \/ To(p, "place") /\ UNCHANGED run
      PROVE  /\ OnlyMoves(p) /\ SameRun(p)
             /\ run'[p].todo = run[p].todo /\ run'[p].patches = run[p].patches
             /\ run'[p].outcomes = run[p].outcomes /\ pc'[p] \in Placing
  <2>1. /\ next.id = r.id /\ next.policy = r.policy /\ next.content = r.content
        /\ next.tries = r.tries /\ next.seen = r.seen /\ next.todo = r.todo
        /\ next.patches = r.patches /\ next.outcomes = r.outcomes
    BY <1>1 DEF RunTypeOK, NoRun, Run
  <2> HIDE DEF next
  <2>2. pc' \in [Procs -> Location] /\ pc'[p] \in Placing /\ \A q \in Procs \ {p} : pc'[q] = pc[q]
    BY <1>1, <1>5 DEF To, Placing, Location
  <2>3. /\ DOMAIN run' = Procs /\ \A q \in Procs \ {p} : run'[q] = run[q]
        /\ run'[p] = next \/ run'[p] = r
    BY <1>1, <1>5 DEF Keep
  <2> QED
    BY <1>3, <2>1, <2>2, <2>3 DEF OnlyMoves, SameRun
<1>6. \/ \E result \in Results, n \in Nat : Settle(p, result, n)
      \/ Keep(p, next) /\ To(p, "link")
      \/ To(p, "place") /\ UNCHANGED run
  <2>1. \A heal : Place(history, heal).placement \in Placement
                  /\ Place(history, heal).version \in 1..Len(history)
    BY <1>1, PlaceSays
  <2>2. Placement \ {"publish"} \subseteq Results
        /\ {"refused", "published", "conflict"} \subseteq Results
    BY DEF Placement, Results
  <2>3. Len(history) \in Nat /\ 1..Len(history) \subseteq Nat /\ 0 \in Nat /\ Len(history) + 1 \in Nat
    BY <1>1, LenProperties
  <2> QED
    BY <2>1, <2>2, <2>3 DEF PlaceHeal, LinkHeal, Conflict
<1>7. RunTypeOK(run'[p])
  <2>1. TypeInv'
    BY PlaceTypes, LinkTypes
  <2>2. pc'[p] \in Working
    BY <1>4, <1>5, <1>6 DEF Working, Location, Placing
  <2> QED
    BY <2>1, <2>2 DEF TypeInv, Typed
<1> QED
  BY <1>1, <1>4, <1>5, <1>6, <1>7

LEMMA StepsHaveFootprints ==
  ASSUME TypeInv, NEW p \in Procs, Acts(p)
  PROVE  Footprint(p)
<1>1. /\ TypeOK /\ Typed(p) /\ DOMAIN run = Procs /\ DOMAIN plan = Procs
      /\ pc \in [Procs -> Location]
  BY DEF TypeInv, TypeOK
<1>2. ASSUME StartRun(p) \/ ReadTries(p) \/ Hold(p) \/ Replace(p) PROVE Footprint(p)
  BY <1>1, <1>2 DEF StartRun, ReadTries, Hold, Replace, Sourced, Keep, To, Plan, Footprint,
    OnlyMoves, Location
<1>3. ASSUME PublishFirst(p) PROVE Footprint(p)
  <2>1. pc[p] \in Planning /\ plan[p].child \in Versions
    BY <1>1, <1>3 DEF PublishFirst, Typed, Planning, Plans, Versions
  <2>2. OnlyMoves(p)
    BY <1>1, <1>3 DEF PublishFirst, Sourced, Keep, To, Unplan, OnlyMoves, Location
  <2> QED
    BY <1>3, <2>1, <2>2 DEF PublishFirst, Footprint
<1>4. ASSUME ChooseAgain(p) PROVE Footprint(p)
  BY <1>1, <1>4 DEF ChooseAgain, Sourced, Leave, Keep, To, Unplan, Footprint, OnlyMoves, Location
<1>5. ASSUME RunFails(p) \/ Record(p) \/ Stops(p) PROVE Footprint(p)
  BY <1>1, <1>5 DEF RunFails, Record, Stops, Unlock, Leave, Keep, To, Unplan, Footprint,
    OnlyMoves, Location
<1>6. ASSUME PublishPlan(p) PROVE Footprint(p)
  <2>1. pc[p] \in Planning /\ plan[p].child \in Versions
    BY <1>1, <1>6 DEF PublishPlan, Typed, Planning, Plans, Versions
  <2>2. OnlyMoves(p)
    BY <1>1, <1>6 DEF PublishPlan, Leave, Keep, To, Unplan, OnlyMoves, Location
  <2> QED
    BY <1>6, <2>1, <2>2 DEF PublishPlan, Footprint
<1>7. ASSUME RunSucceeds(p) PROVE Footprint(p)
  BY <1>7, SucceedSays DEF Footprint
<1>8. ASSUME Count(p) PROVE Footprint(p)
  BY <1>8, CountSays DEF Footprint
<1>9. ASSUME PlaceHeal(p) \/ LinkHeal(p) \/ Conflict(p) PROVE Footprint(p)
  <2>1. OnlyMoves(p)
    BY <1>9, PlacingSays
  <2>2. LinkHeal(p) => pc[p] \in Planning /\ plan[p].child \in Versions
    BY <1>1 DEF LinkHeal, Typed, Planning, Plans, Versions
  <2> QED
    BY <1>9, <2>1, <2>2 DEF PlaceHeal, LinkHeal, Conflict, Footprint
<1>10. ASSUME PlanImport(p) \/ PlanRollback(p) PROVE Footprint(p)
  BY <1>10, PlanSays DEF Footprint
<1>11. ASSUME StoreFails(p) PROVE Footprint(p)
  <2>1. /\ lock' = IF lock = p THEN NoProc ELSE lock
        /\ verified' = verified
    BY <1>11 DEF StoreFails, Unlock
  <2>2. OnlyMoves(p)
    BY <1>1, <1>11 DEF StoreFails, Keep, To, Unplan, OnlyMoves, Location
  <2>3. MayLand(p) /\ (pc[p] = "link" => pc[p] \in Planning)
    BY <1>11 DEF StoreFails, Planning
  <2> QED
    BY <2>1, <2>2, <2>3, MayLandSays DEF Footprint
<1> QED
  BY <1>2, <1>3, <1>4, <1>5, <1>6, <1>7, <1>8, <1>9, <1>10, <1>11 DEF Acts

-----------------------------------------------------------------------------
(* The lock and the counts.                                                *)

LEMMA LockStep ==
  ASSUME TypeInv, LockInv, NEW p \in Procs, Acts(p)
  PROVE  /\ LockInv'
         /\ \A heal \in DOMAIN pending \cap DOMAIN pending' :
              pending[heal].runs \subseteq pending'[heal].runs
<1>1. Footprint(p) /\ TypeOK /\ TypeInv'
  BY StepsHaveFootprints, TypeStep DEF TypeInv, Acts, Next
<1>2. pc[p] = "replace" => Holding(p) /\ lock = p
  BY DEF LockInv, Held, Holding
<1>3. \A q \in Procs \ {p} : Holding(q) => lock = q
  BY DEF LockInv, Held
<1>4. ASSUME NEW q \in Procs \ {p} PROVE Held(q)'
  <2>1. pc'[q] = pc[q] /\ run'[q] = run[q] /\ Held(q)
    BY <1>1 DEF Footprint, OnlyMoves, LockInv
  <2>2. CASE Holding(q)
    <3>1. lock = q /\ lock' = q /\ pending' = pending
      BY <1>1, <1>2, <1>3, <2>2, PatchingAssumption DEF Footprint
    <3> QED
      BY <2>1, <3>1 DEF Held, Holding
  <2>3. CASE ~Holding(q)
    BY <2>1, <2>3 DEF Held, Holding
  <2> QED
    BY <2>2, <2>3
<1>5. ASSUME pc'[p] \notin {"hold", "count", "place", "link", "replace"} PROVE Held(p)'
  BY <1>5 DEF Held, Holding
<1>6. ASSUME StartRun(p) \/ PublishFirst(p) \/ ChooseAgain(p) \/ ReadTries(p)
              \/ RunFails(p) \/ Record(p) \/ PublishPlan(p) \/ Stops(p)
              \/ PlanImport(p) \/ PlanRollback(p) \/ StoreFails(p) \/ Replace(p)
      PROVE  pc'[p] \notin {"hold", "count", "place", "link", "replace"}
  BY <1>1, <1>6 DEF StartRun, PublishFirst, ChooseAgain, ReadTries, RunFails, Record, PublishPlan,
    Stops, PlanImport, PlanRollback, StoreFails, Replace, Leave, Sourced, To, TypeOK
<1>7. ASSUME RunSucceeds(p) PROVE Held(p)'
  <2>1. /\ run'[p].todo # {} => run'[p].policy = "immediate"
        /\ pc'[p] = IF run'[p].todo # {} THEN "place"
                    ELSE IF /\ run'[p].policy # "immediate"
                            /\ Heals(run'[p]) \cup At(run'[p], "tried") \cup At(run'[p], "recorded") # {}
                    THEN "hold" ELSE "record"
    BY <1>7, SucceedSays
  <2> QED
    BY <2>1 DEF Held, Holding
<1>8. ASSUME Hold(p) PROVE Held(p)'
  <2>1. /\ pc[p] = "hold" /\ RunTypeOK(run[p]) /\ lock' = p /\ pc'[p] = "count" /\ pending' = pending
        /\ run'[p] = [run[p] EXCEPT !.patches = pending]
    BY <1>1, <1>8 DEF Hold, Keep, To, TypeInv, TypeOK, Typed, Working, Location
  <2>2. run'[p].patches = pending /\ run'[p].policy = run[p].policy
    BY <2>1 DEF RunTypeOK, NoRun, Run
  <2>3. run[p].policy # "immediate"
    BY <2>1 DEF LockInv, Held
  <2> QED
    BY <2>1, <2>2, <2>3 DEF Held, Holding
<1>9. ASSUME Count(p) PROVE Held(p)'
  <2> DEFINE r == run[p]
             kept == Kept(r)
             counted == Counted(r, kept)
  <2>1. /\ SameRun(p) /\ UNCHANGED <<pending, lock>> /\ pc'[p] \in {"place", "replace"}
        /\ run'[p].patches = NewPatches(r, kept, counted) /\ counted \subseteq Steps
    BY <1>9, CountSays
  <2>2. /\ r.policy # "immediate" /\ lock = p /\ r.patches = pending
        /\ RunTypeOK(r) /\ r.seen \in [Steps -> Seen]
    BY <1>9 DEF Count, LockInv, Held, Holding, TypeInv, Typed, Working, Succeeded, Location
  <2>3. \A s \in counted : HealAt(r, s) \in DOMAIN r.patches => HealAt(r, s) \in kept
    <3> SUFFICES ASSUME NEW s \in counted, HealAt(r, s) \in DOMAIN r.patches, HealAt(r, s) \notin kept
                 PROVE  FALSE
      OBVIOUS
    <3>1. s \in Heals(r) /\ Placeable(r, s) /\ s \in Steps
      BY <2>1 DEF Counted
    <3>2. HealAt(r, s).step = s /\ Latest(history).content[s] = HealAt(r, s).base
      <4>1. history \in Seq(Versions) /\ history # <<>>
        BY <1>9 DEF TypeInv, TypeOK, Typed, Working, Location, Count, Versions
      <4>2. Place(history, HealAt(r, s)).placement = "publish"
        BY <3>1 DEF Placeable
      <4>3. Latest(history).content[HealAt(r, s).step] = HealAt(r, s).base
        BY <4>1, <4>2, PlaceSays
      <4>4. HealAt(r, s).step = s
        BY DEF HealAt
      <4> QED
        BY <4>3, <4>4
    <3>3. s \notin At(r, "recorded")
      BY <3>1 DEF Heals, At
    <3> QED
      BY <3>2, <3>3 DEF Kept, Retired
  <2>4. \A heal \in DOMAIN pending \cap DOMAIN run'[p].patches :
          pending[heal].runs \subseteq run'[p].patches[heal].runs
    <3> HIDE DEF kept, counted
    <3> QED
      BY <2>1, <2>2, <2>3 DEF NewPatches, Patch
  <2> QED
    BY <2>1, <2>2, <2>4 DEF Held, Holding, SameRun
<1>10. ASSUME PlaceHeal(p) \/ LinkHeal(p) \/ Conflict(p) PROVE Held(p)'
  <2>1. /\ pc[p] \in Placing /\ SameRun(p) /\ UNCHANGED <<pending, lock>>
        /\ DOMAIN run'[p].patches \subseteq DOMAIN run[p].patches
        /\ \A heal \in DOMAIN run'[p].patches : run'[p].patches[heal] = run[p].patches[heal]
        /\ pc'[p] \in {"place", "link", "record", "replace"}
        /\ pc'[p] = "replace" => run[p].policy # "immediate"
    <3>1. UNCHANGED <<pending, lock>>
      BY <1>10 DEF PlaceHeal, LinkHeal, Conflict
    <3> QED
      BY <1>10, <3>1, PlacingSays DEF Placing
  <2>2. Held(p) /\ (run[p].policy # "immediate" => Holding(p))
    BY <2>1 DEF LockInv, Holding, Placing
  <2> QED
    BY <2>1, <2>2 DEF Held, Holding, SameRun
<1>11. Held(p)'
  BY <1>5, <1>6, <1>7, <1>8, <1>9, <1>10 DEF Acts
<1>12. \A heal \in DOMAIN pending \cap DOMAIN pending' :
         pending[heal].runs \subseteq pending'[heal].runs
  <2>1. CASE pending' = pending
    BY <2>1
  <2>2. CASE pc[p] = "replace" /\ pending' = run[p].patches
    BY <1>2, <2>2 DEF LockInv, Held
  <2> QED
    BY <1>1, <2>1, <2>2 DEF Footprint
<1> QED
  BY <1>4, <1>11, <1>12 DEF LockInv

-----------------------------------------------------------------------------
(* Evidence.                                                               *)

LEMMA FailSays ==
  ASSUME TypeInv, NEW p \in Procs, StoreFails(p)
  PROVE  /\ pc[p] \in Promoting /\ pc'[p] = "record" /\ SameRun(p) /\ RunTypeOK(run[p])
         /\ run'[p].patches = run[p].patches /\ run'[p].todo = run[p].todo
         /\ run'[p].outcomes = Refused(run[p]) \cup
              {Outcome(s, "store_unavailable", 0) : s \in Heals(run[p])}
<1> DEFINE outcomes == Refused(run[p]) \cup
                         {Outcome(s, "store_unavailable", 0) : s \in Heals(run[p])}
<1>1. /\ pc[p] \in Promoting /\ pc'[p] = "record" /\ RunTypeOK(run[p])
      /\ run'[p] = [run[p] EXCEPT !.outcomes = outcomes]
  BY DEF StoreFails, Promoting, To, Keep, TypeInv, TypeOK, Typed, Working, Location
<1> HIDE DEF outcomes
<1>2. /\ SameRun(p) /\ run'[p].patches = run[p].patches /\ run'[p].todo = run[p].todo
      /\ run'[p].outcomes = outcomes
  BY <1>1 DEF RunTypeOK, NoRun, Run, SameRun
<1> QED
  BY <1>1, <1>2 DEF outcomes

LEMMA KnownGrows ==
  ASSUME NEW known, NEW more, known \subseteq more
  PROVE  /\ \A patches : Proven(patches, known) => Proven(patches, more)
         /\ \A r : ToPlace(r, known) => ToPlace(r, more)
         /\ \A r, at : Backed(r, at, known) => Backed(r, at, more)
<1>1. \A patches : Proven(patches, known) => Proven(patches, more)
  BY DEF Proven, Evidence
<1>2. \A r : ToPlace(r, known) => ToPlace(r, more)
  BY DEF ToPlace
<1>3. ASSUME NEW r, NEW at, Backed(r, at, known) PROVE Backed(r, at, more)
  <2>1. Proven(r.patches, known) => Proven(r.patches, more)
    BY <1>1
  <2>2. ToPlace(r, known) => ToPlace(r, more)
    BY <1>2
  <2> QED
    BY <1>3, <2>1, <2>2 DEF Backed
<1> QED
  BY <1>1, <1>2, <1>3

\* A run that counts for a heal adds itself to those that verified it.
LEMMA CountedIsProven ==
  ASSUME TypeInv, EvidenceInv, NEW p \in Procs, Count(p)
  PROVE  /\ Proven(run'[p].patches, verified)
         /\ pc'[p] = "place" => ToPlace(run'[p], verified)
<1> DEFINE r == run[p]
           kept == Kept(r)
           counted == Counted(r, kept)
           healed == {HealAt(r, s) : s \in counted}
<1>1. /\ SameRun(p) /\ counted \subseteq Steps
      /\ run'[p].patches = NewPatches(r, kept, counted)
      /\ run'[p].todo =
           {s \in counted : Cardinality(run'[p].patches[HealAt(r, s)].runs) >= Required}
  BY CountSays
<1>2. Supported(p) /\ pc[p] \in Working /\ pc[p] \in Succeeded
  BY DEF EvidenceInv, Count, Working, Succeeded, Location
<1>3. \A s \in counted : IsChange(HealAt(r, s)) /\ <<r.id, HealAt(r, s)>> \in verified
  <2>1. ASSUME NEW s \in Heals(r) \ NoChange(r) PROVE IsChange(HealAt(r, s))
    BY DEF NoChange, IsChange, HealAt
  <2> QED
    BY <1>2, <2>1 DEF Supported, Backed, Counted
<1>4. kept \subseteq DOMAIN r.patches /\ Proven(r.patches, verified)
  BY <1>2 DEF Supported, Backed, Kept
<1> HIDE DEF kept, counted
<1>5. NewPatches(r, kept, counted) =
        [heal \in kept \cup healed |->
           IF heal \notin healed THEN r.patches[heal]
           ELSE IF heal \in kept
           THEN Patch(r.patches[heal].runs \cup {r.id}, r.patches[heal].approved)
           ELSE Patch({r.id}, r.seen[heal.step].approved)]
  BY DEF NewPatches
<1>6. \A heal \in healed : IsChange(heal) /\ <<r.id, heal>> \in verified
  BY <1>3
<1> HIDE DEF healed
<1>7. Proven(NewPatches(r, kept, counted), verified)
  <2> DEFINE patches == NewPatches(r, kept, counted)
  <2> SUFFICES ASSUME NEW heal \in DOMAIN patches
               PROVE  IsChange(heal) /\ Evidence(patches[heal].runs, heal, verified)
    BY DEF Proven
  <2>1. heal \in kept => IsChange(heal) /\ Evidence(r.patches[heal].runs, heal, verified)
    BY <1>4 DEF Proven
  <2>2. /\ heal \in kept \cup healed
        /\ patches[heal] =
             IF heal \notin healed THEN r.patches[heal]
             ELSE IF heal \in kept
             THEN Patch(r.patches[heal].runs \cup {r.id}, r.patches[heal].approved)
             ELSE Patch({r.id}, r.seen[heal.step].approved)
    BY <1>5
  <2> HIDE DEF patches
  <2>3. CASE heal \notin healed
    BY <2>1, <2>2, <2>3
  <2>4. CASE heal \in healed
    <3>1. IsChange(heal) /\ <<r.id, heal>> \in verified
      BY <1>6, <2>4
    <3>2. CASE heal \in kept
      <4>1. patches[heal].runs = r.patches[heal].runs \cup {r.id}
        BY <2>2, <2>4, <3>2 DEF Patch
      <4>2. \A id \in r.patches[heal].runs : <<id, heal>> \in verified
        BY <2>1, <3>2 DEF Evidence
      <4> QED
        BY <3>1, <4>1, <4>2 DEF Evidence
    <3>3. CASE heal \notin kept
      <4>1. patches[heal].runs = {r.id}
        BY <2>2, <2>4, <3>3 DEF Patch
      <4> QED
        BY <3>1, <4>1 DEF Evidence
    <3> QED
      BY <3>2, <3>3
  <2> QED
    BY <2>3, <2>4
<1>8. \A s \in counted : r.id \in NewPatches(r, kept, counted)[HealAt(r, s)].runs
  <2>1. \A s \in counted : HealAt(r, s) \in healed
    BY DEF healed
  <2> QED
    BY <1>5, <2>1 DEF Patch
<1>9. \A s : HealAt(run'[p], s) = HealAt(r, s)
  BY <1>1, SameHeals
<1> QED
  BY <1>1, <1>3, <1>7, <1>8, <1>9 DEF ToPlace, SameRun

LEMMA EvidenceStep ==
  ASSUME TypeInv, EvidenceInv, NEW p \in Procs, Acts(p)
  PROVE  EvidenceInv'
<1>1. Footprint(p) /\ TypeOK /\ Typed(p) /\ verified \subseteq verified'
  BY StepsHaveFootprints DEF TypeInv, Footprint
<1>2. /\ Backed(run[p], pc[p], verified') /\ Proven(pending, verified')
      /\ pc[p] \in Working => Proven(run[p].patches, verified')
  <2>1. Backed(run[p], pc[p], verified) /\ Proven(pending, verified)
    BY DEF EvidenceInv, Supported
  <2>2. Backed(run[p], pc[p], verified') /\ Proven(pending, verified')
    BY <1>1, <2>1, KnownGrows
  <2> QED
    BY <2>2 DEF Backed
<1>3. Proven(pending', verified')
  <2>1. pending' = pending \/ (pc[p] \in Working /\ pending' = run[p].patches)
    BY <1>1 DEF Footprint, Working, Location
  <2> QED
    BY <1>2, <2>1
<1>4. ASSUME NEW q \in Procs \ {p} PROVE Supported(q)'
  <2>1. Backed(run[q], pc[q], verified)
    BY DEF EvidenceInv, Supported
  <2>2. Backed(run[q], pc[q], verified')
    BY <1>1, <2>1, KnownGrows
  <2> QED
    BY <1>1, <2>2 DEF Footprint, OnlyMoves, Supported
<1>5. ASSUME pc'[p] \notin Working PROVE Supported(p)'
  BY <1>5 DEF Supported, Backed, Working, Succeeded, Placing, Location
<1>6. ASSUME SameRun(p), pc[p] \in Working, Proven(run'[p].patches, verified'),
             pc'[p] \in Succeeded => pc[p] \in Succeeded,
             pc'[p] \in Placing => ToPlace(run'[p], verified')
      PROVE  Supported(p)'
  <2>1. /\ \A s : HealAt(run'[p], s) = HealAt(run[p], s)
        /\ At(run'[p], "tried") = At(run[p], "tried") /\ Heals(run'[p]) = Heals(run[p])
        /\ run'[p].id = run[p].id /\ run'[p].tries = run[p].tries
    BY <1>6, SameHeals DEF SameRun
  <2>2. Backed(run'[p], pc'[p], verified')
    BY <1>2, <1>6, <2>1 DEF Backed
  <2> QED
    BY <2>2 DEF Supported
<1>7. ASSUME StartRun(p) PROVE Supported(p)'
  <2>1. /\ run'[p].tries = {} /\ run'[p].patches = <<>>
        /\ pc'[p] \notin Succeeded /\ pc'[p] \notin Placing
    BY <1>1, <1>7 DEF StartRun, Sourced, To, Keep, Run, TypeOK, Succeeded, Placing
  <2>2. Proven(<<>>, verified')
    BY DEF Proven
  <2> QED
    BY <2>1, <2>2 DEF Supported, Backed
<1>8. ASSUME PublishFirst(p) \/ ReadTries(p) \/ (ChooseAgain(p) /\ Saves(history, run[p].content))
      PROVE  Supported(p)'
  <2>1. pc[p] \in Working /\ pc'[p] \notin Succeeded /\ pc'[p] \notin Placing
    BY <1>1, <1>8 DEF PublishFirst, ReadTries, ChooseAgain, Sourced, To, TypeOK,
      Working, Succeeded, Placing, Location
  <2>2. /\ run'[p].patches = run[p].patches
        /\ run'[p].tries \subseteq run[p].tries \cup DOMAIN pending
    <3>1. RunTypeOK(run[p])
      BY <1>1, <2>1 DEF Typed
    <3>2. \/ run'[p] = run[p]
          \/ run'[p] = [run[p] EXCEPT !.content = Latest(history).content]
          \/ \E tries \in {{}, FirstTries(pending, run[p].content)} :
               run'[p] = [run[p] EXCEPT !.tries = tries]
      BY <1>1, <1>8 DEF PublishFirst, ReadTries, ChooseAgain, Sourced, Keep, TypeOK
    <3> QED
      BY <3>1, <3>2 DEF RunTypeOK, NoRun, Run, FirstTries
  <2>3. \A heal \in run[p].tries \cup DOMAIN pending : IsChange(heal)
    BY <1>2, <2>1 DEF Backed, Proven
  <2>4. Proven(run'[p].patches, verified')
    BY <1>2, <2>1, <2>2
  <2> QED
    BY <2>1, <2>2, <2>3, <2>4 DEF Supported, Backed
<1>9. ASSUME ChooseAgain(p) /\ ~Saves(history, run[p].content) PROVE Supported(p)'
  BY <1>1, <1>5, <1>9 DEF ChooseAgain, Leave, To, Working, TypeOK
<1>10. ASSUME RunFails(p) \/ Record(p) \/ PublishPlan(p) \/ Stops(p) \/ PlanImport(p)
              \/ PlanRollback(p)
       PROVE  Supported(p)'
  BY <1>1, <1>5, <1>10 DEF RunFails, Record, PublishPlan, Stops, PlanImport, PlanRollback, Leave,
    To, Working, TypeOK
<1>11. ASSUME RunSucceeds(p) PROVE Supported(p)'
  <2> DEFINE new == run'[p]
  <2>1. /\ new.id = run[p].id /\ new.tries = run[p].tries /\ new.patches = run[p].patches
        /\ new.todo = IF new.policy = "immediate" THEN Heals(new) \ NoChange(new) ELSE {}
        /\ \A s \in Steps : Observable(new, s)
        /\ verified' = verified \cup
             {<<new.id, HealAt(new, s)>> : s \in Heals(new) \cup At(new, "tried")}
    BY <1>11, SucceedSays
  <2> HIDE DEF new
  <2>2. pc[p] \in Working
    BY <1>11 DEF RunSucceeds, Working, Location
  <2>3. Proven(new.patches, verified') /\ \A heal \in new.tries : IsChange(heal)
    BY <1>2, <2>1, <2>2 DEF Backed
  <2>4. \A s \in At(new, "tried") : IsChange(HealAt(new, s))
    BY <2>1, <2>3 DEF Observable, At
  <2>5. ToPlace(new, verified')
    <3>1. \A s \in new.todo : s \in Heals(new) /\ s \notin NoChange(new) /\ new.policy = "immediate"
      BY <2>1
    <3>2. \A s \in new.todo : IsChange(HealAt(new, s))
      BY <3>1 DEF IsChange, NoChange, HealAt
    <3> QED
      BY <2>1, <3>1, <3>2 DEF ToPlace
  <2>6. Backed(new, pc'[p], verified')
    BY <2>1, <2>3, <2>4, <2>5 DEF Backed
  <2> QED
    BY <2>6 DEF Supported, new
<1>12. ASSUME Hold(p) PROVE Supported(p)'
  <2>1. /\ pc[p] \in Working /\ pc[p] \in Succeeded
        /\ pc'[p] \notin Placing /\ run'[p] = [run[p] EXCEPT !.patches = pending]
    BY <1>1, <1>12 DEF Hold, Keep, To, TypeOK, Working, Succeeded, Placing, Location
  <2>2. RunTypeOK(run[p])
    BY <1>1, <2>1 DEF Typed
  <2>3. SameRun(p) /\ run'[p].patches = pending
    BY <2>1, <2>2 DEF SameRun, RunTypeOK, NoRun, Run
  <2> QED
    BY <1>2, <1>6, <2>1, <2>3
<1>13. ASSUME Count(p) PROVE Supported(p)'
  <2>1. /\ pc[p] \in Working /\ pc[p] \in Succeeded /\ SameRun(p)
        /\ pc'[p] \in Placing => pc'[p] = "place"
    BY <1>13, CountSays DEF Count, Working, Succeeded, Location, Placing
  <2>2. Proven(run'[p].patches, verified) /\ (pc'[p] = "place" => ToPlace(run'[p], verified))
    BY <1>13, CountedIsProven
  <2>3. Proven(run'[p].patches, verified') /\ (pc'[p] = "place" => ToPlace(run'[p], verified'))
    BY <1>1, <2>2, KnownGrows
  <2> QED
    BY <1>6, <2>1, <2>3
<1>14. ASSUME PlaceHeal(p) \/ LinkHeal(p) \/ Conflict(p) PROVE Supported(p)'
  <2>1. /\ pc[p] \in Placing /\ SameRun(p)
        /\ DOMAIN run'[p].patches \subseteq DOMAIN run[p].patches
        /\ \A heal \in DOMAIN run'[p].patches : run'[p].patches[heal] = run[p].patches[heal]
    BY <1>14, PlacingSays
  <2>2. run'[p].todo \subseteq run[p].todo
    <3>1. \/ \E result \in Results, n \in Nat : Settle(p, result, n)
          \/ run'[p].todo = run[p].todo
      BY <1>14, PlacingSays
    <3> QED
      BY <2>1, <3>1, SettleSays
  <2>3. \A s : HealAt(run'[p], s) = HealAt(run[p], s)
    BY <2>1, SameHeals
  <2>4. pc[p] \in Working /\ pc[p] \in Succeeded
    BY <2>1 DEF Working, Succeeded, Placing, Location
  <2>5. ToPlace(run[p], verified') /\ Proven(run[p].patches, verified')
    BY <1>2, <2>1, <2>4 DEF Backed
  <2>6. Proven(run'[p].patches, verified')
    BY <2>1, <2>5 DEF Proven
  <2>7. pc'[p] \in Placing => ToPlace(run'[p], verified')
    <3>1. pc'[p] \in Placing /\ run'[p].policy # "immediate" =>
            \A s \in run'[p].todo : HealAt(run'[p], s) \in DOMAIN run'[p].patches
      <4>1. Typed(p)'
        BY TypeStep DEF TypeInv, Acts, Next
      <4> QED
        BY <4>1 DEF Typed
    <3> QED
      BY <2>1, <2>2, <2>3, <2>5, <3>1 DEF ToPlace, SameRun
  <2> QED
    BY <1>6, <2>1, <2>4, <2>6, <2>7
<1>15. ASSUME StoreFails(p) \/ Replace(p) PROVE Supported(p)'
  <2>1. /\ pc[p] \in Working /\ pc[p] \in Succeeded /\ pc'[p] = "record" /\ pc'[p] \notin Placing
    BY <1>1, <1>15, FailSays DEF Promoting, Working, Succeeded, Location, Replace, To, TypeOK, Placing
  <2>2. SameRun(p) /\ run'[p].patches = run[p].patches
    BY <1>15, FailSays DEF Replace, SameRun
  <2> QED
    BY <1>2, <1>6, <2>1, <2>2
<1>16. Supported(p)'
  BY <1>7, <1>8, <1>9, <1>10, <1>11, <1>12, <1>13, <1>14, <1>15 DEF Acts
<1> QED
  BY <1>3, <1>4, <1>16 DEF EvidenceInv

-----------------------------------------------------------------------------
(* The history grows, and plans made on what it was stay what they are.    *)

\* The first log is how the second one began.
Begins(log, more) ==
  /\ log \in Seq(Versions) /\ more \in Seq(Versions) /\ Len(log) <= Len(more)
  /\ \A n \in 1..Len(log) : more[n] = log[n]

LEMMA HistoryGrows ==
  ASSUME TypeInv, NEW p \in Procs, Acts(p)
  PROVE  /\ Begins(history, history') /\ Len(history) \in Nat /\ Len(history') \in Nat
         /\ \/ history' = history
            \/ /\ pc[p] \in Planning /\ plan[p].parent = Len(history)
               /\ plan[p].child \in Versions
               /\ history' = Append(history, plan[p].child)
               /\ Len(history') = Len(history) + 1
               /\ history'[Len(history) + 1] = plan[p].child
<1>1. history \in Seq(Versions) /\ Footprint(p)
  BY StepsHaveFootprints DEF TypeInv, TypeOK, Versions
<1>2. Len(history) \in Nat
  BY <1>1, LenProperties
<1>3. CASE history' = history
  BY <1>1, <1>2, <1>3 DEF Begins
<1>4. CASE /\ pc[p] \in Planning /\ Unlinked(p) /\ plan[p].child \in Versions
           /\ history' = Append(history, plan[p].child)
  <2>1. /\ Append(history, plan[p].child) \in Seq(Versions)
        /\ Len(Append(history, plan[p].child)) = Len(history) + 1
        /\ Append(history, plan[p].child)[Len(history) + 1] = plan[p].child
        /\ \A n \in 1..Len(history) : Append(history, plan[p].child)[n] = history[n]
    BY <1>1, <1>4, Appended
  <2> QED
    BY <1>1, <1>2, <1>4, <2>1 DEF Begins, Unlinked
<1> QED
  BY <1>1, <1>3, <1>4 DEF Footprint

LEMMA PlansStay ==
  ASSUME NEW log, NEW more, Begins(log, more), NEW n \in Nat, n <= Len(log)
  PROVE  /\ \A v : PlannedByPerson(log, n, v) => PlannedByPerson(more, n, v)
         /\ \A r, v : PlannedHeal(log, n, r, v) => PlannedHeal(more, n, r, v)
<1>1. Len(log) \in Nat /\ (n # 0 => more[n] = log[n]) /\ \A m \in 1..n : more[m] = log[m]
  BY LenProperties DEF Begins
<1>2. ASSUME NEW v, PlannedByPerson(log, n, v) PROVE PlannedByPerson(more, n, v)
  <2>1. ASSUME NEW m \in 1..(n - 1) PROVE n # 0 /\ more[m] = log[m]
    BY <1>1
  <2> QED
    BY <1>1, <1>2, <2>1 DEF PlannedByPerson
<1>3. ASSUME NEW heal PROVE Undone(more, n, heal) <=> Undone(log, n, heal)
  <2>1. \A j \in 1..n : \A i \in 1..(j - 1) : more[j] = log[j] /\ more[i] = log[i]
    BY <1>1
  <2> QED
    BY <1>1, <2>1 DEF Undone
<1>4. ASSUME NEW r, NEW v, PlannedHeal(log, n, r, v) PROVE PlannedHeal(more, n, r, v)
  BY <1>1, <1>3, <1>4 DEF PlannedHeal
<1> QED
  BY <1>2, <1>4

\* A heal that is to be linked was placed on the latest version.
LEMMA PlacedIsPlanned ==
  ASSUME TypeInv, NEW p \in Procs, PlaceHeal(p), pc'[p] = "link"
  PROVE  /\ plan'[p].parent = Len(history)
         /\ PlannedHeal(history, Len(history), run'[p], plan'[p].child)
<1> DEFINE r == run[p]
           s == Current(r)
           heal == HealAt(r, s)
           placed == Place(history, heal)
           next == [r EXCEPT !.attempt = @ + 1]
<1>1. /\ pc[p] \in Placing /\ TypeOK /\ Typed(p) /\ history \in Seq(Versions) /\ history # <<>>
      /\ RunTypeOK(r) /\ DOMAIN run = Procs /\ DOMAIN plan = Procs /\ pc \in [Procs -> Location]
  BY DEF PlaceHeal, TypeInv, TypeOK, Typed, Working, Placing, Location, Versions
<1>2. /\ placed.placement = "publish" /\ ~HealProblem(Latest(history), Change(r))
      /\ Plan(p, Len(history), HealVersion(Latest(history), Change(r)))
      /\ Keep(p, next)
  <2>1. ASSUME NEW result, NEW n, Settle(p, result, n) PROVE FALSE
    BY <1>1, <2>1 DEF Settle, To
  <2> QED
    BY <2>1 DEF PlaceHeal
<1>3. /\ plan'[p].parent = Len(history)
      /\ plan'[p].child = HealVersion(Latest(history), Change(r))
      /\ run'[p] = next
  BY <1>1, <1>2 DEF Plan, Keep
<1>4. Current(next) = s /\ HealAt(next, s) = heal /\ Change(next) = Change(r)
  <2>1. /\ next.id = r.id /\ next.policy = r.policy /\ next.content = r.content
        /\ next.seen = r.seen /\ next.todo = r.todo /\ next.patches = r.patches
    BY <1>1 DEF RunTypeOK, NoRun, Run
  <2> HIDE DEF next
  <2>2. At(next, "tried") = At(r, "tried") /\ \A t : HealAt(next, t) = HealAt(r, t)
    BY <2>1 DEF At, HealAt
  <2>3. Current(next) = s
    BY <2>1, <2>2 DEF Current
  <2> QED
    BY <2>1, <2>2, <2>3 DEF Change
<1>5. /\ Latest(history).content[heal.step] = heal.base
      /\ UndoingRollbacks(history, heal) = {}
      /\ Len(history) # 0
  <2>1. Len(history) \in Nat \ {0}
    BY <1>1, LatestIsVersion
  <2> QED
    BY <1>1, <1>2, <2>1, PlaceSays
<1>6. ~Undone(history, Len(history), heal)
  BY <1>5 DEF Undone, UndoingRollbacks
<1> HIDE DEF next, heal
<1>7. HealVersion(Latest(history), Change(r)).change = Change(r)
  BY DEF HealVersion, Version
<1> QED
  BY <1>2, <1>3, <1>4, <1>5, <1>6, <1>7 DEF PlannedHeal, Latest

LEMMA PlanStep ==
  ASSUME TypeInv, PlanInv, NEW p \in Procs, Acts(p)
  PROVE  PlanInv'
<1>1. /\ Footprint(p) /\ TypeOK /\ Typed(p)
      /\ Begins(history, history') /\ Len(history) \in Nat /\ Len(history') \in Nat
  BY StepsHaveFootprints, HistoryGrows DEF TypeInv
<1>2. ASSUME NEW q \in Procs \ {p} PROVE Planned(q)'
  <2>1. pc'[q] = pc[q] /\ run'[q] = run[q] /\ plan'[q] = plan[q] /\ Planned(q)
    BY <1>1 DEF Footprint, OnlyMoves, PlanInv
  <2>2. CASE pc[q] \in Planning
    <3>1. plan[q].parent \in Nat /\ plan[q].parent <= Len(history)
      BY <2>1, <2>2 DEF TypeInv, Typed, Planned, Plans
    <3>2. plan[q].parent <= Len(history')
      BY <1>1, <3>1 DEF Begins
    <3>3. PlannedByPerson(history, plan[q].parent, plan[q].child) =>
            PlannedByPerson(history', plan[q].parent, plan[q].child)
      BY <1>1, <3>1, PlansStay
    <3>4. PlannedHeal(history, plan[q].parent, run[q], plan[q].child) =>
            PlannedHeal(history', plan[q].parent, run[q], plan[q].child)
      BY <1>1, <3>1, PlansStay
    <3> QED
      BY <2>1, <3>2, <3>3, <3>4 DEF Planned
  <2>3. CASE pc[q] \notin Planning
    BY <2>1, <2>3 DEF Planned, Planning
  <2> QED
    BY <2>2, <2>3
<1>3. ASSUME pc'[p] \notin Planning PROVE Planned(p)'
  BY <1>3 DEF Planned, Planning
<1>4. ASSUME StartRun(p), pc'[p] \in Planning PROVE Planned(p)'
  <2>1. PICK file \in Files : plan'[p] = [parent |-> 0, child |-> Version(file, First)]
    BY <1>1, <1>4 DEF StartRun, Sourced, To, Plan, Planning, TypeOK
  <2>2. pc'[p] = "first"
    BY <1>1, <1>4 DEF StartRun, Sourced, To, Planning, TypeOK
  <2> QED
    BY <1>1, <2>1, <2>2 DEF Planned, PlannedByPerson, Version
<1>5. ASSUME PlanImport(p) \/ PlanRollback(p) PROVE Planned(p)'
  <2>1. /\ plan'[p].parent = Len(history) /\ history' = history /\ pc'[p] = "planned"
        /\ PlannedByPerson(history, Len(history), plan'[p].child)
    BY <1>5, PlanSays
  <2> QED
    BY <1>1, <2>1 DEF Planned
<1>6. ASSUME PlaceHeal(p), pc'[p] \in Planning PROVE Planned(p)'
  <2>1. pc'[p] = "link"
    BY <1>6, PlacingSays DEF Planning, Placing
  <2>2. history' = history
    BY <1>6 DEF PlaceHeal
  <2> QED
    BY <1>1, <1>6, <2>1, <2>2, PlacedIsPlanned DEF Planned
<1>7. ASSUME LinkHeal(p) \/ Conflict(p) PROVE pc'[p] \notin Planning
  BY <1>1, <1>7 DEF LinkHeal, Conflict, Settle, To, Planning, TypeOK
<1>8. ASSUME \/ PublishFirst(p) \/ ChooseAgain(p) \/ ReadTries(p) \/ RunFails(p) \/ Record(p)
             \/ Hold(p) \/ Replace(p) \/ PublishPlan(p) \/ StoreFails(p) \/ Stops(p)
      PROVE  pc'[p] \notin Planning
  BY <1>1, <1>8 DEF PublishFirst, ChooseAgain, ReadTries, RunFails, Record, Hold, Replace,
    PublishPlan, StoreFails, Stops, Leave, Sourced, To, Planning, TypeOK
<1>9. ASSUME RunSucceeds(p) \/ Count(p) PROVE pc'[p] \notin Planning
  BY <1>9, SucceedSays, CountSays DEF Planning
<1>10. Planned(p)'
  BY <1>3, <1>4, <1>5, <1>6, <1>7, <1>8, <1>9 DEF Acts
<1> QED
  BY <1>2, <1>10 DEF PlanInv

-----------------------------------------------------------------------------
(* What a version says when it is stored.                                  *)

\* The heal of a version that is about to be linked, whoever verified it.
LEMMA LinkedHeal ==
  ASSUME TypeInv, EvidenceInv, PlanInv, NEW p \in Procs, pc[p] = "link",
         plan[p].parent = Len(history)
  PROVE  LET r == run[p]
             heal == HealAt(r, Current(r))
             v == plan[p].child IN
         /\ heal \in Heal /\ IsChange(heal) /\ IsHeal(v, heal) /\ v.change = Change(r)
         /\ PlannedHeal(history, Len(history), r, v)
         /\ r.id \in v.change.runs
         /\ \A id \in v.change.runs : <<id, heal>> \in verified
         /\ v.change.policy = "after_n_successes" => Cardinality(v.change.runs) >= Required
<1> DEFINE r == run[p]
           heal == HealAt(r, Current(r))
           v == plan[p].child
<1>1. /\ pc[p] \in Placing /\ pc[p] \in Working /\ pc[p] \in Succeeded /\ Typed(p)
      /\ Supported(p) /\ Planned(p)
  BY DEF TypeInv, EvidenceInv, PlanInv, Placing, Working, Succeeded, Location
<1>2. /\ Current(r) \in r.todo /\ heal \in Heal /\ Change(r).kind = "heal"
      /\ Change(r).step = heal.step /\ Change(r).old = heal.base.target
      /\ Change(r).new = heal.new /\ Change(r).policy = r.policy
      /\ Change(r).runs = IF r.policy = "immediate" THEN {r.id} ELSE r.patches[heal].runs
  BY <1>1, ChangeSays
<1>3. ToPlace(r, verified) /\ Proven(r.patches, verified)
  BY <1>1 DEF Supported, Backed
<1>4. /\ IsChange(heal) /\ <<r.id, heal>> \in verified
      /\ r.policy # "immediate" =>
           /\ r.id \in r.patches[heal].runs
           /\ Cardinality(r.patches[heal].runs) >= Required
  BY <1>2, <1>3 DEF ToPlace
<1>5. r.policy # "immediate" =>
        heal \in DOMAIN r.patches /\ \A id \in r.patches[heal].runs : <<id, heal>> \in verified
  <2>1. r.policy # "immediate" => heal \in DOMAIN r.patches
    BY <1>1, <1>2 DEF Typed
  <2> QED
    BY <1>3, <2>1 DEF Proven, Evidence
<1>6. PlannedHeal(history, Len(history), r, v)
  BY <1>1 DEF Planned
<1>7. v.change = Change(r)
  BY <1>6 DEF PlannedHeal
<1> HIDE DEF heal, v, r
<1>8. IsHeal(v, heal)
  BY <1>2, <1>7 DEF IsHeal
<1>9. /\ r.id \in Change(r).runs
      /\ \A id \in Change(r).runs : <<id, heal>> \in verified
      /\ Change(r).policy = "after_n_successes" => Cardinality(Change(r).runs) >= Required
  BY <1>2, <1>4, <1>5
<1> QED
  BY <1>2, <1>4, <1>6, <1>7, <1>8, <1>9 DEF r, heal, v

\* A version that is stored on the latest is a person's or a heal.
LEMMA StoredVersion ==
  ASSUME TypeInv, PlanInv, NEW p \in Procs, pc[p] \in Planning,
         plan[p].parent = Len(history)
  PROVE  \/ PlannedByPerson(history, Len(history), plan[p].child)
         \/ pc[p] = "link" /\ PlannedHeal(history, Len(history), run[p], plan[p].child)
  BY DEF PlanInv, Planned, Planning

LEMMA PersonHealsNothing ==
  ASSUME NEW log, NEW n, NEW v, PlannedByPerson(log, n, v)
  PROVE  v.change.kind # "heal"
<1>1. /\ First.kind # "heal" /\ Edit.kind # "heal"
      /\ \A m : Rollback(m).kind # "heal"
  BY DEF First, Edit, Rollback
<1>2. v.change = First \/ v.change = Edit \/ \E m : v.change = Rollback(m)
  BY DEF PlannedByPerson
<1> QED
  BY <1>1, <1>2

LEMMA VersionStep ==
  ASSUME TypeInv, EvidenceInv, PlanInv, VersionInv, NEW p \in Procs, Acts(p)
  PROVE  VersionInv'
<1> DEFINE n == Len(history)
           v == plan[p].child
<1>1. /\ Begins(history, history') /\ n \in Nat /\ Len(history') \in Nat
      /\ verified \subseteq verified'
  BY HistoryGrows, StepsHaveFootprints DEF Footprint
<1>2. CASE history' = history
  <2>1. HealVersions' = HealVersions
    BY <1>2 DEF HealVersions
  <2>2. HealsHaveParents' /\ RolledBackStaysBack'
    BY <1>2, <2>1 DEF VersionInv, HealsHaveParents, RolledBackStaysBack, SameHeal
  <2>3. EvidenceIsReal'
    BY <1>1, <1>2, <2>1 DEF VersionInv, EvidenceIsReal, HealOf
  <2> QED
    BY <2>2, <2>3 DEF VersionInv
<1>3. CASE /\ pc[p] \in Planning /\ plan[p].parent = n /\ Len(history') = n + 1
           /\ history'[n + 1] = v
  <2>1. \A m \in 1..n : history'[m] = history[m]
    BY <1>1 DEF Begins
  <2>2. \A m \in HealVersions' : m \in HealVersions \/ m = n + 1
    BY <1>1, <1>3, <2>1 DEF HealVersions
  <2>3. \A m \in HealVersions : m \in 1..n /\ m # 1 /\ m - 1 \in 1..n
    BY <1>1 DEF HealVersions, VersionInv, HealsHaveParents
  <2>4. CASE v.change.kind # "heal"
    <3>1. HealVersions' = HealVersions
      BY <1>1, <1>3, <2>1, <2>4 DEF HealVersions
    <3>2. HealsHaveParents'
      BY <3>1 DEF VersionInv, HealsHaveParents
    <3>3. EvidenceIsReal'
      BY <1>1, <2>1, <2>3, <3>1 DEF VersionInv, EvidenceIsReal, HealOf
    <3>4. RolledBackStaysBack'
      <4> SUFFICES ASSUME NEW i \in HealVersions, NEW k \in HealVersions, i < k, SameHeal(i, k)',
                          NEW j \in (i + 1)..(k - 1)
                   PROVE  ~ /\ history'[j].change.kind = "rollback"
                            /\ history'[j].change.restored < i
                            /\ history'[j].content[history'[i].change.step].target =
                                 history'[i].change.old
        BY <3>1 DEF RolledBackStaysBack
      <4>1. j \in 1..n
        BY <1>1, <2>3
      <4>2. /\ history'[i] = history[i] /\ history'[k] = history[k] /\ history'[j] = history[j]
        BY <2>1, <2>3, <4>1
      <4>3. SameHeal(i, k)
        BY <4>2 DEF SameHeal
      <4> QED
        BY <4>2, <4>3 DEF VersionInv, RolledBackStaysBack
    <3> QED
      BY <3>2, <3>3, <3>4 DEF VersionInv
  <2>5. CASE v.change.kind = "heal"
    <3> DEFINE r == run[p]
               heal == HealAt(r, Current(r))
    <3>1. pc[p] = "link"
      BY <1>3, <2>5, StoredVersion, PersonHealsNothing
    <3>2. /\ heal \in Heal /\ IsHeal(v, heal)
          /\ PlannedHeal(history, n, r, v)
          /\ r.id \in v.change.runs
          /\ \A id \in v.change.runs : <<id, heal>> \in verified
          /\ v.change.policy = "after_n_successes" => Cardinality(v.change.runs) >= Required
      BY <1>3, <3>1, LinkedHeal
    <3>3. n # 0 /\ history[n].content[heal.step] = heal.base /\ ~Undone(history, n, heal)
      BY <3>2 DEF PlannedHeal
    <3> HIDE DEF heal, r, v
    <3>4. HealsHaveParents'
      BY <1>1, <2>2, <2>3, <3>3 DEF HealsHaveParents
    <3>5. EvidenceIsReal'
      <4>1. n \in 1..n /\ n + 1 - 1 = n
        BY <1>1, <3>3
      <4> PICK last \in Nat : last = n + 1
        BY <1>1
      <4>2. HealOf(last)' = heal
        <5>1. HealOf(last)' = [step |-> v.change.step, base |-> history[n].content[v.change.step],
                                new |-> v.change.new]
          <6>1. last - 1 = n /\ history'[last - 1] = history[n] /\ history'[last] = v
            BY <1>1, <1>3, <2>1, <4>1
          <6> QED
            BY <6>1 DEF HealOf
        <5>2. heal = [step |-> heal.step, base |-> heal.base, new |-> heal.new]
          BY <3>2 DEF Heal
        <5> QED
          BY <3>2, <3>3, <5>1, <5>2 DEF IsHeal
      <4>3. ASSUME NEW m \in HealVersions
            PROVE  history'[m] = history[m] /\ HealOf(m)' = HealOf(m)
        BY <2>1, <2>3 DEF HealOf
      <4>4. ASSUME NEW m \in HealVersions
            PROVE  LET change == history'[m].change IN
                   /\ change.runs # {}
                   /\ \A id \in change.runs : <<id, HealOf(m)'>> \in verified'
                   /\ change.policy = "after_n_successes" => Cardinality(change.runs) >= Required
        BY <1>1, <4>3 DEF VersionInv, EvidenceIsReal
      <4> QED
        <5> SUFFICES ASSUME NEW m \in HealVersions'
                     PROVE  LET change == history'[m].change IN
                            /\ change.runs # {}
                            /\ \A id \in change.runs : <<id, HealOf(m)'>> \in verified'
                            /\ change.policy = "after_n_successes" =>
                                 Cardinality(change.runs) >= Required
          BY DEF EvidenceIsReal
        <5>1. CASE m \in HealVersions
          BY <4>4, <5>1
        <5>2. CASE m = last
          BY <1>1, <1>3, <3>2, <4>2, <5>2
        <5> QED
          BY <2>2, <5>1, <5>2
    <3>6. RolledBackStaysBack'
      <4> SUFFICES ASSUME NEW i \in HealVersions', NEW k \in HealVersions', i < k, SameHeal(i, k)',
                          NEW j \in (i + 1)..(k - 1),
                          history'[j].change.kind = "rollback",
                          history'[j].change.restored < i,
                          history'[j].content[history'[i].change.step].target =
                            history'[i].change.old
                   PROVE  FALSE
        BY DEF RolledBackStaysBack
      <4>1. i \in HealVersions /\ i \in 1..n /\ j \in 1..n /\ i \in 1..(j - 1)
        BY <1>1, <2>2, <2>3 DEF HealVersions
      <4>2. history'[i] = history[i] /\ history'[j] = history[j]
        BY <2>1, <4>1
      <4>3. CASE k \in HealVersions
        <5>1. SameHeal(i, k)
          BY <2>1, <2>3, <4>1, <4>3 DEF SameHeal
        <5> QED
          BY <4>1, <4>2, <4>3, <5>1 DEF VersionInv, RolledBackStaysBack
      <4>4. CASE k = n + 1
        <5>1. IsHeal(history[i], heal)
          BY <1>3, <3>2, <4>1, <4>2, <4>4 DEF SameHeal, IsHeal, HealVersions
        <5>2. history[j].content[heal.step].target = heal.base.target
          BY <4>2, <5>1 DEF IsHeal
        <5> QED
          BY <3>3, <4>1, <4>2, <5>1, <5>2 DEF Undone
      <4> QED
        BY <2>2, <4>3, <4>4
    <3> QED
      BY <3>4, <3>5, <3>6 DEF VersionInv
  <2> QED
    BY <2>4, <2>5
<1> QED
  BY <1>2, <1>3, HistoryGrows

\* The versions are the log they promise to be: what is stored next is one of
\* the changes VersionLog allows.
LEMMA LogStep ==
  ASSUME TypeInv, EvidenceInv, PlanInv, NEW p \in Procs, Acts(p)
  PROVE  [Log!Next]_history
<1> DEFINE n == Len(history)
           v == plan[p].child
<1> SUFFICES ASSUME history' # history PROVE Log!Next
  OBVIOUS
<1>1. /\ n \in Nat /\ pc[p] \in Planning /\ plan[p].parent = n /\ v \in Versions
      /\ history' = Append(history, v) /\ Len(history') = n + 1 /\ history'[n + 1] = v
      /\ history \in Seq(Versions)
  BY HistoryGrows DEF TypeInv, TypeOK, Versions
<1>2. n # 0 <=> history # <<>>
  BY <1>1, EmptySeq, LenProperties
<1>3. ASSUME PlannedByPerson(history, n, v)
      PROVE  Log!Begins(v) \/ Log!Edits(v) \/ Log!RollsBack(v)
  <2>1. CASE n = 0 /\ v.change = First
    BY <1>2, <2>1 DEF Log!Begins, First
  <2>2. CASE n # 0 /\ v.change = Edit /\ v.content # history[n].content
    BY <1>2, <2>2 DEF Log!Edits, Log!Last, Edit
  <2>3. CASE \E m \in 1..(n - 1) :
               v.change = Rollback(m) /\ v.content = history[m].content /\ v.content # history[n].content
    BY <2>3 DEF Log!RollsBack, Log!Last, Rollback
  <2> QED
    BY <1>3, <2>1, <2>2, <2>3 DEF PlannedByPerson
<1>4. ASSUME pc[p] = "link" PROVE Log!Heals(v)
  <2> DEFINE r == run[p]
             heal == HealAt(r, Current(r))
  <2>1. /\ IsChange(heal) /\ IsHeal(v, heal) /\ PlannedHeal(history, n, r, v)
    BY <1>1, <1>4, LinkedHeal
  <2>2. /\ n # 0 /\ v = HealVersion(history[n], v.change)
        /\ history[n].content[heal.step] = heal.base /\ ~HealProblem(history[n], v.change)
    BY <2>1 DEF PlannedHeal
  <2> HIDE DEF heal, r, v
  <2>3. v.change.kind = "heal" /\ v.change.step = heal.step
        /\ v.change.old = heal.base.target /\ v.change.new = heal.new
    BY <2>1 DEF IsHeal
  <2>4. v.content = [history[n].content EXCEPT ![v.change.step].target = v.change.new]
    <3>1. HealVersion(history[n], v.change).content =
            [history[n].content EXCEPT ![v.change.step].target = v.change.new]
      BY DEF HealVersion, Version
    <3> QED
      BY <2>2, <3>1
  <2>5. NeedsApproval(history[n].content[v.change.step]) => v.change.approved
    BY <2>2 DEF HealProblem, NeedsApproval
  <2>6. v.change.old # v.change.new
    BY <2>1, <2>3 DEF IsChange
  <2>7. history[n].content[v.change.step].target = v.change.old
    BY <2>2, <2>3
  <2> QED
    BY <1>2, <2>2, <2>3, <2>4, <2>5, <2>6, <2>7 DEF Log!Heals, Log!Last
<1>5. Log!Begins(v) \/ Log!Edits(v) \/ Log!RollsBack(v) \/ Log!Heals(v)
  BY <1>1, <1>3, <1>4, StoredVersion
<1> HIDE DEF v
<1> QED
  BY <1>1, <1>5 DEF Log!Next

-----------------------------------------------------------------------------
(* What runs report.                                                       *)

\* The outcomes that name a version.
Naming == {"published", "already_applied", "stale", "previously_rolled_back"}

LEMMA OthersTell ==
  ASSUME NEW log, NEW r, NEW o, o.result \notin Naming
  PROVE  Tells(log, r, o)
BY DEF Tells, Naming

LEMMA TellsStay ==
  ASSUME NEW log, NEW more, Begins(log, more), NEW r, NEW other, other.id = r.id,
         \A s : HealAt(other, s) = HealAt(r, s),
         NEW o, Tells(log, r, o)
  PROVE  Tells(more, other, o)
<1>1. CASE o.result \notin Naming
  BY <1>1, OthersTell
<1>2. CASE o.result \in Naming
  <2>1. o.version \in 1..Len(log)
    BY <1>2 DEF Tells, Naming
  <2>2. Len(log) \in Nat /\ Len(more) \in Nat /\ Len(log) <= Len(more)
        /\ more[o.version] = log[o.version]
    BY <2>1, LenProperties DEF Begins
  <2>3. o.version \in 1..Len(more)
    BY <2>1, <2>2
  <2> QED
    BY <2>2, <2>3 DEF Tells
<1> QED
  BY <1>1, <1>2

\* A heal that was refused in time is told of, whatever is said of the others.
LEMMA RefusedIsTold ==
  ASSUME NEW r, NEW s \in At(r, "uncaptured") \cup Unapproved(r), Refused(r) \subseteq r.outcomes
  PROVE  Told(r, s)
<1>1. \/ Outcome(s, "not_capturable", 0) \in r.outcomes
      \/ Outcome(s, "not_approved", 0) \in r.outcomes
  BY DEF Refused
<1> QED
  BY <1>1 DEF Told, Outcome

LEMMA TellsOfOutcomes ==
  /\ \A s, result, n : /\ Outcome(s, result, n).step = s
                       /\ Outcome(s, result, n).result = result
                       /\ Outcome(s, result, n).version = n
  /\ \A r : \A o \in Refused(r) : o.result \notin Naming
<1>1. \A s, result, n : /\ Outcome(s, result, n).step = s
                        /\ Outcome(s, result, n).result = result
                        /\ Outcome(s, result, n).version = n
  BY DEF Outcome
<1>2. ASSUME NEW r, NEW o \in Refused(r) PROVE o.result \notin Naming
  <2>1. \E s : o = Outcome(s, "not_capturable", 0) \/ o = Outcome(s, "not_approved", 0)
    BY DEF Refused
  <2> QED
    BY <1>1, <2>1 DEF Naming
<1> QED
  BY <1>1, <1>2

\* What the store's history says of where a heal stands is told truly.
LEMMA PlacedIsTold ==
  ASSUME NEW log \in Seq(Versions), log # <<>>, NEW r, NEW s,
         Place(log, HealAt(r, s)).placement # "publish"
  PROVE  LET placed == Place(log, HealAt(r, s)) IN
         Tells(log, r, Outcome(s, placed.placement, placed.version))
<1> DEFINE heal == HealAt(r, s)
           placed == Place(log, heal)
           o == Outcome(s, placed.placement, placed.version)
           named == log[placed.version]
<1>1. o.step = s /\ o.result = placed.placement /\ o.version = placed.version
  BY TellsOfOutcomes
<1>2. heal.step = s
  BY DEF HealAt
<1>3. placed.version \in 1..Len(log) /\ placed.placement \in Placement \ {"publish"}
  BY PlaceSays
<1>4. placed.placement = "already_applied" =>
        named.content[s] = [heal.base EXCEPT !.target = heal.new]
  BY <1>2, PlaceSays DEF Latest
<1>5. placed.placement = "stale" => named.content[s] # heal.base
  BY <1>2, PlaceSays DEF Latest
<1>6. placed.placement = "previously_rolled_back" =>
        named.change.kind = "rollback" /\ named.content[s].target = heal.base.target
  BY <1>2, PlaceSays DEF UndoingRollbacks
<1> HIDE DEF placed, o, heal
<1>7. placed.placement # "published"
  BY <1>3 DEF Placement
<1>8. Tells(log, r, o)
  BY <1>1, <1>3, <1>4, <1>5, <1>6, <1>7 DEF Tells, heal
<1> QED
  BY <1>8 DEF o, placed, heal

LEMMA CountReports ==
  ASSUME TypeInv, ReportInv, NEW p \in Procs, Count(p)
  PROVE  Reported(p)'
<1> DEFINE r == run[p]
           new == run'[p]
           counted == Counted(r, Kept(r))
<1>1. /\ counted \subseteq Steps /\ SameRun(p)
      /\ new.todo = {s \in counted : Cardinality(new.patches[HealAt(r, s)].runs) >= Required}
      /\ new.outcomes = r.outcomes \cup Displaced(r)
           \cup {Outcome(heal.step, "discarded", 0) : heal \in DOMAIN r.patches \ Kept(r)}
           \cup {Outcome(s, "pending", 0) : s \in counted \ new.todo}
      /\ pc'[p] = IF new.todo # {} THEN "place" ELSE "replace"
      /\ history' = history
  BY CountSays
<1>2. /\ Reported(p) /\ pc[p] = "count" /\ history \in Seq(Versions) /\ history # <<>>
  BY DEF ReportInv, Count, TypeInv, TypeOK, Typed, Working, Location, Versions
<1>3. /\ \A s : HealAt(new, s) = HealAt(r, s)
      /\ \A how : At(new, how) = At(r, how)
      /\ new.id = r.id
  BY <1>1, SameHeals DEF SameRun
<1>4. Begins(history, history)
  BY <1>2, LenProperties DEF Begins
<1> HIDE DEF new, r, counted
<1>5. \A o \in new.outcomes : Tells(history, new, o)
  <2>1. ASSUME NEW o \in r.outcomes PROVE Tells(history, new, o)
    <3>1. Tells(history, r, o)
      BY <1>2, <2>1 DEF Reported, r
    <3> QED
      BY <1>3, <1>4, <3>1, TellsStay
  <2>2. ASSUME NEW o \in Displaced(r) PROVE Tells(history, new, o)
    <3>1. CASE \E s : o = Outcome(s, "refused", 0)
      BY <3>1, TellsOfOutcomes, OthersTell DEF Naming
    <3>2. CASE \E s \in Heals(r) :
                 /\ ~Placeable(r, s)
                 /\ o = LET placed == Place(history, HealAt(r, s)) IN
                        Outcome(s, placed.placement, placed.version)
      <4>1. PICK s \in Heals(r) :
              /\ ~Placeable(r, s)
              /\ o = LET placed == Place(history, HealAt(r, s)) IN
                     Outcome(s, placed.placement, placed.version)
        BY <3>2
      <4>2. Tells(history, r, o)
        BY <1>2, <4>1, PlacedIsTold DEF Placeable
      <4> QED
        BY <1>3, <1>4, <4>2, TellsStay
    <3> QED
      BY <2>2, <3>1, <3>2 DEF Displaced
  <2>3. ASSUME NEW o, \E s : o = Outcome(s, "discarded", 0) \/ o = Outcome(s, "pending", 0)
        PROVE  Tells(history, new, o)
    BY <2>3, TellsOfOutcomes, OthersTell DEF Naming
  <2> QED
    BY <1>1, <2>1, <2>2, <2>3
<1>6. ASSUME NEW s \in At(r, "healed") \cup At(r, "uncaptured") PROVE s \in new.todo \/ Told(new, s)
  <2>1. CASE s \in At(r, "uncaptured") \cup Unapproved(r)
    <3>1. Refused(r) \subseteq r.outcomes
      BY <1>2 DEF Reported, r
    <3>2. Told(r, s)
      BY <2>1, <3>1, RefusedIsTold
    <3> QED
      BY <1>1, <3>2 DEF Told
  <2>2. CASE s \in Heals(r)
    <3>1. CASE ~Placeable(r, s)
      <4> DEFINE placed == Place(history, HealAt(r, s))
                 o == Outcome(s, placed.placement, placed.version)
      <4>1. o \in new.outcomes
        BY <1>1, <2>2, <3>1 DEF Displaced
      <4>2. placed.placement # "discarded"
        BY <1>2, PlaceSays DEF Placement
      <4>3. o.step = s /\ o.result # "discarded"
        BY <4>2, TellsOfOutcomes
      <4> QED
        BY <4>1, <4>3 DEF Told
    <3>2. CASE Placeable(r, s) /\ s \in NoChange(r)
      <4>1. Outcome(s, "refused", 0) \in new.outcomes
        BY <1>1, <3>2 DEF Displaced
      <4> QED
        BY <4>1, TellsOfOutcomes DEF Told
    <3>3. CASE Placeable(r, s) /\ s \notin NoChange(r)
      <4>1. s \in counted
        BY <2>2, <3>3 DEF Counted, counted
      <4>2. s \in new.todo \/ Outcome(s, "pending", 0) \in new.outcomes
        BY <1>1, <4>1
      <4> QED
        BY <4>2, TellsOfOutcomes DEF Told
    <3> QED
      BY <3>1, <3>2, <3>3
  <2> QED
    BY <1>6, <2>1, <2>2 DEF Heals
<1> QED
  BY <1>1, <1>3, <1>5, <1>6 DEF Reported, new

LEMMA SettleReports ==
  ASSUME TypeInv, ReportInv, NEW p \in Procs, pc[p] \in Placing, Begins(history, history'),
         NEW result \in Results, NEW n \in Nat, Settle(p, result, n), result # "discarded",
         Tells(history', run[p], Outcome(Current(run[p]), result, n))
  PROVE  Reported(p)'
<1> DEFINE r == run[p]
           new == run'[p]
           s == Current(r)
<1>1. /\ SameRun(p) /\ new.todo = r.todo \ {s}
      /\ new.outcomes = r.outcomes \cup {Outcome(s, result, n)}
      /\ pc'[p] = IF new.todo # {} THEN "place"
                  ELSE IF r.policy = "immediate" THEN "record" ELSE "replace"
  BY SettleSays
<1>2. Reported(p)
  BY DEF ReportInv
<1>3. /\ \A t : HealAt(new, t) = HealAt(r, t) /\ HealAt(r, t) = HealAt(new, t)
      /\ \A how : At(new, how) = At(r, how)
      /\ new.id = r.id
  BY <1>1, SameHeals DEF SameRun
<1>4. Begins(history', history')
  BY LenProperties DEF Begins
<1> HIDE DEF new, r, s
<1>5. \A o \in new.outcomes : Tells(history', new, o)
  <2>1. ASSUME NEW o \in r.outcomes PROVE Tells(history', new, o)
    <3>1. Tells(history, r, o)
      BY <1>2, <2>1 DEF Reported, r
    <3> QED
      BY <1>3, <3>1, TellsStay
  <2>2. Tells(history', new, Outcome(s, result, n))
    BY <1>3, <1>4, TellsStay DEF r, s
  <2> QED
    BY <1>1, <2>1, <2>2
<1>6. ASSUME NEW t \in At(r, "healed") \cup At(r, "uncaptured") PROVE t \in new.todo \/ Told(new, t)
  <2>1. t \in r.todo \/ Told(r, t)
    BY <1>2, <1>6 DEF Reported, Placing, r
  <2>2. Outcome(s, result, n).step = s /\ Outcome(s, result, n).result # "discarded"
    BY TellsOfOutcomes
  <2> QED
    BY <1>1, <2>1, <2>2 DEF Told
<1> QED
  BY <1>1, <1>3, <1>5, <1>6 DEF Reported, new

LEMMA PlacingReports ==
  ASSUME TypeInv, EvidenceInv, PlanInv, ReportInv, NEW p \in Procs,
         PlaceHeal(p) \/ LinkHeal(p) \/ Conflict(p)
  PROVE  Reported(p)'
<1> DEFINE r == run[p]
           s == Current(r)
           placed == Place(history, HealAt(r, s))
<1>1. /\ pc[p] \in Placing /\ history \in Seq(Versions) /\ history # <<>>
      /\ SameRun(p) /\ Begins(history, history')
  <2>1. pc[p] \in Placing /\ SameRun(p)
    BY PlacingSays
  <2>2. history \in Seq(Versions) /\ history # <<>>
    BY <2>1 DEF TypeInv, TypeOK, Typed, Placing, Working, Location, Versions
  <2> QED
    BY <2>1, <2>2, HistoryGrows DEF Acts
<1>2. {"refused", "conflict", "published"} \subseteq Results /\ 0 \in Nat
      /\ "discarded" \notin Placement /\ Placement \ {"publish"} \subseteq Results
  BY DEF Results, Placement
<1>3. ASSUME NEW result \in {"refused", "conflict"}, Settle(p, result, 0) PROVE Reported(p)'
  <2>1. Tells(history', r, Outcome(s, result, 0))
    BY <1>3, TellsOfOutcomes, OthersTell DEF Naming
  <2> HIDE DEF s, r
  <2>2. result \in Results /\ result # "discarded"
    BY <1>2
  <2> QED
    BY <1>1, <1>2, <1>3, <2>1, <2>2, SettleReports DEF s, r
<1>4. ASSUME placed.placement # "publish", Settle(p, placed.placement, placed.version),
             history' = history
      PROVE  Reported(p)'
  <2>1. placed.placement \in Placement /\ placed.version \in 1..Len(history)
    BY <1>1, PlaceSays
  <2>2. placed.placement \in Results /\ placed.placement # "discarded" /\ placed.version \in Nat
    BY <1>1, <1>2, <1>4, <2>1, LenProperties
  <2>3. Tells(history', r, Outcome(s, placed.placement, placed.version))
    BY <1>1, <1>4, PlacedIsTold
  <2> HIDE DEF placed
  <2> QED
    BY <1>1, <1>4, <2>2, <2>3, SettleReports
<1>5. ASSUME LinkHeal(p) PROVE Reported(p)'
  <2> DEFINE n == Len(history) + 1
             o == Outcome(s, "published", n)
  <2>1. /\ pc[p] = "link" /\ plan[p].parent = Len(history) /\ Settle(p, "published", n)
        /\ history' = Append(history, plan[p].child)
    BY <1>5 DEF LinkHeal, Unlinked
  <2>2. plan[p].child \in Versions /\ Len(history) \in Nat
    BY <1>1, <2>1, LenProperties DEF TypeInv, Typed, Planning, Plans, Versions
  <2>3. n \in Nat /\ n \in 1..Len(history') /\ history'[n] = plan[p].child
    BY <1>1, <2>1, <2>2, Appended
  <2>4. IsHeal(plan[p].child, HealAt(r, s)) /\ r.id \in plan[p].child.change.runs
    BY <2>1, LinkedHeal
  <2>5. o.step = s /\ o.result = "published" /\ o.version = n
    BY TellsOfOutcomes
  <2> HIDE DEF n, o, r, s
  <2>6. Tells(history', r, o)
    BY <2>3, <2>4, <2>5 DEF Tells
  <2> QED
    BY <1>1, <1>2, <2>1, <2>3, <2>6, SettleReports DEF o, r, s
<1>6. ASSUME run'[p].todo = r.todo, run'[p].outcomes = r.outcomes, pc'[p] \in Placing
      PROVE  Reported(p)'
  <2>1. /\ \A t : HealAt(run'[p], t) = HealAt(r, t)
        /\ \A how : At(run'[p], how) = At(r, how)
        /\ run'[p].id = r.id
    BY <1>1, SameHeals DEF SameRun
  <2>2. Reported(p)
    BY DEF ReportInv
  <2>3. \A o \in r.outcomes : Tells(history', run'[p], o)
    BY <1>1, <2>1, <2>2, TellsStay DEF Reported
  <2> QED
    BY <1>1, <1>6, <2>1, <2>2, <2>3 DEF Reported, Placing, Told
<1>7. ASSUME ~\E result \in Results, n \in Nat : Settle(p, result, n) PROVE Reported(p)'
  BY <1>6, <1>7, PlacingSays
<1>8. ASSUME PlaceHeal(p), ~Reported(p)' PROVE ~\E result \in Results, n \in Nat : Settle(p, result, n)
  <2>1. /\ ~(placed.placement # "publish" /\ Settle(p, placed.placement, placed.version))
        /\ ~Settle(p, "refused", 0)
    BY <1>3, <1>4, <1>8 DEF PlaceHeal
  <2>2. To(p, "link")
    BY <1>8, <2>1 DEF PlaceHeal
  <2> QED
    BY <2>2 DEF Settle, To, TypeInv, TypeOK
<1>9. ASSUME Conflict(p), ~Reported(p)' PROVE FALSE
  <2>1. UNCHANGED run
    BY <1>2, <1>3, <1>9 DEF Conflict
  <2>2. pc'[p] \in Placing
    BY <1>3, <1>9 DEF Conflict, To, TypeInv, TypeOK, Placing
  <2> QED
    BY <1>6, <1>9, <2>1, <2>2
<1> QED
  BY <1>5, <1>7, <1>8, <1>9

LEMMA SucceedReports ==
  ASSUME TypeInv, NEW p \in Procs, RunSucceeds(p)
  PROVE  Reported(p)'
<1> DEFINE new == run'[p]
<1>1. /\ new.todo = IF new.policy = "immediate" THEN Heals(new) \ NoChange(new) ELSE {}
      /\ new.outcomes = Refused(new) \cup
           (IF new.policy = "immediate"
            THEN {Outcome(s, "refused", 0) : s \in NoChange(new)} ELSE {})
      /\ pc'[p] = IF new.todo # {} THEN "place"
                  ELSE IF /\ new.policy # "immediate"
                          /\ Heals(new) \cup At(new, "tried") \cup At(new, "recorded") # {}
                  THEN "hold" ELSE "record"
  BY SucceedSays
<1> HIDE DEF new
<1>2. \A o \in new.outcomes : Tells(history', new, o)
  <2>1. \A o \in new.outcomes : o.result \notin Naming
    BY <1>1, TellsOfOutcomes DEF Naming
  <2> QED
    BY <2>1, OthersTell
<1>3. Refused(new) \subseteq new.outcomes
  BY <1>1
<1>4. ASSUME NEW s \in At(new, "healed") \cup At(new, "uncaptured"), s \notin new.todo,
             pc'[p] # "hold"
      PROVE  Told(new, s)
  <2>1. CASE s \in At(new, "uncaptured") \cup Unapproved(new)
    BY <1>3, <2>1, RefusedIsTold
  <2>2. CASE s \in Heals(new)
    <3>1. new.policy = "immediate" /\ s \in NoChange(new)
      BY <1>1, <1>4, <2>2
    <3>2. Outcome(s, "refused", 0) \in new.outcomes
      BY <1>1, <3>1
    <3> QED
      BY <3>2, TellsOfOutcomes DEF Told
  <2> QED
    BY <1>4, <2>1, <2>2 DEF Heals
<1> QED
  BY <1>1, <1>2, <1>3, <1>4 DEF Reported, new

LEMMA FailReports ==
  ASSUME TypeInv, NEW p \in Procs, StoreFails(p)
  PROVE  Reported(p)'
<1> DEFINE r == run[p]
           new == run'[p]
<1>1. /\ pc'[p] = "record" /\ SameRun(p)
      /\ new.outcomes = Refused(r) \cup {Outcome(s, "store_unavailable", 0) : s \in Heals(r)}
  BY FailSays
<1>2. \A how : At(new, how) = At(r, how)
  BY <1>1, SameHeals
<1> HIDE DEF new, r
<1>3. \A o \in new.outcomes : Tells(history', new, o)
  <2>1. \A o \in new.outcomes : o.result \notin Naming
    BY <1>1, TellsOfOutcomes DEF Naming
  <2> QED
    BY <2>1, OthersTell
<1>4. ASSUME NEW s \in At(r, "healed") \cup At(r, "uncaptured") PROVE Told(new, s)
  <2>1. CASE s \in At(r, "uncaptured") \cup Unapproved(r)
    <3>1. \/ Outcome(s, "not_capturable", 0) \in new.outcomes
          \/ Outcome(s, "not_approved", 0) \in new.outcomes
      BY <1>1, <2>1 DEF Refused
    <3> QED
      BY <3>1, TellsOfOutcomes DEF Told
  <2>2. CASE s \in Heals(r)
    <3>1. Outcome(s, "store_unavailable", 0) \in new.outcomes
      BY <1>1, <2>2
    <3> QED
      BY <3>1, TellsOfOutcomes DEF Told
  <2> QED
    BY <1>4, <2>1, <2>2 DEF Heals
<1> QED
  BY <1>1, <1>2, <1>3, <1>4 DEF Reported, new

LEMMA ReportStep ==
  ASSUME TypeInv, EvidenceInv, PlanInv, ReportInv, NEW p \in Procs, Acts(p)
  PROVE  ReportInv'
<1>1. Footprint(p) /\ TypeOK /\ Begins(history, history')
  BY StepsHaveFootprints, HistoryGrows DEF TypeInv
<1>2. ASSUME NEW q \in Procs \ {p} PROVE Reported(q)'
  <2>1. pc'[q] = pc[q] /\ run'[q] = run[q] /\ Reported(q)
    BY <1>1 DEF Footprint, OnlyMoves, ReportInv
  <2>2. \A o \in run[q].outcomes : Tells(history', run[q], o)
    BY <1>1, <2>1, TellsStay DEF Reported
  <2> QED
    BY <2>1, <2>2 DEF Reported
<1>3. ASSUME run'[p].outcomes = {}, pc'[p] \in {"idle", "planned", "first", "tries", "running"}
      PROVE  Reported(p)'
  BY <1>3 DEF Reported
<1>4. ASSUME StartRun(p) PROVE Reported(p)'
  <2>1. /\ run'[p].outcomes = {}
        /\ pc'[p] \in {"idle", "planned", "first", "tries", "running"}
    BY <1>1, <1>4 DEF StartRun, Sourced, Keep, To, Run, TypeOK
  <2> QED
    BY <1>3, <2>1
<1>5. ASSUME RunFails(p) \/ Record(p) \/ PublishPlan(p) \/ Stops(p)
              \/ (ChooseAgain(p) /\ ~Saves(history, run[p].content))
      PROVE  Reported(p)'
  <2>1. run'[p] = NoRun /\ pc'[p] = "idle"
    BY <1>1, <1>5 DEF RunFails, Record, PublishPlan, Stops, ChooseAgain, Leave, Keep, To, TypeOK
  <2> QED
    BY <1>3, <2>1 DEF NoRun, Run
\* A run that is on its way has nothing to report yet.
<1>6. ASSUME \/ PublishFirst(p) \/ ReadTries(p)
             \/ ChooseAgain(p) /\ Saves(history, run[p].content)
      PROVE  Reported(p)'
  <2>1. RunTypeOK(run[p]) /\ run[p].outcomes = {}
    BY <1>6 DEF PublishFirst, ReadTries, ChooseAgain, TypeInv, Typed, Working, Location,
      ReportInv, Reported
  <2>2. \/ run'[p] = run[p]
        \/ run'[p] = [run[p] EXCEPT !.content = Latest(history).content]
        \/ \E tries \in {{}, FirstTries(pending, run[p].content)} :
             run'[p] = [run[p] EXCEPT !.tries = tries]
    BY <1>1, <1>6 DEF PublishFirst, ReadTries, ChooseAgain, Sourced, Keep, TypeOK
  <2>3. run'[p].outcomes = run[p].outcomes
    BY <2>1, <2>2 DEF RunTypeOK, NoRun, Run
  <2>4. pc'[p] \in {"tries", "running"}
    BY <1>1, <1>6 DEF PublishFirst, ReadTries, ChooseAgain, Sourced, To, TypeOK
  <2> QED
    BY <1>3, <2>1, <2>3, <2>4
<1>7. ASSUME PlanImport(p) \/ PlanRollback(p) PROVE Reported(p)'
  <2>1. pc[p] = "idle" /\ pc'[p] = "planned" /\ run' = run
    BY <1>7, PlanSays
  <2>2. run[p].outcomes = {}
    BY <2>1 DEF ReportInv, Reported
  <2> QED
    BY <1>3, <2>1, <2>2
<1>8. ASSUME Hold(p) PROVE Reported(p)'
  <2>1. /\ pc[p] = "hold" /\ pc'[p] = "count" /\ RunTypeOK(run[p]) /\ Reported(p)
        /\ run'[p] = [run[p] EXCEPT !.patches = pending] /\ history' = history
    BY <1>1, <1>8 DEF Hold, Keep, To, TypeInv, TypeOK, Typed, Working, Location, ReportInv
  <2>2. SameRun(p) /\ run'[p].outcomes = run[p].outcomes
    BY <2>1 DEF SameRun, RunTypeOK, NoRun, Run
  <2>3. Refused(run'[p]) = Refused(run[p]) /\ run'[p].id = run[p].id
        /\ \A s : HealAt(run'[p], s) = HealAt(run[p], s)
    BY <2>2, SameHeals DEF SameRun
  <2>4. \A o \in run[p].outcomes : Tells(history', run'[p], o)
    BY <1>1, <2>1, <2>3, TellsStay DEF Reported
  <2> QED
    BY <2>1, <2>2, <2>3, <2>4 DEF Reported
<1>9. ASSUME Replace(p) PROVE Reported(p)'
  <2>1. pc[p] = "replace" /\ pc'[p] = "record" /\ run' = run /\ history' = history /\ Reported(p)
    BY <1>1, <1>9 DEF Replace, To, TypeOK, ReportInv
  <2> QED
    BY <2>1 DEF Reported
<1> QED
  BY <1>2, <1>4, <1>5, <1>6, <1>7, <1>8, <1>9, SucceedReports, CountReports, PlacingReports, FailReports
    DEF ReportInv, Acts

-----------------------------------------------------------------------------
(* The theorems.                                                           *)

LEMMA InvStep == Inv /\ [Next]_vars => Inv'
<1> SUFFICES ASSUME Inv, [Next]_vars PROVE Inv'
  OBVIOUS
<1>1. TypeInv /\ LockInv /\ EvidenceInv /\ PlanInv /\ VersionInv /\ ReportInv
  BY DEF Inv
<1>2. CASE UNCHANGED vars
  <2> USE <1>2 DEF vars
  <2>1. TypeInv' /\ LockInv'
    BY <1>1 DEF TypeInv, TypeOK, Typed, LockInv, Held, Holding
  <2>2. EvidenceInv'
    BY <1>1 DEF EvidenceInv, Supported
  <2>3. PlanInv'
    BY <1>1 DEF PlanInv, Planned, PlannedByPerson, PlannedHeal, Undone
  <2>4. VersionInv'
    BY <1>1 DEF VersionInv, HealsHaveParents, EvidenceIsReal, RolledBackStaysBack, HealVersions,
      HealOf, SameHeal
  <2>5. ReportInv'
    BY <1>1 DEF ReportInv, Reported, Tells
  <2> QED
    BY <2>1, <2>2, <2>3, <2>4, <2>5 DEF Inv
<1>3. CASE Next
  <2>1. PICK p \in Procs : Acts(p)
    BY <1>3 DEF Next, Acts
  <2> QED
    BY <1>1, <1>3, <2>1, TypeStep, LockStep, EvidenceStep, PlanStep, VersionStep, ReportStep DEF Inv
<1> QED
  BY <1>2, <1>3

LEMMA Invariance == Spec => []Inv
BY InitInv, InvStep, PTL DEF Spec

\* A version that a heal made rests on runs that succeeded and verified exactly
\* this heal, on as many as the policy asks for (Patcher.promote), however many
\* processes count, place and publish at once, and whatever fails in between.
THEOREM HealsAreBacked == Spec => []EvidenceIsReal
<1>1. Inv => EvidenceIsReal
  BY DEF Inv, VersionInv
<1> QED
  BY <1>1, Invariance, PTL

\* A heal that a rollback undid is never published again: also one whose run was
\* under way while the person rolled back (rebase.undoing_rollback).
THEOREM RollbacksHold == Spec => []RolledBackStaysBack
<1>1. Inv => RolledBackStaysBack
  BY DEF Inv, VersionInv
<1> QED
  BY <1>1, Invariance, PTL

\* Every heal of a finished run is reported, and what is reported is true of the
\* stored versions (PatchOutcome, eligibility.py).
THEOREM OutcomesTold == Spec => []OutcomesAreTold
<1>1. Inv => OutcomesAreTold
  <2> SUFFICES ASSUME Inv PROVE OutcomesAreTold
    OBVIOUS
  <2>1. TypeOK /\ \A p \in Procs : Reported(p)
    BY DEF Inv, TypeInv, ReportInv
  <2>2. OutcomesAreTrue
    <3> SUFFICES ASSUME NEW p \in Procs, NEW o \in run[p].outcomes
                 PROVE  LET r == run[p]
                            named == history[o.version]
                            heal == HealAt(r, o.step)
                        IN /\ o.result = "published" =>
                                /\ o.version \in HealVersions /\ IsHeal(named, heal)
                                /\ r.id \in named.change.runs
                           /\ o.result = "already_applied" =>
                                named.content[o.step] = [heal.base EXCEPT !.target = heal.new]
                           /\ o.result = "previously_rolled_back" =>
                                /\ named.change.kind = "rollback"
                                /\ named.content[o.step].target = heal.base.target
                           /\ o.result = "stale" => named.content[o.step] # heal.base
      BY DEF OutcomesAreTrue
    <3>1. Tells(history, run[p], o)
      BY <2>1 DEF Reported
    <3>2. o.result = "published" => o.version \in HealVersions
      BY <3>1 DEF Tells, HealVersions, IsHeal
    <3> QED
      BY <3>1, <3>2 DEF Tells
  <2>3. EveryHealReported
    BY <2>1 DEF EveryHealReported, Reported, Told
  <2> QED
    BY <2>1, <2>2, <2>3 DEF OutcomesAreTold
<1> QED
  BY <1>1, Invariance, PTL

\* The stored versions implement the log of VersionLog: they only grow, and each
\* says truly how it differs from the last (heal_version, edit_version and
\* roll_back_version under FileWorkflowStore.publish).
THEOREM VersionsAreALog == Spec => KeepsLog
<1>1. Init => Log!Init
  BY DEF Init, Log!Init
<1>2. Inv /\ [Next]_vars => [Log!Next]_history
  <2> SUFFICES ASSUME Inv, [Next]_vars PROVE [Log!Next]_history
    OBVIOUS
  <2>1. CASE UNCHANGED vars
    BY <2>1 DEF vars
  <2>2. CASE Next
    <3>1. PICK p \in Procs : Acts(p)
      BY <2>2 DEF Next, Acts
    <3> QED
      BY <3>1, LogStep DEF Inv
  <2> QED
    BY <2>1, <2>2
<1> QED
  BY <1>1, <1>2, Invariance, PTL DEF Spec, KeepsLog, Log!Spec

\* No write of the pending patches forgets a success an earlier one counted, so
\* neither the versions nor the counts are ever lost (FilePendingPatches.hold).
THEOREM NothingIsForgotten == Spec => NothingForgotten
<1>1. Inv /\ [Next]_vars =>
        [\A heal \in DOMAIN pending \cap DOMAIN pending' :
           pending[heal].runs \subseteq pending'[heal].runs]_pending
  <2> SUFFICES ASSUME Inv, [Next]_vars
               PROVE  [\A heal \in DOMAIN pending \cap DOMAIN pending' :
                         pending[heal].runs \subseteq pending'[heal].runs]_pending
    OBVIOUS
  <2>1. CASE UNCHANGED vars
    BY <2>1 DEF vars
  <2>2. CASE Next
    <3>1. PICK p \in Procs : Acts(p)
      BY <2>2 DEF Next, Acts
    <3> QED
      BY <3>1, LockStep DEF Inv
  <2> QED
    BY <2>1, <2>2
<1>2. Spec => CountsKept
  BY <1>1, Invariance, PTL DEF Spec, CountsKept
<1> QED
  BY <1>2, VersionsAreALog DEF NothingForgotten
=============================================================================
