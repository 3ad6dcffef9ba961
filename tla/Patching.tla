------------------------------- MODULE Patching -------------------------------
(***************************************************************************)
(* How runs and people publish versions of one workflow.  A run takes the  *)
(* version to execute from the store, may try pending patches, and when it *)
(* succeeds promotes its heals: at once, or after they were verified by    *)
(* several runs, counted in the pending patches' document under a file     *)
(* lock.  A person imports a file or rolls back.  Every publish is a child *)
(* of the version its process read as the latest, given the next number by *)
(* an exclusive link.  Processes interleave at every read and write of the *)
(* store and may crash or lose the store at any of them.                   *)
(***************************************************************************)
EXTENDS WorkflowVersions, FiniteSets

CONSTANTS
  Procs,         \* Processes: one command at a time each.
  NoProc,        \* The lock when nobody holds it.
  Files,         \* What the workflow files people have contain.
  Policies,      \* The promotion policies runs are configured with.
  Required,      \* Successes a pending patch needs (successes_required).
  Attempts,      \* How often one heal is placed (publish_attempts).
  MaxRuns,       \* Bound: runs started.
  MaxImports,    \* Bound: versions after which people import no more, and
  MaxRollbacks   \* bound: roll back no more; runs go on past both.

ASSUME PatchingAssumption ==
  /\ NoProc \notin Procs
  /\ Files \subseteq Content
  /\ Policies \subseteq {"immediate", "after_n_successes"}
  /\ Required \in Nat /\ Required >= 2
  /\ Attempts \in Nat \ {0}
  /\ MaxRuns \in Nat /\ MaxImports \in Nat /\ MaxRollbacks \in Nat

Runs == 1..MaxRuns

Changes ==
  {First, Edit} \cup [kind : {"rollback"}, restored : Nat]
    \cup [kind : {"heal"}, step : Steps, old : Targets, new : Targets,
          approved : BOOLEAN, policy : Policies, runs : SUBSET Runs]

PendingPatch == [runs : SUBSET Runs, approved : BOOLEAN]

VARIABLES
  history,  \* The stored versions, oldest first.
  pending,  \* The pending patches' document.
  lock,     \* The process holding the pending patches, or NoProc.
  pc,       \* What each process does next.
  run,      \* The run each process is working on.
  plan,     \* The version each process is about to store, and its parent.
  runs,     \* How many runs were started; a run's id is its number.
  verified  \* What the succeeded runs verified: pairs of a run and a heal.

vars == <<history, pending, lock, pc, run, plan, runs, verified>>

\* Where a process is: at the read or the write of a store it does next.
Location == {"idle", "planned", "first", "tries", "running", "hold", "count",
             "place", "link", "replace", "record"}

\* How a step's target was found: recorded, a pending patch's, or by a heal,
\* whose element could be fingerprinted or not.
How == {"recorded", "tried", "healed", "uncaptured"}
Seen == [how : How, new : Targets, approved : BOOLEAN]

\* What can come of a heal or a pending patch (PatchResult).
Results == {"published", "pending", "already_applied", "stale",
            "previously_rolled_back", "not_capturable", "not_approved",
            "refused", "conflict", "store_unavailable", "discarded"}

\* A run: the content it executes, the pending targets it tries, what it saw,
\* and, while it is promoted, the heals still to be placed and how often the
\* current one was, the patches as the hold has them, and what came of each.
Run(id, policy, content) ==
  [id |-> id, policy |-> policy, content |-> content, tries |-> {},
   seen |-> <<>>, todo |-> {}, attempt |-> 0, patches |-> <<>>, outcomes |-> {}]

NoRun == Run(0, "immediate", <<>>)

RunTypeOK(r) ==
  /\ DOMAIN r = DOMAIN NoRun
  /\ r.id \in Runs /\ r.policy \in Policies /\ r.content \in Content
  /\ r.tries \subseteq Heal /\ r.todo \subseteq Steps /\ r.attempt \in 0..Attempts
  /\ r.seen \in [Steps -> Seen] \cup {<<>>}
  /\ DOMAIN r.patches \subseteq Heal
  /\ \A heal \in DOMAIN r.patches : r.patches[heal] \in PendingPatch
  /\ r.outcomes \subseteq [step : Steps, result : Results, version : Nat]

NoPlan == [parent |-> 0, child |-> <<>>]

To(p, location) == pc' = [pc EXCEPT ![p] = location]
Keep(p, r) == run' = [run EXCEPT ![p] = r]
Plan(p, parent, child) ==
  plan' = [plan EXCEPT ![p] = [parent |-> parent, child |-> child]]
Unplan(p) == plan' = [plan EXCEPT ![p] = NoPlan]

\* The command ends, or its process does.
Leave(p) ==
  /\ To(p, "idle")
  /\ Keep(p, NoRun)
  /\ Unplan(p)

\* The exclusive link: the planned version gets its number only if no file has.
Unlinked(p) == plan[p].parent = Len(history)

\* The same bytes are stored already: only a file's first version can be.
SameBytes(p) ==
  /\ plan[p].parent = 0 /\ history # <<>>
  /\ history[1] = plan[p].child

HealAt(r, s) == [step |-> s, base |-> r.content[s], new |-> r.seen[s].new]

At(r, how) == {s \in Steps : r.seen[s].how = how}

Outcome(s, result, n) == [step |-> s, result |-> result, version |-> n]

-----------------------------------------------------------------------------
(* Running a workflow file.                                                *)

\* Only a run that counts successes reads the pending patches.
Sourced(p, r) ==
  Keep(p, r) /\ To(p, IF r.policy = "immediate" THEN "running" ELSE "tries")

\* resolve_source reads the history.  A run whose heals are not saved touches
\* no store, and is no behaviour of this module.
StartRun(p) ==
  /\ pc[p] = "idle" /\ runs < MaxRuns
  /\ \E file \in Files, policy \in Policies :
       \/ /\ history = <<>>
          /\ To(p, "first") /\ Keep(p, Run(runs + 1, policy, file))
          /\ Plan(p, 0, Version(file, First))
       \/ /\ Saves(history, file)
          /\ Sourced(p, Run(runs + 1, policy, Latest(history).content))
          /\ UNCHANGED plan
  /\ runs' = runs + 1
  /\ UNCHANGED <<history, pending, lock, verified>>

\* The file is stored as the first version.
PublishFirst(p) ==
  /\ pc[p] = "first" /\ (Unlinked(p) \/ SameBytes(p))
  /\ history' = IF SameBytes(p) THEN history ELSE Append(history, plan[p].child)
  /\ Sourced(p, run[p]) /\ Unplan(p)
  /\ UNCHANGED <<pending, lock, runs, verified>>

\* Another process stored another first version: the choice is made again.
ChooseAgain(p) ==
  /\ pc[p] = "first" /\ ~Unlinked(p) /\ ~SameBytes(p)
  /\ IF Saves(history, run[p].content)
     THEN /\ Sourced(p, [run[p] EXCEPT !.content = Latest(history).content])
          /\ Unplan(p)
     ELSE Leave(p)
  /\ UNCHANGED <<history, pending, lock, runs, verified>>

\* The pending patches are read without the lock; none are tried if unreadable.
ReadTries(p) ==
  /\ pc[p] = "tries"
  /\ \E tries \in {{}, FirstTries(pending, run[p].content)} :
       Keep(p, [run[p] EXCEPT !.tries = tries])
  /\ To(p, "running")
  /\ UNCHANGED <<history, pending, lock, plan, runs, verified>>

\* The run ends any other way than succeeded: none of its heals is saved.
RunFails(p) ==
  /\ pc[p] = "running" /\ Leave(p)
  /\ UNCHANGED <<history, pending, lock, runs, verified>>

\* What a step can show: a tried target is a pending patch's, a heal may find
\* any element, and a heal that acted on an irreversible step was approved, or
\* (replayed from a record) was not.
Observable(r, s) ==
  /\ r.seen[s].how = "tried" => HealAt(r, s) \in r.tries
  /\ r.seen[s].how \in {"recorded", "uncaptured"} => r.seen[s].new = r.content[s].target
  /\ r.seen[s].approved => r.seen[s].how = "healed" /\ r.content[s].risk = "irreversible"

\* Heals of irreversible steps without an approval that acted and was verified.
Unapproved(r) ==
  {s \in At(r, "healed") : r.content[s].risk = "irreversible" /\ ~r.seen[s].approved}

\* The heals that may become versions.
Heals(r) == At(r, "healed") \ Unapproved(r)

\* Heals that are reported and not saved, whatever the policy.
Refused(r) ==
  {Outcome(s, "not_capturable", 0) : s \in At(r, "uncaptured")}
    \cup {Outcome(s, "not_approved", 0) : s \in Unapproved(r)}

\* A heal to the very target that was recorded is not a change.
NoChange(r) == {s \in Heals(r) : r.seen[s].new = r.content[s].target}

\* The run succeeds and promote() begins: at once with its heals, or with the
\* hold on the pending patches.
RunSucceeds(p) ==
  /\ pc[p] = "running"
  /\ \E seen \in [Steps -> Seen] :
       LET r == [run[p] EXCEPT !.seen = seen]
           now == r.policy = "immediate"
           todo == IF now THEN Heals(r) \ NoChange(r) ELSE {}
           refused == IF now THEN {Outcome(s, "refused", 0) : s \in NoChange(r)} ELSE {}
       IN /\ \A s \in Steps : Observable(r, s)
          /\ Keep(p, [r EXCEPT !.todo = todo, !.outcomes = Refused(r) \cup refused])
          /\ verified' = verified \cup
               {<<r.id, HealAt(r, s)>> : s \in Heals(r) \cup At(r, "tried")}
          /\ To(p, IF todo # {} THEN "place"
                   ELSE IF ~now /\ Heals(r) \cup At(r, "tried") \cup At(r, "recorded") # {}
                   THEN "hold" ELSE "record")
  /\ UNCHANGED <<history, pending, lock, plan, runs>>

\* The final record, with its outcomes, is written.
Record(p) ==
  /\ pc[p] = "record" /\ Leave(p)
  /\ UNCHANGED <<history, pending, lock, runs, verified>>

-----------------------------------------------------------------------------
(* Counting successes, under the lock on the pending patches.              *)

\* Only the holder writes the document, so it stays as it was read.
Hold(p) ==
  /\ pc[p] = "hold" /\ lock = NoProc
  /\ lock' = p
  /\ Keep(p, [run[p] EXCEPT !.patches = pending]) /\ To(p, "count")
  /\ UNCHANGED <<history, pending, plan, runs, verified>>

Placeable(r, s) == Place(history, HealAt(r, s)).placement = "publish"

\* The steps whose heal is, or stays, a pending patch: this run counts for it.
Counted(r, kept) ==
  {s \in At(r, "tried") : HealAt(r, s) \in kept}
    \cup {s \in Heals(r) \ NoChange(r) : Placeable(r, s)}

\* The patches as the hold leaves them.
NewPatches(r, kept, counted) ==
  LET healed == {HealAt(r, s) : s \in counted} IN
  [heal \in kept \cup healed |->
     IF heal \notin healed THEN r.patches[heal]
     ELSE IF heal \in kept
          THEN Patch(r.patches[heal].runs \cup {r.id}, r.patches[heal].approved)
          ELSE Patch({r.id}, r.seen[heal.step].approved)]

MutDisplaced(r) ==
  {LET placed == Place(history, HealAt(r, s)) IN
   Outcome(s, placed.placement, placed.version)
     : s \in {t \in Heals(r) : ~Placeable(r, t)}}

\* Heals that cannot wait: no change, or not of the latest version's step.
Displaced(r) ==
  {Outcome(s, "refused", 0) : s \in {t \in NoChange(r) : Placeable(r, t)}}
    \cup {LET placed == Place(history, HealAt(r, s)) IN
          Outcome(s, placed.placement, placed.version)
            : s \in {t \in Heals(r) : ~Placeable(r, t)}}

\* The history is read, patches left behind are retired, the run's successes
\* are counted, and the heals with enough of them are to be published.
Count(p) ==
  /\ pc[p] = "count"
  /\ LET r == run[p]
         kept == {heal \in DOMAIN r.patches :
                    ~Retired(heal, Latest(history).content, r.content, At(r, "recorded"))}
         counted == Counted(r, kept)
         patches == NewPatches(r, kept, counted)
         enough == {s \in counted : Cardinality(patches[HealAt(r, s)].runs) >= Required}
     IN /\ Keep(p, [r EXCEPT !.patches = patches, !.todo = enough,
                      !.outcomes = r.outcomes \cup Displaced(r)
                        \cup {Outcome(heal.step, "discarded", 0) : heal \in DOMAIN r.patches \ kept}
                        \cup {Outcome(s, "pending", 0) : s \in counted \ enough}])
        /\ To(p, IF enough # {} THEN "place" ELSE "replace")
  /\ UNCHANGED <<history, pending, lock, plan, runs, verified>>

\* One write replaces the document, and the hold ends.
Replace(p) ==
  /\ pc[p] = "replace"
  /\ pending' = run[p].patches
  /\ lock' = NoProc
  /\ To(p, "record")
  /\ UNCHANGED <<history, run, plan, runs, verified>>

-----------------------------------------------------------------------------
(* Publishing heals, one version each.                                     *)

\* First tries are settled before heals, each in step order.
Current(r) ==
  LET tried == r.todo \cap At(r, "tried")
      first == IF tried # {} THEN tried ELSE r.todo
  IN CHOOSE s \in first : \A t \in first : s <= t

\* What came of the current heal; its pending patch stays only after a conflict.
Settle(p, result, n) ==
  LET r == run[p]
      s == Current(r)
      rest == r.todo \ {s}
      left == DOMAIN r.patches \ (IF result = "conflict" THEN {} ELSE {HealAt(r, s)})
  IN /\ Keep(p, [r EXCEPT !.todo = rest, !.attempt = 0,
                   !.outcomes = r.outcomes \cup {Outcome(s, result, n)},
                   !.patches = [heal \in left |-> r.patches[heal]]])
     /\ To(p, IF rest # {} THEN "place"
              ELSE IF r.policy = "immediate" THEN "record" ELSE "replace")

MutChange(r) ==
  LET heal == HealAt(r, Current(r)) IN
  HealChange(heal, r.seen[heal.step].approved, r.policy, {r.id})

\* A pending patch's change is that of the first run that verified it.
Change(r) ==
  LET heal == HealAt(r, Current(r)) IN
  IF r.policy = "immediate"
  THEN HealChange(heal, r.seen[heal.step].approved, r.policy, {r.id})
  ELSE HealChange(heal, r.patches[heal].approved, r.policy, r.patches[heal].runs)

\* The history is read, the heal placed on it, and its child built.
PlaceHeal(p) ==
  /\ pc[p] = "place"
  /\ LET r == run[p]
         placed == Place(history, HealAt(r, Current(r)))
     IN \/ /\ placed.placement # "publish"
           /\ Settle(p, placed.placement, placed.version)
           /\ UNCHANGED plan
        \/ /\ placed.placement = "publish" /\ HealProblem(Latest(history), Change(r))
           /\ Settle(p, "refused", 0)
           /\ UNCHANGED plan
        \/ /\ placed.placement = "publish" /\ ~HealProblem(Latest(history), Change(r))
           /\ Plan(p, Len(history), HealVersion(Latest(history), Change(r)))
           /\ Keep(p, [r EXCEPT !.attempt = @ + 1]) /\ To(p, "link")
  /\ UNCHANGED <<history, pending, lock, runs, verified>>

LinkHeal(p) ==
  /\ pc[p] = "link" /\ Unlinked(p)
  /\ history' = Append(history, plan[p].child)
  /\ Settle(p, "published", Len(history) + 1) /\ Unplan(p)
  /\ UNCHANGED <<pending, lock, runs, verified>>

\* Another version has the number: the heal is placed again, or given up.
Conflict(p) ==
  /\ pc[p] = "link" /\ ~Unlinked(p)
  /\ IF run[p].attempt < Attempts
     THEN To(p, "place") /\ UNCHANGED run
     ELSE Settle(p, "conflict", 0)
  /\ Unplan(p)
  /\ UNCHANGED <<history, pending, lock, runs, verified>>

-----------------------------------------------------------------------------
(* People: what a command will do is planned, shown, then published.       *)

PlanImport(p) ==
  /\ pc[p] = "idle" /\ Len(history) < MaxImports
  /\ \E file \in Files :
       /\ history # <<>> => file # Latest(history).content
       /\ Plan(p, Len(history), ImportVersion(history, file))
  /\ To(p, "planned")
  /\ UNCHANGED <<history, pending, lock, run, runs, verified>>

PlanRollback(p) ==
  /\ pc[p] = "idle" /\ Len(history) < MaxRollbacks
  /\ \E child \in RollbackPlans(history) : Plan(p, Len(history), child)
  /\ To(p, "planned")
  /\ UNCHANGED <<history, pending, lock, run, runs, verified>>

MutPublishPlan(p) ==
  /\ pc[p] = "planned"
  /\ history' = Append(history, plan[p].child)
  /\ Leave(p)
  /\ UNCHANGED <<pending, lock, runs, verified>>

\* The plan is published exactly, or, when its number is taken, not at all.
PublishPlan(p) ==
  /\ pc[p] = "planned"
  /\ history' = IF Unlinked(p) THEN Append(history, plan[p].child) ELSE history
  /\ Leave(p)
  /\ UNCHANGED <<pending, lock, runs, verified>>

-----------------------------------------------------------------------------
(* Failures.                                                               *)

Promoting == {"hold", "count", "place", "link", "replace"}

Unlock(p) == lock' = IF lock = p THEN NoProc ELSE lock

\* A write that fails may have taken effect: the directory's sync comes last.
MayLand(p) ==
  \/ UNCHANGED <<history, pending>>
  \/ /\ pc[p] = "link" /\ Unlinked(p)
     /\ history' = Append(history, plan[p].child)
     /\ UNCHANGED pending
  \/ /\ pc[p] = "replace"
     /\ pending' = run[p].patches
     /\ UNCHANGED history

\* The store cannot be read or written while a run is promoted: every heal that
\* might have been saved is reported as not saved.
StoreFails(p) ==
  /\ pc[p] \in Promoting
  /\ MayLand(p)
  /\ Keep(p, [run[p] EXCEPT !.outcomes = Refused(run[p]) \cup
                {Outcome(s, "store_unavailable", 0) : s \in Heals(run[p])}])
  /\ To(p, "record") /\ Unplan(p) /\ Unlock(p)
  /\ UNCHANGED <<runs, verified>>

\* A process stops between any two of its steps, and the lock goes with it.  So
\* end an import or a rollback whose store fails, a run that cannot store its
\* first version (it runs as written), and a plan nobody confirms.
Stops(p) ==
  /\ pc[p] # "idle"
  /\ Leave(p) /\ Unlock(p)
  /\ UNCHANGED <<history, pending, runs, verified>>

-----------------------------------------------------------------------------
Init ==
  /\ history = <<>> /\ pending = <<>> /\ lock = NoProc
  /\ pc = [p \in Procs |-> "idle"]
  /\ run = [p \in Procs |-> NoRun]
  /\ plan = [p \in Procs |-> NoPlan]
  /\ runs = 0 /\ verified = {}

Next ==
  \E p \in Procs :
    \/ StartRun(p) \/ PublishFirst(p) \/ ChooseAgain(p) \/ ReadTries(p)
    \/ RunFails(p) \/ RunSucceeds(p) \/ Record(p)
    \/ Hold(p) \/ Count(p) \/ Replace(p)
    \/ PlaceHeal(p) \/ LinkHeal(p) \/ Conflict(p)
    \/ PlanImport(p) \/ PlanRollback(p) \/ PublishPlan(p)
    \/ StoreFails(p) \/ Stops(p)

Spec == Init /\ [][Next]_vars
=============================================================================
