-------------------------- MODULE PatchingProperties --------------------------
(***************************************************************************)
(* What promoting heals must keep true of the versions, of the pending     *)
(* patches, and of what a run's record says became of its heals.           *)
(***************************************************************************)
EXTENDS Patching

NeedsApproval(step) == step.risk = "irreversible"

Log == INSTANCE VersionLog WITH log <- history, Irreversible <- NeedsApproval

HealVersions == {n \in 1..Len(history) : history[n].change.kind = "heal"}

\* The heal a version made: of the exact step its parent has.
HealOf(n) ==
  LET change == history[n].change IN
  [step |-> change.step, base |-> history[n - 1].content[change.step],
   new |-> change.new]

SameHeal(i, k) ==
  LET one == history[i].change  two == history[k].change IN
  one.step = two.step /\ one.old = two.old /\ one.new = two.new

Plans == [parent : Nat, child : [content : Content, change : Changes]]

\* Every variable has its type (the change records of lineage.py, the
\* documents of the stores, what Patcher.promote keeps on its stack).
TypeOK ==
  /\ history \in Seq([content : Content, change : Changes])
  /\ DOMAIN pending \subseteq Heal
  /\ \A heal \in DOMAIN pending : pending[heal] \in PendingPatch
  /\ lock \in Procs \cup {NoProc}
  /\ pc \in [Procs -> Location] /\ DOMAIN run = Procs /\ DOMAIN plan = Procs
  /\ \A p \in Procs : /\ plan[p] \in Plans \cup {NoPlan}
                      /\ run[p] = NoRun \/ RunTypeOK(run[p])
  /\ runs \in 0..MaxRuns
  /\ verified \subseteq Runs \X Heal

\* The stored versions are a log that only grows, whose every version says
\* truly how it differs from the last (FileWorkflowStore.publish with
\* heal_version, edit_version, roll_back_version): a heal planned on a version
\* that is no longer the latest is never stored.
KeepsLog == Log!Spec

\* Two runs that finish at once both count: no write of the pending patches
\* forgets a success an earlier one counted (FilePendingPatches.hold).
CountsKept ==
  [][\A heal \in DOMAIN pending \cap DOMAIN pending' :
       pending[heal].runs \subseteq pending'[heal].runs]_pending

\* Neither the versions nor the counts towards the next one are ever forgotten.
NothingForgotten == KeepsLog /\ CountsKept

\* A version that a heal made rests on runs that succeeded and verified exactly
\* this heal of exactly the step its parent has, and on as many as the policy
\* asks for (Patcher.promote: counted, place, _settle_pending).
EvidenceIsReal ==
  \A n \in HealVersions :
    LET change == history[n].change IN
    /\ change.runs # {}
    /\ \A id \in change.runs : <<id, HealOf(n)>> \in verified
    /\ change.policy = "after_n_successes" => Cardinality(change.runs) >= Required

\* A heal that a rollback undid, leaving its step on the old target, is never
\* published again (rebase.undoing_rollback), also when it was on its way while
\* the person rolled back.
RolledBackStaysBack ==
  \A i, k \in HealVersions : i < k /\ SameHeal(i, k) =>
    \A j \in (i + 1)..(k - 1) :
      ~ /\ history[j].change.kind = "rollback"
        /\ history[j].change.restored < i
        /\ history[j].content[history[i].change.step].target = history[i].change.old

\* What a run's record says of its heals is true of the stored versions
\* (PatchOutcome): the version it names exists and is what the outcome says.
OutcomesAreTrue ==
  \A p \in Procs : \A o \in run[p].outcomes :
    LET r == run[p]
        named == history[o.version]
        heal == HealAt(r, o.step)
    IN /\ o.result = "published" =>
            /\ o.version \in HealVersions /\ IsHeal(named, heal)
            /\ r.id \in named.change.runs
       /\ o.result = "already_applied" =>
            named.content[o.step] = [heal.base EXCEPT !.target = heal.new]
       /\ o.result = "previously_rolled_back" =>
            /\ named.change.kind = "rollback"
            /\ named.content[o.step].target = heal.base.target
       /\ o.result = "stale" => named.content[o.step] # heal.base

\* No heal of a finished run disappears silently: each has an outcome of its
\* own, also when the store failed in between (eligibility.py).
EveryHealReported ==
  \A p \in Procs : pc[p] = "record" =>
    \A s \in At(run[p], "healed") \cup At(run[p], "uncaptured") :
      \E o \in run[p].outcomes : o.step = s /\ o.result # "discarded"

\* Every heal of a finished run is reported, and what is reported is true of
\* the versions that are stored.
OutcomesAreTold == TypeOK /\ OutcomesAreTrue /\ EveryHealReported
=============================================================================
