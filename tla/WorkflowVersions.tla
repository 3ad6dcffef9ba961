--------------------------- MODULE WorkflowVersions ---------------------------
(***************************************************************************)
(* A workflow's stored versions and what decides the next one: the ways a  *)
(* child version is derived (domain/lineage.py), which version a file runs *)
(* (patching/sources.py), where a verified heal stands against the latest  *)
(* version (patching/rebase.py), and which pending patches a finished run  *)
(* retires (patching/patcher.py).                                          *)
(*                                                                         *)
(* A step keeps its target and its risk; its risk stands for everything    *)
(* else a step says (intent, value, checkpoints).  A version's number is   *)
(* its position in the history, and every version has the same steps.      *)
(***************************************************************************)
EXTENDS Naturals, Sequences

CONSTANTS
  NumSteps,  \* How many steps the workflow has.
  Targets,   \* The elements a step may target.
  Unusable   \* Targets a step cannot take on by a heal, such as a password field.

ASSUME VersionsAssumption ==
  /\ NumSteps \in Nat \ {0}
  /\ Unusable \subseteq Targets

Steps == 1..NumSteps

Step == [target : Targets, risk : {"safe", "irreversible"}]
Content == [Steps -> Step]

\* A heal: this exact step was found to be this element (the identity of a
\* pending patch, too).
Heal == [step : Steps, base : Step, new : Targets]

First == [kind |-> "first"]
Edit == [kind |-> "edit"]
Rollback(restored) == [kind |-> "rollback", restored |-> restored]
HealChange(heal, approved, policy, runs) ==
  [kind |-> "heal", step |-> heal.step, old |-> heal.base.target,
   new |-> heal.new, approved |-> approved, policy |-> policy, runs |-> runs]

Version(content, change) == [content |-> content, change |-> change]

Latest(history) == history[Len(history)]

-----------------------------------------------------------------------------
(* Deriving a child of the latest version.                                 *)

\* Every version before the latest whose content differs from it.
Restorable(history) ==
  {n \in 1..(Len(history) - 1) : history[n].content # Latest(history).content}

RollBackVersion(history, n) == Version(history[n].content, Rollback(n))

\* What a rollback may publish: planned on the latest version, not on the one a
\* person last looked at.
RollbackPlans(history) == {RollBackVersion(history, n) : n \in Restorable(history)}

\* What importing a file publishes: a first version or an edit.
ImportVersion(history, file) ==
  Version(file, IF history = <<>> THEN First ELSE Edit)

HealProblem(parent, change) ==
  \/ parent.content[change.step].target # change.old
  \/ parent.content[change.step].risk = "irreversible" /\ ~change.approved
  \/ change.new \in Unusable

HealVersion(parent, change) ==
  Version([parent.content EXCEPT ![change.step].target = change.new], change)

-----------------------------------------------------------------------------
(* Placing a heal on the latest version.                                   *)

IsHeal(version, heal) ==
  LET change == version.change IN
  /\ change.kind = "heal" /\ change.step = heal.step
  /\ change.old = heal.base.target /\ change.new = heal.new

MutUndoingRollbacks(history, heal) == {}

\* The rollbacks that undid this heal.
UndoingRollbacks(history, heal) ==
  {j \in 1..Len(history) :
     /\ history[j].change.kind = "rollback"
     /\ history[j].content[heal.step].target = heal.base.target
     /\ \E i \in 1..(j - 1) : /\ IsHeal(history[i], heal)
                              /\ history[j].change.restored < i}

Placement == {"publish", "already_applied", "stale", "previously_rolled_back"}

Placed(placement, n) == [placement |-> placement, version |-> n]

\* With the version that already has the target, or that undid the heal (the
\* code names the one it finds first).
Place(history, heal) ==
  LET current == Latest(history).content[heal.step]
      undoing == UndoingRollbacks(history, heal)
  IN IF current = heal.base
     THEN IF undoing = {} THEN Placed("publish", Len(history))
          ELSE Placed("previously_rolled_back", CHOOSE j \in undoing : TRUE)
     ELSE IF current = [heal.base EXCEPT !.target = heal.new]
          THEN Placed("already_applied", Len(history))
          ELSE Placed("stale", Len(history))

-----------------------------------------------------------------------------
(* Which version a file runs.                                              *)

\* Whether a run of the file saves heals, and so executes the latest version: not
\* when no version has the file's content, or one was imported after it.
Saves(history, file) ==
  \E n \in 1..Len(history) :
    /\ history[n].content = file
    /\ \A m \in (n + 1)..Len(history) : history[m].change.kind # "edit"

-----------------------------------------------------------------------------
(* Pending patches: a partial function from heals to how often they were   *)
(* verified, and whether the first verified heal had an approval.          *)

Patch(runs, approved) == [runs |-> runs, approved |-> approved]

\* The pending targets a run of this content tries before healing.
FirstTries(pending, content) ==
  {heal \in DOMAIN pending : content[heal.step] = heal.base}

\* The latest step is another one, or the run found the step's recorded target.
Retired(heal, latest, ran, recorded) ==
  \/ latest[heal.step] # heal.base
  \/ heal.step \in recorded /\ ran[heal.step] = heal.base
=============================================================================
