------------------------------ MODULE MCPatching ------------------------------
(* Instances of a workflow's versions for TLC.                              *)
EXTENDS PatchingProperties, TLC

CONSTANTS a, b, c

Safe(target) == [target |-> target, risk |-> "safe"]
Risky(target) == [target |-> target, risk |-> "irreversible"]

\* A file of two steps of which the second is irreversible, and an edit that
\* makes it safe: the edit keeps both targets.
TwoSteps == {<<Safe(b), Risky(b)>>, <<Safe(b), Safe(b)>>}

Symmetry == Permutations(Procs)
=============================================================================
