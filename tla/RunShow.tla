------------------------------- MODULE RunShow --------------------------------
(***************************************************************************)
(* `mendwork show`, which reads a run without claiming it                  *)
(* (ApprovalDesk.current): it loads the record, then asks whether the run  *)
(* is claimed, then, if it is not, reads the audit log and completes what  *)
(* it loaded.  The run goes on between these reads.                        *)
(***************************************************************************)
EXTENDS RunProperties, TLC

VARIABLE show   \* [at, record]: how far the command is, and the record it has.

showVars == <<vars, show>>

ShowInit == Init /\ show = [at |-> "idle", record |-> NoRecord]

Load ==
  /\ show.at = "idle" /\ disk # NoRecord
  /\ show' = [at |-> "loaded", record |-> disk]
  /\ UNCHANGED vars

Probe ==
  /\ show.at = "loaded"
  /\ show' = [show EXCEPT !.at = IF claim # NoProc THEN "shown" ELSE "probed"]
  /\ UNCHANGED vars

CompleteLoaded ==
  /\ show.at = "probed"
  /\ show' = [at |-> "shown", record |-> AsLeft(show.record, audit)]
  /\ UNCHANGED vars

Runs == Next /\ UNCHANGED show

ShowNext == Load \/ Probe \/ CompleteLoaded \/ Runs

ShowSpec == ShowInit /\ [][ShowNext]_showVars

Shown == show.at = "shown"

\* A decision shown is in the audit log, and a proposal shown as pending on a
\* run shown as awaiting approval is the one the run stopped for.
ShownDecisionIsLogged ==
  Shown => \A i \in Steps :
    /\ show.record.decision[i] = "approved" => Approvals(i) # {}
    /\ show.record.decision[i] = "rejected" => Rejections(i) # {}
    /\ show.record.decision[i] = "pending" =>
         FailedStep(show.record, i) /\ show.record.status = "awaiting"

\* Two commands that compete for a run, one of which may start while a write
\* of an interrupted one is still on its way, and a third that reads it: no
\* action is sent twice or unapproved, no proposal is decided twice, what came
\* of an approval is what happened, and nothing is shown that was not decided.
SharedRunIsSound ==
  /\ ActsAtMostOnce /\ HealedActIsApproved
  /\ OneDecision /\ AwaitingHasItsProposal /\ OutcomeIsTrue
  /\ ShownDecisionIsLogged

\* For TLC: processes are interchangeable, nothing compares them but for equality.
Symmetry == Permutations(Procs)
=============================================================================
