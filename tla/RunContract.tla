----------------------------- MODULE RunContract ------------------------------
(***************************************************************************)
(* What a run promises whoever reads its record: how its status may change *)
(* and what its status says about the irreversible actions it sent.        *)
(***************************************************************************)
EXTENDS Naturals

CONSTANT Actions  \* The workflow's irreversible actions.

VARIABLES
  status,  \* What the record says, or "absent".
  sent     \* How often each irreversible action was sent.

vars == <<status, sent>>

Ended == {"succeeded", "failed", "cancelled", "needs_review"}

NothingSent == \A a \in Actions : sent[a] = 0

Init == status = "absent" /\ sent = [a \in Actions |-> 0]

Become(from, to) == status \in from /\ status' = to /\ UNCHANGED sent

Start == Become({"absent"}, "running")

\* An irreversible action is sent once, and only while the run is running.
Send(a) ==
  /\ status = "running" /\ sent[a] = 0
  /\ sent' = [sent EXCEPT ![a] = 1]
  /\ UNCHANGED status

Pause == Become({"running"}, "awaiting")

\* A run that sent an irreversible action is never resumed.
Resume == NothingSent /\ Become({"awaiting"}, "running")

Succeed == (\A a \in Actions : sent[a] = 1) /\ Become({"running"}, "succeeded")

Fail == Become({"running", "awaiting"}, "failed")

\* Cancelled means that nothing irreversible was sent.
Cancel == NothingSent /\ Become({"absent", "running", "awaiting"}, "cancelled")

\* A resume interrupted at once may end before its record ever says running.
Review == Become({"running", "awaiting"}, "needs_review")

Next ==
  \/ Start \/ Pause \/ Resume \/ Succeed \/ Fail \/ Cancel \/ Review
  \/ \E a \in Actions : Send(a)

Spec == Init /\ [][Next]_vars
=============================================================================
