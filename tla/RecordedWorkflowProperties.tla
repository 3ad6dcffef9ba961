---------------------- MODULE RecordedWorkflowProperties ----------------------
(***************************************************************************)
(* What a recorded step and a recorded workflow promise.                   *)
(***************************************************************************)
EXTENDS RecordedWorkflow

\* Every variable has its type (the locals of TargetRecorder and Rung 0,
\* NamingSession, and the command's own progress).
TypeOK ==
  /\ stage \in {"capture", "check", "name", "answered", "unusable", "crashed", "aborted"}
  /\ {alive, moved, expired} \subseteq BOOLEAN
  /\ stage = "capture" =>
       /\ page \in site
       /\ pc \in {"identify", "facts", "settle", "verify", "scoped", "build", "prove", "match",
                  "waiting", "same", "recorded", "raised", "escaped"}
       /\ cap.at \in 1..(Len(cap.tries) + 1)
       /\ cap.inner \in 1..(Len(cap.scopes) + 1)
       /\ cap.outer \in 0..Len(cap.scopes)
       /\ cap.rank \in 0..Len(cap.kept)
       /\ Len(cap.hits) <= Len(cap.kept)
  /\ naming.phase \in {"overrides", "secrets", "inputs", "assembled", "refused"}
  /\ naming.tries \in 0..Attempts
  /\ DOMAIN naming.secrets \subseteq DOMAIN draft
  /\ \A n \in DOMAIN naming.inputs : naming.inputs[n].steps \subseteq DOMAIN draft

\* A recorded fingerprint's selectors each found exactly the captured element
\* on one and the same page (TargetRecorder._verify), and on one page, at or
\* after that, Rung 0 found it by them under the name that was recorded, with
\* no selector voting for another (_prove) - whatever the page did in between.
TargetIsProven ==
  stage = "capture" /\ pc = "recorded" =>
    /\ cap.kept # <<>> /\ Cardinality(cap.verifiedOn) = 1 /\ Cardinality(cap.provenOn) = 1
    /\ \A p \in cap.verifiedOn : \A k \in DOMAIN cap.kept : Hit(p, cap.kept[k]) = Target
    /\ \A p \in cap.provenOn :
         /\ {Hit(p, cap.kept[k]) : k \in DOMAIN cap.kept} \ {NoNode} = {Target}
         /\ Hit(p, cap.kept[cap.rank]) = Target
         /\ p.name[Target] = cap.name

\* A checkpoint tells the page after the step from the page before it: the
\* path, a landmark or a live text that was not there, or one more copy of a
\* text than there was (propose_after_action).
CheckpointsSayWhatChanged ==
  stage = "check" =>
    \A c \in ToSet(checks.kept) \cup UNION {ToSet(one) : one \in ToSet(checks.todo)} :
      /\ c.kind = "url_matches" => seen.before.path # seen.after.path
      /\ c.kind = "element_visible" =>
           c.what \in ToSet(seen.after.landmarks) \ ToSet(seen.before.landmarks)
      /\ c.kind = "text_present" =>
           Copies(seen.after.live, c.what[1]) > Copies(seen.before.live, c.what[1])

\* An accepted answer stands: its name keeps its value and its steps, whatever
\* is answered after it, and no name is both an input's and a secret's
\* (NamingSession).
AnswersStand ==
  /\ DOMAIN naming.inputs \cap SecretNames = {}
  /\ \A answer \in heard :
       /\ answer[1] \in DOMAIN naming.inputs
       /\ naming.inputs[answer[1]].value = answer[2]
       /\ answer[3] \subseteq naming.inputs[answer[1]].steps

\* After the person named everything, the workflow is refused only when two
\* --input names were given one recorded value (assemble, whose document is
\* read back by the strict parser).
OnlyOverlapIsRefused ==
  naming.phase \in {"assembled", "refused"} =>
    (naming.phase = "refused"
      <=> \E one, two \in heard : one[1] # two[1] /\ one[3] \cap two[3] # {})

\* A recorded workflow says what was recorded: its checkpoints what each step
\* changed, its names the values the person gave them, and it is refused for
\* one reason only.
WorkflowIsTrue == TypeOK /\ CheckpointsSayWhatChanged /\ AnswersStand /\ OnlyOverlapIsRefused

\* A capture ends, however often the page changes: with a fingerprint or with
\* a reason (the step's deadline).
CaptureEnds == <>(stage # "capture" \/ ~Capturing)
=============================================================================
