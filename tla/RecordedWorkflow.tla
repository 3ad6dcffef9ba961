--------------------------- MODULE RecordedWorkflow ---------------------------
(***************************************************************************)
(* From a gesture to a workflow: the target is fingerprinted               *)
(* (TargetCapture), what the step changed becomes checkpoints that must    *)
(* pass now, and when the recording ends its values are named and the      *)
(* workflow assembled (InputNaming).  A run fingerprints the element a     *)
(* heal found the same way, and does nothing else with it.                 *)
(***************************************************************************)
EXTENDS TargetCapture, InputNaming

CONSTANTS
  Observations,   \* what a page may show before and after a step
  Alternatives    \* checkpoints.ALTERNATIVES_MAX

ASSUME ObservationsAssumption ==
  /\ Alternatives \in Nat \ {0}
  /\ \A o \in Observations :
       o.landmarks \in Seq(ToSet(o.landmarks)) /\ o.live \in Seq(ToSet(o.live))

VARIABLES
  use,       \* "record" or "heal"
  stage,     \* how far the recording, or the heal, is
  seen,      \* the observations around the action
  checks,    \* keep_passing: the proposals left, and the checkpoints kept
  found      \* FoundTarget: what a heal's capture answered

flowVars == <<use, stage, seen, checks, found>>
vars == <<targetVars, namingVars, flowVars>>

-----------------------------------------------------------------------------
(* What a step changed.  An observation has a path, the headings and       *)
(* landmarks as <<role, name>>, and the live regions' texts.               *)

LandmarkRoles == {"heading", "main", "region"}

Blank == [path |-> "", landmarks |-> <<>>, live |-> <<>>]

\* Visible headings and landmarks there were not before, each once.
NewLandmarks(before, after) ==
  {k \in DOMAIN after.landmarks :
     LET item == after.landmarks[k]
     IN /\ item[1] \in LandmarkRoles /\ item[2] # ""
        /\ item \notin ToSet(before.landmarks)
        /\ \A j \in 1..(k - 1) : after.landmarks[j] # item}

\* They are listed headings first, else as on the page.
Precedes(after, j, k) ==
  \/ after.landmarks[j][1] = "heading" /\ after.landmarks[k][1] # "heading"
  \/ (after.landmarks[j][1] = "heading" <=> after.landmarks[k][1] = "heading") /\ j < k

\* The one way to list them so.
Listed(before, after) ==
  LET new == NewLandmarks(before, after)
  IN {list \in Lists(new) :
        \A j, k \in DOMAIN list : j < k => Precedes(after, list[j], list[k])}

Copies(texts, text) == Cardinality({k \in DOMAIN texts : texts[k] = text})

\* The first live text that no text of before accounts for, each of which
\* accounts for one; "" if there is none.
NewLiveText(before, after) ==
  LET new == {k \in DOMAIN after.live :
                /\ after.live[k] # ""
                /\ Copies(SubSeq(after.live, 1, k), after.live[k])
                     > Copies(before.live, after.live[k])}
  IN IF new = {} THEN "" ELSE after.live[CHOOSE k \in new : \A j \in new : k <= j]

Checkpoint(kind, what) == [kind |-> kind, what |-> what]

Landmarks(after, list) ==
  [k \in 1..(IF Len(list) < Alternatives THEN Len(list) ELSE Alternatives) |->
     Checkpoint("element_visible", after.landmarks[list[k]])]

\* A proposal is a sequence of alternatives; without any there is none.
Proposed(alternatives) == IF alternatives = <<>> THEN <<>> ELSE <<alternatives>>

ProposedIf(condition, kind, what) ==
  IF condition THEN <<<<Checkpoint(kind, what)>>>> ELSE <<>>

ProposeAfterAction(s, list) ==
  ProposedIf(s.before.path # s.after.path, "url_matches", <<s.after.path>>)
  \o Proposed(Landmarks(s.after, list))
  \o ProposedIf(~s.navigated /\ NewLiveText(s.before, s.after) # "",
                "text_present", <<NewLiveText(s.before, s.after)>>)
  \o ProposedIf(s.download = "completed", "download_completed", <<"file">>)
  \o ProposedIf(s.submits, "no_error_banner", <<>>)

ProposeAfterNavigation(after, list) == Proposed(Landmarks(after, list))

NotSeen ==
  [before |-> Blank, after |-> Blank, navigated |-> FALSE, download |-> "none", submits |-> FALSE]

NoPage ==
  [visible |-> {}, answers |-> [n \in Nodes |-> {}], above |-> [n \in Nodes |-> <<>>],
   name |-> [n \in Nodes |-> "none"]]

Captured == stage = "capture" /\ pc \in {"recorded", "raised", "escaped"}

ResetTarget ==
  /\ site' = {} /\ page' = NoPage /\ alive' = TRUE /\ moved' = FALSE /\ expired' = FALSE
  /\ pc' = "idle" /\ cap' = NoCapture

\* The step ran; what it did is proposed.  A step without a target is a
\* navigation to a page, or a key pressed on no element.
Perform ==
  /\ Captured /\ use = "record" /\ pc = "recorded"
  /\ stage' = "check"
  /\ \E before, after \in Observations, navigated, submits \in BOOLEAN,
        download \in {"none", "failed", "completed"} :
       LET s == [before |-> before, after |-> after, navigated |-> navigated,
                 download |-> download, submits |-> submits]
       IN /\ navigated \/ before.path = after.path
          /\ seen' = s
          /\ \E list \in Listed(before, after) :
               checks' = [todo |-> ProposeAfterAction(s, list), at |-> 1,
                          kept |-> <<>>, dropped |-> <<>>]
  /\ ResetTarget
  /\ UNCHANGED <<use, found, namingVars>>

\* A page the person opened: its first heading or landmark.
OpenPage ==
  /\ stage = "capture" /\ pc = "identify" /\ use = "record"
  /\ stage' = "check"
  /\ \E after \in Observations :
       /\ seen' = [NotSeen EXCEPT !.after = after, !.navigated = TRUE]
       /\ \E list \in Listed(Blank, after) :
            checks' = [todo |-> ProposeAfterNavigation(after, list), at |-> 1,
                       kept |-> <<>>, dropped |-> <<>>]
  /\ ResetTarget
  /\ UNCHANGED <<use, found, namingVars>>

NextProposal == [checks EXCEPT !.todo = Tail(@), !.at = 1]

\* keep_passing: the first alternative that passes is kept; a page may answer
\* as it likes, but a download was collected already.
CheckOne ==
  /\ stage = "check" /\ checks.todo # <<>>
  /\ LET alternatives == Head(checks.todo)
         one == alternatives[checks.at]
     IN \/ checks' = [NextProposal EXCEPT !.kept = Append(@, one)]
        \/ /\ one.kind # "download_completed"
           /\ checks' = IF checks.at < Len(alternatives)
                        THEN [checks EXCEPT !.at = @ + 1]
                        ELSE [NextProposal EXCEPT !.dropped = Append(@, one.kind)]
  /\ UNCHANGED <<use, stage, seen, found, targetVars, namingVars>>

\* The step is added; the recording goes on with another gesture or is stopped.
AddStep ==
  /\ stage = "check" /\ checks.todo = <<>>
  /\ stage' = "name"
  /\ seen' = NotSeen
  /\ checks' = [todo |-> <<>>, at |-> 1, kept |-> <<>>, dropped |-> <<>>]
  /\ NamingBegins
  /\ UNCHANGED <<use, found, targetVars>>

Naming == stage = "name" /\ NamingNext /\ UNCHANGED <<targetVars, flowVars>>

\* Ctrl+C while names are asked for: nothing is written.
AbortNaming ==
  /\ stage = "name" /\ naming.phase \in {"secrets", "inputs"} /\ naming.queue # {}
  /\ stage' = "aborted"
  /\ UNCHANGED <<use, seen, checks, found, targetVars, namingVars>>

\* RecordingUnusable ends the recording.
StopUnusable ==
  /\ Captured /\ use = "record" /\ pc # "recorded"
  /\ stage' = IF pc = "raised" THEN "unusable" ELSE "crashed"
  /\ UNCHANGED <<use, seen, checks, found, targetVars, namingVars>>

\* The unusable reasons a heal's report can name.
CaptureProblem(reason) ==
  IF reason \in {"no_selector", "identity_unconfirmed", "element_gone", "page_never_stable"}
  THEN reason ELSE "unrecordable_target"

\* HealCapture.capture: a fingerprint, or why there is none; one that carries a
\* resolved secret is dropped.
FoundTarget ==
  /\ Captured /\ use = "heal"
  /\ stage' = "answered"
  /\ \/ /\ pc = "recorded"
        /\ found' \in {"fingerprint", "secret_in_target"}
     \/ pc = "raised" /\ found' = CaptureProblem(cap.reason)
     \/ pc = "escaped" /\ found' = "step_failed"
  /\ UNCHANGED <<use, seen, checks, targetVars, namingVars>>

Init ==
  /\ TargetInit /\ NamingInit
  /\ use \in {"record", "heal"}
  /\ stage = "capture" /\ found = "none" /\ seen = NotSeen
  /\ checks = [todo |-> <<>>, at |-> 1, kept |-> <<>>, dropped |-> <<>>]

Target_ == stage = "capture" /\ TargetNext /\ UNCHANGED <<namingVars, flowVars>>

Next ==
  \/ Target_
  \/ Perform \/ OpenPage \/ CheckOne \/ AddStep
  \/ Naming \/ AbortNaming
  \/ StopUnusable \/ FoundTarget

Spec == Init /\ [][Next]_vars

\* The awaits of a capture return, and its deadline passes (Deadline).
FairSpec ==
  /\ Spec
  /\ WF_vars(stage = "capture" /\ Capture /\ UNCHANGED <<namingVars, flowVars>>)
  /\ WF_vars(stage = "capture" /\ DeadlinePasses /\ UNCHANGED <<namingVars, flowVars>>)
=============================================================================
