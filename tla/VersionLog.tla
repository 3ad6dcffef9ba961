------------------------------ MODULE VersionLog ------------------------------
(***************************************************************************)
(* What the store of a workflow's versions promises whoever reads it: the  *)
(* versions are a log that only grows, one version at a time, and each     *)
(* version says truly how it differs from the one before it.               *)
(***************************************************************************)
EXTENDS Naturals, Sequences

CONSTANT Irreversible(_)  \* Whether a step is healed only with an approval.

VARIABLE log   \* The versions, oldest first.

Last == log[Len(log)]

\* Imported into an empty store, or run from a first version's file.
Begins(v) == log = <<>> /\ v.change.kind = "first"

\* A person's edit changes something.
Edits(v) ==
  log # <<>> /\ v.change.kind = "edit" /\ v.content # Last.content

\* A rollback carries an earlier version's content, which is not the last's.
RollsBack(v) ==
  /\ v.change.kind = "rollback"
  /\ v.change.restored \in 1..(Len(log) - 1)
  /\ v.content = log[v.change.restored].content
  /\ v.content # Last.content

\* A heal moves one step's target from and to what it names, and nothing else;
\* an irreversible step's heal was approved.
Heals(v) ==
  /\ log # <<>> /\ v.change.kind = "heal"
  /\ v.change.old # v.change.new
  /\ Last.content[v.change.step].target = v.change.old
  /\ v.content = [Last.content EXCEPT ![v.change.step].target = v.change.new]
  /\ Irreversible(Last.content[v.change.step]) => v.change.approved

Init == log = <<>>

Next ==
  LET v == log'[Len(log) + 1] IN
  /\ Len(log') = Len(log) + 1
  /\ log' = Append(log, v)
  /\ Begins(v) \/ Edits(v) \/ RollsBack(v) \/ Heals(v)

Spec == Init /\ [][Next]_log
=============================================================================
