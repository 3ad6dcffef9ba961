---------------------------- MODULE MCStepHealing ----------------------------
(***************************************************************************)
(* The pages and steps of the healing runs: each page makes one rung accept *)
(* or decline, and any page may follow any other.                          *)
(***************************************************************************)
EXTENDS StepHealingProperties

CONSTANTS e1, e2, e3

Recorded ==
  [name |-> "recorded", id |-> "i1", pos |-> 1, score |-> 9, safe |-> TRUE, ready |-> "yes",
   shares |-> TRUE, keeps |-> TRUE, near |-> TRUE, login |-> FALSE, sure |-> TRUE]
Renamed == [Recorded EXCEPT !.name = "renamed", !.score = 6]
Twin == [Renamed EXCEPT !.id = "i2", !.pos = 2]
Danger == [Recorded EXCEPT !.name = "danger", !.score = 7, !.safe = FALSE]
Faint == [Recorded EXCEPT !.name = "other", !.id = "i3", !.pos = 3, !.score = 3]
Login == [Recorded EXCEPT !.name = "login", !.id = "i4", !.pos = 4, !.score = 5, !.login = TRUE]
Patched == [Recorded EXCEPT !.name = "patched", !.score = 2, !.shares = FALSE]

Nothing == <<{}, {}>>

Page(recorded, alternate, patch, l1, l2, l3) ==
  [recorded |-> recorded, alternate |-> alternate, patch |-> patch,
   looks |-> e1 :> l1 @@ e2 :> l2 @@ e3 :> l3]

Blank(l1, l2, l3) == Page(Nothing, Nothing, Nothing, l1, l2, l3)

MCPages ==
  {Page(<<{e1}, {e1}>>, Nothing, Nothing, Recorded, Faint, Gone),
   Page(<<{e1}, {e2}>>, <<{}, {e1}>>, Nothing, Recorded, Danger, Gone),
   Page(Nothing, Nothing, <<{e1}, {}>>, [Patched EXCEPT !.ready = "waits"], Login, Gone),
   Page(Nothing, <<{e1, e2}, {}>>, Nothing, Renamed, Twin, Faint),
   Blank(Renamed, Gone, Gone),
   Blank([Renamed EXCEPT !.sure = FALSE], Twin, Gone),
   Blank(Gone, Gone, Faint)}

Task ==
  [risk |-> "safe", checkpoints |-> "strong", authenticates |-> FALSE, approved |-> <<>>,
   approvedRung |-> 0, patch |-> FALSE, model |-> TRUE, before |-> "safe"]

MCTasks ==
  {Task,
   [Task EXCEPT !.risk = "caution", !.checkpoints = "weak", !.patch = TRUE],
   [Task EXCEPT !.authenticates = TRUE, !.model = FALSE],
   [Task EXCEPT !.before = "irreversible", !.checkpoints = "none"],
   [Task EXCEPT !.before = "irreversible"],
   [Task EXCEPT !.risk = "irreversible", !.patch = TRUE],
   [Task EXCEPT !.risk = "irreversible", !.approved = Identity(Renamed), !.approvedRung = 2],
   [Task EXCEPT !.risk = "irreversible", !.approved = Identity(Faint), !.approvedRung = 3]}
=============================================================================
