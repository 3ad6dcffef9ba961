------------------------- MODULE ModelRungProperties -------------------------
(***************************************************************************)
(* What a model may decide, and what it may be told.                       *)
(***************************************************************************)
EXTENDS ModelRung

Chosen == rung.outcome = "resolved"

\* Whatever the model answers and whenever the page changes, the element that
\* is accepted still reads as it did when it was ranked, no other element a
\* model might have been shown reads the same, and it is the one whose number
\* the last call answered, or the remembered one (rung3.py, point 4).
PickIsTheControlShown ==
  Chosen =>
    /\ page[rung.pick] # Absent
    /\ Describe(page[rung.pick]) = Describe(read[rung.pick])
    /\ \A e \in ToSet(Order) \ {rung.pick} :
         page[e] # Absent /\ Scanned(e) /\ SafetyRejection(step, page[e]) = "none"
           /\ SharesIdentity(step.recorded, page[e])
         => Describe(page[e]) # Describe(page[rung.pick])
    /\ IF step.reuse # Absent THEN read[rung.pick] = step.reuse
       ELSE LET last == rung.calls[Len(rung.calls)] IN
            /\ last.outcome = "answered"
            /\ last.choice \in 1..Len(rung.shown) /\ rung.shown[last.choice] = rung.pick

\* A step that the recorder did not call irreversible never acts, on a model's
\* word, on a control that the recorder would call irreversible, unless the
\* recording had the word outside the control's name; the control is used the
\* same way as the recorded one, and a credential is typed exactly into a field
\* that hides it (checks.py, heal_policy.py, heal_kinds.py).
NothingWorseThanRecorded ==
  Chosen =>
    LET recorded == step.recorded
        found == page[rung.pick]
        elsewhere == (recorded.text \cup recorded.label) \cap DangerWords
    IN /\ ClassifyRisk(step.action, recorded) # "irreversible" =>
             \/ ClassifyRisk(step.action, found) # "irreversible"
             \/ found.name \cap elsewhere # {}
       /\ InteractionClass(found) = InteractionClass(recorded)
       /\ step.action = "fill" => (step.secret => found.masked)

\* The healer and the classifier never disagree about what is destructive
\* (heal_policy.py): what the classifier calls irreversible stands for no step
\* that it did not.
HealerAgreesWithClassifier ==
  Chosen /\ ClassifyRisk(step.action, page[rung.pick]) = "irreversible"
    => ClassifyRisk(step.action, step.recorded) = "irreversible"

\* A model's pick is the control it was shown, and no worse than the recorded.
PickIsSound == PickIsTheControlShown /\ NothingWorseThanRecorded

\* Words that may not leave: a secret, its base64, and what is not in normal form.
Unsendable == Plain \cup Encoded \cup DOMAIN Folding

\* Nothing that holds a secret, plainly, in base64 or out of normal form, is
\* ever sent to a provider, also not by the repair that quotes its own reply
\* (prompt.py, secret_scrub.py).
SecretsStayHere == known \cap Unsendable = {}

\* What a run says its calls cost adds up: every call made is counted once,
\* tokens not reported are never counted as none, a second call only repairs
\* the first, and no request is missing from its call's count, unless the
\* call's own time limit cut it off (ModelUsageTotals, ModelCall).
CallsAddUp ==
  LET calls == rung.calls  totals == rung.totals
      answered == {i \in DOMAIN calls : calls[i].tokens}
  IN /\ totals.calls = Len(calls)
     /\ totals.tokens = Cardinality(answered)
     /\ totals.tokens + totals.unreported = totals.calls
     /\ Len(calls) <= 2
     /\ Len(calls) = 2 => calls[1].outcome = "invalid" /\ calls[2].purpose = "repair"
     /\ \A i \in DOMAIN calls :
          \/ calls[i].outcome \in {"timeout", "circuit_open"}
          \/ calls[i].attempts \in {calls[i].sent, calls[i].sent + 1}

\* The rung always returns, whatever the provider and the page do: at most one
\* repair, and a bounded number of requests (run_rung3).
RungReturns == <>(pc = "done")
=============================================================================
