------------------------------ MODULE HealRules ------------------------------
(***************************************************************************)
(* The rules that judge a control on the page against the recorded one:    *)
(* what a step risks, how a control is used, which candidates may be shown *)
(* to a model, and what refuses one whatever it scores.                    *)
(*                                                                         *)
(* A text is the set of its words (tokenize); a session phrase is one      *)
(* word.  Two texts are alike when they share a word: how alike is the     *)
(* scores', which StepHealing ranks by.                                    *)
(***************************************************************************)
EXTENDS Naturals, FiniteSets

CONSTANTS
  DangerWords,     \* settings: risk_danger_words
  SoftVerbs,       \* risk_soft_verbs
  ViewStateNouns,  \* risk_view_state_nouns
  ReadWords,       \* risk_read_words
  SessionPhrases,  \* risk_session_phrases
  Numbers,         \* the words that hold a digit
  SecretNames      \* the words that name a credential

\* What the settings require of a vocabulary.
ASSUME VocabularyAssumption ==
  /\ SoftVerbs \subseteq DangerWords
  /\ ViewStateNouns \subseteq ReadWords

-----------------------------------------------------------------------------
(* Risk: what activating a control changes.                                *)

\* A soft verb acting on view state, as in "Remove filter", is no danger.
DangerWordsIn(text) ==
  LET found == text \cap DangerWords IN
  IF found \subseteq SoftVerbs /\ text \cap ViewStateNouns # {} THEN {} ELSE found

\* A text that reads as signing in or out, or a form that holds a password.
Authenticates(name, submits, password) ==
  name \cap SessionPhrases # {} \/ (submits /\ password)

HasHref(control) == control.attrs["href"] # ""

\* Whether acting on a control this way sends its form.
SubmitsForm(action, control) ==
  \/ action = "click" /\ control.submits
  \/ action = "press" /\ (control.submits \/ (control.inForm /\ control.entry))

\* The risk the recorder gives to a step that acts on a control. A plain link,
\* a reading word, a download or a tab only reads; everything else changes
\* something, reversibly as far as anyone knows.
ClassifyRisk(action, control) ==
  LET submits == SubmitsForm(action, control)
      reads == \/ control.name \cap ReadWords # {}
               \/ control.downloads
               \/ control.role = "link" /\ HasHref(control) /\ ~submits
               \/ control.role = "tab"
  IN IF action \in {"fill", "select"} THEN "caution"
     ELSE IF DangerWordsIn(control.name) # {} THEN "irreversible"
     ELSE IF Authenticates(control.name, submits, control.password) THEN "caution"
     ELSE IF reads THEN "safe" ELSE "caution"

-----------------------------------------------------------------------------
(* Kinds: how a control is used, whatever element renders it.              *)

TextTypes == {"text", "email", "search", "tel", "url", "password", "number"}
DateTypes == {"date", "time", "datetime-local", "month", "week"}
ToggleRoles == {"checkbox", "radio", "switch", "menuitemcheckbox", "menuitemradio", "option"}
ActivateRoles == {"button", "link", "menuitem", "tab"}

\* The type an element behaves as, with HTML's defaults.
EffectiveType(control) ==
  IF control.type # "" THEN control.type
  ELSE CASE control.tag = "input" -> "text"
         [] control.tag = "button" -> "submit"
         [] OTHER -> ""

InputClass(type) ==
  CASE type \in DateTypes -> "date_like"
    [] type \in {"checkbox", "radio"} -> "toggle"
    [] type = "button" -> "activate"
    [] type \in TextTypes -> "text_entry"
    [] OTHER -> "other"

InteractionClass(control) ==
  LET tag == control.tag  role == control.role IN
  IF tag \in {"button", "input"} /\ EffectiveType(control) \in {"submit", "image"} THEN "submit"
  ELSE IF tag = "select" THEN "choice"
  ELSE IF tag = "input" THEN InputClass(EffectiveType(control))
  ELSE IF tag = "textarea" \/ control.entry \/ role \in {"textbox", "searchbox", "spinbutton"}
    THEN "text_entry"
  ELSE IF role \in ToggleRoles THEN "toggle"
  ELSE IF role \in {"listbox", "combobox"} THEN "choice"
  ELSE IF tag = "button" \/ role \in ActivateRoles \/ (tag \in {"a", "area"} /\ HasHref(control))
    THEN "activate"
  ELSE "other"

\* Whether an action can be performed on a control of this class at all.
ActionAccepts(action, class) ==
  CASE action = "fill" -> class \in {"text_entry", "date_like"}
    [] action = "select" -> class = "choice"
    [] action = "click" -> class \notin {"text_entry", "date_like", "choice"}
    [] action = "press" -> TRUE
    [] OTHER -> FALSE

\* Whether two controls are the same element to its user; one recorded without
\* a role is compared by its tag.
SameElement(recorded, found) ==
  recorded.tag = found.tag /\ recorded.role \in {"", found.role}

\* "compatible", "incompatible", or "changed": used the same way, which only a
\* checkpoint of its effect can prove.
CompareKinds(recorded, found) ==
  LET class == InteractionClass(recorded)
      same == SameElement(recorded, found)
      exact == same /\ EffectiveType(recorded) = EffectiveType(found)
  IN CASE class # InteractionClass(found) -> "incompatible"
       [] class = InteractionClass(found) /\ class \in {"submit", "activate"} ->
            IF same THEN "compatible" ELSE "changed"
       [] class = InteractionClass(found) /\ class \in {"text_entry", "choice"} -> "compatible"
       [] OTHER -> IF exact THEN "compatible" ELSE "incompatible"

-----------------------------------------------------------------------------
(* The step: its checkpoints, and the credential it types.                 *)

Strong == {"element_visible", "text_present", "download_completed", "response_received"}
Weak == {"url_matches", "field_has_value"}

HasEffectCheckpoint(step) == step.checkpoints \cap (Strong \cup {"url_matches"}) # {}

VerificationStrength(step) ==
  CASE step.checkpoints \cap Strong # {} -> "strong"
    [] step.checkpoints \cap Strong = {} /\ step.checkpoints \cap Weak # {} -> "weak"
    [] OTHER -> "none"

IsVerifiable(step) ==
  \/ step.action = "fill" /\ "field_has_value" \in step.checkpoints
  \/ HasEffectCheckpoint(step)

NeverSecretTypes ==
  {"checkbox", "color", "date", "datetime-local", "email", "file", "month", "radio", "range",
   "search", "time", "url", "week"}

NamedClues(control) ==
  {control.attrs[a] : a \in {"id", "name", "data_testid", "aria_label", "placeholder"}}

\* A field that looks like a credential's; the text near it is no clue.
DetectSecretField(control) ==
  \/ control.type = "password"
  \/ control.attrs["autocomplete"] \in {"current-password", "new-password", "one-time-code"}
  \/ /\ control.type \notin NeverSecretTypes
     /\ (control.name \cup control.label \cup NamedClues(control)) \cap SecretNames # {}

IsCredentialStep(step) ==
  step.action = "fill" /\ (step.secret \/ DetectSecretField(step.recorded))

\* Steps that get one heal attempt; "submits" is what the found control does.
AuthenticationStep(step, submits) ==
  LET control == step.recorded
      name == IF control.name # {} THEN control.name ELSE control.text
  IN CASE step.action = "fill" -> IsCredentialStep(step)
       [] step.action = "select" -> FALSE
       [] OTHER -> Authenticates(name, submits, submits)

-----------------------------------------------------------------------------
(* What refuses a candidate.                                               *)

Texts(control) == {control.name, control.text, control.label}

IntroducedDanger(recorded, found) ==
  (UNION {DangerWordsIn(t) : t \in Texts(found)})
    \ (UNION {DangerWordsIn(t) : t \in Texts(recorded)})

\* Each side has a number the other lacks: another row's control.
IdentifierMismatch(recorded, found) ==
  LET before == (UNION Texts(recorded)) \cap Numbers
      after == (UNION Texts(found)) \cap Numbers
  IN before \ after # {} /\ after \ before # {}

\* A selector can mask the field in screenshots: its test id, stable id, or name.
Maskable(control) == \E a \in {"data_testid", "id", "name"} : control.attrs[a] # ""

\* A credential goes only into a masked field, and a plain value never does.
CredentialRejected(step, found) ==
  /\ step.action = "fill"
  /\ \/ IsCredentialStep(step) # found.masked
     \/ IsCredentialStep(step) /\ ~Maskable(found)

\* The first safety rule that refuses the candidate.
SafetyRejection(step, found) ==
  LET kinds == CompareKinds(step.recorded, found) IN
  IF IntroducedDanger(step.recorded, found) # {} THEN "danger_word"
  ELSE IF IdentifierMismatch(step.recorded, found) THEN "identifier_mismatch"
  ELSE IF kinds = "incompatible" \/ (kinds = "changed" /\ ~HasEffectCheckpoint(step))
    THEN "kind_changed"
  ELSE IF CredentialRejected(step, found) THEN "credential_mismatch"
  ELSE "none"

\* Wording: names, or the visible text where a control has no name.
Wording(control) == IF control.name # {} THEN control.name ELSE control.text

LabelShared(recorded, found) ==
  IF recorded.label = {} THEN Wording(recorded) \cap Wording(found) # {}
  ELSE recorded.label \cap found.label # {}

Surviving(recorded, found, attributes) ==
  {a \in attributes : recorded.attrs[a] # "" /\ recorded.attrs[a] = found.attrs[a]}

\* A candidate that shares only context cannot be told to be the control.
SharesIdentity(recorded, found) ==
  \/ Wording(recorded) \cap Wording(found) # {}
  \/ LabelShared(recorded, found)
  \/ Surviving(recorded, found, DOMAIN recorded.attrs) # {}

\* The rules that only a model's pick faces: it shares some of the recorded
\* nearby text, and keeps an identifier when the checkpoints are weak.
ContextRejected(recorded, found) ==
  recorded.near # {} /\ recorded.near \cap found.near = {}

VerificationRejected(step, found) ==
  /\ VerificationStrength(step) # "strong"
  /\ Surviving(step.recorded, found, {"id", "name", "data_testid"}) = {}
=============================================================================
