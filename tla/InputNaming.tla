----------------------------- MODULE InputNaming -----------------------------
(***************************************************************************)
(* Naming what a recording typed: --input decides for a value in advance,  *)
(* then every credential field's secret and every value that looks like an *)
(* input is proposed and the person answers, and the workflow is assembled *)
(* from the answers and validated as any workflow file is.                 *)
(*                                                                         *)
(* A name is <<base, n>>: n = 1 is the base itself, n > 1 the base with    *)
(* the suffix that makes it unique.                                        *)
(***************************************************************************)
EXTENDS Integers, FiniteSets, Sequences, SequencesExt

CONSTANTS
  Drafts,       \* recordings: sequences of draft steps
  Overrides,    \* what --input may say: sequences of <<name, value>>
  Typed,        \* the names a person may type
  Attempts      \* record_prompts.ATTEMPTS

\* A recording is a sequence of steps, whose fields' words make slugs; --input
\* is read into a dictionary, by name.
ASSUME NamingAssumption ==
  /\ Attempts \in Nat
  /\ \A steps \in Drafts :
       /\ steps \in Seq(ToSet(steps))
       /\ \A i \in DOMAIN steps : steps[i].field # "?"
  /\ \A given \in Overrides :
       /\ given \in Seq(ToSet(given))
       /\ \A i, j \in DOMAIN given : given[i][1] = given[j][1] => i = j

VARIABLES
  draft,     \* the recorded steps
  override,  \* the --input arguments not applied yet
  naming,    \* NamingSession
  heard      \* the answers that were accepted: <<name, value, steps>>

namingVars == <<draft, override, naming, heard>>

NoAnswer == <<"", 1>>       \* Enter, or the end of the input
KeepLiteral == <<"-", 1>>
Unstorable == <<"?", 1>>    \* no slug, or a description the format cannot hold

NoNames == [n \in {} |-> {}]

StartNaming ==
  [phase |-> "overrides", inputs |-> NoNames, secrets |-> NoNames, literal |-> {},
   queue |-> {}, tries |-> 0]

NamingInit ==
  draft = <<>> /\ override = <<>> /\ naming = StartNaming /\ heard = {}

\* The recording ended; the person names its values.
NamingBegins ==
  /\ draft' \in Drafts
  /\ override' \in Overrides
  /\ UNCHANGED <<naming, heard>>

\* The words of a field, and why its value should become an input: the page the
\* recording started on, an email, or a field that says it is a user name.
UsernameWords == {"user", "login"}

Hint(i) ==
  CASE draft[i].action = "navigate" -> IF i = 1 THEN "start_url" ELSE "none"
    [] draft[i].action = "fill" /\ draft[i].looks = "email" -> "email"
    [] draft[i].action = "fill" /\ draft[i].looks # "email"
         /\ draft[i].field \in UsernameWords -> "username"
    [] OTHER -> "none"

\* A field with no usable word is named for what it holds.
Slug(words, fallback) == IF words = "" THEN fallback ELSE words

Base(i) ==
  IF Hint(i) = "start_url" THEN "start_url"
  ELSE Slug(draft[i].field, IF draft[i].kind = "secret" THEN "password" ELSE Hint(i))

Literals(value) ==
  {i \in DOMAIN draft : draft[i].kind = "literal" /\ draft[i].text = value}

\* The kind --input gives a value: of every step it is recorded in.
KindOf(value, looks) ==
  IF \E i \in Literals(value) : draft[i].action = "navigate" THEN "url"
  ELSE IF looks \in {"date", "no_date"} THEN "date" ELSE "text"

LooksOf(value) == draft[CHOOSE i \in Literals(value) : TRUE].looks

\* A text that has a date's form and is no day of the calendar is refused.
Parses(value) == ~(KindOf(value, LooksOf(value)) = "date" /\ LooksOf(value) = "no_date")

Bind(names, name, input) ==
  [n \in DOMAIN names \cup {name} |-> IF n = name THEN input ELSE names[n]]

\* One --input: it takes every recorded literal with its value, or is warned of.
ApplyOverride ==
  /\ naming.phase = "overrides" /\ override # <<>>
  /\ LET name == Head(override)[1]
         value == Head(override)[2]
         steps == Literals(value)
         valid == name # Unstorable /\ steps # {} /\ Parses(value)
         input == [value |-> value, kind |-> KindOf(value, LooksOf(value)), steps |-> steps]
     IN /\ naming' = IF valid THEN [naming EXCEPT !.inputs = Bind(@, name, input)] ELSE naming
        /\ heard' = IF valid THEN heard \cup {<<name, value, steps>>} ELSE heard
  /\ override' = Tail(override)
  /\ UNCHANGED draft

-----------------------------------------------------------------------------
(* Proposals.                                                              *)

Overridden == UNION {naming.inputs[n].steps : n \in DOMAIN naming.inputs}

ProposedSecrets == {i \in DOMAIN draft : draft[i].kind = "secret"}

Hinted(i) == draft[i].kind = "literal" /\ Hint(i) # "none" /\ i \notin Overridden

ProposedKind(i) == IF draft[i].action = "navigate" THEN "url" ELSE "text"

\* The steps that share a step's value and kind are proposed together, at the
\* first of them.
Group(i) ==
  {j \in DOMAIN draft : Hinted(j) /\ draft[j].text = draft[i].text
                                  /\ ProposedKind(j) = ProposedKind(i)}

ProposedInputs == {i \in DOMAIN draft : Hinted(i) /\ \A j \in Group(i) : i <= j}

Propose ==
  /\ naming.phase = "overrides" /\ override = <<>>
  /\ naming' = [naming EXCEPT !.phase = "secrets", !.queue = ProposedSecrets]
  /\ UNCHANGED <<draft, override, heard>>

ProposeInputs ==
  /\ naming.phase = "secrets" /\ naming.queue = {}
  /\ naming' = [naming EXCEPT !.phase = "inputs", !.queue = ProposedInputs]
  /\ UNCHANGED <<draft, override, heard>>

\* Proposals are answered in the order of their steps.
Asked == CHOOSE i \in naming.queue : \A j \in naming.queue : i <= j

SecretNames == {naming.secrets[i] : i \in DOMAIN naming.secrets}

Unique(base, taken) ==
  <<base, CHOOSE n \in 1..(Cardinality(taken) + 1) :
            /\ <<base, n>> \notin taken
            /\ \A m \in 1..(n - 1) : <<base, m>> \in taken>>

\* Two credential fields may share a secret.
SuggestedSecret == Unique(Base(Asked), DOMAIN naming.inputs)

Differs(input, i) == <<input.value, input.kind>> # <<draft[i].text, ProposedKind(i)>>

SuggestedInput ==
  Unique(Base(Asked),
         SecretNames \cup {n \in DOMAIN naming.inputs : Differs(naming.inputs[n], Asked)})

\* The third refused answer takes the proposed name.
Refuse ==
  /\ naming' = [naming EXCEPT !.tries = @ + 1]
  /\ UNCHANGED <<draft, override, heard>>

Answers == IF naming.tries = Attempts THEN {NoAnswer} ELSE Typed \cup {NoAnswer}

MutSecretRefused(name) == name = Unstorable

SecretRefused(name) == name = Unstorable \/ name \in DOMAIN naming.inputs

NameSecret ==
  /\ naming.phase = "secrets" /\ naming.queue # {}
  /\ \E answer \in Answers :
       LET name == IF answer = NoAnswer THEN SuggestedSecret ELSE answer IN
       \/ SecretRefused(name) /\ Refuse
       \/ /\ ~SecretRefused(name)
          /\ naming' = [naming EXCEPT !.secrets = Bind(@, Asked, name),
                                      !.queue = @ \ {Asked}, !.tries = 0]
          /\ UNCHANGED <<draft, override, heard>>

InputRefused(name) ==
  \/ name = Unstorable
  \/ name \in SecretNames
  \/ name \in DOMAIN naming.inputs /\ Differs(naming.inputs[name], Asked)

\* A name given again for the same value covers the steps of both.
Merged(name) ==
  Group(Asked) \cup IF name \in DOMAIN naming.inputs THEN naming.inputs[name].steps ELSE {}

KeepsLiteral ==
  /\ naming' = [naming EXCEPT !.literal = @ \cup Group(Asked), !.queue = @ \ {Asked},
                              !.tries = 0]
  /\ UNCHANGED <<draft, override, heard>>

NameInput ==
  /\ naming.phase = "inputs" /\ naming.queue # {}
  /\ \E answer \in Answers \cup (IF naming.tries = Attempts THEN {} ELSE {KeepLiteral}) :
       LET name == IF answer = NoAnswer THEN SuggestedInput ELSE answer
           input == [value |-> draft[Asked].text, kind |-> ProposedKind(Asked),
                     steps |-> Merged(name)]
       IN \/ answer = KeepLiteral /\ KeepsLiteral
          \/ answer # KeepLiteral /\ InputRefused(name) /\ Refuse
          \/ /\ answer # KeepLiteral /\ ~InputRefused(name)
             /\ naming' = [naming EXCEPT !.inputs = Bind(@, name, input),
                                         !.queue = @ \ {Asked}, !.tries = 0]
             /\ heard' = heard \cup {<<name, draft[Asked].text, Group(Asked)>>}
             /\ UNCHANGED <<draft, override>>

-----------------------------------------------------------------------------
(* Assembly.                                                               *)

\* What is declared.  Every proposal has been answered by now.
Decisions == [inputs |-> DOMAIN naming.inputs, secrets |-> SecretNames]

Covering(i) == {n \in DOMAIN naming.inputs : i \in naming.inputs[n].steps}

\* The value of a step: its secret, its input, or the text itself.  Of two
\* inputs of one step the document takes one.
ValueOf(i) ==
  CASE draft[i].kind = "none" -> <<"none">>
    [] draft[i].kind = "secret" -> <<"secret", naming.secrets[i]>>
    [] draft[i].kind = "literal" /\ Covering(i) # {} ->
         <<"input", CHOOSE n \in Covering(i) : TRUE>>
    [] OTHER -> <<"literal", draft[i].text>>

Used(kind) == {ValueOf(i)[2] : i \in {j \in DOMAIN draft : ValueOf(j)[1] = kind}}

\* A workflow's declarations are used, used names are declared, and a step that
\* navigates takes a URL.
Valid ==
  /\ Used("input") = Decisions.inputs
  /\ Used("secret") = Decisions.secrets
  /\ Decisions.secrets \cap Decisions.inputs = {}
  /\ \A i \in DOMAIN draft : draft[i].action = "navigate" /\ ValueOf(i)[1] = "input" =>
       naming.inputs[ValueOf(i)[2]].kind = "url"

Assemble ==
  /\ naming.phase = "inputs" /\ naming.queue = {}
  /\ naming' = [naming EXCEPT !.phase = IF Valid THEN "assembled" ELSE "refused"]
  /\ UNCHANGED <<draft, override, heard>>

NamingNext ==
  ApplyOverride \/ Propose \/ ProposeInputs \/ NameSecret \/ NameInput \/ Assemble
=============================================================================
