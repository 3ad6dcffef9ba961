----------------------------- MODULE MCModelRung -----------------------------
(***************************************************************************)
(* The controls, pages and replies of the runs of rung 3.                  *)
(***************************************************************************)
EXTENDS ModelRungProperties, TLC

CONSTANTS e1, e2, e3

NoAttrs ==
  [a \in {"id", "name", "data_testid", "autocomplete", "aria_label", "placeholder", "href"} |-> ""]

Button ==
  [tag |-> "button", role |-> "button", type |-> "button", attrs |-> [NoAttrs EXCEPT !["id"] = "go"],
   name |-> {"remove", "filter"}, text |-> {"remove", "filter"}, label |-> {},
   near |-> {"list"}, entry |-> FALSE, masked |-> FALSE, submits |-> FALSE, inForm |-> FALSE,
   password |-> FALSE, downloads |-> FALSE]

Named(control, name) == [control EXCEPT !.name = name, !.text = name]

Link(control) ==
  [control EXCEPT !.tag = "a", !.role = "link", !.type = "", !.attrs["href"] = "/go"]

Clear == Named(Button, {"clear", "filter"})
Removing == Named(Button, {"remove", "row"})
Icon == [Button EXCEPT !.text = {"remove"}]
Elsewhere == [Clear EXCEPT !.near = {"menu"}, !.attrs["id"] = ""]
Leaking == [Clear EXCEPT !.near = {"list", "key*"}, !.label = {"key"}]
Row7 == Named(Link(Button), {"open", "inv7"})
Row8 == Named(Link(Button), {"open", "inv8"})
Login ==
  [Named(Button, {"sign in"}) EXCEPT !.type = "submit", !.submits = TRUE, !.inForm = TRUE,
                                     !.password = TRUE]
Field ==
  [Named(Button, {"password"}) EXCEPT !.tag = "input", !.role = "", !.type = "password",
                                      !.label = {"password"}, !.entry = TRUE, !.masked = TRUE]
Shown == [Field EXCEPT !.type = "text", !.masked = FALSE]
Flag == [Named(Button, {"archived"}) EXCEPT !.tag = "input", !.role = "checkbox", !.type = "checkbox"]
Plans == [Named(Button, {"plan"}) EXCEPT !.tag = "select", !.role = "combobox", !.type = ""]
Day == [Named(Button, {"day"}) EXCEPT !.tag = "input", !.role = "", !.type = "date", !.entry = TRUE]

MCOrder == <<e1, e2, e3>>

Step(action, recorded, checkpoints) ==
  [action |-> action, recorded |-> recorded, checkpoints |-> checkpoints, secret |-> FALSE,
   intent |-> {"go"}, used |-> 0, reuse |-> Absent]

Effect == {"text_present"}

MCSteps ==
  {Step("click", Button, Effect),
   Step("click", Icon, {"url_matches"}),
   [Step("click", Button, Effect) EXCEPT !.reuse = Clear],
   Step("click", Row7, {"url_matches"}),
   [Step("click", Login, Effect) EXCEPT !.used = 1],
   Step("press", Login, {}),
   [Step("fill", Field, {"field_has_value"}) EXCEPT !.secret = TRUE, !.intent = {"fill", "key"}],
   Step("fill", Day, {"field_has_value"}),
   Step("select", Plans, Effect),
   Step("click", Flag, Effect)}

On(one, two, three) == (e1 :> one) @@ (e2 :> two) @@ (e3 :> three)

MCPages ==
  {On(Clear, Elsewhere, Removing),
   On(Removing, Link(Clear), Leaking),
   On(Clear, Row8, Clear),
   On(Clear, Link(Clear), Link(Clear)),
   On(Row7, Login, Absent),
   On(Field, Shown, Flag),
   On(Day, Plans, Absent)}

MCChanges == {Absent, Removing, Clear, Shown}

Text ==
  [objects |-> 1, prose |-> FALSE, fields |-> TRUE, integer |-> TRUE, choice |-> 1,
   confidence |-> TRUE, reason |-> TRUE, echo |-> FALSE]

Texts0 ==
  {[Text EXCEPT !.choice = n] : n \in {Null, 0, 1, 2, 3}}
    \cup {[Text EXCEPT !.objects = 0], [Text EXCEPT !.prose = TRUE, !.echo = TRUE],
          [Text EXCEPT !.fields = FALSE], [Text EXCEPT !.integer = FALSE],
          [Text EXCEPT !.confidence = FALSE], [Text EXCEPT !.reason = FALSE]}

Body ==
  [object |-> TRUE, message |-> TRUE, refused |-> FALSE, finish |-> "stop", text |-> Text,
   tokens |-> TRUE]

Bodies ==
  {[Body EXCEPT !.text = t] : t \in Texts0}
    \cup {[Body EXCEPT !.object = FALSE], [Body EXCEPT !.message = FALSE],
          [Body EXCEPT !.refused = TRUE], [Body EXCEPT !.finish = "filter"],
          [Body EXCEPT !.finish = "limit"], [Body EXCEPT !.tokens = FALSE]}

Response(kind, status) ==
  [kind |-> kind, status |-> status, retryAfter |-> "none", body |-> Body]

MCResponses ==
  {[Response("status", 200) EXCEPT !.body = b] : b \in Bodies}
    \cup {Response("timeout", 0), Response("connection", 0), Response("too_large", 200),
          Response("status", 404), Response("status", 503),
          [Response("status", 429) EXCEPT !.retryAfter = "long"]}

MCMaxAttemptsOf == [authentication \in BOOLEAN |-> IF authentication THEN 1 ELSE 2]

\* A secret and its base64; the full-width spelling of the secret.
MCFolding == [w \in {"key*"} |-> "key"]
=============================================================================
