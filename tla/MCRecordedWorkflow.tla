-------------------------- MODULE MCRecordedWorkflow --------------------------
(* A list whose rows repeat one button, and two recordings.                 *)
EXTENDS RecordedWorkflowProperties

CONSTANTS it, twin, row, row2, box

View == <<"role_name", "View">>
Own == <<"own_text", "View">>
Id == <<"css", "#view">>
Header == <<"row", "PO-1">>
Other == <<"row", "PO-2">>
Orders == <<"region", "Orders">>

\* Two rows of a table in a region, each with a View button.
Portal ==
  [visible |-> {it, twin, row, row2, box},
   answers |-> (it :> {View, Own} @@ twin :> {View, Own} @@ row :> {Header}
                @@ row2 :> {Other} @@ box :> {Orders}),
   above |-> (it :> <<row, box>> @@ twin :> <<row2, box>> @@ row :> <<box>>
              @@ row2 :> <<box>> @@ box :> <<>>),
   name |-> [n \in Nodes |-> IF n \in {it, twin} THEN "View" ELSE "none"]]

\* The second row is repeated outside the region, under the same header.
Repeated ==
  [Portal EXCEPT !.answers[row2] = {Header}, !.above[twin] = <<row2>>, !.above[row2] = <<>>]

\* Only one button is left, and an id finds it.
Single == [Portal EXCEPT !.visible = @ \ {twin, row2}, !.answers[it] = {View, Id}]

\* The id and the label are the other button's.
Swapped ==
  [Portal EXCEPT !.answers[it] = {Own}, !.answers[twin] = {View, Id},
                 !.name[it] = "Open"]

Vanished == [Portal EXCEPT !.visible = @ \ {it}]

Unsure == [Single EXCEPT !.name[it] = "unconfirmed"]
TooLong == [Single EXCEPT !.name[it] = "unstorable"]

MCSites ==
  {{Portal, Repeated}, {Single, Swapped}, {Portal, Single, Vanished}, {Single, Unsure}, {TooLong}}

Draft(action, kind, text, field, looks) ==
  [action |-> action, kind |-> kind, text |-> text, field |-> field, looks |-> looks]

Start == Draft("navigate", "literal", "url", "", "text")
Login(text) == Draft("fill", "literal", text, "user", "text")
Email == Draft("fill", "literal", "bob", "", "email")
Password == Draft("fill", "secret", "", "user", "text")
Pin == Draft("fill", "secret", "", "", "text")
Day(looks) == Draft("fill", "literal", "day", "day", looks)
Press == Draft("press", "none", "", "", "text")
LinkTyped == Draft("fill", "literal", "url", "user", "text")

MCDrafts ==
  {<<Start, Login("ann"), Password, Login("ann"), Press>>,
   <<Start, Login("ann"), Email, Password>>,
   <<Start, LinkTyped, Day("date")>>,
   <<Start, Day("no_date"), Password, Pin>>}

User == <<"user", 1>>
MCTyped == {User, <<"user", 2>>, <<"?", 1>>}
MCOverrides ==
  {<<>>, <<<<User, "ann">>>>, <<<<User, "url">>>>, <<<<User, "day">>, <<<<"b", 1>>, "day">>>>,
   <<<<User, "nothing">>, <<<<"?", 1>>, "ann">>>>}

Page(path, landmarks, live) == [path |-> path, landmarks |-> landmarks, live |-> live]
MCObservations ==
  {Page("/a", <<>>, <<>>),
   Page("/a", <<<<"main", "Orders">>, <<"heading", "Done">>, <<"heading", "Done">>>>, <<"saved">>),
   Page("/b", <<<<"main", "Orders">>, <<"list", "Rows">>, <<"main", "">>>>,
        <<"saved", "", "saved">>)}
=============================================================================
