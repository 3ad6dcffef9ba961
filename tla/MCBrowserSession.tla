-------------------------- MODULE MCBrowserSession --------------------------
(* Sites and workflows of the browser sessions: an application and its       *)
(* sign-in host on the allowlist, a loopback portal, a host that is not, and *)
(* addresses of which some are refused.                                      *)
EXTENDS BrowserSessionProperties

Public == Address(<<93, 184, 216, 34>>)
Second == Address(<<9, 9, 9, 9>>)
Private == Address(<<10, 0, 0, 1>>)
Loopback == Address(<<127, 0, 0, 1>>)
Carrier == [id |-> <<64, 155>>, lies |-> {}, carries |-> <<Private>>]

App == <<"app", "example">>
Login == <<"login", "example">>
Ads == <<"ads", "net">>

Name(text) == [text |-> text, prefix |-> "", digits |-> <<NoDigit>>]
Digits(prefix, digits) == [text |-> "number", prefix |-> prefix, digits |-> digits]
Host(labels) == [labels |-> labels]
Named(labels) == Host([i \in DOMAIN labels |-> Name(labels[i])])
Web(host) == [scheme |-> "https", form |-> "ok", host |-> host, port |-> 443]

\* The sign-in host has a trailing dot. 0x0a000001 is the private address, the
\* loopback address is 127.0.0.1 and 0177.1, and 1.09 is no host.
One == Digits("", <<1>>)
Zero == Digits("", <<0>>)
MCWritten ==
  [app |-> Web(Named(App)), ads |-> Web(Named(Ads)),
   login |-> Web(Host(Named(Login).labels \o <<Empty>>)),
   inner |-> Web(Host(<<Digits("0x", <<0, 10, 0, 0, 0, 0, 0, 1>>)>>)),
   portal |-> [Web(Host(<<Digits("", <<1, 2, 7>>), Zero, Zero, One>>)) EXCEPT !.port = 8765],
   other |-> Web(Host(<<Digits("0", <<1, 7, 7>>), One>>)),
   carrier |-> Web([v6 |-> Carrier]),
   bad |-> Web(Host(<<One, Digits("0", <<9>>)>>)),
   file |-> [Web(Named(App)) EXCEPT !.scheme = "file"],
   odd |-> [Web(Named(App)) EXCEPT !.form = "credentials"]]

MCDns ==
  (App :> {<<Public>>, <<>>}) @@
  (Login :> {<<Public, Second>>, <<Second, Private>>}) @@
  (Ads :> {<<Second>>, <<Carrier>>})

MCAllowed == {[wild |-> FALSE, base |-> App], [wild |-> TRUE, base |-> <<"example">>]}
MCExceptions == {<<Loopback, 8765>>}

Page(asks) == [to |-> "none", status |-> {200}, asks |-> asks]
Plain == [u \in DOMAIN MCWritten |-> Page(<<>>)]

Do(act, url, effects, checks, want) ==
  [act |-> act, url |-> url, effects |-> effects, checks |-> checks, want |-> want]
Open(url, checks) == Do("navigate", url, {}, checks, url)
Fx(k, url) == [k |-> k, url |-> url]
Turn(shown, banner) == [shown |-> shown, banner |-> banner]

Base ==
  [steps |-> <<>>, site |-> Plain, changes |-> <<>>, traced |-> FALSE, late |-> 0, faults |-> 0,
   interrupts |-> 0]

MCScenarios ==
  {\* A navigation through failing lookups, busy statuses and late loads.
   [Base EXCEPT !.steps = <<Open("app", <<"url">>)>>, !.faults = 2, !.late = 1,
                !.site["app"].status = {200, 404, 503}],
   \* A redirect to a name that resolves to one thing and then another, with frames.
   [Base EXCEPT !.steps = <<Open("app", <<"banner">>), Open("portal", <<"url">>)>>,
                !.site["app"] = [to |-> "login", status |-> {200}, asks |-> <<>>],
                !.site["login"].asks = <<<<"frame", "ads">>, <<"sub", "inner">>>>, !.faults = 1],
   \* Redirects and frames that the policy refuses.
   [Base EXCEPT !.steps = <<Open("app", <<"url">>)>>,
                !.site["app"] = [to |-> "ads", status |-> {200}, asks |-> <<>>]],
   [Base EXCEPT !.steps = <<Open("app", <<>>)>>,
                !.site["app"].asks = <<<<"frame", "inner">>, <<"frame", "file">>, <<"sub", "carrier">>>>],
   [Base EXCEPT !.steps = <<Open("other", <<>>)>>],
   [Base EXCEPT !.steps = <<Do("click", "none", {}, <<>>, "app"), Open("login", <<>>)>>],
   [Base EXCEPT !.steps = <<Open("odd", <<>>)>>],
   [Base EXCEPT !.steps = <<Open("bad", <<>>)>>],
   \* A click that leaves the page, on a page that changes and changes back.
   [Base EXCEPT !.steps = <<Do("click", "none", {Fx("leave", "login")}, <<"element", "banner">>, "login")>>,
                !.changes = <<Turn(FALSE, FALSE), Turn(TRUE, FALSE), Turn(FALSE, TRUE)>>, !.late = 1],
   \* A click whose page leaves while the next step already navigates.
   [Base EXCEPT !.steps = <<Do("click", "none", {Fx("leave", "portal")}, <<>>, "portal"),
                            Open("app", <<"url">>)>>, !.interrupts = 1],
   \* A click that asks for data, opens a tab and downloads a file.
   [Base EXCEPT !.steps = <<Do("click", "none", {Fx("fetch", "app"), Fx("fetch", "inner"), Fx("open", "ads")},
                               <<"response">>, "app")>>, !.site["app"].status = {200, 503}],
   [Base EXCEPT !.steps = <<Do("press", "none", {Fx("download", "saved"), Fx("download", "failed")},
                               <<"download">>, "app")>>, !.interrupts = 2, !.traced = TRUE, !.faults = 1],
   \* A secret, and the page the form leads to.
   [Base EXCEPT !.steps = <<Do("secret", "none", {}, <<"field">>, "app"),
                            Do("click", "none", {Fx("leave", "login")}, <<"url">>, "login"),
                            Do("secret", "none", {Fx("leave", "app")}, <<"text">>, "app"),
                            Do("click", "none", {}, <<"text">>, "app")>>,
                !.traced = TRUE, !.late = 1, !.interrupts = 1,
                !.changes = <<Turn(TRUE, FALSE)>>]}
=============================================================================
