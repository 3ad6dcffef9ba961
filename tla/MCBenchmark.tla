------------------------------ MODULE MCBenchmark ------------------------------
(***************************************************************************)
(* The cells of the benchmark's runs: a form that is opened, filled in and *)
(* sent, and a key pressed on no element, on the portal and on a real      *)
(* application.                                                            *)
(***************************************************************************)
EXTENDS Benchmark

CONSTANTS email, submit

Navigate == [key |-> NoKey, element |-> FALSE, checks |-> 1, resets |-> FALSE]
Fill == [key |-> email, element |-> TRUE, checks |-> 1, resets |-> TRUE]
Click == [key |-> submit, element |-> TRUE, checks |-> 2, resets |-> FALSE]
Press == [key |-> submit, element |-> FALSE, checks |-> 1, resets |-> FALSE]

Job(system, suite, steps, applied) ==
  [system |-> system, suite |-> suite, steps |-> steps,
   truths |-> StepTruths({email, submit}, applied)]

Key == [Fill EXCEPT !.checks = 0, !.resets = FALSE]

Form == <<Navigate, Fill, Click>>
Renamed == {Applied(submit, "heal_expected")}
Removed == {Applied(submit, "abstain_expected"), Applied(email, "heal_expected")}

MCJobs ==
  {Job("ladder", "portal", <<Navigate, Fill, Press>>, Removed),
   Job("ladder", "portal", <<Key, [Click EXCEPT !.checks = 1]>>, Renamed),
   Job("ladder", "portal", <<Key, [Click EXCEPT !.checks = 0]>>, Removed),
   Job("ladder", "labels", <<Click>>, Renamed),
   Job("script", "portal", Form, Removed),
   Job("script", "labels", Form, Renamed)}
=============================================================================
