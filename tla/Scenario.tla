------------------------------ MODULE Scenario ------------------------------
(***************************************************************************)
(* What may happen in a behaviour, chosen once at its start.  Several      *)
(* parts of the browser and of the API that do not act on each other share *)
(* a specification: a scenario sets some of them in motion, so that their  *)
(* states add up and do not multiply.                                      *)
(***************************************************************************)
CONSTANT Scenarios  \* the sets of events a behaviour is made of

VARIABLE story      \* the events of this behaviour

ScenarioInit == story \in Scenarios
=============================================================================
