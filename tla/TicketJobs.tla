----------------------------- MODULE TicketJobs -----------------------------
(***************************************************************************)
(* What the workers of the analysis and of the survey have in common: the  *)
(* attempts of a job of pg-boss, of which a worker has one in hand at a    *)
(* time, and the features that an admin switches off.                      *)
(***************************************************************************)
EXTENDS Scenario, Bags, Naturals

CONSTANT MaxFaults  \* bound: failed calls and crashes

ASSUME FaultAssumption == MaxFaults \in Nat

VARIABLES
  off,    \* features that are suppressed
  faults

jobVars == <<off, faults>>

Features == {"aiAnalysis", "csatSurvey"}

JobsInit ==
  /\ off = (IF "mute" \in story THEN {"csatSurvey"} ELSE {}) \union (IF "blind" \in story THEN {"aiAnalysis"} ELSE {})
  /\ faults = 0

Fault == faults < MaxFaults /\ faults' = faults + 1

\* A waiting job: what it is about, and how often it has been tried.
Job(x) == [of |-> x, tries |-> 0]
One(j) == SetToBag({j})

NoJob == [of |-> "none", tries |-> 0]

\* Every job that waits is about one of these.
About(queue, things) == BagToSet(queue) \subseteq [of : things, tries : Nat]

\* A mutant: what was thrown is logged only.
RetriedNever(queue, j, limit) == queue

\* The end of an attempt that threw, or that expired because the process had died.
Retried(queue, j, limit) == IF j.tries < limit THEN queue (+) One([of |-> j.of, tries |-> j.tries + 1]) ELSE queue

\* The switches, and the maintenance that turns everything off.
Switches ==
  /\ "pause" \in story
  /\ off' \in {{}, {"csatSurvey"}, Features}
  /\ UNCHANGED faults
=============================================================================
