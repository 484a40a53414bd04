---------------------------- MODULE TicketInsight ----------------------------
(***************************************************************************)
(* The workers behind the desk: what the model makes of messages           *)
(* (MessageAnalysis) and what follows a resolution (ClosingSurvey).  A     *)
(* story belongs to one of the two; the features and the process that dies *)
(* are theirs together.                                                    *)
(***************************************************************************)
EXTENDS MessageAnalysis, ClosingSurvey

insightVars == <<story, jobVars, analysisVars, closingVars>>

InsightInit == ScenarioInit /\ JobsInit /\ AnalysisInit /\ ClosingInit

Dies == Fault /\ AnalysisDies /\ ClosingDies /\ UNCHANGED off

InsightNext ==
  /\ UNCHANGED story
  /\ \/ AnalysisNext /\ UNCHANGED closingVars
     \/ ClosingNext /\ UNCHANGED analysisVars
     \/ Switches /\ UNCHANGED <<analysisVars, closingVars>>
     \/ Dies

InsightSpec == InsightInit /\ [][InsightNext]_insightVars /\ AnalysisFair /\ ClosingFair

\* What the handlers and the workers owe in the end: every message of a customer is
\* analysed and every resolved ticket has its survey, or an excuse has been named.
InsightSettles == AnalysisSettles /\ SurveySettles
=============================================================================
