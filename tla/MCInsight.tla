------------------------------ MODULE MCInsight ------------------------------
EXTENDS TicketInsight

\* The first four are of the analysis, the others of resolutions: the topics of two
\* tickets without surveys, the survey of one and its rating without topics.
Stories == {
  {"analysis", "choice"},
  {"analysis", "conversation"},
  {"analysis", "conversation", "thread"},
  {"analysis", "thread", "pause"},
  {"closing", "mute"},
  {"closing", "single", "blind"},
  {"closing", "single", "blind", "rate"},
  {"closing", "single", "pause"}}
=============================================================================
