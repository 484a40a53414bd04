------------------------------- MODULE MCDoor -------------------------------
EXTENDS FrontDoor

\* Where a customer begins and what can happen to him.  The first six are of the
\* account, the last two of the form.
Stories == {
  {"door", "auth", "twin", "fault"},
  {"door", "auth", "mail"},
  {"door", "google", "twin"},
  {"door", "sso", "member", "out", "twin", "expire"},
  {"door", "home", "member", "resend", "away", "out"},
  {"door", "forgot", "member", "away", "expire"},
  {"submit", "guest", "fault"},
  {"submit"}}
=============================================================================
