------------------------------- MODULE MCAdmin -------------------------------
EXTENDS AdminDesk

\* Red, whose channel rounds to 256, a green, and a white that is not suggested.
Image == {<<255, 0, 0>>, <<20, 200, 40>>, <<250, 250, 250>>}

Stories == {
  {"access", "invite", "toggle"},
  {"access", "peer", "toggle", "role"},
  {"access", "mate", "toggle", "invite"},
  {"access", "invite", "google", "fault"},
  {"access", "mate", "remove", "fallback", "chosen", "invite"},
  {"forms", "options"},
  {"forms", "options", "two"},
  {"forms", "options", "identity"},
  {"forms", "switches", "two"},
  {"forms", "switches", "fault"},
  {"forms", "handoff", "two"},
  {"forms", "handoff", "fault"},
  {"forms", "identity", "two"},
  {"forms", "colour"},
  {"issues", "peer"},
  {"hub", "issues", "suppress", "customer"},
  {"hub", "secret"},
  {"connect"},
  {"pages", "tokens"},
  {"pages", "two", "revisit"},
  {"pages", "fault", "revisit"}}
=============================================================================
