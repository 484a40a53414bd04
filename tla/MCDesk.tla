------------------------------- MODULE MCDesk -------------------------------
(***************************************************************************)
(* The stories of the browsers for TLC.                                    *)
(***************************************************************************)
EXTENDS AgentDesk

PageStories ==
  {{"portal", "agent", "answer", "note"}, {"portal", "reply", "attach", "fault"}, {"agent", "answer", "attach", "sse"},
   {"agent", "answer", "resolve", "fault"}, {"agent", "tags", "overtake"}, {"portal", "bot", "reply", "mail"},
   {"agent", "triage", "mail", "answer"}, {"agent", "chips", "mail", "answer"}, {"agent", "status"}, {"portal", "reopen"}}

ListStories == {{"inbox"}, {"inbox", "dismiss"}, {"inbox", "filter"}, {"whole"}, {"inbox", "overtake"}}

ShellStories == {{"session"}, {"archive", "reset"}, {"archive", "refresh"}, {"notices"}}

Stories == PageStories \union ListStories \union ShellStories
=============================================================================
