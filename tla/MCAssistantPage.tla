--------------------------- MODULE MCAssistantPage ---------------------------
(***************************************************************************)
(* AssistantPage for TLC.  A behaviour follows one of these scenarios.     *)
(***************************************************************************)
EXTENDS AssistantPage

Stories ==
  {{"page", "scan", "lapse"}, {"scan", "cancel"}, {"scan", "crash"}, {"scan", "wipe"},
   {"scan", "publish", "fault"}, {"manual", "delete"}, {"crawl", "cancel"},
   {"crawl", "crash", "reindex", "fault"}}
=============================================================================
