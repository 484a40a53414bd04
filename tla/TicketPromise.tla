---------------------------- MODULE TicketPromise ----------------------------
(***************************************************************************)
(* What the lifecycle of a ticket promises to its readers (the inbox, the  *)
(* analytics, the bot's dashboard): a conversation may become a ticket and *)
(* never turns back, the bot's verdict on a ticket is given once and never *)
(* changed, and a ticket once resolved keeps having been resolved.         *)
(***************************************************************************)

VARIABLES
  stage,     \* "absent", "conversation" or "ticket"
  verdict,   \* what the bot did: "none", "answered" or "escalated"
  resolved   \* the row has a firstResolvedAt

vars == <<stage, verdict, resolved>>

Init ==
  /\ stage = "absent"
  /\ verdict = "none"
  /\ resolved = FALSE

\* A mail starts a conversation, the portal starts a ticket.
Open ==
  /\ stage = "absent"
  /\ stage' \in {"conversation", "ticket"}
  /\ UNCHANGED <<verdict, resolved>>

Convert ==
  /\ stage = "conversation"
  /\ stage' = "ticket"
  /\ UNCHANGED <<verdict, resolved>>

\* The bot speaks only on tickets.
Judge ==
  /\ stage = "ticket" /\ verdict = "none"
  /\ verdict' \in {"answered", "escalated"}
  /\ UNCHANGED <<stage, resolved>>

Resolve ==
  /\ stage # "absent"
  /\ resolved' = TRUE
  /\ UNCHANGED <<stage, verdict>>

Next == Open \/ Convert \/ Judge \/ Resolve

Spec == Init /\ [][Next]_vars
=============================================================================
