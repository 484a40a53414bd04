---------------------------- MODULE MCTicketHeard ----------------------------
(***************************************************************************)
(* TicketHeard for TLC: the calls around the bot and around a customer who *)
(* goes on writing.                                                        *)
(***************************************************************************)
EXTENDS TicketHeard

Op(names) == {[op |-> n] : n \in names}
SetStatus(S) == {[op |-> "patch", status |-> s, assignee |-> "keep"] : s \in S}
Mail(B, live) == {[op |-> "mail", batch |-> b, live |-> live] : b \in B}

\* What agents and customers do while the bot works.
BotCalls ==
  Op({"create", "convert", "discard", "customerReply", "agentReply"})
  \union SetStatus({"CLOSED"})
  \union Mail({<<"customer">>}, TRUE)
=============================================================================
