----------------------------- MODULE TicketHeard -----------------------------
(***************************************************************************)
(* What the lifecycle of a ticket is for: a message of the customer ends   *)
(* up where agents look.  Two history variables watch TicketLifecycle; no  *)
(* action of it reads them.                                                *)
(***************************************************************************)
EXTENDS TicketLifecycle

VARIABLES
  unread,   \* the last to write was the customer: no agent has dealt with it since
  excuses   \* what the code does not look at, or does not see, since then

heardVars == <<vars, unread, excuses>>

\* The views the desk works from: triage, and the tickets somebody has to act on.
Attended == {"NEW", "OPEN", "IN_PROGRESS"}

CustomerSpeaks(r) == \/ req[r].call.op = "customerReply"
                     \/ IsMail(r) /\ req[r].call.batch[Len(req[r].call.batch)] = "customer"

Stores(r) == r \notin stored /\ r \in stored'

\* A message of an agent, or a status an agent chose.  A new ticket is no message
\* that waits: its activation sees to it, which ActivationSettles is about.
AgentDeals(r) ==
  \/ Stores(r) /\ ~CustomerSpeaks(r) /\ req[r].call.op # "internalNote"
  \/ DiscardTicket(r) /\ ticket' # ticket
  \/ PatchTicket(r) /\ req[r].call.status # "keep"

\* The status was read before somebody changed it; an ingestion reads it again at
\* its end, but only to find a dismissal.
Stale(r) == \/ req[r].snap.status # ticket.status
            \/ /\ IsMail(r) /\ req[r].pc = "checked"
               /\ MovesAny(req[r].snap.status, req[r].call.batch)

\* Why the write that stores a customer's message may leave the status alone: it is
\* stale, the archive imports old mail, a conversation has no status to move, or
\* the conversation was dismissed while it became a ticket, and a reply in the
\* portal does not revive it.
WrittenBlind(r) ==
  {x \in {"stale", "archive", "conversation", "dismissed"} :
     \/ x = "stale" /\ Stale(r)
     \/ x = "archive" /\ IsMail(r) /\ ~req[r].call.live
     \/ x = "conversation" /\ ~req[r].snap.isTicket /\ ticket.status # "ABSENT"
     \/ x = "dismissed" /\ ~IsMail(r) /\ ticket.status = "DISMISSED"}

\* A customer's message is stored and its handler is about to call for a human.
Calling == \E r \in stored : CustomerSpeaks(r) /\ req[r].pc = "escalate"

\* What later steps do to a message that waits: the bot's answer to an earlier one
\* moves the ticket, an escalation leaves a ticket with an owner alone, and the
\* process dies before it.
Overtaken ==
  {x \in {"bot", "owned", "died"} :
     \/ x = "bot" /\ BotWait
     \/ x = "owned" /\ ticket.assignee # None /\ \E r \in Requests : Escalate(r)
     \/ x = "died" /\ Crash /\ Calling}

HeardInit == Init /\ unread = FALSE /\ excuses = {}

\* The excuses are those of the last message of the customer.
Watch ==
  LET deals == \E r \in Requests : AgentDeals(r)
      heard == {r \in Requests : Stores(r) /\ CustomerSpeaks(r)}
  IN /\ unread' = (~deals /\ (unread \/ heard # {}))
     /\ excuses' = IF ~unread' THEN {}
                   ELSE IF heard # {} THEN UNION {WrittenBlind(r) : r \in heard}
                   ELSE excuses \union Overtaken

HeardNext == Next /\ Watch

HeardSpec == HeardInit /\ [][HeardNext]_heardVars

HeardFairSpec ==
  /\ HeardSpec
  /\ \A r \in Requests : WF_vars(HandlerStep(r))
  /\ WF_vars(BotStep)

\* Once its handler is through, a message of the customer that nobody has dealt with
\* is on a ticket that agents see as theirs to act on, however replies, mails, the
\* bot and agents interleave; where it is not, one of the seven excuses says why:
\* applyReplyTransition got a status that had changed, the bot's late WAITING, ...
UnheardHasCause == unread /\ ~Calling => ticket.status \in Attended \/ excuses # {}
=============================================================================
