-------------------------- MODULE MCTicketLifecycle --------------------------
(***************************************************************************)
(* TicketLifecycle for TLC: a small set of calls, a scenario of the        *)
(* support desk, and the symmetry of the requests.                         *)
(***************************************************************************)
EXTENDS TicketLifecycle, TLC

Sym == Permutations(Requests) \union Permutations(Agents)

Op(names) == {[op |-> n] : n \in names}
Resolve(S) == {[op |-> "patch", status |-> "RESOLVED", assignee |-> a] : a \in S}
Mail(B, live) == {[op |-> "mail", batch |-> b, live |-> live] : b \in B}

\* A ticket is opened, a conversation converted or dismissed; it is answered,
\* taken and resolved while mails of its thread arrive, live and by the archive.
DeskCalls ==
  Op({"create", "customerReply", "agentReply", "convert", "discard"})
  \union Resolve(Agents)
  \union Mail({<<"customer">>}, TRUE) \union Mail({<<"customer", "agent">>}, FALSE)
=============================================================================
