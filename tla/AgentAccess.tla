----------------------------- MODULE AgentAccess -----------------------------
(***************************************************************************)
(* Who may work at the desk: the rows of the agents, the invitations that  *)
(* are mailed to them, the guards every call of an agent passes, and the   *)
(* page on which admins invite, promote and deactivate their colleagues.   *)
(***************************************************************************)
EXTENDS Scenario, Naturals, Sequences, SequencesExt

CONSTANTS
  Staff,       \* the people with an address at the company
  Boss,        \* the admin who was there first
  MaxInvites,  \* bound: invitations mailed
  MaxCalls,    \* bound: calls their browsers make
  MaxFlight    \* bound: calls on their way at once

ASSUME AccessAssumption == Boss \in Staff /\ MaxInvites \in Nat /\ MaxCalls \in Nat /\ MaxFlight \in Nat

VARIABLES
  agent,     \* the row of each of them
  links,     \* the invitations mailed, oldest first
  browser,   \* what each browser shows
  calls,     \* the calls on their way, in order
  made,
  fallback,  \* AppConfig.botFallbackAgentId
  barred     \* history: whose last decision by an admin was to deactivate him

accessVars == <<agent, links, browser, calls, made, fallback, barred>>

Roles == {"ADMIN", "PRIMARY_AGENT"}
Persons == Staff \union {"none"}
Newcomers == Staff \ {Boss}

NoAgent == [exists |-> FALSE, role |-> "PRIMARY_AGENT", active |-> FALSE, accepted |-> FALSE, password |-> FALSE, token |-> 0]
Row(role, accepted, token) == [exists |-> TRUE, role |-> role, active |-> TRUE, accepted |-> accepted, password |-> accepted, token |-> token]
Link(s) == [of |-> s, mail |-> "due", used |-> FALSE, lost |-> FALSE]

\* What GET /agents selects of a row.
Listed(s) == [exists |-> agent[s].exists, role |-> agent[s].role, active |-> agent[s].active, accepted |-> agent[s].accepted]
Nobody == [s \in Staff |-> [exists |-> FALSE, role |-> "PRIMARY_AGENT", active |-> FALSE, accepted |-> FALSE]]

\* role: that of the session, as it was answered at the sign-in.
Browser(role, list) == [role |-> role, rows |-> list, inviting |-> FALSE, saving |-> FALSE, choice |-> "none"]
Call(p, op) == [by |-> p, op |-> op, step |-> "sent", of |-> "none", role |-> "none", active |-> FALSE, link |-> 0,
                rows |-> Nobody, choice |-> "none"]

AccessInit ==
  /\ agent = [s \in Staff |->
       CASE s = Boss          -> Row("ADMIN", TRUE, 0)
         [] "peer" \in story  -> Row("ADMIN", TRUE, 0)
         [] "mate" \in story  -> Row("PRIMARY_AGENT", TRUE, 0)
         [] OTHER             -> NoAgent]
  /\ links = <<>>
  /\ browser = [s \in Staff |-> IF agent[s].exists THEN Browser(agent[s].role, [t \in Staff |-> Listed(t)]) ELSE Browser("none", Nobody)]
  /\ calls = <<>> /\ made = 0 /\ fallback = "none" /\ barred = [s \in Staff |-> FALSE]

-----------------------------------------------------------------------------
(***************************************************************************)
(* The guards.  The role is the one of the row they read: what happens to  *)
(* the row until the handler writes does not stop it.                      *)
(***************************************************************************)
Signed(p) == agent[p].exists /\ agent[p].active
Admits(c) == c.op = "chosen" \/ (Signed(c.by) /\ (c.op # "list" => agent[c.by].role = "ADMIN"))
Guarded == {"list", "invite", "update", "remove", "choose", "chosen"}

Step(i, step) == calls' = [calls EXCEPT ![i].step = step]
Stands(i, op, step) == calls[i].op = op /\ calls[i].step = step

Guard(i) ==
  /\ calls[i].step = "sent" /\ calls[i].op \in Guarded
  /\ Step(i, IF Admits(calls[i]) THEN "passed" ELSE "refused")
  /\ UNCHANGED <<agent, links, browser, made, fallback, barred>>

-----------------------------------------------------------------------------
(***************************************************************************)
(* Handlers of admins.                                                     *)
(***************************************************************************)
ListAgents(i) ==
  /\ Stands(i, "list", "passed")
  /\ calls' = [calls EXCEPT ![i].step = "answered", ![i].rows = [s \in Staff |-> Listed(s)]]
  /\ UNCHANGED <<agent, links, browser, made, fallback, barred>>

\* An upsert: a row that is there keeps its password and what it accepted.
Invite(i) ==
  LET s == calls[i].of
      new == Len(links) + 1
  IN /\ Stands(i, "invite", "passed") /\ Len(links) < MaxInvites
     /\ agent' = [agent EXCEPT ![s] = IF @.exists THEN [@ EXCEPT !.role = calls[i].role, !.token = new, !.active = TRUE]
                                                  ELSE Row(calls[i].role, FALSE, new)]
     /\ links' = Append(links, Link(s))
     /\ barred' = [barred EXCEPT ![s] = FALSE]
     /\ Step(i, "answered")
     /\ UNCHANGED <<browser, made, fallback>>

\* The mail goes by itself; nobody hears of one that fails.
MailInvite(n) ==
  /\ links[n].mail = "due"
  /\ \E mail \in {"sent"} \union (IF "fault" \in story THEN {"failed"} ELSE {}) : links' = [links EXCEPT ![n].mail = mail]
  /\ UNCHANGED <<agent, browser, calls, made, fallback, barred>>

\* A role or a switch: only what the call carries is written.
UpdateAgent(i) ==
  LET c == calls[i]
  IN /\ Stands(i, "update", "passed") /\ agent[c.of].exists
     /\ agent' = [agent EXCEPT ![c.of] = IF c.role = "none" THEN [@ EXCEPT !.active = c.active] ELSE [@ EXCEPT !.role = c.role]]
     /\ barred' = [barred EXCEPT ![c.of] = IF c.role = "none" THEN ~c.active ELSE @]
     /\ Step(i, "answered")
     /\ UNCHANGED <<links, browser, made, fallback>>

\* No page calls this; the fallback agent has no key that would go with the row.
RemoveAgent(i) ==
  /\ Stands(i, "remove", "passed") /\ agent[calls[i].of].exists
  /\ agent' = [agent EXCEPT ![calls[i].of] = NoAgent]
  /\ barred' = [barred EXCEPT ![calls[i].of] = FALSE]
  /\ Step(i, "answered")
  /\ UNCHANGED <<links, browser, made, fallback>>

NotFound(i) ==
  /\ calls[i].op \in {"update", "remove"} /\ calls[i].step = "passed" /\ ~agent[calls[i].of].exists
  /\ Step(i, "refused")
  /\ UNCHANGED <<agent, links, browser, made, fallback, barred>>

ChooseFallback(i) ==
  /\ Stands(i, "choose", "passed")
  /\ fallback' = calls[i].choice
  /\ Step(i, "answered")
  /\ UNCHANGED <<agent, links, browser, made, barred>>

ReadFallback(i) ==
  /\ Stands(i, "chosen", "passed")
  /\ calls' = [calls EXCEPT ![i].step = "answered", ![i].choice = fallback]
  /\ UNCHANGED <<agent, links, browser, made, fallback, barred>>

\* A mutant: the link of a row that is deactivated is taken.
FindInviteOfAll(i) ==
  LET s == links[calls[i].link].of
  IN /\ Stands(i, "accept", "sent")
     /\ calls' = [calls EXCEPT ![i].step = IF agent[s].token = calls[i].link THEN "found" ELSE "refused", ![i].active = agent[s].active]
     /\ UNCHANGED <<agent, links, browser, made, fallback, barred>>

-----------------------------------------------------------------------------
(***************************************************************************)
(* Coming in.                                                              *)
(***************************************************************************)
\* The link finds its row; a row that is deactivated does not take it.
FindInvite(i) ==
  LET s == links[calls[i].link].of
  IN /\ Stands(i, "accept", "sent")
     /\ calls' = [calls EXCEPT ![i].step = IF agent[s].token = calls[i].link /\ agent[s].active THEN "found" ELSE "refused",
                               ![i].active = agent[s].active]
     /\ UNCHANGED <<agent, links, browser, made, fallback, barred>>

\* Once the password is hashed, the row is written by its id: it is active, and has
\* no token, whatever became of either meanwhile.
TakeInvite(i) ==
  LET s == links[calls[i].link].of
  IN /\ Stands(i, "accept", "found") /\ agent[s].exists
     /\ agent' = [agent EXCEPT ![s] = [@ EXCEPT !.password = TRUE, !.accepted = TRUE, !.token = 0, !.active = TRUE]]
     /\ links' = [n \in DOMAIN links |-> IF n = calls[i].link THEN [links[n] EXCEPT !.used = TRUE]
                                         ELSE [links[n] EXCEPT !.lost = @ \/ n = agent[s].token]]
     /\ barred' = [barred EXCEPT ![s] = @ /\ ~calls[i].active]
     /\ calls' = [calls EXCEPT ![i].step = "answered", ![i].role = agent[s].role]
     /\ UNCHANGED <<browser, made, fallback>>

LosesRow(i) ==
  /\ Stands(i, "accept", "found") /\ ~agent[links[calls[i].link].of].exists
  /\ Step(i, "refused")
  /\ UNCHANGED <<agent, links, browser, made, fallback, barred>>

Answers(i, p) == calls' = [calls EXCEPT ![i].step = IF Signed(p) THEN "answered" ELSE "refused", ![i].role = agent[p].role]

SignIn(i) ==
  LET p == calls[i].by
  IN /\ Stands(i, "signin", "sent")
     /\ IF agent[p].password THEN Answers(i, p) ELSE Step(i, "refused")
     /\ UNCHANGED <<agent, links, browser, made, fallback, barred>>

\* Google vouches for the address: the invitation counts as accepted before the
\* account is found to be deactivated, and its link goes on working.
GoogleIn(i) ==
  LET p == calls[i].by
  IN /\ Stands(i, "google", "sent")
     /\ IF agent[p].exists THEN Answers(i, p) /\ agent' = [agent EXCEPT ![p].accepted = TRUE]
                           ELSE Step(i, "refused") /\ UNCHANGED agent
     /\ UNCHANGED <<links, browser, made, fallback, barred>>

-----------------------------------------------------------------------------
(***************************************************************************)
(* The page of the agents, as an admin sees it, and the pages to come in.  *)
(***************************************************************************)
Send(call) == made < MaxCalls /\ Len(calls) < MaxFlight /\ made' = made + 1 /\ calls' = Append(calls, call)
Admin(p) == browser[p].role = "ADMIN"
Idle(p) == \A i \in DOMAIN calls : calls[i].by # p
Untouched == UNCHANGED <<agent, links, fallback, barred>>

OpenAgents(p) ==
  /\ browser[p].role # "none" /\ Idle(p)
  /\ \E op \in {"list"} \union ({"chosen"} \intersect story) : Send(Call(p, op))
  /\ Untouched /\ UNCHANGED browser

PressInvite(p) ==
  /\ "invite" \in story /\ Admin(p) /\ ~browser[p].inviting
  /\ \E s \in Newcomers, r \in Roles : Send([Call(p, "invite") EXCEPT !.of = s, !.role = r])
  /\ browser' = [browser EXCEPT ![p].inviting = TRUE]
  /\ Untouched

PressRole(p) ==
  /\ "role" \in story /\ Admin(p)
  /\ \E s \in Staff, r \in Roles : browser[p].rows[s].exists /\ browser[p].rows[s].role # r /\ Send([Call(p, "update") EXCEPT !.of = s, !.role = r])
  /\ Untouched /\ UNCHANGED browser

\* The button asks for the opposite of what it shows.
PressToggle(p) ==
  /\ "toggle" \in story /\ Admin(p)
  /\ \E s \in Staff : browser[p].rows[s].exists /\ Send([Call(p, "update") EXCEPT !.of = s, !.active = ~browser[p].rows[s].active])
  /\ Untouched /\ UNCHANGED browser

\* Only agents the page shows as active can be chosen.
PressFallback(p) ==
  /\ "fallback" \in story /\ browser[p].role # "none" /\ ~browser[p].saving
  /\ \E s \in {"none"} \union {s \in Staff : browser[p].rows[s].exists /\ browser[p].rows[s].active} : Send([Call(p, "choose") EXCEPT !.choice = s])
  /\ browser' = [browser EXCEPT ![p].saving = TRUE]
  /\ Untouched

CallRemove(p) ==
  /\ "remove" \in story /\ Admin(p)
  /\ \E s \in Newcomers : Send([Call(p, "remove") EXCEPT !.of = s])
  /\ Untouched /\ UNCHANGED browser

\* A form of the pages to come in is sent once at a time.
SubmitAccept(p) ==
  /\ Idle(p) /\ \E n \in DOMAIN links : links[n].of = p /\ links[n].mail = "sent" /\ Send([Call(p, "accept") EXCEPT !.link = n])
  /\ Untouched /\ UNCHANGED browser

SubmitSignIn(p) ==
  /\ browser[p].role = "none" /\ Idle(p) /\ Send(Call(p, "signin"))
  /\ Untouched /\ UNCHANGED browser

GoogleHandoff(p) ==
  /\ "google" \in story /\ browser[p].role = "none" /\ Idle(p) /\ Send(Call(p, "google"))
  /\ Untouched /\ UNCHANGED browser

Ends(i) == calls' = RemoveAt(calls, i)
ListsAgain(i) == calls' = Append(RemoveAt(calls, i), Call(calls[i].by, "list"))

\* What the page does with an answer; after a change it asks for the list again.
Receive(i) ==
  LET c == calls[i]
      shows == browser[c.by]
  IN /\ c.step = "answered"
     /\ browser' = [browser EXCEPT ![c.by] =
          CASE c.op = "list"                           -> [shows EXCEPT !.rows = c.rows]
            [] c.op = "chosen"                         -> [shows EXCEPT !.choice = c.choice]
            [] c.op = "invite"                         -> [shows EXCEPT !.inviting = FALSE]
            [] c.op = "choose"                         -> [shows EXCEPT !.saving = FALSE, !.choice = c.choice]
            [] c.op \in {"accept", "signin", "google"} -> Browser(c.role, Nobody)
            [] OTHER                                   -> shows]
     /\ IF c.op \in {"invite", "update"} THEN ListsAgain(i) ELSE Ends(i)
     /\ made' = made /\ Untouched

Fail(i) ==
  /\ calls[i].step = "refused"
  /\ browser' = [browser EXCEPT ![calls[i].by].inviting = @ /\ calls[i].op # "invite", ![calls[i].by].saving = @ /\ calls[i].op # "choose"]
  /\ Ends(i)
  /\ made' = made /\ Untouched

Handle(i) ==
  Guard(i) \/ ListAgents(i) \/ Invite(i) \/ UpdateAgent(i) \/ RemoveAgent(i) \/ NotFound(i) \/ ChooseFallback(i) \/ ReadFallback(i)
  \/ FindInvite(i) \/ TakeInvite(i) \/ LosesRow(i) \/ SignIn(i) \/ GoogleIn(i) \/ Receive(i) \/ Fail(i)

AccessNext ==
  \/ "access" \in story /\ \E p \in Staff : OpenAgents(p) \/ PressInvite(p) \/ PressRole(p) \/ PressToggle(p) \/ PressFallback(p) \/ CallRemove(p)
                                            \/ SubmitAccept(p) \/ SubmitSignIn(p) \/ GoogleHandoff(p)
  \/ \E i \in DOMAIN calls : Handle(i)
  \/ \E n \in DOMAIN links : MailInvite(n)

-----------------------------------------------------------------------------
ListedRow == [exists : BOOLEAN, role : Roles, active : BOOLEAN, accepted : BOOLEAN]

AccessTypeOK ==
  /\ agent \in [Staff -> [exists : BOOLEAN, role : Roles, active : BOOLEAN, accepted : BOOLEAN, password : BOOLEAN, token : 0..MaxInvites]]
  /\ \A n \in DOMAIN links : links[n] \in [of : Staff, mail : {"due", "sent", "failed"}, used : BOOLEAN, lost : BOOLEAN]
  /\ browser \in [Staff -> [role : Roles \union {"none"}, rows : [Staff -> ListedRow], inviting : BOOLEAN, saving : BOOLEAN, choice : Persons]]
  /\ Len(calls) <= made /\ made \in 0..MaxCalls /\ fallback \in Persons /\ barred \in [Staff -> BOOLEAN]

\* Who was deactivated stays out: neither an old invitation, nor Google, nor a
\* password lets him in again before an admin does.  One case is excepted: he was
\* accepting, and had been found active, when he was deactivated.
DeactivationHolds == \A s \in Staff : barred[s] => ~agent[s].active

\* The link mailed last opens the desk until it is used, though older ones are still
\* being used: only an acceptance of an older link that had already found its row
\* takes the new token with it.
FreshLinkWorks ==
  \A n \in DOMAIN links :
    LET s == links[n].of
    IN agent[s].exists /\ (\A m \in DOMAIN links : m > n => links[m].of # s) => agent[s].token = n \/ links[n].used \/ links[n].lost

\* Access is what the admins decided last, of both kinds.
AccessHonest == DeactivationHolds /\ FreshLinkWorks
=============================================================================
