------------------------------ MODULE GithubLink ------------------------------
(***************************************************************************)
(* Issues on GitHub and the tickets they are linked to: agents create,     *)
(* link and unlink issues, developers change them, GitHub announces each   *)
(* change by a signed webhook, and a flag keeps the change before the      *)
(* agents until one of them has seen it.  Admins connect the account, and  *)
(* make the secret that somebody pastes at GitHub.                         *)
(***************************************************************************)
EXTENDS Scenario, Naturals, Sequences, SequencesExt

CONSTANTS
  Tix,        \* tickets
  Agents,     \* agents with a page open
  MaxIssues,  \* bound: issues on GitHub
  MaxChanges, \* bound: changes of developers
  MaxRows,    \* bound: links made
  MaxAsked    \* bound: calls the pages make

ASSUME GithubAssumption == Tix # {} /\ MaxIssues \in Nat /\ MaxChanges \in Nat /\ MaxRows \in Nat /\ MaxAsked \in Nat

VARIABLES
  github,  \* the state of each issue there, as the number of its version
  hub,     \* the account, the default repository, the secrets
  rows,    \* GithubIssue: the link of each ticket
  flag,    \* githubUpdatePending of each ticket
  posts,   \* webhook calls on their way, in any order
  chores,  \* calls of the pages on their way, in order
  views,   \* what each agent's page shows
  past,    \* history: announcements that missed, updates nobody has read
  counts

hubVars == <<github, hub, rows, flag, posts, chores, views, past, counts>>

Issues == 1..MaxIssues
Versions == 0..MaxChanges + 1

\* A link knows the issue, its own id, and the version it has last been synchronised to.
NoRow == [id |-> 0, issue |-> 0, version |-> 0]
LinkRow(id, i, version) == [id |-> id, issue |-> i, version |-> version]

\* ticket, banner and version on the ticket's page; the rest on the settings page.
View == [ticket |-> "none", linked |-> 0, version |-> 0, pending |-> FALSE, busy |-> FALSE,
         connected |-> FALSE, saved |-> FALSE, confirming |-> FALSE, known |-> FALSE, verified |-> FALSE, secret |-> 0, revealed |-> FALSE,
         code |-> "none", state |-> "idle"]
Chore(a, op) == [by |-> a, op |-> op, step |-> "sent", ticket |-> "none", issue |-> 0, version |-> 0, pending |-> FALSE, fresh |-> FALSE, secret |-> 0]

FirstSecret == IF "connect" \in story THEN 0 ELSE 1

HubInit ==
  /\ github = [i \in Issues |-> IF i = 1 THEN 1 ELSE 0]
  /\ hub = [connected |-> "connect" \notin story, repo |-> "connect" \notin story, secret |-> FirstSecret, pasted |-> FirstSecret, verified |-> FALSE, suppressed |-> FALSE]
  /\ rows = [t \in Tix |-> NoRow] /\ flag = [t \in Tix |-> FALSE]
  /\ posts = {} /\ chores = <<>> /\ views = [a \in Agents |-> [View EXCEPT !.ticket = IF "peer" \in story THEN CHOOSE t \in Tix : TRUE ELSE "none"]]
  /\ past = [missed |-> [i \in Issues |-> FALSE], unread |-> [t \in Tix |-> FALSE], raced |-> [t \in Tix |-> FALSE]]
  /\ counts = [rows |-> 0, posts |-> 0, asked |-> 0]

Asks(call) ==
  /\ counts.asked < MaxAsked
  /\ chores' = Append(chores, call) /\ counts' = [counts EXCEPT !.asked = @ + 1]
At(n, op, step) == chores[n].op = op /\ chores[n].step = step
Moves(n, step) == chores' = [chores EXCEPT ![n].step = step]
Sees(a, view) == views' = [views EXCEPT ![a] = view]

-----------------------------------------------------------------------------
(***************************************************************************)
(* GitHub.                                                                 *)
(***************************************************************************)
Post(i, version) == [no |-> counts.posts + 1, issue |-> i, version |-> version, key |-> hub.pasted, step |-> "sent", row |-> 0]

\* A label or the state changes; the announcement is signed with what was pasted.
Change(i) ==
  /\ "hub" \in story /\ github[i] # 0 /\ counts.posts < MaxChanges
  /\ github' = [github EXCEPT ![i] = @ + 1]
  /\ posts' = posts \union {Post(i, github[i] + 1)}
  /\ counts' = [counts EXCEPT !.posts = @ + 1]
  /\ UNCHANGED <<hub, rows, flag, chores, views, past>>

Paste ==
  /\ \E a \in Agents : views[a].secret # 0 /\ views[a].revealed /\ hub' = [hub EXCEPT !.pasted = views[a].secret] /\ hub' # hub
  /\ UNCHANGED <<github, rows, flag, posts, chores, views, past, counts>>

-----------------------------------------------------------------------------
(***************************************************************************)
(* The webhook.                                                            *)
(***************************************************************************)
Dropped(p) == posts' = posts \ {p} /\ past' = [past EXCEPT !.missed[p.issue] = TRUE]

\* A wrong signature is answered like a right one.
RejectPost(p) ==
  /\ p.step = "sent" /\ (hub.secret = 0 \/ p.key # hub.secret)
  /\ Dropped(p)
  /\ UNCHANGED <<github, hub, rows, flag, chores, views, counts>>

\* The first row of the issue, of which there may be one for each ticket.
FindLinked(p) ==
  /\ p.step = "sent" /\ hub.secret # 0 /\ p.key = hub.secret
  /\ hub' = [hub EXCEPT !.verified = TRUE]
  /\ LET of == {t \in Tix : rows[t].issue = p.issue}
     IN \/ of = {} /\ Dropped(p)
        \/ \E t \in of : /\ posts' = (posts \ {p}) \union {[p EXCEPT !.step = "found", !.row = rows[t].id]}
                         /\ past' = [past EXCEPT !.missed[p.issue] = @ \/ of # {t}]
  /\ UNCHANGED <<github, rows, flag, chores, views, counts>>

\* A mutant: a change that was announced is flagged, the link stays as it was.
SyncFlagOnly(p) ==
  LET t == CHOOSE t \in Tix : rows[t].id = p.row
  IN /\ p.step = "found" /\ \E u \in Tix : rows[u].id = p.row
     /\ UNCHANGED rows /\ flag' = [flag EXCEPT ![t] = TRUE]
     /\ past' = [past EXCEPT !.unread[t] = TRUE, !.raced[t] = FALSE, !.missed[p.issue] = @ \/ p.version < rows[t].version]
     /\ posts' = posts \ {p}
     /\ UNCHANGED <<github, hub, chores, views, counts>>

\* One transaction: the state, the line of the timeline, the flag.  What is written is
\* what the announcement says, though a later one may have come before it.
SyncIssue(p) ==
  LET t == CHOOSE t \in Tix : rows[t].id = p.row
  IN /\ p.step = "found" /\ \E u \in Tix : rows[u].id = p.row
     /\ rows' = [rows EXCEPT ![t].version = p.version] /\ flag' = [flag EXCEPT ![t] = TRUE]
     /\ past' = [past EXCEPT !.unread[t] = TRUE, !.raced[t] = FALSE, !.missed[p.issue] = @ \/ p.version < rows[t].version]
     /\ posts' = posts \ {p}
     /\ UNCHANGED <<github, hub, chores, views, counts>>

\* The row was unlinked meanwhile: nothing of the transaction is written.
SyncFails(p) ==
  /\ p.step = "found" /\ \A t \in Tix : rows[t].id # p.row
  /\ Dropped(p)
  /\ UNCHANGED <<github, hub, rows, flag, chores, views, counts>>

-----------------------------------------------------------------------------
(***************************************************************************)
(* The API.                                                                *)
(***************************************************************************)
Refusals(n) == Moves(n, "refused") /\ UNCHANGED <<github, hub, rows, flag, posts, views, past, counts>>
CannotCreate == hub.suppressed \/ ~hub.connected \/ ~hub.repo

\* GitHub has the issue before there is a row for it, and keeps it if there never is.
CreateAtGithub(n) ==
  /\ At(n, "create", "sent")
  /\ IF CannotCreate \/ \A i \in Issues : github[i] # 0 THEN Refusals(n)
     ELSE \E i \in Issues :
             /\ github[i] = 0 /\ \A j \in Issues : j < i => github[j] # 0
             /\ github' = [github EXCEPT ![i] = 1]
             /\ posts' = posts \union {[Post(i, 1) EXCEPT !.no = MaxChanges + i]}
             /\ chores' = [chores EXCEPT ![n].step = "fetched", ![n].issue = i, ![n].version = 1]
             /\ UNCHANGED <<hub, rows, flag, views, past, counts>>

\* An issue that is there is read, then linked.
FetchIssue(n) ==
  /\ At(n, "link", "sent")
  /\ IF ~hub.connected \/ github[chores[n].issue] = 0 THEN Refusals(n)
     ELSE /\ chores' = [chores EXCEPT ![n].step = "fetched", ![n].version = github[chores[n].issue]]
          /\ UNCHANGED <<github, hub, rows, flag, posts, views, past, counts>>

\* A ticket has one link; a second one fails at the database.
WriteLink(n) ==
  LET c == chores[n]
  IN /\ c.step = "fetched" /\ counts.rows < MaxRows
     /\ IF rows[c.ticket].id # 0 THEN Refusals(n)
        ELSE /\ rows' = [rows EXCEPT ![c.ticket] = LinkRow(counts.rows + 1, c.issue, c.version)]
             /\ past' = [past EXCEPT !.missed[c.issue] = @ \/ c.version < github[c.issue]]
             /\ counts' = [counts EXCEPT !.rows = @ + 1]
             /\ Moves(n, "answered")
             /\ UNCHANGED <<github, hub, flag, posts, views>>

Unlink(n) ==
  /\ At(n, "unlink", "sent")
  /\ rows' = [rows EXCEPT ![chores[n].ticket] = NoRow]
  /\ Moves(n, "answered")
  /\ UNCHANGED <<github, hub, flag, posts, views, past, counts>>

\* An agent's read clears the flag by a write nobody waits for.
ReadTicket(n) ==
  LET c == chores[n]
      t == c.ticket
  IN /\ At(n, "read", "sent")
     /\ LET answer == [c EXCEPT !.step = "answered", !.issue = rows[t].issue, !.version = rows[t].version, !.pending = flag[t]]
        IN chores' = [chores EXCEPT ![n] = answer] \o (IF flag[t] THEN <<[Chore(c.by, "clear") EXCEPT !.ticket = t, !.fresh = TRUE]>> ELSE <<>>)
     /\ past' = [past EXCEPT !.unread[t] = FALSE]
     /\ UNCHANGED <<github, hub, rows, flag, posts, views, counts>>

\* A customer reads the link without its flag, and leaves it.
CustomerReads(t) ==
  /\ "customer" \in story
  /\ UNCHANGED <<github, hub, rows, flag, posts, chores, views, past, counts>>

ClearFlag(n) ==
  LET t == chores[n].ticket
  IN /\ chores[n].op \in {"clear", "ack"} /\ chores[n].step = "sent"
     /\ flag' = [flag EXCEPT ![t] = FALSE]
     /\ past' = [past EXCEPT !.raced[t] = @ \/ past.unread[t]]
     /\ Moves(n, "answered")
     /\ UNCHANGED <<github, hub, rows, posts, views, counts>>

\* The code of a handoff is good once; the account is then found or made.
ConnectHub(n) ==
  LET a == chores[n].by
  IN /\ At(n, "connect", "sent")
     /\ IF views[a].code # "fresh" THEN Refusals(n)
        ELSE /\ hub' = [hub EXCEPT !.connected = TRUE]
             /\ Sees(a, [views[a] EXCEPT !.code = "used"])
             /\ Moves(n, "answered")
             /\ UNCHANGED <<github, rows, flag, posts, past, counts>>

Disconnect(n) ==
  /\ At(n, "disconnect", "sent")
  /\ hub' = [hub EXCEPT !.connected = FALSE, !.repo = FALSE]
  /\ Moves(n, "answered")
  /\ UNCHANGED <<github, rows, flag, posts, views, past, counts>>

SaveRepo(n) ==
  /\ At(n, "repo", "sent")
  /\ IF ~hub.connected THEN Refusals(n)
     ELSE /\ hub' = [hub EXCEPT !.repo = TRUE]
          /\ Moves(n, "answered")
          /\ UNCHANGED <<github, rows, flag, posts, views, past, counts>>

\* A new secret is stored at once; it counts as verified if the old one was.
GenerateSecret(n) ==
  /\ At(n, "secret", "sent")
  /\ hub' = [hub EXCEPT !.secret = @ + 1]
  /\ chores' = [chores EXCEPT ![n].step = "answered", ![n].secret = hub.secret + 1]
  /\ UNCHANGED <<github, rows, flag, posts, views, past, counts>>

Status(n) ==
  /\ At(n, "status", "sent")
  /\ chores' = [chores EXCEPT ![n].step = "answered", ![n].pending = hub.connected, ![n].fresh = hub.repo]
  /\ UNCHANGED <<github, hub, rows, flag, posts, views, past, counts>>

\* getWebhookConfig: whether there is a secret, never which one.
WebhookConfig(n) ==
  /\ At(n, "webhook", "sent")
  /\ chores' = [chores EXCEPT ![n].step = "answered", ![n].pending = hub.verified, ![n].fresh = hub.secret # 0]
  /\ UNCHANGED <<github, hub, rows, flag, posts, views, past, counts>>

\* Switched off, the creation of issues refuses.
Suppress ==
  /\ "suppress" \in story /\ hub' = [hub EXCEPT !.suppressed = TRUE]
  /\ UNCHANGED <<github, rows, flag, posts, chores, views, past, counts>>

-----------------------------------------------------------------------------
(***************************************************************************)
(* The pages.                                                              *)
(***************************************************************************)
Free(a) == ~views[a].busy /\ \A n \in DOMAIN chores : chores[n].by # a \/ chores[n].op = "clear"
On(a, t) == views[a].ticket = t /\ t \in Tix
Waits(a) == Sees(a, [views[a] EXCEPT !.busy = TRUE])
Rest == UNCHANGED <<github, hub, rows, flag, posts, past>>

OpenTicket(a) ==
  /\ "hub" \in story /\ Free(a)
  /\ \E t \in Tix : Asks([Chore(a, "read") EXCEPT !.ticket = t])
  /\ Rest /\ UNCHANGED views

PressCreate(a) ==
  /\ "issues" \in story /\ Free(a) /\ views[a].ticket # "none" /\ views[a].linked = 0
  /\ Asks([Chore(a, "create") EXCEPT !.ticket = views[a].ticket]) /\ Waits(a) /\ Rest

PressLink(a) ==
  /\ "issues" \in story /\ Free(a) /\ views[a].ticket # "none" /\ views[a].linked = 0
  /\ \E i \in Issues : Asks([Chore(a, "link") EXCEPT !.ticket = views[a].ticket, !.issue = i])
  /\ Waits(a) /\ Rest

PressUnlink(a) ==
  /\ "issues" \in story /\ Free(a) /\ views[a].linked # 0
  /\ Asks([Chore(a, "unlink") EXCEPT !.ticket = views[a].ticket])
  /\ Rest /\ UNCHANGED views

\* The banner goes before the call is made.
PressAcknowledge(a) ==
  /\ Free(a) /\ views[a].pending
  /\ Asks([Chore(a, "ack") EXCEPT !.ticket = views[a].ticket])
  /\ Sees(a, [views[a] EXCEPT !.pending = FALSE]) /\ Rest

Settings(a) == {"connect", "secret"} \intersect story # {} /\ Free(a)
Loads(a) == Settings(a) /\ (\E op \in {"status", "webhook"} : Asks(Chore(a, op))) /\ Rest /\ UNCHANGED views

GoToGithub(a) ==
  /\ Settings(a) /\ views[a].state = "idle" /\ ~views[a].connected
  /\ Sees(a, [views[a] EXCEPT !.code = "fresh", !.state = "handoff"])
  /\ Rest /\ UNCHANGED <<chores, counts>>

\* The effect of the page GitHub returns to.
HandoffBack(a) ==
  /\ Settings(a) /\ views[a].state = "handoff"
  /\ Asks(Chore(a, "connect"))
  /\ Sees(a, [views[a] EXCEPT !.state = "waiting"]) /\ Rest

\* 15 seconds; the call is not stopped.
HandoffTimesOut(a) ==
  /\ views[a].state = "waiting"
  /\ Sees(a, [views[a] EXCEPT !.state = "error"])
  /\ Rest /\ UNCHANGED <<chores, counts>>

LeaveError(a) ==
  /\ views[a].state = "error" /\ Sees(a, [views[a] EXCEPT !.state = "idle"])
  /\ Rest /\ UNCHANGED <<chores, counts>>

PressDisconnect(a) ==
  /\ Settings(a) /\ views[a].connected
  /\ Asks(Chore(a, "disconnect")) /\ Waits(a) /\ Rest

\* A repository is saved, and a secret made anew, by a second press in time.
Confirms(a, op) ==
  \/ /\ ~views[a].confirming
     /\ Sees(a, [views[a] EXCEPT !.confirming = TRUE]) /\ UNCHANGED <<chores, counts>>
  \/ /\ views[a].confirming /\ Asks(Chore(a, op))
     /\ Sees(a, [views[a] EXCEPT !.confirming = FALSE, !.busy = TRUE])

PressSaveRepo(a) == Settings(a) /\ views[a].connected /\ Confirms(a, "repo") /\ Rest
PressRegenerate(a) == "secret" \in story /\ Free(a) /\ views[a].known /\ Confirms(a, "secret") /\ Rest
PressGenerate(a) == Settings(a) /\ views[a].connected /\ ~views[a].known /\ Asks(Chore(a, "secret")) /\ Waits(a) /\ Rest

\* A secret shows only on the page that made it, for ten seconds or until it is hidden.
Reveal(a) ==
  /\ views[a].known /\ Sees(a, [views[a] EXCEPT !.revealed = ~@])
  /\ Rest /\ UNCHANGED <<chores, counts>>
ConfirmExpires(a) ==
  /\ views[a].confirming /\ Sees(a, [views[a] EXCEPT !.confirming = FALSE])
  /\ Rest /\ UNCHANGED <<chores, counts>>

Done(n) == chores' = RemoveAt(chores, n)
Reloads(n) == chores' = Append(RemoveAt(chores, n), Chore(chores[n].by, "status"))

Shown(v, c) ==
  CASE c.op = "read"              -> [v EXCEPT !.ticket = c.ticket, !.linked = c.issue, !.version = c.version, !.pending = c.pending]
    [] c.op \in {"create", "link"} -> [v EXCEPT !.linked = c.issue, !.version = c.version, !.busy = FALSE]
    [] c.op = "unlink"            -> [v EXCEPT !.linked = 0, !.version = 0]
    [] c.op = "status"            -> [v EXCEPT !.connected = c.pending, !.saved = c.fresh]
    [] c.op = "connect"           -> [v EXCEPT !.state = "idle"]
    [] c.op = "webhook"           -> [v EXCEPT !.verified = c.pending, !.known = c.fresh]
    [] c.op = "secret"            -> [v EXCEPT !.secret = c.secret, !.known = TRUE, !.busy = FALSE]
    [] OTHER                      -> [v EXCEPT !.busy = FALSE]

Answered(n) ==
  LET c == chores[n]
  IN /\ c.step = "answered"
     /\ Sees(c.by, IF c.op = "clear" THEN views[c.by] ELSE Shown(views[c.by], c))
     /\ IF c.op \in {"connect", "disconnect", "repo"} THEN Reloads(n) ELSE Done(n)
     /\ Rest /\ UNCHANGED counts

Refused(n) ==
  LET c == chores[n]
  IN /\ c.step = "refused"
     /\ Sees(c.by, [views[c.by] EXCEPT !.busy = FALSE, !.state = IF c.op = "connect" THEN "error" ELSE @])
     /\ Done(n)
     /\ Rest /\ UNCHANGED counts

HubNext ==
  \/ \E i \in Issues : Change(i)
  \/ Paste \/ Suppress
  \/ \E p \in posts : RejectPost(p) \/ FindLinked(p) \/ SyncIssue(p) \/ SyncFails(p)
  \/ \E t \in Tix : CustomerReads(t)
  \/ \E n \in DOMAIN chores : CreateAtGithub(n) \/ FetchIssue(n) \/ WriteLink(n) \/ Unlink(n) \/ ReadTicket(n) \/ ClearFlag(n) \/ ConnectHub(n)
                              \/ Disconnect(n) \/ SaveRepo(n) \/ GenerateSecret(n) \/ Status(n) \/ WebhookConfig(n) \/ Answered(n) \/ Refused(n)
  \/ \E a \in Agents : OpenTicket(a) \/ PressCreate(a) \/ PressLink(a) \/ PressUnlink(a) \/ PressAcknowledge(a) \/ Loads(a) \/ GoToGithub(a)
                       \/ HandoffBack(a) \/ HandoffTimesOut(a) \/ LeaveError(a) \/ PressDisconnect(a) \/ PressSaveRepo(a) \/ PressRegenerate(a)
                       \/ PressGenerate(a) \/ Reveal(a)
                       \/ ConfirmExpires(a)

-----------------------------------------------------------------------------
HubTypeOK ==
  /\ github \in [Issues -> Versions] /\ flag \in [Tix -> BOOLEAN]
  /\ rows \in [Tix -> [id : 0..MaxRows, issue : 0..MaxIssues, version : Versions]]
  /\ \A p \in posts : p.issue \in Issues /\ p.version \in Versions /\ p.step \in {"sent", "found"}
  /\ \A a \in Agents : views[a].ticket \in Tix \union {"none"} /\ views[a].version \in Versions /\ views[a].state \in {"idle", "handoff", "waiting", "error"}

\* A link that is behind its issue, with no announcement on its way, has missed one:
\* it was signed with another secret, came before the link or after a later one, or
\* went to another ticket that is linked to the issue too.
BehindHasCause ==
  \A t \in Tix : rows[t].id # 0 /\ rows[t].version # github[rows[t].issue] =>
    past.missed[rows[t].issue] \/ \E p \in posts : p.issue = rows[t].issue

\* A change stays flagged until an agent has read it; only the write of a reading, or an
\* acknowledgement, that was older than the change takes the flag away unseen.
FlagWaits == \A t \in Tix : past.unread[t] => flag[t] \/ past.raced[t]

\* The desk is behind, or has a change unflagged, for the named causes only.
IssuesHonest == BehindHasCause /\ FlagWaits
=============================================================================
