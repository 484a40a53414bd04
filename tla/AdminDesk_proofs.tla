-------------------------- MODULE AdminDesk_proofs --------------------------
(***************************************************************************)
(* Proofs about what admins do: the links to GitHub's issues, the mailbox, *)
(* the access of the agents, and the switches of the settings.             *)
(***************************************************************************)
EXTENDS AdminDesk, TLAPS, WellFoundedInduction

-----------------------------------------------------------------------------
(***************************************************************************)
(* Calls on their way are kept in sequences: one is appended, changed in   *)
(* its place, or removed.                                                  *)
(***************************************************************************)
LEMMA Joined ==
  ASSUME NEW T, NEW a \in Seq(T), NEW b \in Seq(T)
  PROVE  /\ a \o b \in Seq(T)
         /\ Len(a \o b) = Len(a) + Len(b)
         /\ \A j \in 1..Len(a) + Len(b) : (a \o b)[j] = IF j <= Len(a) THEN a[j] ELSE b[j - Len(a)]
OBVIOUS

LEMMA Appended ==
  ASSUME NEW T, NEW s \in Seq(T), NEW e \in T
  PROVE  /\ Append(s, e) \in Seq(T)
         /\ Len(Append(s, e)) = Len(s) + 1
         /\ \A j \in 1..Len(s) : Append(s, e)[j] = s[j]
         /\ Append(s, e)[Len(s) + 1] = e
OBVIOUS

LEMMA Replaced ==
  ASSUME NEW T, NEW s \in Seq(T), NEW i \in DOMAIN s, NEW e \in T
  PROVE  /\ [s EXCEPT ![i] = e] \in Seq(T)
         /\ Len([s EXCEPT ![i] = e]) = Len(s)
         /\ DOMAIN [s EXCEPT ![i] = e] = DOMAIN s
         /\ \A j \in DOMAIN s : [s EXCEPT ![i] = e][j] = IF j = i THEN e ELSE s[j]
OBVIOUS

LEMMA Removed ==
  ASSUME NEW T, NEW s \in Seq(T), NEW i \in DOMAIN s
  PROVE  /\ RemoveAt(s, i) \in Seq(T)
         /\ Len(RemoveAt(s, i)) = Len(s) - 1
         /\ \A j \in 1..Len(s) - 1 : RemoveAt(s, i)[j] = IF j < i THEN s[j] ELSE s[j + 1]
<1>i. i \in 1..Len(s)
  OBVIOUS
<1> DEFINE a == SubSeq(s, 1, i - 1)
           b == SubSeq(s, i + 1, Len(s))
<1>1. a \in Seq(T) /\ Len(a) = i - 1 /\ \A j \in 1..i - 1 : a[j] = s[j]
  BY <1>i
<1>2. b \in Seq(T) /\ Len(b) = Len(s) - i /\ \A j \in 1..Len(s) - i : b[j] = s[j + i]
  BY <1>i
<1>3. RemoveAt(s, i) = a \o b
  BY DEF RemoveAt
<1> HIDE DEF a, b
<1>4. /\ a \o b \in Seq(T)
      /\ Len(a \o b) = Len(a) + Len(b)
      /\ \A j \in 1..Len(a) + Len(b) : (a \o b)[j] = IF j <= Len(a) THEN a[j] ELSE b[j - Len(a)]
  BY <1>1, <1>2, Joined
<1>5. Len(a) + Len(b) = Len(s) - 1
  BY <1>i, <1>1, <1>2
<1>6. ASSUME NEW j \in 1..Len(s) - 1 PROVE (a \o b)[j] = IF j < i THEN s[j] ELSE s[j + 1]
  <2>1. (a \o b)[j] = IF j <= i - 1 THEN a[j] ELSE b[j - (i - 1)]
    BY <1>1, <1>4, <1>5
  <2>2. CASE j < i
    BY <2>1, <2>2, <1>i, <1>1
  <2>3. CASE ~(j < i)
    BY <2>1, <2>3, <1>i, <1>2
  <2> QED
    BY <2>2, <2>3
<1> QED
  BY <1>3, <1>4, <1>5, <1>6

LEMMA Widened ==
  ASSUME NEW S, NEW T, S \subseteq T
  PROVE  Seq(S) \subseteq Seq(T)
OBVIOUS

-----------------------------------------------------------------------------
(***************************************************************************)
(* The links to GitHub's issues.                                           *)
(***************************************************************************)
ChoreOps == {"create", "link", "unlink", "read", "clear", "ack", "connect", "disconnect", "repo", "secret", "status", "webhook"}
ChoreSteps == {"sent", "fetched", "answered", "refused"}
ChoreRow == [by : Agents, op : ChoreOps, step : ChoreSteps, ticket : Tix \union {"none"}, issue : 0..MaxIssues, version : Versions,
             pending : BOOLEAN, fresh : BOOLEAN, secret : Nat]
ViewRow == [ticket : Tix \union {"none"}, linked : 0..MaxIssues, version : Versions, pending : BOOLEAN, busy : BOOLEAN,
            connected : BOOLEAN, saved : BOOLEAN, confirming : BOOLEAN, known : BOOLEAN, verified : BOOLEAN, secret : Nat, revealed : BOOLEAN,
            code : {"none", "fresh", "used"}, state : {"idle", "handoff", "waiting", "error"}]
IssueRow == [id : 0..MaxRows, issue : 0..MaxIssues, version : Versions]
Announcement == [no : Nat, issue : Issues, version : Versions, key : Nat, step : {"sent", "found"}, row : 0..MaxRows]

\* What is written for a link was read at GitHub, where versions only grow.
Fits(c) ==
  /\ c.op \in {"create", "link", "read"} => c.ticket \in Tix
  /\ c.op = "link" => c.issue \in Issues
  /\ c.step = "fetched" => c.op \in {"create", "link"} /\ c.issue \in Issues /\ c.version <= github[c.issue]
Chores == {c \in ChoreRow : Fits(c)}

HubKinds ==
  /\ github \in [Issues -> Versions] /\ flag \in [Tix -> BOOLEAN]
  /\ hub \in [connected : BOOLEAN, repo : BOOLEAN, secret : Nat, pasted : Nat, verified : BOOLEAN, suppressed : BOOLEAN]
  /\ rows \in [Tix -> IssueRow] /\ posts \subseteq Announcement
  /\ chores \in Seq(Chores) /\ views \in [Agents -> ViewRow]
  /\ past \in [missed : [Issues -> BOOLEAN], unread : [Tix -> BOOLEAN], raced : [Tix -> BOOLEAN]]
  /\ counts \in [rows : 0..MaxRows, posts : 0..MaxChanges, asked : Nat]

VersionsCounted ==
  /\ \A i \in Issues : github[i] <= counts.posts + 1
  /\ \A p \in posts : p.version <= github[p.issue]

RowsApart ==
  /\ \A t \in Tix : IF rows[t].id = 0 THEN rows[t].issue = 0 ELSE rows[t].issue \in Issues
  /\ \A t \in Tix : rows[t].id <= counts.rows
  /\ \A t, u \in Tix : rows[t].id # 0 /\ rows[t].id = rows[u].id => t = u

FoundRows ==
  \A p \in posts : p.step = "found" => p.row # 0 /\ p.row <= counts.rows /\ \A t \in Tix : rows[t].id = p.row => rows[t].issue = p.issue

\* Of an issue of which nothing was missed, the last announcement is on its way, or has
\* reached every link; and one that found its row is all that the other links lack not.
LastOnWay(i) == \E p \in posts : p.issue = i /\ p.version = github[i]
LastArrives == \A i \in Issues : ~past.missed[i] => LastOnWay(i) \/ \A t \in Tix : rows[t].issue = i => rows[t].version = github[i]
FoundLast ==
  \A p \in posts : p.step = "found" /\ p.version = github[p.issue] /\ ~past.missed[p.issue] =>
    \A t \in Tix : rows[t].issue = p.issue /\ rows[t].id # p.row => rows[t].version = github[p.issue]

LinkInv == VersionsCounted /\ RowsApart /\ FoundRows /\ LastArrives /\ FoundLast /\ FlagWaits
HubInv == HubKinds /\ LinkInv

LEMMA HubStart == HubInit => HubInv
<1> SUFFICES ASSUME HubInit PROVE HubInv
  OBVIOUS
<1>n. Issues \subseteq Nat /\ 0 \in Versions /\ (1 \in Issues => 1 \in Versions) /\ 0 \in 0..MaxIssues /\ 0 \in 0..MaxRows /\ 0 \in 0..MaxChanges
  BY GithubAssumption DEF Issues, Versions
<1>1. github \in [Issues -> Versions] /\ flag \in [Tix -> BOOLEAN]
  BY <1>n DEF HubInit
<1>2. hub \in [connected : BOOLEAN, repo : BOOLEAN, secret : Nat, pasted : Nat, verified : BOOLEAN, suppressed : BOOLEAN]
  BY DEF HubInit, FirstSecret
<1>3. rows \in [Tix -> IssueRow] /\ posts \subseteq Announcement
  BY <1>n DEF HubInit, IssueRow, NoRow
<1>4. chores \in Seq(Chores)
  BY DEF HubInit
<1>5. views \in [Agents -> ViewRow]
  <2> DEFINE t0 == IF "peer" \in story THEN CHOOSE t \in Tix : TRUE ELSE "none"
  <2>1. t0 \in Tix \union {"none"}
    BY GithubAssumption
  <2>2. ASSUME NEW v \in Tix \union {"none"} PROVE [View EXCEPT !.ticket = v] \in ViewRow
    BY <1>n DEF View, ViewRow
  <2> QED
    BY <2>1, <2>2 DEF HubInit
<1>6. past \in [missed : [Issues -> BOOLEAN], unread : [Tix -> BOOLEAN], raced : [Tix -> BOOLEAN]]
  BY DEF HubInit
<1>7. counts \in [rows : 0..MaxRows, posts : 0..MaxChanges, asked : Nat]
  BY <1>n DEF HubInit
<1>8. VersionsCounted /\ RowsApart /\ FoundRows /\ LastArrives /\ FoundLast /\ FlagWaits
  <2>1. posts = {} /\ counts.posts = 0 /\ counts.rows = 0 /\ (\A t \in Tix : rows[t].id = 0 /\ rows[t].issue = 0 /\ ~past.unread[t])
        /\ \A i \in Issues : github[i] <= 1
    BY DEF HubInit, NoRow
  <2>2. \A i \in Issues : i # 0
    BY DEF Issues
  <2> QED
    BY <2>1, <2>2 DEF VersionsCounted, RowsApart, FoundRows, LastArrives, FoundLast, FlagWaits
<1> QED
  BY <1>1, <1>2, <1>3, <1>4, <1>5, <1>6, <1>7, <1>8 DEF HubInv, HubKinds, LinkInv

\* A step beside the links.
LEMMA BesideLinks ==
  ASSUME HubInv, UNCHANGED <<github, rows, flag, posts, past>>,
         hub' \in [connected : BOOLEAN, repo : BOOLEAN, secret : Nat, pasted : Nat, verified : BOOLEAN, suppressed : BOOLEAN],
         counts' \in [rows : 0..MaxRows, posts : 0..MaxChanges, asked : Nat], counts'.rows = counts.rows, counts'.posts = counts.posts,
         chores' \in Seq(Chores), views' \in [Agents -> ViewRow]
  PROVE  HubInv'
<1>1. HubKinds'
  BY DEF HubInv, HubKinds, Chores, Fits
<1>2. LinkInv'
  <2>1. VersionsCounted' /\ RowsApart' /\ FoundRows'
    BY DEF HubInv, LinkInv, VersionsCounted, RowsApart, FoundRows
  <2>2. LastArrives' /\ FoundLast' /\ FlagWaits'
    BY DEF HubInv, LinkInv, LastArrives, LastOnWay, FoundLast, FlagWaits
  <2> QED
    BY <2>1, <2>2 DEF LinkInv
<1> QED
  BY <1>1, <1>2 DEF HubInv

LEMMA ChoreMade ==
  ASSUME HubKinds, NEW a \in Agents, NEW op \in ChoreOps
  PROVE  /\ op \notin {"create", "link", "read"} => Chore(a, op) \in Chores
         /\ \A t \in Tix : op # "link" => [Chore(a, op) EXCEPT !.ticket = t] \in Chores
         /\ \A t \in Tix, i \in Issues : [Chore(a, op) EXCEPT !.ticket = t, !.issue = i] \in Chores
         /\ \A t \in Tix \union {"none"} : op \notin {"create", "link", "read"} => [Chore(a, op) EXCEPT !.ticket = t] \in Chores
         /\ \A t \in Tix \union {"none"}, f \in BOOLEAN : op \notin {"create", "link", "read"} => [Chore(a, op) EXCEPT !.ticket = t, !.fresh = f] \in Chores
<1>n. 0 \in Versions /\ 0 \in 0..MaxIssues /\ Issues \subseteq 0..MaxIssues
  BY GithubAssumption DEF Issues, Versions
<1>1. Chore(a, op) \in ChoreRow /\ Chore(a, op).step = "sent" /\ Chore(a, op).op = op
  BY <1>n DEF Chore, ChoreRow, ChoreSteps
<1> QED
  BY <1>1, <1>n DEF Chore, ChoreRow, ChoreSteps, Chores, Fits

LEMMA ChoreAsked ==
  ASSUME HubKinds, NEW c \in Chores, Asks(c)
  PROVE  /\ chores' \in Seq(Chores)
         /\ counts' \in [rows : 0..MaxRows, posts : 0..MaxChanges, asked : Nat] /\ counts'.rows = counts.rows /\ counts'.posts = counts.posts
<1>1. chores' \in Seq(Chores)
  BY Appended DEF HubKinds, Asks
<1>2. counts' \in [rows : 0..MaxRows, posts : 0..MaxChanges, asked : Nat] /\ counts'.rows = counts.rows /\ counts'.posts = counts.posts
  <2>1. counts \in [rows : 0..MaxRows, posts : 0..MaxChanges, asked : Nat] /\ counts' = [counts EXCEPT !.asked = @ + 1]
    BY DEF HubKinds, Asks
  <2>2. counts.asked + 1 \in Nat
    BY <2>1
  <2> HIDE DEF Asks
  <2> QED
    BY <2>1, <2>2
<1> QED
  BY <1>1, <1>2

LEMMA ChoreMoved ==
  ASSUME HubKinds, NEW n \in DOMAIN chores, NEW st \in {"answered", "refused"}, Moves(n, st)
  PROVE  chores' \in Seq(Chores)
<1>1. chores[n] \in Chores
  BY DEF HubKinds
<1>2. [chores[n] EXCEPT !.step = st] \in Chores
  BY <1>1 DEF Chores, ChoreRow, ChoreSteps, Fits
<1>3. chores' = [chores EXCEPT ![n] = [chores[n] EXCEPT !.step = st]]
  BY DEF Moves
<1> QED
  BY <1>2, <1>3, Replaced DEF HubKinds

LEMMA ViewSeen ==
  ASSUME HubKinds, NEW a \in Agents, NEW v \in ViewRow, Sees(a, v)
  PROVE  views' \in [Agents -> ViewRow]
BY DEF HubKinds, Sees

\* What the pages do.
LEMMA PagePressKeepsLinks ==
  ASSUME HubInv, NEW a \in Agents,
         OpenTicket(a) \/ PressCreate(a) \/ PressLink(a) \/ PressUnlink(a) \/ PressAcknowledge(a)
  PROVE  HubInv'
<1> HubKinds /\ views[a] \in ViewRow
  BY DEF HubInv, HubKinds
<1>h. hub \in [connected : BOOLEAN, repo : BOOLEAN, secret : Nat, pasted : Nat, verified : BOOLEAN, suppressed : BOOLEAN]
  BY DEF HubKinds
<1>o. {"read", "create", "link", "unlink", "ack"} \subseteq ChoreOps
  BY DEF ChoreOps
<1>v. views[a].ticket \in Tix \union {"none"} /\ [views[a] EXCEPT !.busy = TRUE] \in ViewRow /\ [views[a] EXCEPT !.pending = FALSE] \in ViewRow
  BY DEF ViewRow
<1>1. CASE OpenTicket(a)
  <2>1. PICK t \in Tix : Asks([Chore(a, "read") EXCEPT !.ticket = t])
    BY <1>1 DEF OpenTicket
  <2>2. [Chore(a, "read") EXCEPT !.ticket = t] \in Chores
    BY <1>o, ChoreMade
  <2>3. views' \in [Agents -> ViewRow]
    BY <1>1 DEF OpenTicket, HubKinds
  <2> QED
    BY <1>1, <1>h, <2>1, <2>2, <2>3, ChoreAsked, BesideLinks DEF OpenTicket, Rest
<1>2. CASE PressCreate(a)
  <2>1. [Chore(a, "create") EXCEPT !.ticket = views[a].ticket] \in Chores
    BY <1>o, <1>v, <1>2, ChoreMade DEF PressCreate
  <2>2. Asks([Chore(a, "create") EXCEPT !.ticket = views[a].ticket])
    BY <1>2 DEF PressCreate
  <2>3. views' \in [Agents -> ViewRow]
    BY <1>2, <1>v, ViewSeen DEF PressCreate, Waits
  <2> QED
    BY <1>2, <1>h, <2>1, <2>2, <2>3, ChoreAsked, BesideLinks DEF PressCreate, Rest
<1>3. CASE PressLink(a)
  <2>1. PICK i \in Issues : Asks([Chore(a, "link") EXCEPT !.ticket = views[a].ticket, !.issue = i])
    BY <1>3 DEF PressLink
  <2>2. [Chore(a, "link") EXCEPT !.ticket = views[a].ticket, !.issue = i] \in Chores
    BY <1>o, <1>v, <1>3, ChoreMade DEF PressLink
  <2>3. views' \in [Agents -> ViewRow]
    BY <1>3, <1>v, ViewSeen DEF PressLink, Waits
  <2> QED
    BY <1>3, <1>h, <2>1, <2>2, <2>3, ChoreAsked, BesideLinks DEF PressLink, Rest
<1>4. CASE PressUnlink(a)
  <2>1. [Chore(a, "unlink") EXCEPT !.ticket = views[a].ticket] \in Chores
    BY <1>o, <1>v, <1>4, ChoreMade
  <2>2. Asks([Chore(a, "unlink") EXCEPT !.ticket = views[a].ticket])
    BY <1>4 DEF PressUnlink
  <2>3. views' \in [Agents -> ViewRow]
    BY <1>4 DEF PressUnlink, HubKinds
  <2> QED
    BY <1>4, <1>h, <2>1, <2>2, <2>3, ChoreAsked, BesideLinks DEF PressUnlink, Rest
<1>5. CASE PressAcknowledge(a)
  <2>1. [Chore(a, "ack") EXCEPT !.ticket = views[a].ticket] \in Chores
    BY <1>o, <1>v, <1>5, ChoreMade
  <2>2. Asks([Chore(a, "ack") EXCEPT !.ticket = views[a].ticket])
    BY <1>5 DEF PressAcknowledge
  <2>3. views' \in [Agents -> ViewRow]
    BY <1>5, <1>v, ViewSeen DEF PressAcknowledge
  <2> QED
    BY <1>5, <1>h, <2>1, <2>2, <2>3, ChoreAsked, BesideLinks DEF PressAcknowledge, Rest
<1> QED
  BY <1>1, <1>2, <1>3, <1>4, <1>5

LEMMA ViewFields ==
  ASSUME NEW v \in ViewRow
  PROVE  /\ \A b \in BOOLEAN : /\ [v EXCEPT !.busy = b] \in ViewRow /\ [v EXCEPT !.confirming = b] \in ViewRow
                               /\ [v EXCEPT !.revealed = b] \in ViewRow /\ [v EXCEPT !.confirming = FALSE, !.busy = b] \in ViewRow
         /\ \A s \in {"idle", "handoff", "waiting", "error"} : /\ [v EXCEPT !.state = s] \in ViewRow
                                                                /\ [v EXCEPT !.code = "fresh", !.state = s] \in ViewRow
                                                                /\ [v EXCEPT !.busy = FALSE, !.state = s] \in ViewRow
         /\ [v EXCEPT !.code = "used"] \in ViewRow
         /\ v.state \in {"idle", "handoff", "waiting", "error"} /\ v.revealed \in BOOLEAN
BY DEF ViewRow

LEMMA ShownFits ==
  ASSUME NEW v \in ViewRow, NEW c \in ChoreRow
  PROVE  Shown(v, c) \in ViewRow
<1>n. 0 \in Versions /\ 0 \in 0..MaxIssues
  BY GithubAssumption DEF Versions
<1>1. /\ [v EXCEPT !.ticket = c.ticket, !.linked = c.issue, !.version = c.version, !.pending = c.pending] \in ViewRow
      /\ [v EXCEPT !.linked = c.issue, !.version = c.version, !.busy = FALSE] \in ViewRow
  BY DEF ViewRow, ChoreRow
<1>2. /\ [v EXCEPT !.linked = 0, !.version = 0] \in ViewRow
      /\ [v EXCEPT !.connected = c.pending, !.saved = c.fresh] \in ViewRow
      /\ [v EXCEPT !.state = "idle"] \in ViewRow
  BY <1>n DEF ViewRow, ChoreRow
<1>3. /\ [v EXCEPT !.verified = c.pending, !.known = c.fresh] \in ViewRow
      /\ [v EXCEPT !.secret = c.secret, !.known = TRUE, !.busy = FALSE] \in ViewRow
      /\ [v EXCEPT !.busy = FALSE] \in ViewRow
  BY DEF ViewRow, ChoreRow
<1> QED
  BY <1>1, <1>2, <1>3 DEF Shown

LEMMA SettingsPressKeepsLinks ==
  ASSUME HubInv, NEW a \in Agents,
         Loads(a) \/ GoToGithub(a) \/ HandoffBack(a) \/ HandoffTimesOut(a) \/ LeaveError(a) \/ PressDisconnect(a) \/ PressSaveRepo(a)
         \/ PressRegenerate(a) \/ PressGenerate(a) \/ Reveal(a) \/ ConfirmExpires(a)
  PROVE  HubInv'
<1> HubKinds /\ views[a] \in ViewRow
  BY DEF HubInv, HubKinds
<1>h. /\ hub \in [connected : BOOLEAN, repo : BOOLEAN, secret : Nat, pasted : Nat, verified : BOOLEAN, suppressed : BOOLEAN]
      /\ chores \in Seq(Chores) /\ views \in [Agents -> ViewRow]
      /\ counts \in [rows : 0..MaxRows, posts : 0..MaxChanges, asked : Nat]
  BY DEF HubKinds
<1>r. UNCHANGED <<github, hub, rows, flag, posts, past>>
  BY DEF Loads, GoToGithub, HandoffBack, HandoffTimesOut, LeaveError, PressDisconnect, PressSaveRepo, PressRegenerate, PressGenerate, Reveal, ConfirmExpires, Rest
<1>a. ASSUME NEW op \in ChoreOps \ {"create", "link", "read"}, Asks(Chore(a, op)), views' \in [Agents -> ViewRow] PROVE HubInv'
  <2>1. Chore(a, op) \in Chores
    BY ChoreMade
  <2> QED
    BY <1>a, <1>h, <1>r, <2>1, ChoreAsked, BesideLinks
<1>b. ASSUME UNCHANGED <<chores, counts>>, views' \in [Agents -> ViewRow] PROVE HubInv'
  <2>1. chores' \in Seq(Chores) /\ counts' \in [rows : 0..MaxRows, posts : 0..MaxChanges, asked : Nat]
    BY <1>b, <1>h
  <2> QED
    BY <1>b, <1>h, <1>r, <2>1, BesideLinks
<1>o. {"status", "webhook", "connect", "disconnect", "repo", "secret"} \subseteq ChoreOps \ {"create", "link", "read"}
  BY DEF ChoreOps
<1>c. ASSUME NEW op \in {"repo", "secret"}, Confirms(a, op) PROVE HubInv'
  <2>1. views' \in [Agents -> ViewRow]
    BY <1>c, ViewFields, ViewSeen DEF Confirms
  <2> QED
    BY <1>a, <1>b, <1>c, <1>o, <2>1 DEF Confirms
<1>1. CASE Loads(a)
  BY <1>1, <1>a, <1>o, <1>h DEF Loads
<1>2. CASE GoToGithub(a)
  BY <1>2, <1>b, ViewFields, ViewSeen DEF GoToGithub
<1>3. CASE HandoffBack(a)
  BY <1>3, <1>a, <1>o, ViewFields, ViewSeen DEF HandoffBack
<1>4. CASE HandoffTimesOut(a) \/ LeaveError(a)
  BY <1>4, <1>b, ViewFields, ViewSeen DEF HandoffTimesOut, LeaveError
<1>5. CASE PressDisconnect(a) \/ PressGenerate(a)
  BY <1>5, <1>a, <1>o, ViewFields, ViewSeen DEF PressDisconnect, PressGenerate, Waits
<1>6. CASE PressSaveRepo(a) \/ PressRegenerate(a)
  BY <1>6, <1>c DEF PressSaveRepo, PressRegenerate
<1>7. CASE Reveal(a) \/ ConfirmExpires(a)
  <2>0. views[a].revealed \in BOOLEAN
    BY ViewFields
  <2>1. (~views[a].revealed) \in BOOLEAN
    BY <2>0
  <2> QED
    BY <1>7, <1>b, <2>1, ViewFields, ViewSeen DEF Reveal, ConfirmExpires
<1> QED
  BY <1>1, <1>2, <1>3, <1>4, <1>5, <1>6, <1>7

HubRow == [connected : BOOLEAN, repo : BOOLEAN, secret : Nat, pasted : Nat, verified : BOOLEAN, suppressed : BOOLEAN]

LEMMA ChoreAnswers ==
  ASSUME HubKinds, NEW c \in Chores
  PROVE  /\ c \in ChoreRow /\ c.by \in Agents /\ Fits(c)
         /\ \A b, f \in BOOLEAN : [c EXCEPT !.step = "answered", !.pending = b, !.fresh = f] \in Chores
         /\ \A k \in Nat : [c EXCEPT !.step = "answered", !.secret = k] \in Chores
         /\ c.op = "link" => [c EXCEPT !.step = "fetched", !.version = github[c.issue]] \in Chores
<1>1. c \in ChoreRow /\ c.by \in Agents /\ Fits(c)
  BY DEF Chores, ChoreRow
<1>2. ASSUME NEW b \in BOOLEAN, NEW f \in BOOLEAN PROVE [c EXCEPT !.step = "answered", !.pending = b, !.fresh = f] \in Chores
  BY <1>1 DEF ChoreRow, ChoreSteps, Chores, Fits
<1>3. ASSUME NEW k \in Nat PROVE [c EXCEPT !.step = "answered", !.secret = k] \in Chores
  BY <1>1 DEF ChoreRow, ChoreSteps, Chores, Fits
<1>4. ASSUME c.op = "link" PROVE [c EXCEPT !.step = "fetched", !.version = github[c.issue]] \in Chores
  <2>1. c.issue \in Issues /\ github[c.issue] \in Versions /\ c.ticket \in Tix
    BY <1>1, <1>4 DEF Fits, HubKinds
  <2>2. github[c.issue] <= github[c.issue]
    BY <2>1 DEF Versions
  <2>3. \A v \in Versions : LET r == [c EXCEPT !.step = "fetched", !.version = v]
                             IN r \in ChoreRow /\ r.op = c.op /\ r.ticket = c.ticket /\ r.issue = c.issue /\ r.version = v
    BY <1>1 DEF ChoreRow, ChoreSteps
  <2> QED
    BY <1>4, <2>1, <2>2, <2>3 DEF Chores, Fits
<1> QED
  BY <1>1, <1>2, <1>3, <1>4

LEMMA ChoreThere ==
  ASSUME HubInv, NEW n \in DOMAIN chores
  PROVE  HubKinds /\ chores[n] \in Chores /\ chores[n] \in ChoreRow /\ chores[n].by \in Agents
<1>1. HubKinds /\ chores[n] \in Chores
  BY DEF HubInv, HubKinds
<1> QED
  BY <1>1, ChoreAnswers

LEMMA RefusalKeepsLinks ==
  ASSUME HubInv, NEW n \in DOMAIN chores, Refusals(n)
  PROVE  HubInv'
<1>1. chores' \in Seq(Chores)
  BY ChoreMoved DEF HubInv, Refusals
<1> QED
  BY <1>1, BesideLinks DEF HubInv, HubKinds, Refusals

\* What the API does beside the links.
LEMMA SettingsServedKeepsLinks ==
  ASSUME HubInv, NEW n \in DOMAIN chores,
         FetchIssue(n) \/ ConnectHub(n) \/ Disconnect(n) \/ SaveRepo(n) \/ GenerateSecret(n) \/ Status(n) \/ WebhookConfig(n)
  PROVE  HubInv'
<1> HubKinds /\ chores[n] \in Chores /\ chores[n] \in ChoreRow /\ chores[n].by \in Agents
  BY ChoreThere
<1>h. /\ hub \in HubRow /\ chores \in Seq(Chores) /\ views \in [Agents -> ViewRow]
      /\ counts \in [rows : 0..MaxRows, posts : 0..MaxChanges, asked : Nat]
  BY DEF HubKinds, HubRow
<1>k. hub.secret \in Nat /\ hub.secret + 1 \in Nat /\ hub.connected \in BOOLEAN /\ hub.repo \in BOOLEAN /\ hub.verified \in BOOLEAN
  BY <1>h DEF HubRow
<1>s. ASSUME UNCHANGED <<github, rows, flag, posts, past, counts>>, hub' \in HubRow, chores' \in Seq(Chores), views' \in [Agents -> ViewRow]
      PROVE HubInv'
  BY <1>s, <1>h, BesideLinks DEF HubRow
<1>e. ASSUME NEW e \in Chores PROVE [chores EXCEPT ![n] = e] \in Seq(Chores)
  BY <1>e, <1>h, Replaced
<1>1. CASE FetchIssue(n)
  <2>1. CASE Refusals(n)
    BY <2>1, RefusalKeepsLinks
  <2>2. CASE /\ chores' = [chores EXCEPT ![n].step = "fetched", ![n].version = github[chores[n].issue]]
             /\ UNCHANGED <<github, hub, rows, flag, posts, views, past, counts>>
    <3>1. [chores[n] EXCEPT !.step = "fetched", !.version = github[chores[n].issue]] \in Chores
      BY <1>1, ChoreAnswers DEF FetchIssue, At
    <3>2. chores' = [chores EXCEPT ![n] = [chores[n] EXCEPT !.step = "fetched", !.version = github[chores[n].issue]]]
      BY <2>2
    <3> QED
      BY <1>e, <1>h, <1>s, <2>2, <3>1, <3>2
  <2> QED
    BY <1>1, <2>1, <2>2 DEF FetchIssue
<1>2. CASE ConnectHub(n)
  <2>1. CASE Refusals(n)
    BY <2>1, RefusalKeepsLinks
  <2>2. CASE /\ hub' = [hub EXCEPT !.connected = TRUE]
             /\ Sees(chores[n].by, [views[chores[n].by] EXCEPT !.code = "used"])
             /\ Moves(n, "answered")
             /\ UNCHANGED <<github, rows, flag, posts, past, counts>>
    <3>1. hub' \in HubRow
      BY <1>h, <2>2 DEF HubRow
    <3>2. views' \in [Agents -> ViewRow]
      BY <1>h, <2>2, ViewFields, ViewSeen
    <3> QED
      BY <1>s, <2>2, <3>1, <3>2, ChoreMoved
  <2> QED
    BY <1>2, <2>1, <2>2 DEF ConnectHub
<1>3. CASE Disconnect(n)
  <2>1. hub' \in HubRow
    BY <1>h, <1>3 DEF HubRow, Disconnect
  <2> QED
    BY <1>s, <1>h, <1>3, <2>1, ChoreMoved DEF Disconnect
<1>4. CASE SaveRepo(n)
  <2>1. CASE Refusals(n)
    BY <2>1, RefusalKeepsLinks
  <2>2. CASE /\ hub' = [hub EXCEPT !.repo = TRUE] /\ Moves(n, "answered")
             /\ UNCHANGED <<github, rows, flag, posts, views, past, counts>>
    <3>1. hub' \in HubRow
      BY <1>h, <2>2 DEF HubRow
    <3> QED
      BY <1>s, <1>h, <2>2, <3>1, ChoreMoved
  <2> QED
    BY <1>4, <2>1, <2>2 DEF SaveRepo
<1>5. CASE GenerateSecret(n)
  <2>1. hub' \in HubRow
    BY <1>h, <1>k, <1>5 DEF HubRow, GenerateSecret
  <2>2. [chores[n] EXCEPT !.step = "answered", !.secret = hub.secret + 1] \in Chores
    BY <1>k, ChoreAnswers
  <2>3. chores' = [chores EXCEPT ![n] = [chores[n] EXCEPT !.step = "answered", !.secret = hub.secret + 1]]
    BY <1>5 DEF GenerateSecret
  <2> QED
    BY <1>e, <1>h, <1>s, <1>5, <2>1, <2>2, <2>3 DEF GenerateSecret
<1>6. CASE Status(n) \/ WebhookConfig(n)
  <2>0. (hub.secret # 0) \in BOOLEAN
    OBVIOUS
  <2>1. PICK b \in BOOLEAN, f \in BOOLEAN : chores' = [chores EXCEPT ![n].step = "answered", ![n].pending = b, ![n].fresh = f]
    BY <1>k, <1>6, <2>0 DEF Status, WebhookConfig
  <2>2. chores' = [chores EXCEPT ![n] = [chores[n] EXCEPT !.step = "answered", !.pending = b, !.fresh = f]]
    BY <2>1
  <2>3. [chores[n] EXCEPT !.step = "answered", !.pending = b, !.fresh = f] \in Chores
    BY ChoreAnswers
  <2> QED
    BY <1>e, <1>h, <1>s, <1>6, <2>2, <2>3 DEF Status, WebhookConfig
<1> QED
  BY <1>1, <1>2, <1>3, <1>4, <1>5, <1>6

LEMMA AnswersKeepLinks ==
  ASSUME HubInv, NEW n \in DOMAIN chores, Answered(n) \/ Refused(n)
  PROVE  HubInv'
<1> HubKinds /\ chores[n] \in Chores /\ chores[n] \in ChoreRow /\ chores[n].by \in Agents
  BY ChoreThere
<1>h. /\ hub \in HubRow /\ chores \in Seq(Chores) /\ views \in [Agents -> ViewRow] /\ views[chores[n].by] \in ViewRow
      /\ counts \in [rows : 0..MaxRows, posts : 0..MaxChanges, asked : Nat]
  BY DEF HubKinds, HubRow
<1>s. ASSUME UNCHANGED <<github, hub, rows, flag, posts, past, counts>>, chores' \in Seq(Chores), views' \in [Agents -> ViewRow]
      PROVE HubInv'
  BY <1>s, <1>h, BesideLinks DEF HubRow
<1>d. RemoveAt(chores, n) \in Seq(Chores)
  BY <1>h, Removed
<1>1. CASE Answered(n)
  <2>1. Chore(chores[n].by, "status") \in Chores
    BY ChoreMade DEF ChoreOps
  <2>2. Append(RemoveAt(chores, n), Chore(chores[n].by, "status")) \in Seq(Chores)
    BY <1>d, <2>1, Appended
  <2>3. chores' \in Seq(Chores)
    BY <1>1, <1>d, <2>2 DEF Answered, Reloads, Done
  <2>4. views' \in [Agents -> ViewRow]
    BY <1>1, <1>h, ShownFits, ViewSeen DEF Answered
  <2> QED
    BY <1>1, <1>s, <2>3, <2>4 DEF Answered, Rest
<1>2. CASE Refused(n)
  <2>1. chores' \in Seq(Chores)
    BY <1>2, <1>d DEF Refused, Done
  <2>2. views' \in [Agents -> ViewRow]
    <3>1. \A s : [views[chores[n].by] EXCEPT !.busy = FALSE, !.state = IF chores[n].op = "connect" THEN "error" ELSE @] = 
                 [views[chores[n].by] EXCEPT !.busy = FALSE, !.state = IF chores[n].op = "connect" THEN "error" ELSE views[chores[n].by].state]
      OBVIOUS
    <3>2. (IF chores[n].op = "connect" THEN "error" ELSE views[chores[n].by].state) \in {"idle", "handoff", "waiting", "error"}
      BY <1>h, ViewFields
    <3>3. [views[chores[n].by] EXCEPT !.busy = FALSE, !.state = IF chores[n].op = "connect" THEN "error" ELSE views[chores[n].by].state] \in ViewRow
      BY <1>h, <3>2, ViewFields
    <3> QED
      BY <1>2, <1>h, <3>1, <3>3, ViewSeen DEF Refused
  <2> QED
    BY <1>2, <1>s, <2>1, <2>2 DEF Refused, Rest
<1> QED
  BY <1>1, <1>2

LEMMA OutsideKeepsLinks ==
  ASSUME HubInv, Paste \/ Suppress \/ \E t \in Tix : CustomerReads(t)
  PROVE  HubInv'
<1>h. /\ hub \in HubRow /\ chores \in Seq(Chores) /\ views \in [Agents -> ViewRow]
      /\ counts \in [rows : 0..MaxRows, posts : 0..MaxChanges, asked : Nat]
  BY DEF HubInv, HubKinds, HubRow
<1>1. hub' \in HubRow
  <2>1. CASE Paste
    <3>1. PICK a \in Agents : hub' = [hub EXCEPT !.pasted = views[a].secret]
      BY <2>1 DEF Paste
    <3>2. views[a].secret \in Nat
      BY <1>h DEF ViewRow
    <3> QED
      BY <1>h, <3>1, <3>2 DEF HubRow
  <2>2. CASE Suppress \/ \E t \in Tix : CustomerReads(t)
    BY <2>2, <1>h DEF Suppress, CustomerReads, HubRow
  <2> QED
    BY <2>1, <2>2
<1>2. UNCHANGED <<github, rows, flag, posts, chores, views, past, counts>>
  BY DEF Paste, Suppress, CustomerReads
<1> QED
  BY <1>h, <1>1, <1>2, BesideLinks DEF HubRow

\* What an announcement, a link and a history are, and what the steps make of them.
PastRow == [missed : [Issues -> BOOLEAN], unread : [Tix -> BOOLEAN], raced : [Tix -> BOOLEAN]]
CountRow == [rows : 0..MaxRows, posts : 0..MaxChanges, asked : Nat]

LEMMA HubThere ==
  ASSUME HubInv
  PROVE  /\ github \in [Issues -> Versions] /\ flag \in [Tix -> BOOLEAN] /\ hub \in HubRow
         /\ rows \in [Tix -> IssueRow] /\ posts \subseteq Announcement
         /\ chores \in Seq(Chores) /\ views \in [Agents -> ViewRow]
         /\ past \in PastRow /\ counts \in CountRow
BY DEF HubInv, HubKinds, HubRow, PastRow, CountRow

LEMMA HubKept ==
  ASSUME github' \in [Issues -> Versions], flag' \in [Tix -> BOOLEAN], hub' \in HubRow,
         rows' \in [Tix -> IssueRow], posts' \subseteq Announcement,
         chores' \in Seq(Chores'), views' \in [Agents -> ViewRow],
         past' \in PastRow, counts' \in CountRow, LinkInv'
  PROVE  HubInv'
BY DEF HubInv, HubKinds, HubRow, PastRow, CountRow

LEMMA NumbersAre ==
  /\ Versions \subseteq Nat /\ Issues \subseteq Nat /\ Issues \subseteq 0..MaxIssues
  /\ \A i \in Issues : i # 0 /\ i \in Nat
  /\ 0 \in Versions /\ 1 \in Versions /\ 0 \in 0..MaxIssues /\ 0 \in 0..MaxRows
  /\ MaxRows \in Nat /\ MaxChanges \in Nat /\ MaxIssues \in Nat
  /\ \A v : v \in Versions <=> v \in Nat /\ v <= MaxChanges + 1
BY GithubAssumption DEF Versions, Issues

LEMMA AnnouncementIs ==
  ASSUME NEW p \in Announcement
  PROVE  /\ p.issue \in Issues /\ p.version \in Versions /\ p.step \in {"sent", "found"} /\ p.row \in 0..MaxRows /\ p.row \in Nat
         /\ \A r \in 0..MaxRows : LET q == [p EXCEPT !.step = "found", !.row = r]
                                  IN q \in Announcement /\ q.issue = p.issue /\ q.version = p.version /\ q.step = "found" /\ q.row = r
<1>1. \A r \in 0..MaxRows : r \in Nat
  BY GithubAssumption
<1>2. p.issue \in Issues /\ p.version \in Versions /\ p.step \in {"sent", "found"} /\ p.row \in 0..MaxRows
  BY DEF Announcement
<1>3. ASSUME NEW r \in 0..MaxRows
      PROVE  LET q == [p EXCEPT !.step = "found", !.row = r]
             IN q \in Announcement /\ q.issue = p.issue /\ q.version = p.version /\ q.step = "found" /\ q.row = r
  BY DEF Announcement
<1> QED
  BY <1>1, <1>2, <1>3

LEMMA PostIs ==
  ASSUME HubInv, NEW i \in Issues, NEW v \in Versions
  PROVE  /\ Post(i, v) \in Announcement /\ Post(i, v).issue = i /\ Post(i, v).version = v /\ Post(i, v).step = "sent"
         /\ \A n \in Nat : LET q == [Post(i, v) EXCEPT !.no = n]
                           IN q \in Announcement /\ q.issue = i /\ q.version = v /\ q.step = "sent"
<1>1. counts.posts + 1 \in Nat /\ hub.pasted \in Nat
  BY HubThere DEF CountRow, HubRow
<1>2. Post(i, v) \in Announcement /\ Post(i, v).issue = i /\ Post(i, v).version = v /\ Post(i, v).step = "sent"
  BY <1>1, NumbersAre DEF Post, Announcement
<1>3. \A n \in Nat : LET q == [Post(i, v) EXCEPT !.no = n]
                     IN q \in Announcement /\ q.issue = i /\ q.version = v /\ q.step = "sent"
  BY <1>2 DEF Announcement
<1> QED
  BY <1>2, <1>3

LEMMA RowIs ==
  ASSUME NEW r \in IssueRow
  PROVE  /\ r.id \in 0..MaxRows /\ r.issue \in 0..MaxIssues /\ r.version \in Versions
         /\ \A v \in Versions : LET q == [r EXCEPT !.version = v] IN q \in IssueRow /\ q.id = r.id /\ q.issue = r.issue /\ q.version = v
BY DEF IssueRow

LEMMA PastIs ==
  ASSUME NEW h \in PastRow
  PROVE  /\ h.missed \in [Issues -> BOOLEAN] /\ h.unread \in [Tix -> BOOLEAN] /\ h.raced \in [Tix -> BOOLEAN]
BY DEF PastRow

\* Versions only grow, so what was read stays readable.
LEMMA ChoresGrow ==
  ASSUME HubInv, github' \in [Issues -> Versions], \A i \in Issues : github[i] <= github'[i]
  PROVE  Chores \subseteq Chores' /\ Seq(Chores) \subseteq Seq(Chores')
<1>1. ASSUME NEW c \in Chores PROVE c \in Chores'
  <2>1. c \in ChoreRow /\ Fits(c) /\ c.version \in Versions
    BY DEF Chores, ChoreRow
  <2>2. ASSUME c.step = "fetched" PROVE c.version <= github'[c.issue]
    <3>1. c.issue \in Issues /\ c.version <= github[c.issue]
      BY <2>1, <2>2 DEF Fits
    <3>2. github[c.issue] \in Versions /\ github'[c.issue] \in Versions /\ github[c.issue] <= github'[c.issue]
      BY <3>1, HubThere
    <3> QED
      BY <2>1, <3>1, <3>2, NumbersAre
  <2> QED
    BY <2>1, <2>2 DEF Chores, Fits
<1> QED
  BY <1>1, Widened

LEMMA ChangeKeepsLinks ==
  ASSUME HubInv, NEW i \in Issues, Change(i)
  PROVE  HubInv'
<1> DEFINE q == Post(i, github[i] + 1)
<1>h. /\ github \in [Issues -> Versions] /\ flag \in [Tix -> BOOLEAN] /\ hub \in HubRow
      /\ rows \in [Tix -> IssueRow] /\ posts \subseteq Announcement
      /\ chores \in Seq(Chores) /\ views \in [Agents -> ViewRow]
      /\ past \in PastRow /\ counts \in CountRow
  BY HubThere
<1>l. VersionsCounted /\ RowsApart /\ FoundRows /\ LastArrives /\ FoundLast /\ FlagWaits
  BY DEF HubInv, LinkInv
<1>c. /\ counts.posts \in Nat /\ counts.posts < MaxChanges
      /\ counts' \in CountRow /\ counts'.rows = counts.rows /\ counts'.posts = counts.posts + 1
  <2>1. counts.posts < MaxChanges /\ counts' = [counts EXCEPT !.posts = @ + 1]
    BY DEF Change
  <2>2. counts.posts \in Nat /\ counts.posts + 1 \in 0..MaxChanges
    BY <1>h, <2>1, NumbersAre DEF CountRow
  <2> QED
    BY <1>h, <2>1, <2>2 DEF CountRow
<1>g. /\ github[i] \in Nat /\ github[i] + 1 \in Versions /\ github' = [github EXCEPT ![i] = github[i] + 1]
      /\ github[i] <= counts.posts + 1
  <2>1. github[i] <= counts.posts + 1 /\ github[i] \in Versions
    BY <1>h, <1>l DEF VersionsCounted
  <2>2. github[i] \in Nat /\ MaxChanges \in Nat
    BY <2>1, NumbersAre
  <2>3. github[i] + 1 \in Nat /\ github[i] + 1 <= MaxChanges + 1
    BY <2>1, <2>2, <1>c
  <2>4. github' = [github EXCEPT ![i] = github[i] + 1]
    BY DEF Change
  <2> QED
    BY <2>1, <2>2, <2>3, <2>4, NumbersAre
<1>g2. github' \in [Issues -> Versions] /\ github'[i] = github[i] + 1 /\ \A j \in Issues : j # i => github'[j] = github[j]
  BY <1>h, <1>g
<1>g3. \A j \in Issues : github[j] \in Nat /\ github'[j] \in Nat /\ github[j] <= github'[j]
  BY <1>h, <1>g, <1>g2, NumbersAre
<1>q. q \in Announcement /\ q.issue = i /\ q.version = github[i] + 1 /\ q.step = "sent"
  BY <1>g, PostIs
<1> HIDE DEF q
<1>p. posts' = posts \union {q}
  BY DEF Change, q
<1>u. UNCHANGED <<hub, rows, flag, chores, views, past>>
  BY DEF Change
<1>1. VersionsCounted'
  <2>1. \A j \in Issues : github'[j] <= counts'.posts + 1
    BY <1>h, <1>l, <1>c, <1>g, <1>g2, <1>g3 DEF VersionsCounted
  <2>2. ASSUME NEW p \in posts' PROVE p.version <= github'[p.issue]
    <3>1. CASE p = q
      BY <3>1, <1>q, <1>g2, <1>g
    <3>2. CASE p \in posts
      <4>1. p.issue \in Issues /\ p.version \in Nat /\ p.version <= github[p.issue]
        BY <3>2, <1>h, <1>l, AnnouncementIs, NumbersAre DEF VersionsCounted
      <4> QED
        BY <4>1, <1>g3
    <3> QED
      BY <3>1, <3>2, <1>p
  <2> QED
    BY <2>1, <2>2 DEF VersionsCounted
<1>2. RowsApart' /\ FlagWaits'
  BY <1>l, <1>u, <1>c DEF RowsApart, FlagWaits
<1>3. FoundRows'
  BY <1>l, <1>u, <1>c, <1>p, <1>q DEF FoundRows
<1>4. LastArrives'
  <2> SUFFICES ASSUME NEW j \in Issues, ~past.missed[j]
               PROVE  LastOnWay(j)' \/ \A t \in Tix : rows[t].issue = j => rows[t].version = github'[j]
    BY <1>u DEF LastArrives
  <2>1. CASE j = i
    BY <2>1, <1>p, <1>q, <1>g2 DEF LastOnWay
  <2>2. CASE j # i
    BY <2>2, <1>l, <1>p, <1>g2 DEF LastArrives, LastOnWay
  <2> QED
    BY <2>1, <2>2
<1>5. FoundLast'
  <2> SUFFICES ASSUME NEW p \in posts', p.step = "found", p.version = github'[p.issue], ~past.missed[p.issue],
                      NEW t \in Tix, rows[t].issue = p.issue, rows[t].id # p.row
               PROVE  rows[t].version = github'[p.issue]
    BY <1>u DEF FoundLast
  <2>1. p \in posts /\ p.issue \in Issues /\ p.version \in Nat /\ p.version <= github[p.issue]
    BY <1>p, <1>q, <1>h, <1>l, AnnouncementIs, NumbersAre DEF VersionsCounted
  <2>2. p.issue # i
    BY <2>1, <1>g, <1>g2
  <2> QED
    BY <2>1, <2>2, <1>g2, <1>l DEF FoundLast
<1> QED
  BY <1>1, <1>2, <1>3, <1>4, <1>5, <1>h, <1>c, <1>g2, <1>g3, <1>q, <1>p, <1>u, ChoresGrow, HubKept DEF LinkInv

LEMMA DropKeepsLinks ==
  ASSUME HubInv, NEW p \in posts, Dropped(p), hub' \in HubRow, UNCHANGED <<github, rows, flag, chores, views, counts>>
  PROVE  HubInv'
<1>h. /\ github \in [Issues -> Versions] /\ flag \in [Tix -> BOOLEAN] /\ hub \in HubRow
      /\ rows \in [Tix -> IssueRow] /\ posts \subseteq Announcement
      /\ chores \in Seq(Chores) /\ views \in [Agents -> ViewRow]
      /\ past \in PastRow /\ counts \in CountRow
  BY HubThere
<1>l. VersionsCounted /\ RowsApart /\ FoundRows /\ LastArrives /\ FoundLast /\ FlagWaits
  BY DEF HubInv, LinkInv
<1>i. p.issue \in Issues
  BY <1>h, AnnouncementIs
<1>m. past' \in PastRow /\ past'.missed = [past.missed EXCEPT ![p.issue] = TRUE] /\ past'.unread = past.unread /\ past'.raced = past.raced
  BY <1>h, <1>i DEF Dropped, PastRow
<1>n. \A j \in Issues : ~past'.missed[j] => ~past.missed[j] /\ j # p.issue
  BY <1>h, <1>i, <1>m, PastIs
<1>p. posts' = posts \ {p}
  BY DEF Dropped
<1>1. VersionsCounted' /\ RowsApart' /\ FoundRows' /\ FlagWaits'
  BY <1>l, <1>p, <1>m DEF VersionsCounted, RowsApart, FoundRows, FlagWaits
<1>2. LastArrives'
  <2> SUFFICES ASSUME NEW j \in Issues, ~past'.missed[j]
               PROVE  LastOnWay(j)' \/ \A t \in Tix : rows[t].issue = j => rows[t].version = github[j]
    BY DEF LastArrives
  <2>1. ~past.missed[j] /\ j # p.issue
    BY <1>n
  <2> QED
    BY <2>1, <1>l, <1>p DEF LastArrives, LastOnWay
<1>3. FoundLast'
  <2>1. \A q \in posts' : q \in posts /\ q.issue \in Issues
    BY <1>p, <1>h, AnnouncementIs
  <2> QED
    BY <2>1, <1>n, <1>l DEF FoundLast
<1>4. chores' \in Seq(Chores')
  BY <1>h DEF Chores, Fits
<1> QED
  BY <1>1, <1>2, <1>3, <1>4, <1>h, <1>m, <1>p, HubKept DEF LinkInv

LEMMA FindKeepsLinks ==
  ASSUME HubInv, NEW p \in posts, FindLinked(p)
  PROVE  HubInv'
<1>h. /\ github \in [Issues -> Versions] /\ flag \in [Tix -> BOOLEAN] /\ hub \in HubRow
      /\ rows \in [Tix -> IssueRow] /\ posts \subseteq Announcement
      /\ chores \in Seq(Chores) /\ views \in [Agents -> ViewRow]
      /\ past \in PastRow /\ counts \in CountRow
  BY HubThere
<1>l. VersionsCounted /\ RowsApart /\ FoundRows /\ LastArrives /\ FoundLast /\ FlagWaits
  BY DEF HubInv, LinkInv
<1>u. hub' \in HubRow /\ UNCHANGED <<github, rows, flag, chores, views, counts>>
  BY <1>h DEF FindLinked, HubRow
<1> DEFINE of == {t \in Tix : rows[t].issue = p.issue}
<1>1. CASE of = {} /\ Dropped(p)
  BY <1>1, <1>u, DropKeepsLinks
<1>2. ASSUME NEW t \in of,
             posts' = (posts \ {p}) \union {[p EXCEPT !.step = "found", !.row = rows[t].id]},
             past' = [past EXCEPT !.missed[p.issue] = @ \/ of # {t}]
      PROVE  HubInv'
  <2> DEFINE q == [p EXCEPT !.step = "found", !.row = rows[t].id]
  <2>i. p \in Announcement /\ p.issue \in Issues /\ p.version \in Versions /\ t \in Tix /\ rows[t].issue = p.issue /\ rows[t].id \in 0..MaxRows
    BY <1>h, AnnouncementIs, RowIs
  <2>q. q \in Announcement /\ q.issue = p.issue /\ q.version = p.version /\ q.step = "found" /\ q.row = rows[t].id
    BY <2>i, AnnouncementIs
  <2>r. rows[t].id # 0 /\ rows[t].id <= counts.rows /\ \A u \in Tix : rows[u].id = rows[t].id => u = t
    BY <2>i, <1>l, NumbersAre DEF RowsApart
  <2>p. posts' = (posts \ {p}) \union {q}
    BY <1>2
  <2> HIDE DEF q
  <2> DEFINE b == past.missed[p.issue] \/ of # {t}
  <2>c. past' = [past EXCEPT !.missed[p.issue] = b]
    BY <1>2
  <2>m. past' \in PastRow /\ past'.missed = [past.missed EXCEPT ![p.issue] = (past.missed[p.issue] \/ of # {t})]
        /\ past'.unread = past.unread /\ past'.raced = past.raced
    <3>1. b \in BOOLEAN
      OBVIOUS
    <3> HIDE DEF b
    <3>2. past' \in PastRow /\ past'.missed = [past.missed EXCEPT ![p.issue] = b] /\ past'.unread = past.unread /\ past'.raced = past.raced
      BY <1>h, <2>c, <2>i, <3>1 DEF PastRow
    <3> QED
      BY <3>2 DEF b
  <2>n. \A j \in Issues : ~past'.missed[j] => ~past.missed[j] /\ (j = p.issue => of = {t})
    BY <1>h, <2>i, <2>m, PastIs
  <2>1. VersionsCounted' /\ RowsApart' /\ FlagWaits'
    BY <1>l, <1>u, <2>p, <2>q, <2>m DEF VersionsCounted, RowsApart, FlagWaits
  <2>2. FoundRows'
    BY <1>l, <1>u, <2>p, <2>q, <2>r, <2>i DEF FoundRows
  <2>3. LastArrives'
    <3> SUFFICES ASSUME NEW j \in Issues, ~past'.missed[j]
                 PROVE  LastOnWay(j)' \/ \A u \in Tix : rows[u].issue = j => rows[u].version = github[j]
      BY <1>u DEF LastArrives
    <3>1. LastOnWay(j) => LastOnWay(j)'
      BY <1>u, <2>p, <2>q DEF LastOnWay
    <3> QED
      BY <3>1, <2>n, <1>l DEF LastArrives
  <2>4. FoundLast'
    <3> SUFFICES ASSUME NEW o \in posts', o.step = "found", o.version = github[o.issue], ~past'.missed[o.issue],
                        NEW u \in Tix, rows[u].issue = o.issue, rows[u].id # o.row
                 PROVE  rows[u].version = github[o.issue]
      BY <1>u DEF FoundLast
    <3>1. CASE o \in posts
      <4>1. ~past.missed[o.issue]
        BY <3>1, <2>n, <1>h, AnnouncementIs
      <4> QED
        BY <3>1, <4>1, <1>l DEF FoundLast
    <3>2. CASE o = q
      <4>1. of = {t} /\ u \in of
        BY <3>2, <2>i, <2>q, <2>n
      <4> QED
        BY <4>1, <3>2, <2>q
    <3> QED
      BY <3>1, <3>2, <2>p
  <2>5. chores' \in Seq(Chores')
    BY <1>h, <1>u DEF Chores, Fits
  <2> QED
    BY <2>1, <2>2, <2>3, <2>4, <2>5, <1>h, <1>u, <2>m, <2>p, <2>q, HubKept DEF LinkInv
<1> QED
  BY <1>1, <1>2 DEF FindLinked

LEMMA SyncKeepsLinks ==
  ASSUME HubInv, NEW p \in posts, SyncIssue(p)
  PROVE  HubInv'
<1>h. /\ github \in [Issues -> Versions] /\ flag \in [Tix -> BOOLEAN] /\ hub \in HubRow
      /\ rows \in [Tix -> IssueRow] /\ posts \subseteq Announcement
      /\ chores \in Seq(Chores) /\ views \in [Agents -> ViewRow]
      /\ past \in PastRow /\ counts \in CountRow
  BY HubThere
<1>l. VersionsCounted /\ RowsApart /\ FoundRows /\ LastArrives /\ FoundLast /\ FlagWaits
  BY DEF HubInv, LinkInv
<1>u. UNCHANGED <<github, hub, chores, views, counts>> /\ posts' = posts \ {p}
  BY DEF SyncIssue
<1> DEFINE t == CHOOSE t \in Tix : rows[t].id = p.row
<1>t. t \in Tix /\ rows[t].id = p.row
  BY DEF SyncIssue
<1>s. /\ p.step = "found" /\ rows' = [rows EXCEPT ![t].version = p.version] /\ flag' = [flag EXCEPT ![t] = TRUE]
      /\ past' = [past EXCEPT !.unread[t] = TRUE, !.raced[t] = FALSE, !.missed[p.issue] = @ \/ p.version < rows[t].version]
  BY DEF SyncIssue
<1> HIDE DEF t
<1>i. /\ p.issue \in Issues /\ p.version \in Versions /\ p.version \in Nat /\ p.row # 0 /\ rows[t].issue = p.issue
      /\ github[p.issue] \in Nat /\ p.version <= github[p.issue] /\ rows[t] \in IssueRow /\ rows[t].version \in Nat
  BY <1>h, <1>l, <1>s, <1>t, AnnouncementIs, RowIs, NumbersAre DEF FoundRows, VersionsCounted
<1>r. /\ rows' \in [Tix -> IssueRow]
      /\ \A u \in Tix : rows'[u].id = rows[u].id /\ rows'[u].issue = rows[u].issue
      /\ rows'[t].version = p.version /\ \A u \in Tix : u # t => rows'[u] = rows[u]
  <2>1. rows' = [rows EXCEPT ![t] = [rows[t] EXCEPT !.version = p.version]]
    BY <1>s
  <2> QED
    BY <2>1, <1>h, <1>t, <1>i, RowIs
<1>m. /\ past' \in PastRow
      /\ past'.unread = [past.unread EXCEPT ![t] = TRUE] /\ past'.raced = [past.raced EXCEPT ![t] = FALSE]
      /\ past'.missed = [past.missed EXCEPT ![p.issue] = (past.missed[p.issue] \/ p.version < rows[t].version)]
  <2> DEFINE g == [past EXCEPT !.unread[t] = TRUE]
             k == [g EXCEPT !.raced[t] = FALSE]
             b == past.missed[p.issue] \/ p.version < rows[t].version
  <2>1. g \in PastRow /\ g.missed = past.missed /\ g.unread = [past.unread EXCEPT ![t] = TRUE] /\ g.raced = past.raced
    BY <1>h, <1>t DEF PastRow
  <2>2. past' = [k EXCEPT !.missed[p.issue] = @ \/ p.version < rows[t].version]
    BY <1>s
  <2> HIDE DEF g
  <2>3. k \in PastRow /\ k.missed = past.missed /\ k.unread = [past.unread EXCEPT ![t] = TRUE] /\ k.raced = [past.raced EXCEPT ![t] = FALSE]
    BY <2>1, <1>t DEF PastRow
  <2> HIDE DEF k
  <2>4. b \in BOOLEAN
    OBVIOUS
  <2>5. past' = [k EXCEPT !.missed[p.issue] = b]
    BY <2>2, <2>3
  <2>6. b = (past.missed[p.issue] \/ p.version < rows[t].version)
    OBVIOUS
  <2> HIDE DEF b
  <2>7. past' \in PastRow /\ past'.missed = [k.missed EXCEPT ![p.issue] = b] /\ past'.unread = k.unread /\ past'.raced = k.raced
    BY <2>3, <2>4, <2>5, <1>i DEF PastRow
  <2> QED
    BY <2>3, <2>6, <2>7
<1>n. \A j \in Issues : ~past'.missed[j] => ~past.missed[j] /\ (j = p.issue => rows[t].version <= p.version)
  BY <1>h, <1>i, <1>m, PastIs
<1>f. flag' \in [Tix -> BOOLEAN]
  BY <1>h, <1>s
<1>1. VersionsCounted' /\ RowsApart'
  BY <1>l, <1>u, <1>r DEF VersionsCounted, RowsApart
<1>2. FoundRows'
  BY <1>l, <1>u, <1>r DEF FoundRows
<1>3. LastArrives'
  <2> SUFFICES ASSUME NEW j \in Issues, ~past'.missed[j], ~LastOnWay(j)', NEW u \in Tix, rows'[u].issue = j
               PROVE  rows'[u].version = github[j]
    BY <1>u DEF LastArrives
  <2>1. ~past.missed[j] /\ rows[u].issue = j
    BY <1>n, <1>r
  <2>2. CASE LastOnWay(j)
    <3>1. p.issue = j /\ p.version = github[j]
      BY <2>2, <1>u DEF LastOnWay
    <3>2. CASE u = t
      BY <3>1, <3>2, <1>r
    <3>3. CASE u # t
      <4>1. rows[u].id # p.row
        BY <3>3, <1>t, <1>i, <1>l DEF RowsApart
      <4> QED
        BY <3>1, <3>3, <4>1, <2>1, <1>r, <1>s, <1>l DEF FoundLast
    <3> QED
      BY <3>2, <3>3
  <2>3. CASE ~LastOnWay(j)
    <3>1. rows[u].version = github[j]
      BY <2>1, <2>3, <1>l DEF LastArrives
    <3>2. CASE u = t
      <4>1. j = p.issue /\ rows[t].version <= p.version
        BY <3>2, <2>1, <1>i, <1>n
      <4> QED
        BY <3>1, <3>2, <4>1, <1>i, <1>r
    <3> QED
      BY <3>1, <3>2, <1>r
  <2> QED
    BY <2>2, <2>3
<1>4. FoundLast'
  <2> SUFFICES ASSUME NEW o \in posts', o.step = "found", o.version = github[o.issue], ~past'.missed[o.issue],
                      NEW u \in Tix, rows'[u].issue = o.issue, rows'[u].id # o.row
               PROVE  rows'[u].version = github[o.issue]
    BY <1>u DEF FoundLast
  <2>1. o \in posts /\ o.issue \in Issues /\ ~past.missed[o.issue] /\ rows[u].issue = o.issue /\ rows[u].id # o.row
    BY <1>u, <1>n, <1>r, <1>h, AnnouncementIs
  <2>2. rows[u].version = github[o.issue]
    BY <2>1, <1>l DEF FoundLast
  <2>3. CASE u = t
    <3>1. o.issue = p.issue /\ rows[t].version <= p.version
      BY <2>1, <2>3, <1>i, <1>n
    <3> QED
      BY <2>2, <2>3, <3>1, <1>i, <1>r
  <2> QED
    BY <2>2, <2>3, <1>r
<1>5. FlagWaits'
  BY <1>h, <1>l, <1>m, <1>s, PastIs DEF FlagWaits
<1>6. chores' \in Seq(Chores')
  BY <1>h, <1>u DEF Chores, Fits
<1> QED
  BY <1>1, <1>2, <1>3, <1>4, <1>5, <1>6, <1>h, <1>u, <1>m, <1>r, <1>f, HubKept DEF LinkInv

LEMMA CreateKeepsLinks ==
  ASSUME HubInv, NEW n \in DOMAIN chores, CreateAtGithub(n)
  PROVE  HubInv'
<1>h. /\ github \in [Issues -> Versions] /\ flag \in [Tix -> BOOLEAN] /\ hub \in HubRow
      /\ rows \in [Tix -> IssueRow] /\ posts \subseteq Announcement
      /\ chores \in Seq(Chores) /\ views \in [Agents -> ViewRow]
      /\ past \in PastRow /\ counts \in CountRow
  BY HubThere
<1>l. VersionsCounted /\ RowsApart /\ FoundRows /\ LastArrives /\ FoundLast /\ FlagWaits
  BY DEF HubInv, LinkInv
<1>0. CASE Refusals(n)
  BY <1>0, RefusalKeepsLinks
<1>1. ASSUME NEW i \in Issues, github[i] = 0, github' = [github EXCEPT ![i] = 1],
             posts' = posts \union {[Post(i, 1) EXCEPT !.no = MaxChanges + i]},
             chores' = [chores EXCEPT ![n].step = "fetched", ![n].issue = i, ![n].version = 1],
             UNCHANGED <<hub, rows, flag, views, past, counts>>
      PROVE  HubInv'
  <2> DEFINE q == [Post(i, 1) EXCEPT !.no = MaxChanges + i]
  <2>q. q \in Announcement /\ q.issue = i /\ q.version = 1 /\ q.step = "sent"
    <3>1. MaxChanges + i \in Nat
      BY NumbersAre
    <3> QED
      BY <3>1, NumbersAre, PostIs
  <2> HIDE DEF q
  <2>p. posts' = posts \union {q}
    BY <1>1 DEF q
  <2>g. /\ github' \in [Issues -> Versions] /\ github'[i] = 1 /\ \A j \in Issues : j # i => github'[j] = github[j]
        /\ \A j \in Issues : github[j] \in Nat /\ github[j] <= github'[j]
    BY <1>h, <1>1, NumbersAre
  <2>c. counts.posts \in Nat
    BY <1>h DEF CountRow
  <2>1. VersionsCounted'
    <3>1. \A j \in Issues : github'[j] <= counts.posts + 1
      BY <1>l, <2>g, <2>c DEF VersionsCounted
    <3>2. ASSUME NEW p \in posts PROVE p.version <= github'[p.issue]
      <4>1. p.issue \in Issues /\ p.version \in Nat /\ p.version <= github[p.issue]
        BY <1>h, <1>l, AnnouncementIs, NumbersAre DEF VersionsCounted
      <4>2. github[p.issue] \in Nat /\ github'[p.issue] \in Nat /\ github[p.issue] <= github'[p.issue]
        BY <2>g, <4>1, NumbersAre
      <4> QED
        BY <4>1, <4>2
    <3>3. q.version <= github'[q.issue]
      BY <2>q, <2>g
    <3> QED
      BY <1>1, <2>p, <3>1, <3>2, <3>3 DEF VersionsCounted
  <2>2. RowsApart' /\ FlagWaits'
    BY <1>l, <1>1 DEF RowsApart, FlagWaits
  <2>3. FoundRows'
    BY <1>l, <1>1, <2>p, <2>q DEF FoundRows
  <2>4. LastArrives'
    <3> SUFFICES ASSUME NEW j \in Issues, ~past.missed[j]
                 PROVE  LastOnWay(j)' \/ \A t \in Tix : rows[t].issue = j => rows[t].version = github'[j]
      BY <1>1 DEF LastArrives
    <3>1. CASE j = i
      BY <3>1, <2>p, <2>q, <2>g DEF LastOnWay
    <3>2. CASE j # i
      BY <3>2, <1>l, <2>p, <2>g DEF LastArrives, LastOnWay
    <3> QED
      BY <3>1, <3>2
  <2>5. FoundLast'
    <3> SUFFICES ASSUME NEW p \in posts', p.step = "found", p.version = github'[p.issue], ~past.missed[p.issue],
                        NEW t \in Tix, rows[t].issue = p.issue, rows[t].id # p.row
                 PROVE  rows[t].version = github'[p.issue]
      BY <1>1 DEF FoundLast
    <3>1. p \in posts /\ p.issue \in Issues /\ p.version \in Nat /\ p.version <= github[p.issue]
      BY <2>p, <2>q, <1>h, <1>l, AnnouncementIs, NumbersAre DEF VersionsCounted
    <3>2. p.issue # i
      BY <3>1, <1>1, <2>g
    <3> QED
      BY <3>1, <3>2, <2>g, <1>l DEF FoundLast
  <2>6. chores' \in Seq(Chores')
    <3> DEFINE c == [chores[n] EXCEPT !.step = "fetched", !.issue = i, !.version = 1]
    <3>1. chores[n] \in ChoreRow /\ Fits(chores[n])
      BY ChoreThere, ChoreAnswers
    <3>2. /\ c \in ChoreRow /\ c.op = chores[n].op /\ c.ticket = chores[n].ticket /\ c.issue = i /\ c.version = 1
      BY <3>1, NumbersAre DEF ChoreRow, ChoreSteps
    <3>3. chores[n].op = "create" /\ chores[n].ticket \in Tix
      BY <3>1 DEF Fits, CreateAtGithub, At
    <3> HIDE DEF c
    <3>4. c \in Chores'
      BY <3>2, <3>3, <2>g DEF Chores, Fits
    <3>5. chores' = [chores EXCEPT ![n] = c]
      BY <1>1 DEF c
    <3>6. chores \in Seq(Chores')
      BY <1>h, <2>g, ChoresGrow
    <3> QED
      BY <3>4, <3>5, <3>6, Replaced
  <2> QED
    BY <2>1, <2>2, <2>3, <2>4, <2>5, <2>6, <1>h, <1>1, <2>g, <2>q, <2>p, HubKept DEF LinkInv
<1> QED
  BY <1>0, <1>1 DEF CreateAtGithub

LEMMA WriteKeepsLinks ==
  ASSUME HubInv, NEW n \in DOMAIN chores, WriteLink(n)
  PROVE  HubInv'
<1> DEFINE c == chores[n]
           k == counts.rows + 1
<1>h. /\ github \in [Issues -> Versions] /\ flag \in [Tix -> BOOLEAN] /\ hub \in HubRow
      /\ rows \in [Tix -> IssueRow] /\ posts \subseteq Announcement
      /\ chores \in Seq(Chores) /\ views \in [Agents -> ViewRow]
      /\ past \in PastRow /\ counts \in CountRow
  BY HubThere
<1>l. VersionsCounted /\ RowsApart /\ FoundRows /\ LastArrives /\ FoundLast /\ FlagWaits
  BY DEF HubInv, LinkInv
<1>0. CASE Refusals(n)
  BY <1>0, RefusalKeepsLinks
<1>1. ASSUME rows' = [rows EXCEPT ![c.ticket] = LinkRow(k, c.issue, c.version)],
             past' = [past EXCEPT !.missed[c.issue] = @ \/ c.version < github[c.issue]],
             counts' = [counts EXCEPT !.rows = @ + 1],
             Moves(n, "answered"), UNCHANGED <<github, hub, flag, posts, views>>
      PROVE  HubInv'
  <2>i. /\ c.ticket \in Tix /\ c.issue \in Issues /\ c.version \in Versions /\ c.version \in Nat
        /\ c.version <= github[c.issue] /\ github[c.issue] \in Nat
    <3>1. c \in ChoreRow /\ Fits(c) /\ c.step = "fetched"
      BY ChoreThere, ChoreAnswers DEF WriteLink
    <3>2. c.ticket \in Tix /\ c.issue \in Issues /\ c.version <= github[c.issue]
      BY <3>1 DEF Fits
    <3>3. c.version \in Versions
      BY <3>1 DEF ChoreRow
    <3> QED
      BY <3>2, <3>3, <1>h, NumbersAre
  <2>k. counts.rows \in Nat /\ k \in 1..MaxRows /\ counts' \in CountRow /\ counts'.rows = k /\ counts'.posts = counts.posts
    <3>1. counts.rows \in Nat /\ counts.rows < MaxRows
      BY <1>h DEF CountRow, WriteLink
    <3>2. k \in 1..MaxRows
      BY <3>1, NumbersAre
    <3>3. counts' = [counts EXCEPT !.rows = k]
      BY <1>1
    <3> HIDE DEF k
    <3> QED
      BY <1>h, <3>1, <3>2, <3>3 DEF CountRow
  <2> DEFINE r == LinkRow(k, c.issue, c.version)
  <2>r. r \in IssueRow /\ r.id = k /\ r.issue = c.issue /\ r.version = c.version
    <3>0. c.issue \in 0..MaxIssues
      BY <2>i, NumbersAre
    <3> HIDE DEF k
    <3>1. k \in 0..MaxRows /\ c.issue \in 0..MaxIssues
      BY <2>k, <3>0
    <3> QED
      BY <3>1, <2>i DEF LinkRow, IssueRow
  <2>s. rows' = [rows EXCEPT ![c.ticket] = r]
    BY <1>1
  <2>m. /\ past' \in PastRow /\ past'.unread = past.unread /\ past'.raced = past.raced
        /\ past'.missed = [past.missed EXCEPT ![c.issue] = (past.missed[c.issue] \/ c.version < github[c.issue])]
    <3> DEFINE b == past.missed[c.issue] \/ c.version < github[c.issue]
    <3>1. b \in BOOLEAN
      OBVIOUS
    <3>2. past' = [past EXCEPT !.missed[c.issue] = b]
      BY <1>1
    <3> HIDE DEF b, c
    <3>3. past' \in PastRow /\ past'.missed = [past.missed EXCEPT ![c.issue] = b] /\ past'.unread = past.unread /\ past'.raced = past.raced
      BY <1>h, <2>i, <3>1, <3>2 DEF PastRow
    <3> QED
      BY <3>3 DEF b
  <2> HIDE DEF r
  <2>n. \A j \in Issues : ~past'.missed[j] => ~past.missed[j] /\ (j = c.issue => c.version = github[j])
    BY <1>h, <2>i, <2>m, PastIs
  <2>t. /\ rows' \in [Tix -> IssueRow] /\ rows'[c.ticket] = r /\ \A u \in Tix : u # c.ticket => rows'[u] = rows[u]
    BY <1>h, <2>i, <2>r, <2>s
  <2> HIDE DEF c
  <2>x. \A u \in Tix : rows[u].id <= counts.rows /\ rows[u].id \in Nat
    BY <1>h, <1>l, RowIs DEF RowsApart
  <2>1. VersionsCounted' /\ FlagWaits'
    BY <1>l, <1>1, <2>k, <2>m DEF VersionsCounted, FlagWaits
  <2>2. RowsApart'
    <3>1. \A u \in Tix : IF rows'[u].id = 0 THEN rows'[u].issue = 0 ELSE rows'[u].issue \in Issues
      BY <1>l, <2>i, <2>k, <2>r, <2>t DEF RowsApart
    <3>2. \A u \in Tix : rows'[u].id <= k
      BY <2>k, <2>r, <2>t, <2>x
    <3>3. \A u, w \in Tix : rows'[u].id # 0 /\ rows'[u].id = rows'[w].id => u = w
      BY <1>l, <2>k, <2>r, <2>t, <2>x DEF RowsApart
    <3> QED
      BY <3>1, <3>2, <3>3, <2>k DEF RowsApart
  <2>3. FoundRows'
    <3> SUFFICES ASSUME NEW p \in posts, p.step = "found"
                 PROVE  p.row # 0 /\ p.row <= counts'.rows /\ \A u \in Tix : rows'[u].id = p.row => rows'[u].issue = p.issue
      BY <1>1 DEF FoundRows
    <3>p. p \in Announcement
      BY <1>h
    <3>0. p.row \in Nat
      BY <3>p, AnnouncementIs
    <3>1. p.row # 0 /\ p.row <= counts.rows /\ p.row \in Nat /\ \A u \in Tix : rows[u].id = p.row => rows[u].issue = p.issue
      BY <3>0, <1>l DEF FoundRows
    <3>2. p.row < k
      BY <3>1, <2>k
    <3> QED
      BY <3>1, <3>2, <2>k, <2>r, <2>t
  <2>4. LastArrives'
    <3> SUFFICES ASSUME NEW j \in Issues, ~past'.missed[j]
                 PROVE  LastOnWay(j) \/ \A u \in Tix : rows'[u].issue = j => rows'[u].version = github[j]
      BY <1>1 DEF LastArrives, LastOnWay
    <3>1. LastOnWay(j) \/ \A u \in Tix : rows[u].issue = j => rows[u].version = github[j]
      BY <1>l, <2>n DEF LastArrives
    <3> QED
      BY <3>1, <2>n, <2>r, <2>t
  <2>5. FoundLast'
    <3> SUFFICES ASSUME NEW o \in posts, o.step = "found", o.version = github[o.issue], ~past'.missed[o.issue],
                        NEW u \in Tix, rows'[u].issue = o.issue, rows'[u].id # o.row
                 PROVE  rows'[u].version = github[o.issue]
      BY <1>1 DEF FoundLast
    <3>1. o.issue \in Issues
      BY <1>h, AnnouncementIs
    <3>2. CASE u = c.ticket
      BY <3>1, <3>2, <2>n, <2>r, <2>t
    <3>3. CASE u # c.ticket
      BY <3>1, <3>3, <2>n, <2>t, <1>l DEF FoundLast
    <3> QED
      BY <3>2, <3>3
  <2>6. chores' \in Seq(Chores')
    <3>1. chores' \in Seq(Chores)
      BY <1>1, ChoreMoved DEF HubInv
    <3> QED
      BY <3>1, <1>1 DEF Chores, Fits
  <2> QED
    BY <2>1, <2>2, <2>3, <2>4, <2>5, <2>6, <1>h, <1>1, <2>k, <2>m, <2>t, HubKept DEF LinkInv
<1> QED
  BY <1>0, <1>1 DEF WriteLink

LEMMA UnlinkKeepsLinks ==
  ASSUME HubInv, NEW n \in DOMAIN chores, Unlink(n)
  PROVE  HubInv'
<1> DEFINE t == chores[n].ticket
<1>h. /\ github \in [Issues -> Versions] /\ flag \in [Tix -> BOOLEAN] /\ hub \in HubRow
      /\ rows \in [Tix -> IssueRow] /\ posts \subseteq Announcement
      /\ chores \in Seq(Chores) /\ views \in [Agents -> ViewRow]
      /\ past \in PastRow /\ counts \in CountRow
  BY HubThere
<1>l. VersionsCounted /\ RowsApart /\ FoundRows /\ LastArrives /\ FoundLast /\ FlagWaits
  BY DEF HubInv, LinkInv
<1>u. rows' = [rows EXCEPT ![t] = NoRow] /\ Moves(n, "answered") /\ UNCHANGED <<github, hub, flag, posts, views, past, counts>>
  BY DEF Unlink
<1> HIDE DEF t
<1>n. NoRow \in IssueRow /\ NoRow.id = 0 /\ NoRow.issue = 0
  BY NumbersAre DEF NoRow, IssueRow
<1>r. rows' \in [Tix -> IssueRow] /\ \A u \in Tix : rows'[u] = NoRow \/ rows'[u] = rows[u]
  BY <1>h, <1>u, <1>n
<1>1. VersionsCounted' /\ FlagWaits'
  BY <1>l, <1>u DEF VersionsCounted, FlagWaits
<1>2. RowsApart'
  <2>1. counts.rows \in Nat
    BY <1>h DEF CountRow
  <2> QED
    BY <2>1, <1>l, <1>u, <1>n, <1>r DEF RowsApart
<1>3. FoundRows'
  BY <1>l, <1>u, <1>n, <1>r DEF FoundRows
<1>4. LastArrives' /\ FoundLast'
  <2>1. \A u \in Tix, i \in Issues : rows'[u].issue = i => rows'[u] = rows[u]
    BY <1>n, <1>r, NumbersAre
  <2>2. LastArrives'
    BY <2>1, <1>l, <1>u DEF LastArrives, LastOnWay
  <2>3. FoundLast'
    <3>1. \A p \in posts : p.issue \in Issues
      BY <1>h, AnnouncementIs
    <3> QED
      BY <2>1, <3>1, <1>l, <1>u DEF FoundLast
  <2> QED
    BY <2>2, <2>3
<1>5. chores' \in Seq(Chores')
  <2>1. chores' \in Seq(Chores)
    BY <1>u, ChoreMoved DEF HubInv
  <2> QED
    BY <2>1, <1>u DEF Chores, Fits
<1> QED
  BY <1>1, <1>2, <1>3, <1>4, <1>5, <1>h, <1>u, <1>r, HubKept DEF LinkInv

\* A step that writes the flags and what is remembered of them.
LEMMA FlagsAside ==
  ASSUME HubInv, UNCHANGED <<github, hub, rows, posts, views, counts>>, flag' \in [Tix -> BOOLEAN], chores' \in Seq(Chores),
         past' \in PastRow, past'.missed = past.missed, FlagWaits'
  PROVE  HubInv'
<1>h. /\ github \in [Issues -> Versions] /\ hub \in HubRow /\ rows \in [Tix -> IssueRow] /\ posts \subseteq Announcement
      /\ views \in [Agents -> ViewRow] /\ counts \in CountRow
  BY HubThere
<1>l. VersionsCounted /\ RowsApart /\ FoundRows /\ LastArrives /\ FoundLast
  BY DEF HubInv, LinkInv
<1>1. VersionsCounted' /\ RowsApart' /\ FoundRows' /\ LastArrives' /\ FoundLast'
  BY <1>l DEF VersionsCounted, RowsApart, FoundRows, LastArrives, LastOnWay, FoundLast
<1>2. chores' \in Seq(Chores')
  BY DEF Chores, Fits
<1> QED
  BY <1>1, <1>2, <1>h, HubKept DEF LinkInv

LEMMA ReadKeepsLinks ==
  ASSUME HubInv, NEW n \in DOMAIN chores, ReadTicket(n)
  PROVE  HubInv'
<1> DEFINE c == chores[n]
           t == c.ticket
           answer == [c EXCEPT !.step = "answered", !.issue = rows[t].issue, !.version = rows[t].version, !.pending = flag[t]]
           clear == [Chore(c.by, "clear") EXCEPT !.ticket = t, !.fresh = TRUE]
<1>h. /\ flag \in [Tix -> BOOLEAN] /\ rows \in [Tix -> IssueRow] /\ chores \in Seq(Chores) /\ past \in PastRow /\ FlagWaits
  BY HubThere DEF HubInv, LinkInv
<1>c. c \in ChoreRow /\ Fits(c) /\ c.op = "read" /\ HubKinds /\ c.by \in Agents /\ t \in Tix \union {"none"}
  BY ChoreThere, ChoreAnswers DEF ReadTicket, At, ChoreRow
<1>t. t \in Tix
  BY <1>c DEF Fits
<1>u. /\ chores' = [chores EXCEPT ![n] = answer] \o (IF flag[t] THEN <<clear>> ELSE <<>>)
      /\ past' = [past EXCEPT !.unread[t] = FALSE]
      /\ UNCHANGED <<github, hub, rows, flag, posts, views, counts>>
  BY DEF ReadTicket
<1>1. answer \in Chores
  <2>1. rows[t].issue \in 0..MaxIssues /\ rows[t].version \in Versions /\ flag[t] \in BOOLEAN
    BY <1>h, <1>t, RowIs
  <2> HIDE DEF c, t
  <2>2. answer \in ChoreRow /\ answer.op = c.op /\ answer.step = "answered" /\ answer.ticket = c.ticket
    BY <1>c, <2>1 DEF ChoreRow, ChoreSteps
  <2> HIDE DEF answer
  <2> QED
    BY <1>c, <2>2 DEF Chores, Fits
<1>2. clear \in Chores
  BY <1>c, ChoreMade DEF ChoreOps
<1> HIDE DEF answer, clear
<1>3. chores' \in Seq(Chores)
  <2>1. [chores EXCEPT ![n] = answer] \in Seq(Chores)
    BY <1>h, <1>1, Replaced
  <2>2. <<clear>> \in Seq(Chores) /\ <<>> \in Seq(Chores)
    BY <1>2
  <2> QED
    BY <1>u, <2>1, <2>2, Joined
<1> HIDE DEF t
<1>4. past' \in PastRow /\ past'.missed = past.missed /\ past'.unread = [past.unread EXCEPT ![t] = FALSE] /\ past'.raced = past.raced
  BY <1>h, <1>t, <1>u DEF PastRow
<1>5. FlagWaits'
  BY <1>h, <1>u, <1>4, PastIs DEF FlagWaits
<1> QED
  BY <1>h, <1>u, <1>3, <1>4, <1>5, FlagsAside

LEMMA ClearKeepsLinks ==
  ASSUME HubInv, NEW n \in DOMAIN chores, ClearFlag(n)
  PROVE  HubInv'
<1> DEFINE t == chores[n].ticket
           b == past.raced[t] \/ past.unread[t]
<1>h. /\ flag \in [Tix -> BOOLEAN] /\ past \in PastRow /\ FlagWaits
  BY HubThere DEF HubInv, LinkInv
<1>u. /\ flag' = [flag EXCEPT ![t] = FALSE] /\ past' = [past EXCEPT !.raced[t] = b]
      /\ Moves(n, "answered") /\ UNCHANGED <<github, hub, rows, posts, views, counts>>
  BY DEF ClearFlag
<1>b. b \in BOOLEAN /\ b = (past.raced[t] \/ past.unread[t])
  OBVIOUS
<1> HIDE DEF b, t
<1>1. past' \in PastRow /\ past'.missed = past.missed /\ past'.unread = past.unread /\ past'.raced = [past.raced EXCEPT ![t] = b]
  BY <1>h, <1>u, <1>b DEF PastRow
<1>2. flag' \in [Tix -> BOOLEAN]
  BY <1>h, <1>u
<1>3. FlagWaits'
  BY <1>h, <1>u, <1>b, <1>1, PastIs DEF FlagWaits
<1>4. chores' \in Seq(Chores)
  BY <1>u, ChoreMoved DEF HubInv
<1> QED
  BY <1>u, <1>1, <1>2, <1>3, <1>4, FlagsAside

LEMMA LinksStep ==
  ASSUME HubInv, HubNext \/ UNCHANGED hubVars
  PROVE  HubInv'
<1>1. ASSUME NEW i \in Issues, Change(i) PROVE HubInv'
  BY <1>1, ChangeKeepsLinks
<1>2. CASE Paste \/ Suppress \/ \E t \in Tix : CustomerReads(t)
  BY <1>2, OutsideKeepsLinks
<1>3. ASSUME NEW p \in posts, RejectPost(p) \/ FindLinked(p) \/ SyncIssue(p) \/ SyncFails(p) PROVE HubInv'
  <2>1. CASE RejectPost(p) \/ SyncFails(p)
    BY <2>1, DropKeepsLinks, HubThere DEF RejectPost, SyncFails
  <2> QED
    BY <1>3, <2>1, FindKeepsLinks, SyncKeepsLinks
<1>4. ASSUME NEW n \in DOMAIN chores,
             CreateAtGithub(n) \/ FetchIssue(n) \/ WriteLink(n) \/ Unlink(n) \/ ReadTicket(n) \/ ClearFlag(n) \/ ConnectHub(n)
             \/ Disconnect(n) \/ SaveRepo(n) \/ GenerateSecret(n) \/ Status(n) \/ WebhookConfig(n) \/ Answered(n) \/ Refused(n)
      PROVE  HubInv'
  <2>1. CASE CreateAtGithub(n) \/ WriteLink(n) \/ Unlink(n) \/ ReadTicket(n) \/ ClearFlag(n)
    BY <2>1, CreateKeepsLinks, WriteKeepsLinks, UnlinkKeepsLinks, ReadKeepsLinks, ClearKeepsLinks
  <2>2. CASE FetchIssue(n) \/ ConnectHub(n) \/ Disconnect(n) \/ SaveRepo(n) \/ GenerateSecret(n) \/ Status(n) \/ WebhookConfig(n)
    BY <2>2, SettingsServedKeepsLinks
  <2>3. CASE Answered(n) \/ Refused(n)
    BY <2>3, AnswersKeepLinks
  <2> QED
    BY <1>4, <2>1, <2>2, <2>3
<1>5. ASSUME NEW a \in Agents,
             OpenTicket(a) \/ PressCreate(a) \/ PressLink(a) \/ PressUnlink(a) \/ PressAcknowledge(a) \/ Loads(a) \/ GoToGithub(a)
             \/ HandoffBack(a) \/ HandoffTimesOut(a) \/ LeaveError(a) \/ PressDisconnect(a) \/ PressSaveRepo(a) \/ PressRegenerate(a)
             \/ PressGenerate(a) \/ Reveal(a) \/ ConfirmExpires(a)
      PROVE  HubInv'
  <2>1. CASE OpenTicket(a) \/ PressCreate(a) \/ PressLink(a) \/ PressUnlink(a) \/ PressAcknowledge(a)
    BY <2>1, PagePressKeepsLinks
  <2>2. CASE Loads(a) \/ GoToGithub(a) \/ HandoffBack(a) \/ HandoffTimesOut(a) \/ LeaveError(a) \/ PressDisconnect(a) \/ PressSaveRepo(a)
             \/ PressRegenerate(a) \/ PressGenerate(a) \/ Reveal(a) \/ ConfirmExpires(a)
    BY <2>2, SettingsPressKeepsLinks
  <2> QED
    BY <1>5, <2>1, <2>2
<1>6. CASE UNCHANGED hubVars
  BY <1>6, HubThere, BesideLinks DEF hubVars, HubRow, CountRow
<1> QED
  BY <1>1, <1>2, <1>3, <1>4, <1>5, <1>6 DEF HubNext

\* A link is behind its issue, and a change is unflagged, for the named causes only, in
\* whatever order announcements, links and readings come (syncIssueFromWebhook).
THEOREM DeskFollowsGithub == AdminSpec => []IssuesHonest
<1>1. AdminInit => HubInv
  BY HubStart DEF AdminInit
<1>2. HubInv /\ [AdminNext]_adminVars => HubInv'
  BY LinksStep DEF AdminNext, adminVars
<1>3. HubInv => IssuesHonest
  <2> SUFFICES ASSUME HubInv PROVE IssuesHonest
    OBVIOUS
  <2>1. LastArrives /\ FlagWaits /\ RowsApart /\ rows \in [Tix -> IssueRow]
    BY HubThere DEF HubInv, LinkInv
  <2>2. ASSUME NEW t \in Tix, rows[t].id # 0, rows[t].version # github[rows[t].issue],
               ~past.missed[rows[t].issue]
        PROVE  \E p \in posts : p.issue = rows[t].issue
    <3>1. rows[t].issue \in Issues
      BY <2>1, <2>2 DEF RowsApart
    <3> QED
      BY <2>1, <2>2, <3>1 DEF LastArrives, LastOnWay
  <2> QED
    BY <2>1, <2>2 DEF IssuesHonest, BehindHasCause
<1> QED
  BY <1>1, <1>2, <1>3, PTL DEF AdminSpec

-----------------------------------------------------------------------------
(***************************************************************************)
(* The mailbox.                                                            *)
(***************************************************************************)
AnyBox == Boxes \union {NoBox}
AccountRow == [box : AnyBox, access : AnyBox, refresh : AnyBox, due : BOOLEAN, epoch : Nat]
TokenRow == [step : {"idle", "read", "waits"}, cfg : AccountRow]
RenewalRow == [step : {"none", "asked", "given"}, box : AnyBox, epoch : Nat]
HandoffRow == [by : Tabs, step : {"consent", "called", "exchanged", "back"}, box : AnyBox, old : BOOLEAN]
TabRow == [open : BOOLEAN, cached : Nat, kept : {"none", "yes", "no"}, shown : BOOLEAN, cfg : {"unknown", "yes", "no"}, busy : BOOLEAN,
           asking : BOOLEAN, lastHook : Nat, lastCfg : Nat, error : BOOLEAN, odd : BOOLEAN]
AskRow == [no : Nat, by : Tabs, op : {"hook", "config", "start", "disconnect"}, step : {"sent", "answered", "failed"}, value : BOOLEAN]

MailKinds ==
  /\ account \in AccountRow /\ tokens \in [Readers -> TokenRow] /\ renewal \in RenewalRow
  /\ handoffs \subseteq HandoffRow /\ tabs \in [Tabs -> TabRow] /\ asks \subseteq AskRow /\ crossed \in BOOLEAN
  /\ tally \in [writes : Nat, fetches : Nat]

\* What a reader read, and what is being refreshed, is of the account that is there, or of
\* one that was there before it; a mailbox with a refresh token has an access token.
TokensInv ==
  /\ MixHasCause
  /\ \A r \in Readers : tokens[r].cfg.epoch <= account.epoch
                        /\ (tokens[r].step = "read" /\ tokens[r].cfg.epoch = account.epoch => tokens[r].cfg.refresh = account.refresh)
  /\ renewal.epoch <= account.epoch
  /\ renewal.step # "none" => renewal.box # NoBox /\ (renewal.epoch = account.epoch => renewal.box = account.refresh)
  /\ account.refresh # NoBox => account.access # NoBox

\* A tab is at the provider or asks the API, never both.
AwayInv ==
  /\ \A q \in asks : tabs[q.by].open
  /\ \A t \in Tabs : ~tabs[t].open => tabs[t].cfg = "unknown" /\ ~tabs[t].asking
  /\ \A h \in handoffs : ~tabs[h.by].open
  /\ \A h, g \in handoffs : h.by = g.by => h = g

Hooks(t) == {q \in asks : q.by = t /\ q.op = "hook"}
Configs(t) == {q \in asks : q.by = t /\ q.op = "config"}

\* Requests are numbered; the last answer of each kind that a tab took is none of those on their way.
NumbersInv ==
  /\ \A q \in asks : q.no \in 1..tally.fetches
  /\ \A p, q \in asks : p.no = q.no => p = q
  /\ \A t \in Tabs : /\ tabs[t].lastHook <= tabs[t].cached /\ tabs[t].cached <= tally.fetches /\ tabs[t].lastCfg <= tally.fetches
                     /\ \A q \in Hooks(t) : q.no <= tabs[t].cached /\ q.no # tabs[t].lastHook
                     /\ \A q \in Configs(t) : q.no # tabs[t].lastCfg

Leaving(t) == \E q \in asks : q.by = t /\ q.op = "disconnect" /\ q.step = "answered"
Told == IF Connected THEN "yes" ELSE "no"
Fresh(q) == q.step = "answered" => q.value = Connected

BadgeInv(t) ==
  \/ tabs[t].lastHook = tabs[t].cached /\ tabs[t].shown = Connected /\ tabs[t].kept = Told
  \/ \E q \in Hooks(t) : q.no = tabs[t].cached /\ Fresh(q)
CardInv(t) ==
  \/ tabs[t].cfg = Told /\ \A q \in Configs(t) : q.no < tabs[t].lastCfg
  \/ \E q \in Configs(t) : q.no > tabs[t].lastCfg /\ Fresh(q) /\ \A p \in Configs(t) : p.no <= q.no

\* A tab with no reason to be wrong shows the mailbox, or waits for the answer that will
\* tell it, or for the answer to its own disconnection.
ShowsIt(t) == tabs[t].open /\ ~tabs[t].odd => Leaving(t) \/ (BadgeInv(t) /\ CardInv(t))
ShowsInv == \A t \in Tabs : ShowsIt(t)

PagesInv == AwayInv /\ NumbersInv /\ ShowsInv
MailInv == MailKinds /\ TokensInv /\ PagesInv

LEMMA MailStart == MailboxInit => MailInv
<1> SUFFICES ASSUME MailboxInit PROVE MailInv
  OBVIOUS
<1>0. NoBox \in AnyBox /\ \A b \in AnyBox : Held(b, 0) \in AccountRow /\ Held(b, 0).access = b /\ Held(b, 0).refresh = b /\ Held(b, 0).epoch = 0
  BY DEF AnyBox, Held, AccountRow
<1>1. account \in AccountRow /\ account.access = account.refresh /\ account.epoch = 0
  <2>1. (CHOOSE b \in Boxes : TRUE) \in AnyBox
    BY MailboxAssumption DEF AnyBox
  <2> QED
    BY <1>0, <2>1 DEF MailboxInit
<1>2. tokens \in [Readers -> TokenRow] /\ \A r \in Readers : tokens[r].step = "idle" /\ tokens[r].cfg.epoch = 0
  BY <1>0 DEF MailboxInit, TokenRow
<1>3. renewal \in RenewalRow /\ renewal.step = "none" /\ renewal.epoch = 0
  BY <1>0 DEF MailboxInit, RenewalRow
<1>4. Tab \in TabRow /\ Tab.open = FALSE /\ Tab.cfg = "unknown" /\ Tab.asking = FALSE /\ Tab.lastHook = 0 /\ Tab.lastCfg = 0 /\ Tab.cached = 0
  BY DEF Tab, TabRow
<1>5. tabs \in [Tabs -> TabRow] /\ \A t \in Tabs : tabs[t] = Tab
  BY <1>4 DEF MailboxInit
<1>6. handoffs = {} /\ asks = {} /\ crossed = FALSE /\ tally = [writes |-> 0, fetches |-> 0]
  BY DEF MailboxInit
<1>7. MailKinds
  BY <1>1, <1>2, <1>3, <1>5, <1>6 DEF MailKinds
<1>8. TokensInv
  BY <1>1, <1>2, <1>3 DEF TokensInv, MixHasCause
<1>9. PagesInv
  BY <1>4, <1>5, <1>6 DEF PagesInv, AwayInv, NumbersInv, ShowsInv, ShowsIt, Hooks, Configs
<1> QED
  BY <1>7, <1>8, <1>9 DEF MailInv

LEMMA MailThere ==
  ASSUME MailInv
  PROVE  /\ account \in AccountRow /\ tokens \in [Readers -> TokenRow] /\ renewal \in RenewalRow
         /\ handoffs \subseteq HandoffRow /\ tabs \in [Tabs -> TabRow] /\ asks \subseteq AskRow /\ crossed \in BOOLEAN
         /\ tally \in [writes : Nat, fetches : Nat] /\ tally.fetches \in Nat
         /\ TokensInv /\ AwayInv /\ NumbersInv /\ ShowsInv
BY DEF MailInv, MailKinds, PagesInv

LEMMA MailKept ==
  ASSUME account' \in AccountRow, tokens' \in [Readers -> TokenRow], renewal' \in RenewalRow,
         handoffs' \subseteq HandoffRow, tabs' \in [Tabs -> TabRow], asks' \subseteq AskRow, crossed' \in BOOLEAN,
         tally' \in [writes : Nat, fetches : Nat], TokensInv', PagesInv'
  PROVE  MailInv'
BY DEF MailInv, MailKinds

\* Of an account, what a step may change.
LEMMA AccountIs ==
  ASSUME NEW a \in AccountRow
  PROVE  /\ a.access \in AnyBox /\ a.refresh \in AnyBox /\ a.epoch \in Nat /\ a.due \in BOOLEAN
         /\ LET b == [a EXCEPT !.due = TRUE]
            IN b \in AccountRow /\ b.access = a.access /\ b.refresh = a.refresh /\ b.epoch = a.epoch
         /\ \A x \in AnyBox : LET b == [a EXCEPT !.access = x, !.due = FALSE]
                              IN b \in AccountRow /\ b.access = x /\ b.refresh = a.refresh /\ b.epoch = a.epoch
BY DEF AccountRow

LEMMA HeldIs ==
  ASSUME NEW b \in AnyBox, NEW n \in Nat
  PROVE  Held(b, n) \in AccountRow /\ Held(b, n).access = b /\ Held(b, n).refresh = b /\ Held(b, n).epoch = n
BY DEF AccountRow, Held

\* The pages do not notice a step that leaves them alone and whether a mailbox is connected.
LEMMA PagesAside ==
  ASSUME PagesInv, UNCHANGED <<handoffs, tabs, asks, tally>>, Connected' = Connected
  PROVE  PagesInv'
<1>1. AwayInv' /\ NumbersInv'
  BY DEF PagesInv, AwayInv, NumbersInv, Hooks, Configs
<1>2. ShowsInv'
  BY DEF PagesInv, ShowsInv, ShowsIt, Leaving, BadgeInv, CardInv, Hooks, Configs, Told, Fresh
<1> QED
  BY <1>1, <1>2 DEF PagesInv

LEMMA TokensAside ==
  ASSUME TokensInv, UNCHANGED <<account, tokens, renewal, crossed>>
  PROVE  TokensInv' /\ Connected' = Connected
BY DEF TokensInv, MixHasCause, Connected

LEMMA ServedIs ==
  ASSUME MailInv
  PROVE  /\ Served \in [Readers -> TokenRow]
         /\ \A r \in Readers : Served[r].cfg.epoch <= account.epoch
               /\ (Served[r].step = "read" /\ Served[r].cfg.epoch = account.epoch => Served[r].cfg.refresh = account.refresh)
         /\ Unlocked \in RenewalRow /\ Unlocked.step = "none" /\ Unlocked.epoch = 0
<1>0. NoBox \in AnyBox /\ 0 \in Nat
  BY DEF AnyBox
<1>1. [step |-> "idle", cfg |-> Held(NoBox, 0)] \in TokenRow
  BY <1>0, HeldIs DEF TokenRow
<1>2. Served \in [Readers -> TokenRow]
  BY <1>1, MailThere DEF Served
<1>3. account.epoch \in Nat
  BY MailThere, AccountIs
<1>4. ASSUME NEW r \in Readers
      PROVE  Served[r].cfg.epoch <= account.epoch
               /\ (Served[r].step = "read" /\ Served[r].cfg.epoch = account.epoch => Served[r].cfg.refresh = account.refresh)
  <2>1. CASE tokens[r].step = "waits"
    <3>1. Served[r].step = "idle" /\ Served[r].cfg = Held(NoBox, 0)
      BY <2>1 DEF Served
    <3> QED
      BY <3>1, <1>0, <1>3, HeldIs
  <2>2. CASE tokens[r].step # "waits"
    <3>1. Served[r] = tokens[r]
      BY <2>2 DEF Served
    <3> QED
      BY <3>1, MailThere DEF TokensInv
  <2> QED
    BY <2>1, <2>2
<1>5. Unlocked \in RenewalRow /\ Unlocked.step = "none" /\ Unlocked.epoch = 0
  BY <1>0 DEF Unlocked, RenewalRow
<1> QED
  BY <1>2, <1>4, <1>5

LEMMA TokenStepsKeepMail ==
  ASSUME MailInv, ComesDue \/ Renews \/ StoresToken \/ \E r \in Readers : ReadsRow(r) \/ GetsToken(r)
  PROVE  MailInv'
<1>h. /\ account \in AccountRow /\ tokens \in [Readers -> TokenRow] /\ renewal \in RenewalRow
      /\ handoffs \subseteq HandoffRow /\ tabs \in [Tabs -> TabRow] /\ asks \subseteq AskRow /\ crossed \in BOOLEAN
      /\ tally \in [writes : Nat, fetches : Nat] /\ TokensInv /\ PagesInv
  BY MailThere DEF MailInv
<1>a. account.access \in AnyBox /\ account.refresh \in AnyBox /\ account.epoch \in Nat
  BY <1>h, AccountIs
<1>r. renewal.step \in {"none", "asked", "given"} /\ renewal.box \in AnyBox /\ renewal.epoch \in Nat
  BY <1>h DEF RenewalRow
<1>u. UNCHANGED <<handoffs, tabs, asks, tally>>
  BY DEF ComesDue, Renews, StoresToken, ReadsRow, GetsToken, tokenRest
<1>k. ASSUME account' \in AccountRow, tokens' \in [Readers -> TokenRow], renewal' \in RenewalRow, crossed' \in BOOLEAN,
             TokensInv', Connected' = Connected
      PROVE  MailInv'
  <2>1. PagesInv'
    BY <1>h, <1>k, <1>u, PagesAside
  <2> QED
    BY <1>h, <1>k, <1>u, <2>1, MailKept
<1>1. CASE ComesDue
  <2>1. /\ account' \in AccountRow /\ account'.access = account.access /\ account'.refresh = account.refresh /\ account'.epoch = account.epoch
        /\ UNCHANGED <<tokens, renewal, crossed>>
    BY <1>1, <1>h, AccountIs DEF ComesDue, tokenVars
  <2>2. TokensInv'
    BY <1>h, <2>1 DEF TokensInv, MixHasCause
  <2>3. Connected' = Connected
    BY <2>1 DEF Connected
  <2> QED
    BY <1>h, <1>k, <2>1, <2>2, <2>3
<1>2. ASSUME NEW r \in Readers, ReadsRow(r) PROVE MailInv'
  <2>1. tokens' = [tokens EXCEPT ![r] = [step |-> "read", cfg |-> account]] /\ UNCHANGED <<account, renewal, crossed>>
    BY <1>2 DEF ReadsRow
  <2>2. [step |-> "read", cfg |-> account] \in TokenRow
    BY <1>h DEF TokenRow
  <2>3. tokens' \in [Readers -> TokenRow]
    BY <1>h, <2>1, <2>2
  <2>4. \A s \in Readers : tokens'[s] = IF s = r THEN [step |-> "read", cfg |-> account] ELSE tokens[s]
    BY <1>h, <2>1
  <2>5. TokensInv'
    BY <1>a, <1>h, <2>1, <2>4 DEF TokensInv, MixHasCause
  <2>6. Connected' = Connected
    BY <2>1 DEF Connected
  <2> QED
    BY <1>h, <1>k, <2>1, <2>3, <2>5, <2>6
<1>3. ASSUME NEW r \in Readers, GetsToken(r) PROVE MailInv'
  <2> DEFINE cfg == tokens[r].cfg
  <2>0. cfg \in AccountRow /\ cfg.refresh \in AnyBox /\ cfg.epoch \in Nat /\ cfg.epoch <= account.epoch
        /\ (cfg.epoch = account.epoch => cfg.refresh = account.refresh) /\ tokens[r] \in TokenRow
    <3>1. tokens[r] \in TokenRow /\ cfg \in AccountRow
      BY <1>h DEF TokenRow
    <3> QED
      BY <3>1, <1>3, <1>h, AccountIs DEF TokensInv, GetsToken
  <2>1. CASE /\ tokens' = [tokens EXCEPT ![r] = [step |-> "idle", cfg |-> Held(NoBox, 0)]] /\ UNCHANGED renewal
    <3>1. NoBox \in AnyBox /\ 0 \in Nat
      BY DEF AnyBox
    <3>2. [step |-> "idle", cfg |-> Held(NoBox, 0)] \in TokenRow /\ Held(NoBox, 0).epoch = 0
      BY <3>1, HeldIs DEF TokenRow
    <3> DEFINE row == [step |-> "idle", cfg |-> Held(NoBox, 0)]
    <3>3. row.step = "idle" /\ row.cfg.epoch <= account.epoch
      BY <3>2, <1>a
    <3>4. tokens' = [tokens EXCEPT ![r] = row] /\ row \in TokenRow
      BY <2>1, <3>2
    <3> HIDE DEF row
    <3>5. tokens' \in [Readers -> TokenRow] /\ \A s \in Readers : tokens'[s] = IF s = r THEN row ELSE tokens[s]
      BY <1>h, <3>4
    <3>6. UNCHANGED <<account, renewal, crossed>>
      BY <1>3, <2>1 DEF GetsToken
    <3>7. TokensInv'
      BY <1>h, <3>3, <3>5, <3>6 DEF TokensInv, MixHasCause
    <3>8. Connected' = Connected
      BY <3>6 DEF Connected
    <3> QED
      BY <1>h, <1>k, <3>5, <3>6, <3>7, <3>8
  <2>2. CASE /\ cfg.refresh # NoBox /\ tokens' = [tokens EXCEPT ![r].step = "waits"]
             /\ renewal' = IF renewal.step # "none" THEN renewal ELSE [step |-> "asked", box |-> cfg.refresh, epoch |-> cfg.epoch]
    <3>1. tokens' = [tokens EXCEPT ![r] = [tokens[r] EXCEPT !.step = "waits"]]
      BY <2>2
    <3>2. [tokens[r] EXCEPT !.step = "waits"] \in TokenRow /\ [tokens[r] EXCEPT !.step = "waits"].cfg = cfg
          /\ [tokens[r] EXCEPT !.step = "waits"].step = "waits"
      BY <2>0 DEF TokenRow
    <3> DEFINE row == [tokens[r] EXCEPT !.step = "waits"]
    <3>3. tokens' = [tokens EXCEPT ![r] = row] /\ row \in TokenRow /\ row.cfg = cfg /\ row.step = "waits"
      BY <3>1, <3>2
    <3> HIDE DEF row
    <3>4. tokens' \in [Readers -> TokenRow] /\ \A s \in Readers : tokens'[s] = IF s = r THEN row ELSE tokens[s]
      BY <1>h, <3>3
    <3>5. UNCHANGED <<account, crossed>>
      BY <1>3 DEF GetsToken
    <3>6. renewal' \in RenewalRow /\ renewal'.epoch <= account.epoch
          /\ (renewal'.step # "none" => renewal'.box # NoBox /\ (renewal'.epoch = account.epoch => renewal'.box = account.refresh))
      <4>1. CASE renewal.step # "none"
        BY <4>1, <2>2, <1>h DEF TokensInv
      <4>2. CASE renewal.step = "none"
        <5>1. renewal' = [step |-> "asked", box |-> cfg.refresh, epoch |-> cfg.epoch]
          BY <4>2, <2>2
        <5> HIDE DEF cfg
        <5> QED
          BY <5>1, <2>0, <2>2 DEF RenewalRow
      <4> QED
        BY <4>1, <4>2
    <3>7. TokensInv'
      BY <1>h, <2>0, <3>3, <3>4, <3>5, <3>6 DEF TokensInv, MixHasCause
    <3>8. Connected' = Connected
      BY <3>5 DEF Connected
    <3> QED
      BY <1>h, <1>k, <3>4, <3>5, <3>6, <3>7, <3>8
  <2> QED
    BY <1>3, <2>1, <2>2 DEF GetsToken
<1>4. CASE Renews
  <2>0. UNCHANGED <<account, crossed>> /\ renewal.step = "asked"
    BY <1>4 DEF Renews
  <2>1. CASE renewal' = [renewal EXCEPT !.step = "given"] /\ UNCHANGED tokens
    <3>1. renewal' \in RenewalRow /\ renewal'.step = "given" /\ renewal'.box = renewal.box /\ renewal'.epoch = renewal.epoch
      BY <1>h, <2>1 DEF RenewalRow
    <3>2. TokensInv' /\ Connected' = Connected
      BY <1>h, <2>0, <2>1, <3>1 DEF TokensInv, MixHasCause, Connected
    <3> QED
      BY <1>h, <1>k, <2>0, <2>1, <3>1, <3>2
  <2>2. CASE renewal' = Unlocked /\ tokens' = Served
    <3>1. TokensInv' /\ Connected' = Connected
      BY <1>a, <1>h, <2>0, <2>2, ServedIs DEF TokensInv, MixHasCause, Connected
    <3> QED
      BY <1>h, <1>k, <2>0, <2>2, <3>1, ServedIs
  <2> QED
    BY <1>4, <2>1, <2>2 DEF Renews
<1>5. CASE StoresToken
  <2>1. /\ renewal.step = "given" /\ account' = [account EXCEPT !.access = renewal.box, !.due = FALSE]
        /\ crossed' = (renewal.epoch # account.epoch) /\ renewal' = Unlocked /\ tokens' = Served
    BY <1>5 DEF StoresToken
  <2>2. /\ account' \in AccountRow /\ account'.access = renewal.box /\ account'.refresh = account.refresh /\ account'.epoch = account.epoch
    BY <1>h, <1>r, <2>1, AccountIs
  <2>3. renewal.box # NoBox /\ (renewal.epoch = account.epoch => renewal.box = account.refresh)
        /\ (account.refresh # NoBox => account.access # NoBox)
    BY <1>h, <2>1 DEF TokensInv
  <2>4. TokensInv'
    <3>1. MixHasCause'
      BY <2>1, <2>2, <2>3 DEF MixHasCause
    <3>2. \A r \in Readers : tokens'[r].cfg.epoch <= account'.epoch
             /\ (tokens'[r].step = "read" /\ tokens'[r].cfg.epoch = account'.epoch => tokens'[r].cfg.refresh = account'.refresh)
      BY <2>1, <2>2, ServedIs
    <3>3. renewal'.epoch <= account'.epoch /\ renewal'.step = "none"
      BY <1>a, <2>1, <2>2, ServedIs
    <3>4. account'.refresh # NoBox => account'.access # NoBox
      BY <2>2, <2>3
    <3> QED
      BY <3>1, <3>2, <3>3, <3>4 DEF TokensInv
  <2>5. Connected' = Connected
    BY <2>2, <2>3 DEF Connected
  <2>6. crossed' \in BOOLEAN
    BY <2>1
  <2> QED
    BY <1>k, <2>1, <2>2, <2>4, <2>5, <2>6, ServedIs
<1> QED
  BY <1>1, <1>2, <1>3, <1>4, <1>5

\* Of a tab, what the page shows depends on.
LEMMA LooksTheSame ==
  ASSUME NEW t \in Tabs, ShowsIt(t), Connected' = Connected,
         tabs'[t].open = tabs[t].open, tabs'[t].odd = tabs[t].odd, tabs'[t].cached = tabs[t].cached, tabs'[t].kept = tabs[t].kept,
         tabs'[t].shown = tabs[t].shown, tabs'[t].cfg = tabs[t].cfg, tabs'[t].lastHook = tabs[t].lastHook, tabs'[t].lastCfg = tabs[t].lastCfg,
         Hooks(t)' = Hooks(t), Configs(t)' = Configs(t), Leaving(t)' = Leaving(t)
  PROVE  ShowsIt(t)'
<1> DEFINE hs == Hooks(t)
           cs == Configs(t)
<1>1. Told' = Told
  BY DEF Told
<1>2. BadgeInv(t) => BadgeInv(t)'
  BY <1>1 DEF BadgeInv, Fresh
<1>3. CardInv(t) => CardInv(t)'
  BY <1>1 DEF CardInv, Fresh
<1> QED
  BY <1>2, <1>3 DEF ShowsIt

LEMMA TabAside ==
  ASSUME NEW t \in Tabs, ShowsIt(t), Connected' = Connected, tabs'[t] = tabs[t], {q \in asks' : q.by = t} = {q \in asks : q.by = t}
  PROVE  ShowsIt(t)'
<1>1. \A q : q.by = t => (q \in asks' <=> q \in asks)
  OBVIOUS
<1>2. Hooks(t)' = Hooks(t) /\ Configs(t)' = Configs(t)
  BY <1>1 DEF Hooks, Configs
<1>3. Leaving(t)' = Leaving(t)
  BY <1>1 DEF Leaving
<1> QED
  BY <1>2, <1>3, LooksTheSame

\* An admin who is at the provider, or on the way back.
LEMMA HandoffMoves ==
  ASSUME MailInv, NEW h \in handoffs, NEW g \in HandoffRow, g.by = h.by, handoffs' = (handoffs \ {h}) \union {g},
         UNCHANGED <<account, tokens, renewal, crossed, tabs, asks, tally>>
  PROVE  MailInv'
<1>1. AwayInv'
  BY MailThere DEF AwayInv
<1>2. NumbersInv'
  BY MailThere DEF NumbersInv, Hooks, Configs
<1>3. TokensInv' /\ Connected' = Connected
  BY MailThere, TokensAside
<1>4. ShowsInv'
  BY <1>3, MailThere, TabAside DEF ShowsInv
<1>5. handoffs' \subseteq HandoffRow
  BY MailThere
<1> QED
  BY <1>1, <1>2, <1>3, <1>4, <1>5, MailThere, MailKept DEF PagesInv

LEMMA HandoffsKeepMail ==
  ASSUME MailInv, NEW h \in handoffs, Exchange(h) \/ Ages(h) \/ Consents(h)
  PROVE  MailInv'
<1>h. h \in HandoffRow
  BY MailThere
<1>1. [h EXCEPT !.step = "exchanged"] \in HandoffRow /\ [h EXCEPT !.step = "exchanged"].by = h.by
  BY <1>h DEF HandoffRow
<1>2. \A b \in AnyBox, s \in {"back", "called"} : [h EXCEPT !.step = s, !.box = b] \in HandoffRow /\ [h EXCEPT !.step = s, !.box = b].by = h.by
  BY <1>h DEF HandoffRow
<1>3. [h EXCEPT !.old = TRUE] \in HandoffRow /\ [h EXCEPT !.old = TRUE].by = h.by
  BY <1>h DEF HandoffRow
<1>n. NoBox \in AnyBox
  BY DEF AnyBox
<1>4. UNCHANGED <<account, tokens, renewal, crossed, tabs, asks, tally>>
  BY DEF Exchange, Ages, Consents, tokenVars, pageRest
<1>5. \E g \in HandoffRow : g.by = h.by /\ handoffs' = (handoffs \ {h}) \union {g}
  <2>1. CASE Exchange(h)
    BY <2>1, <1>1, <1>2, <1>n DEF Exchange
  <2>2. CASE Ages(h)
    BY <2>2, <1>3 DEF Ages
  <2>3. CASE Consents(h)
    <3>1. PICK b \in AnyBox : handoffs' = (handoffs \ {h}) \union {[h EXCEPT !.step = IF b = NoBox THEN "back" ELSE "called", !.box = b]}
      BY <2>3 DEF Consents, AnyBox
    <3>2. CASE b = NoBox
      BY <3>1, <3>2, <1>2
    <3>3. CASE b # NoBox
      BY <3>1, <3>3, <1>2
    <3> QED
      BY <3>2, <3>3
  <2> QED
    BY <2>1, <2>2, <2>3
<1> QED
  BY <1>4, <1>5, HandoffMoves

\* A request that is answered, or fails.
LEMMA AskMoves ==
  ASSUME MailInv, NEW q \in asks, NEW r \in AskRow, q.step = "sent", r.no = q.no, r.by = q.by, r.op = q.op, Fresh(r),
         asks' = (asks \ {q}) \union {r},
         UNCHANGED <<account, tokens, renewal, crossed, tabs, handoffs, tally>>
  PROVE  MailInv'
<1>1. AwayInv'
  BY MailThere DEF AwayInv
<1>2. NumbersInv'
  <2>1. \A p \in asks' : p = r \/ (p \in asks /\ p # q)
    OBVIOUS
  <2>2. NumbersInv
    BY MailThere
  <2>3. \A p \in asks' : p.no \in 1..tally'.fetches
    BY <2>1, <2>2 DEF NumbersInv
  <2>4. \A p, s \in asks' : p.no = s.no => p = s
    BY <2>1, <2>2 DEF NumbersInv
  <2>5. ASSUME NEW t \in Tabs
        PROVE  /\ tabs'[t].lastHook <= tabs'[t].cached /\ tabs'[t].cached <= tally'.fetches /\ tabs'[t].lastCfg <= tally'.fetches
               /\ \A p \in Hooks(t)' : p.no <= tabs'[t].cached /\ p.no # tabs'[t].lastHook
               /\ \A p \in Configs(t)' : p.no # tabs'[t].lastCfg
    <3>1. \A p \in Hooks(t)' : \E s \in Hooks(t) : s.no = p.no
      BY <2>1 DEF Hooks
    <3>2. \A p \in Configs(t)' : \E s \in Configs(t) : s.no = p.no
      BY <2>1 DEF Configs
    <3> QED
      BY <2>2, <3>1, <3>2 DEF NumbersInv
  <2> QED
    BY <2>3, <2>4, <2>5 DEF NumbersInv
<1>3. TokensInv' /\ Connected' = Connected
  BY MailThere, TokensAside
<1>4. ASSUME NEW t \in Tabs PROVE ShowsIt(t)'
  <2>0. ShowsIt(t) /\ Told' = Told
    BY <1>3, MailThere DEF ShowsInv, Told
  <2>1. CASE t # q.by
    BY <1>3, <2>0, <2>1, TabAside
  <2>2. CASE t = q.by
    <3>1. Leaving(t) => Leaving(t)'
      BY DEF Leaving
    <3>2. BadgeInv(t) => BadgeInv(t)'
      <4>1. ASSUME NEW p \in Hooks(t), p.no = tabs[t].cached, Fresh(p)
            PROVE  \E s \in Hooks(t)' : s.no = tabs'[t].cached /\ Fresh(s)'
        <5>1. CASE p = q
          <6>1. r \in Hooks(t)' /\ Fresh(r)'
            BY <1>3, <4>1, <5>1 DEF Hooks, Fresh
          <6> QED
            BY <6>1, <5>1, <4>1
        <5>2. CASE p # q
          <6>1. p \in Hooks(t)' /\ Fresh(p)'
            BY <1>3, <4>1, <5>2 DEF Hooks, Fresh
          <6> QED
            BY <6>1, <4>1
        <5> QED
          BY <5>1, <5>2
      <4> QED
        BY <1>3, <2>0, <4>1 DEF BadgeInv
    <3>3. CardInv(t) => CardInv(t)'
      <4>0. \A p \in Configs(t)' : \E s \in Configs(t) : s.no = p.no
        BY DEF Configs
      <4>1. ASSUME NEW p \in Configs(t), p.no > tabs[t].lastCfg, Fresh(p), \A s \in Configs(t) : s.no <= p.no
            PROVE  \E s \in Configs(t)' : s.no > tabs'[t].lastCfg /\ Fresh(s)' /\ \A x \in Configs(t)' : x.no <= s.no
        <5>1. CASE p = q
          <6>1. r \in Configs(t)' /\ Fresh(r)' /\ r.no = p.no
            BY <1>3, <4>1, <5>1 DEF Configs, Fresh
          <6> QED
            BY <6>1, <4>0, <4>1
        <5>2. CASE p # q
          <6>1. p \in Configs(t)' /\ Fresh(p)'
            BY <1>3, <4>1, <5>2 DEF Configs, Fresh
          <6> QED
            BY <6>1, <4>0, <4>1
        <5> QED
          BY <5>1, <5>2
      <4>2. CASE tabs[t].cfg = Told /\ \A p \in Configs(t) : p.no < tabs[t].lastCfg
        <5>1. tabs'[t].cfg = Told' /\ \A p \in Configs(t)' : p.no < tabs'[t].lastCfg
          BY <2>0, <4>0, <4>2
        <5> QED
          BY <5>1 DEF CardInv
      <4> QED
        BY <4>1, <4>2 DEF CardInv
    <3> QED
      BY <2>0, <3>1, <3>2, <3>3 DEF ShowsIt
  <2> QED
    BY <2>1, <2>2
<1>5. ShowsInv' /\ asks' \subseteq AskRow
  BY <1>4, MailThere DEF ShowsInv
<1> QED
  BY <1>1, <1>2, <1>3, <1>5, MailThere, MailKept DEF PagesInv

LEMMA AnswersKeepMail ==
  ASSUME MailInv, NEW q \in asks, ReadsAccount(q) \/ RequestFails(q)
  PROVE  MailInv'
<1>h. q \in AskRow /\ account \in AccountRow
  BY MailThere
<1>c. Connected \in BOOLEAN
  BY DEF Connected
<1>1. UNCHANGED <<account, tokens, renewal, crossed, tabs, handoffs, tally>>
  BY DEF ReadsAccount, RequestFails, tokenVars
<1>2. CASE ReadsAccount(q)
  <2> DEFINE r == [q EXCEPT !.step = "answered", !.value = Connected]
  <2>1. r \in AskRow /\ r.no = q.no /\ r.by = q.by /\ r.op = q.op /\ r.value = Connected
    BY <1>h, <1>c DEF AskRow
  <2>2. q.step = "sent" /\ asks' = (asks \ {q}) \union {r}
    BY <1>2 DEF ReadsAccount
  <2> HIDE DEF r
  <2>3. Fresh(r)
    BY <2>1 DEF Fresh
  <2> QED
    BY <1>1, <2>1, <2>2, <2>3, AskMoves
<1>3. CASE RequestFails(q)
  <2> DEFINE r == [q EXCEPT !.step = "failed"]
  <2>1. r \in AskRow /\ r.no = q.no /\ r.by = q.by /\ r.op = q.op /\ r.step = "failed"
    BY <1>h DEF AskRow
  <2>2. q.step = "sent" /\ asks' = (asks \ {q}) \union {r}
    BY <1>3 DEF RequestFails
  <2> HIDE DEF r
  <2>3. Fresh(r)
    BY <2>1 DEF Fresh
  <2> QED
    BY <1>1, <2>1, <2>2, <2>3, AskMoves
<1> QED
  BY <1>2, <1>3

\* Another mailbox, or none, takes the place of the one that was there.
LEMMA Replaces ==
  ASSUME MailInv, NEW b \in AnyBox, account' = Held(b, account.epoch + 1), crossed' = FALSE, UNCHANGED <<tokens, renewal>>
  PROVE  account' \in AccountRow /\ TokensInv'
<1>1. account.epoch \in Nat /\ account.epoch + 1 \in Nat
  <2>1. account.epoch \in Nat
    BY MailThere, AccountIs
  <2> QED
    BY <2>1
<1>2. account' \in AccountRow /\ account'.access = b /\ account'.refresh = b /\ account'.epoch = account.epoch + 1
  BY <1>1, HeldIs
<1>3. \A r \in Readers : tokens[r].cfg.epoch \in Nat
  BY MailThere DEF TokenRow, AccountRow
<1>4. renewal.epoch \in Nat
  BY MailThere DEF RenewalRow
<1>5. \A r \in Readers : tokens'[r].cfg.epoch < account'.epoch
  BY <1>1, <1>2, <1>3, MailThere DEF TokensInv
<1>6. renewal'.epoch < account'.epoch
  BY <1>1, <1>2, <1>4, MailThere DEF TokensInv
<1>7. MixHasCause' /\ (account'.refresh # NoBox => account'.access # NoBox)
  BY <1>2 DEF MixHasCause
<1>8. renewal'.step # "none" => renewal'.box # NoBox
  BY MailThere DEF TokensInv
<1> QED
  BY <1>1, <1>2, <1>3, <1>4, <1>5, <1>6, <1>7, <1>8 DEF TokensInv

LEMMA OthersAreOdd ==
  ASSUME MailInv, NEW t \in Tabs, OthersOdd(t)
  PROVE  /\ tabs' \in [Tabs -> TabRow] /\ tabs'[t] = tabs[t]
         /\ \A u \in Tabs : u # t => tabs'[u].odd
         /\ \A u \in Tabs : /\ tabs'[u].open = tabs[u].open /\ tabs'[u].cached = tabs[u].cached /\ tabs'[u].cfg = tabs[u].cfg
                            /\ tabs'[u].asking = tabs[u].asking /\ tabs'[u].lastHook = tabs[u].lastHook /\ tabs'[u].lastCfg = tabs[u].lastCfg
<1>1. \A u \in Tabs : tabs[u] \in TabRow
  BY MailThere
<1>2. \A u \in Tabs : tabs'[u] = IF u = t THEN tabs[u] ELSE [tabs[u] EXCEPT !.odd = TRUE]
  BY DEF OthersOdd
<1>3. ASSUME NEW u \in Tabs
      PROVE  LET b == [tabs[u] EXCEPT !.odd = TRUE]
             IN b \in TabRow /\ b.odd /\ b.open = tabs[u].open /\ b.cached = tabs[u].cached /\ b.cfg = tabs[u].cfg /\ b.asking = tabs[u].asking
                /\ b.lastHook = tabs[u].lastHook /\ b.lastCfg = tabs[u].lastCfg
  BY <1>1 DEF TabRow
<1>4. tabs' \in [Tabs -> TabRow]
  BY <1>1, <1>3 DEF OthersOdd
<1> QED
  BY <1>2, <1>3, <1>4

LEMMA ConnectKeepsMail ==
  ASSUME MailInv, NEW h \in handoffs, Connect(h)
  PROVE  MailInv'
<1> DEFINE g == [h EXCEPT !.step = "back"]
<1>1. h \in HandoffRow /\ h.box \in AnyBox /\ h.by \in Tabs /\ g \in HandoffRow /\ g.by = h.by
  <2>1. h \in HandoffRow
    BY MailThere
  <2> QED
    BY <2>1 DEF HandoffRow
<1>2. /\ account' = Held(h.box, account.epoch + 1) /\ crossed' = FALSE /\ handoffs' = (handoffs \ {h}) \union {g}
      /\ OthersOdd(h.by) /\ UNCHANGED <<tokens, renewal, asks>>
      /\ tally' = [tally EXCEPT !.writes = @ + 1]
  BY DEF Connect, Changes, tokenVars
<1> HIDE DEF g
<1>3. tally' \in [writes : Nat, fetches : Nat] /\ tally'.fetches = tally.fetches
  <2>1. tally \in [writes : Nat, fetches : Nat]
    BY MailThere
  <2> QED
    BY <1>2, <2>1
<1>4. /\ tabs' \in [Tabs -> TabRow] /\ tabs'[h.by] = tabs[h.by]
      /\ \A u \in Tabs : u # h.by => tabs'[u].odd
      /\ \A u \in Tabs : /\ tabs'[u].open = tabs[u].open /\ tabs'[u].cached = tabs[u].cached /\ tabs'[u].cfg = tabs[u].cfg
                         /\ tabs'[u].asking = tabs[u].asking /\ tabs'[u].lastHook = tabs[u].lastHook /\ tabs'[u].lastCfg = tabs[u].lastCfg
  BY <1>1, <1>2, OthersAreOdd
<1>5. asks \subseteq AskRow /\ (\A q \in asks : q.by \in Tabs) /\ handoffs' \subseteq HandoffRow /\ \A f \in handoffs : f.by \in Tabs
  BY <1>1, <1>2, MailThere DEF AskRow, HandoffRow
<1>6. AwayInv'
  <2>1. AwayInv
    BY MailThere
  <2>2. (\A q \in asks' : tabs'[q.by].open) /\ \A t \in Tabs : ~tabs'[t].open => tabs'[t].cfg = "unknown" /\ ~tabs'[t].asking
    BY <1>2, <1>4, <1>5, <2>1 DEF AwayInv
  <2>3. \A f \in handoffs' : f.by \in Tabs /\ ~tabs'[f.by].open
    BY <1>1, <1>2, <1>4, <1>5, <2>1 DEF AwayInv
  <2>4. \A f, k \in handoffs' : f.by = k.by => f = k
    BY <1>1, <1>2, <2>1 DEF AwayInv
  <2> QED
    BY <2>2, <2>3, <2>4 DEF AwayInv
<1>7. NumbersInv'
  BY <1>2, <1>3, <1>4, MailThere DEF NumbersInv, Hooks, Configs
<1>8. ShowsInv'
  <2>1. ~tabs[h.by].open
    BY MailThere DEF AwayInv
  <2> QED
    BY <1>4, <2>1 DEF ShowsInv, ShowsIt
<1>9. account' \in AccountRow /\ TokensInv'
  BY <1>1, <1>2, Replaces
<1> QED
  BY <1>2, <1>3, <1>4, <1>5, <1>6, <1>7, <1>8, <1>9, MailThere, MailKept DEF PagesInv

LEMMA DisconnectsKeepMail ==
  ASSUME MailInv, NEW q \in asks, Disconnects(q)
  PROVE  MailInv'
<1> DEFINE r == [q EXCEPT !.step = "answered"]
<1>1. q \in AskRow /\ q.by \in Tabs /\ r \in AskRow /\ r.by = q.by /\ r.no = q.no /\ r.op = "disconnect" /\ r.step = "answered"
  <2>1. q \in AskRow /\ q.op = "disconnect"
    BY MailThere DEF Disconnects
  <2> QED
    BY <2>1 DEF AskRow
<1>2. /\ account' = Held(NoBox, account.epoch + 1) /\ crossed' = FALSE /\ asks' = (asks \ {q}) \union {r}
      /\ OthersOdd(q.by) /\ UNCHANGED <<tokens, renewal, handoffs>>
      /\ tally' = [tally EXCEPT !.writes = @ + 1] /\ q.op = "disconnect"
  BY DEF Disconnects, Changes, tokenVars
<1> HIDE DEF r
<1>3. tally' \in [writes : Nat, fetches : Nat] /\ tally'.fetches = tally.fetches
  <2>1. tally \in [writes : Nat, fetches : Nat]
    BY MailThere
  <2> QED
    BY <1>2, <2>1
<1>4. /\ tabs' \in [Tabs -> TabRow] /\ tabs'[q.by] = tabs[q.by]
      /\ \A u \in Tabs : u # q.by => tabs'[u].odd
      /\ \A u \in Tabs : /\ tabs'[u].open = tabs[u].open /\ tabs'[u].cached = tabs[u].cached /\ tabs'[u].cfg = tabs[u].cfg
                         /\ tabs'[u].asking = tabs[u].asking /\ tabs'[u].lastHook = tabs[u].lastHook /\ tabs'[u].lastCfg = tabs[u].lastCfg
  BY <1>1, <1>2, OthersAreOdd
<1>5. asks' \subseteq AskRow /\ (\A p \in asks : p.by \in Tabs) /\ \A f \in handoffs : f.by \in Tabs
  BY <1>1, <1>2, MailThere DEF AskRow, HandoffRow
<1>6. AwayInv'
  <2>1. AwayInv
    BY MailThere
  <2> QED
    BY <1>1, <1>2, <1>4, <1>5, <2>1 DEF AwayInv
<1>7. NumbersInv'
  <2>1. NumbersInv
    BY MailThere
  <2>2. (\A t \in Tabs : Hooks(t)' = Hooks(t)) /\ \A t \in Tabs : Configs(t)' = Configs(t)
    BY <1>1, <1>2 DEF Hooks, Configs
  <2>3. (\A p \in asks' : p.no \in 1..tally'.fetches) /\ \A p, s \in asks' : p.no = s.no => p = s
    BY <1>1, <1>2, <1>3, <2>1 DEF NumbersInv
  <2> QED
    BY <1>3, <1>4, <2>1, <2>2, <2>3 DEF NumbersInv
<1>8. ShowsInv'
  <2>1. Leaving(q.by)'
    BY <1>1, <1>2 DEF Leaving
  <2> QED
    BY <1>4, <2>1 DEF ShowsInv, ShowsIt
<1>9. account' \in AccountRow /\ TokensInv'
  BY <1>2, Replaces DEF AnyBox
<1> QED
  BY <1>2, <1>3, <1>4, <1>5, <1>6, <1>7, <1>8, <1>9, MailThere, MailKept DEF PagesInv

LEMMA AskIs ==
  ASSUME NEW n \in Nat, NEW t \in Tabs, NEW op \in {"hook", "config", "start", "disconnect"}
  PROVE  /\ Ask(n, t, op) \in AskRow /\ Ask(n, t, op).no = n /\ Ask(n, t, op).by = t /\ Ask(n, t, op).op = op
         /\ Ask(n, t, op).step = "sent"
BY DEF AskRow, Ask

LEMMA Spent ==
  ASSUME MailInv, NEW n \in Nat, Spends(n)
  PROVE  tally' \in [writes : Nat, fetches : Nat] /\ tally'.fetches = tally.fetches + n /\ tally.fetches \in Nat /\ Next1 \in Nat
<1>1. tally \in [writes : Nat, fetches : Nat] /\ tally.fetches \in Nat
  BY MailThere
<1>2. tally.fetches + n \in Nat /\ Next1 \in Nat
  BY <1>1 DEF Next1
<1>3. tally' = [tally EXCEPT !.fetches = tally.fetches + n]
  BY DEF Spends
<1> QED
  BY <1>1, <1>2, <1>3

\* A page that asks both questions anew, and remembers which answer it will keep.
LEMMA AsksAnew ==
  ASSUME MailInv, NEW t \in Tabs, NEW row \in TabRow, NEW old, old \subseteq asks, \A q \in asks : q.by # t => q \in old,
         row.open, row.cached = Next1,
         row.lastHook <= tally.fetches, row.lastCfg <= tally.fetches,
         \A q \in old : q.by = t => (q.op = "hook" => q.no # row.lastHook) /\ (q.op = "config" => q.no # row.lastCfg),
         \A h \in handoffs' : h \in handoffs /\ h.by # t,
         Puts(t, row), asks' = old \union FirstAsks(t), Spends(2), UNCHANGED <<account, tokens, renewal, crossed>>
  PROVE  MailInv'
<1>s. /\ tally' \in [writes : Nat, fetches : Nat] /\ tally'.fetches = tally.fetches + 2 /\ tally.fetches \in Nat /\ Next1 \in Nat
      /\ Next1 = tally.fetches + 1
  <2>1. 2 \in Nat
    OBVIOUS
  <2> QED
    BY <2>1, Spent DEF Next1
<1>r. row.lastHook \in Nat /\ row.lastCfg \in Nat
  BY DEF TabRow
<1>0. PICK a \in AskRow, c \in AskRow :
        /\ a.no = Next1 /\ a.by = t /\ a.op = "hook" /\ a.step = "sent"
        /\ c.no = Next1 + 1 /\ c.by = t /\ c.op = "config" /\ c.step = "sent"
        /\ asks' = old \union {a, c}
  <2> DEFINE a == Ask(Next1, t, "hook")
             c == Ask(Next1 + 1, t, "config")
  <2>1. asks' = old \union {a, c}
    BY DEF FirstAsks
  <2>2. Next1 + 1 \in Nat
    BY <1>s
  <2>3. /\ a \in AskRow /\ a.no = Next1 /\ a.by = t /\ a.op = "hook" /\ a.step = "sent"
        /\ c \in AskRow /\ c.no = Next1 + 1 /\ c.by = t /\ c.op = "config" /\ c.step = "sent"
    BY <1>s, <2>2, AskIs
  <2> HIDE DEF a, c
  <2> QED
    BY <2>1, <2>3
<1>1. asks' = old \union {a, c}
  BY <1>0
<1>2. /\ a \in AskRow /\ a.no = Next1 /\ a.by = t /\ a.op = "hook" /\ a.step = "sent"
      /\ c \in AskRow /\ c.no = Next1 + 1 /\ c.by = t /\ c.op = "config" /\ c.step = "sent"
  BY <1>0
<1>3. tabs' \in [Tabs -> TabRow] /\ \A u \in Tabs : tabs'[u] = IF u = t THEN row ELSE tabs[u]
  BY MailThere DEF Puts
<1>4. \A q \in old : q \in AskRow /\ q.by \in Tabs /\ q.no \in Nat /\ q.no >= 1 /\ q.no <= tally.fetches
  <2>1. \A q \in old : q \in AskRow
    BY MailThere
  <2>2. \A q \in old : q.no \in 1..tally.fetches
    BY MailThere DEF NumbersInv
  <2> QED
    BY <1>s, <2>1, <2>2 DEF AskRow
<1>5. asks' \subseteq AskRow /\ handoffs' \subseteq HandoffRow /\ \A h \in handoffs : h.by \in Tabs
  BY <1>1, <1>2, <1>4, MailThere DEF HandoffRow
<1>6. AwayInv'
  <2>1. AwayInv
    BY MailThere
  <2>2. \A q \in asks' : tabs'[q.by].open
    BY <1>1, <1>2, <1>3, <1>4, <2>1 DEF AwayInv
  <2>3. \A u \in Tabs : ~tabs'[u].open => tabs'[u].cfg = "unknown" /\ ~tabs'[u].asking
    BY <1>3, <2>1 DEF AwayInv
  <2>4. (\A h \in handoffs' : ~tabs'[h.by].open) /\ \A h, g \in handoffs' : h.by = g.by => h = g
    BY <1>3, <1>5, <2>1 DEF AwayInv
  <2> QED
    BY <2>2, <2>3, <2>4 DEF AwayInv
<1>7. NumbersInv'
  <2>1. NumbersInv
    BY MailThere
  <2>2. \A q \in asks' : q.no \in 1..tally'.fetches
    BY <1>s, <1>1, <1>2, <1>4
  <2>3. ASSUME NEW p \in asks', NEW q \in asks', p.no = q.no PROVE p = q
    <3>1. CASE p \in old /\ q \in old
      BY <2>1, <2>3, <3>1 DEF NumbersInv
    <3>2. CASE p \in {a, c} /\ q \in {a, c}
      BY <1>s, <1>2, <2>3, <3>2
    <3>3. CASE p \in old /\ q \in {a, c}
      BY <1>s, <1>2, <1>4, <2>3, <3>3
    <3>4. CASE p \in {a, c} /\ q \in old
      BY <1>s, <1>2, <1>4, <2>3, <3>4
    <3> QED
      BY <1>1, <3>1, <3>2, <3>3, <3>4
  <2>4. ASSUME NEW u \in Tabs
        PROVE  /\ tabs'[u].lastHook <= tabs'[u].cached /\ tabs'[u].cached <= tally'.fetches /\ tabs'[u].lastCfg <= tally'.fetches
               /\ \A p \in Hooks(u)' : p.no <= tabs'[u].cached /\ p.no # tabs'[u].lastHook
               /\ \A p \in Configs(u)' : p.no # tabs'[u].lastCfg
    <3>0. tabs[u].lastHook \in Nat /\ tabs[u].lastCfg \in Nat /\ tabs[u].cached \in Nat
      BY MailThere DEF TabRow
    <3>1. CASE u # t
      <4>1. Hooks(u)' \subseteq Hooks(u) /\ Configs(u)' \subseteq Configs(u)
        BY <1>1, <1>2, <3>1 DEF Hooks, Configs
      <4>2. tabs'[u] = tabs[u]
        BY <1>3, <3>1
      <4> QED
        BY <1>s, <2>1, <3>0, <4>1, <4>2 DEF NumbersInv
    <3>2. CASE u = t
      <4>1. tabs'[u] = row
        BY <1>3, <3>2
      <4>2. row.lastHook <= Next1 /\ Next1 <= tally'.fetches /\ row.lastCfg <= tally'.fetches
        BY <1>s, <1>r
      <4>3. ASSUME NEW p \in Hooks(u)' PROVE p.no <= Next1 /\ p.no # row.lastHook
        <5>1. p = a \/ (p \in old /\ p.by = t /\ p.op = "hook")
          BY <1>1, <1>2, <3>2 DEF Hooks
        <5> QED
          BY <1>s, <1>r, <1>2, <1>4, <5>1
      <4>4. ASSUME NEW p \in Configs(u)' PROVE p.no # row.lastCfg
        <5>1. p = c \/ (p \in old /\ p.by = t /\ p.op = "config")
          BY <1>1, <1>2, <3>2 DEF Configs
        <5> QED
          BY <1>s, <1>r, <1>2, <1>4, <5>1
      <4> QED
        BY <4>1, <4>2, <4>3, <4>4
    <3> QED
      BY <3>1, <3>2
  <2> QED
    BY <2>2, <2>3, <2>4 DEF NumbersInv
<1>8. TokensInv' /\ Connected' = Connected
  BY MailThere, TokensAside
<1>9. ASSUME NEW u \in Tabs PROVE ShowsIt(u)'
  <2>1. CASE u # t
    <3>1. {q \in asks' : q.by = u} = {q \in asks : q.by = u}
      BY <1>1, <1>2, <2>1
    <3>2. ShowsIt(u) /\ tabs'[u] = tabs[u]
      BY <1>3, <2>1, MailThere DEF ShowsInv
    <3> QED
      BY <1>8, <3>1, <3>2, TabAside
  <2>2. CASE u = t
    <3>1. tabs'[u] = row
      BY <1>3, <2>2
    <3>2. BadgeInv(u)'
      <4>1. a \in Hooks(u)' /\ Fresh(a)' /\ a.no = tabs'[u].cached
        BY <1>1, <1>2, <2>2, <3>1 DEF Hooks, Fresh
      <4> QED
        BY <4>1 DEF BadgeInv
    <3>3. CardInv(u)'
      <4>1. c \in Configs(u)' /\ Fresh(c)' /\ c.no > tabs'[u].lastCfg
        BY <1>s, <1>r, <1>1, <1>2, <2>2, <3>1 DEF Configs, Fresh
      <4>2. ASSUME NEW p \in Configs(u)' PROVE p.no <= c.no
        <5>1. p = c \/ p \in old
          BY <1>1, <1>2 DEF Configs
        <5> QED
          BY <1>s, <1>2, <1>4, <5>1
      <4> QED
        BY <4>1, <4>2 DEF CardInv
    <3> QED
      BY <3>2, <3>3 DEF ShowsIt
  <2> QED
    BY <2>1, <2>2
<1>10. ShowsInv'
  BY <1>9 DEF ShowsInv
<1> QED
  BY <1>s, <1>3, <1>5, <1>6, <1>7, <1>8, <1>10, MailThere, MailKept DEF PagesInv

\* A page that has no answer yet.
Clean(row) == row.open /\ row.cached = Next1 /\ row.lastHook = 0 /\ row.lastCfg = 0

LEMMA FreshPageIs ==
  ASSUME MailInv
  PROVE  /\ FreshPage \in TabRow /\ Clean(FreshPage)
         /\ \A e \in BOOLEAN : LET row == [FreshPage EXCEPT !.error = e] IN row \in TabRow /\ Clean(row)
<1>1. Next1 \in Nat
  <2>1. tally.fetches \in Nat
    BY MailThere
  <2> QED
    BY <2>1 DEF Next1
<1> DEFINE n == Next1
<1>2. n \in Nat /\ FreshPage = [Tab EXCEPT !.open = TRUE, !.cached = n]
  BY <1>1 DEF FreshPage
<1> HIDE DEF n
<1>3. FreshPage \in TabRow /\ FreshPage.open /\ FreshPage.cached = n /\ FreshPage.lastHook = 0 /\ FreshPage.lastCfg = 0
  BY <1>2 DEF Tab, TabRow
<1> DEFINE f == FreshPage
<1>4. f \in TabRow /\ f.open /\ f.cached = n /\ f.lastHook = 0 /\ f.lastCfg = 0
  BY <1>3
<1> HIDE DEF f
<1>5. ASSUME NEW e \in BOOLEAN
      PROVE  LET row == [f EXCEPT !.error = e] IN row \in TabRow /\ row.open /\ row.cached = n /\ row.lastHook = 0 /\ row.lastCfg = 0
  BY <1>4 DEF TabRow
<1> QED
  BY <1>3, <1>5 DEF Clean, f, n

LEMMA OpenedPageAsks ==
  ASSUME MailInv, NEW t \in Tabs, NEW row \in TabRow, Clean(row), ~tabs[t].open,
         \A h \in handoffs' : h \in handoffs /\ h.by # t,
         Puts(t, row), asks' = asks \union FirstAsks(t), Spends(2), UNCHANGED <<account, tokens, renewal, crossed>>
  PROVE  MailInv'
<1>1. row.open /\ row.cached = Next1 /\ row.lastHook = 0 /\ row.lastCfg = 0
  BY DEF Clean
<1>2. tally.fetches \in Nat
  BY MailThere
<1>3. row.lastHook <= tally.fetches /\ row.lastCfg <= tally.fetches
  BY <1>1, <1>2
<1>4. \A q \in asks : q.by # t
  BY MailThere DEF AwayInv
<1> QED
  BY <1>1, <1>3, <1>4, AsksAnew

LEMMA OpensSettingsKeepsMail ==
  ASSUME MailInv, NEW t \in Tabs, OpensSettings(t)
  PROVE  MailInv'
<1>1. /\ ~tabs[t].open /\ (\A h \in handoffs' : h \in handoffs /\ h.by # t) /\ Puts(t, FreshPage)
      /\ asks' = asks \union FirstAsks(t) /\ Spends(2) /\ UNCHANGED <<account, tokens, renewal, crossed>>
  BY DEF OpensSettings, Away, pageRest, tokenVars
<1>2. FreshPage \in TabRow /\ Clean(FreshPage)
  BY FreshPageIs
<1> QED
  BY <1>1, <1>2, OpenedPageAsks

LEMMA ComesBackKeepsMail ==
  ASSUME MailInv, NEW h \in handoffs, ComesBack(h)
  PROVE  MailInv'
<1>1. (h.box = NoBox) \in BOOLEAN /\ h.by \in Tabs
  BY MailThere DEF HandoffRow
<1> DEFINE e == (h.box = NoBox)
           row == [FreshPage EXCEPT !.error = e]
<1>2. /\ Puts(h.by, row) /\ e \in BOOLEAN
      /\ asks' = asks \union FirstAsks(h.by) /\ Spends(2) /\ UNCHANGED <<account, tokens, renewal, crossed>> /\ handoffs' = handoffs \ {h}
  BY <1>1 DEF ComesBack, pageRest, tokenVars
<1> HIDE DEF e
<1>3. row \in TabRow /\ Clean(row)
  BY <1>2, FreshPageIs
<1> HIDE DEF row
<1>4. ~tabs[h.by].open /\ \A g \in handoffs' : g \in handoffs /\ g.by # h.by
  BY <1>2, MailThere DEF AwayInv
<1> QED
  BY <1>1, <1>2, <1>3, <1>4, OpenedPageAsks

LEMMA DisconnectAnswersKeepsMail ==
  ASSUME MailInv, NEW q \in asks, DisconnectAnswers(q)
  PROVE  MailInv'
<1> DEFINE t == q.by
           row == [tabs[t] EXCEPT !.busy = FALSE, !.asking = FALSE, !.cfg = "no", !.cached = Next1, !.kept = "none", !.odd = FALSE]
           old == asks \ {q}
<1>1. q \in AskRow /\ t \in Tabs
  BY MailThere DEF AskRow
<1>2. tabs[t] \in TabRow /\ tabs[t].open /\ Next1 \in Nat /\ tally.fetches \in Nat
  <2>1. tally.fetches \in Nat
    BY MailThere
  <2>2. tabs[t] \in TabRow /\ tabs[t].open
    BY <1>1, MailThere DEF AwayInv
  <2> QED
    BY <2>1, <2>2 DEF Next1
<1>3. row \in TabRow /\ row.open /\ row.cached = Next1 /\ row.lastHook = tabs[t].lastHook /\ row.lastCfg = tabs[t].lastCfg
  <2> DEFINE b == tabs[t]
             n == Next1
  <2>1. b \in TabRow /\ b.open /\ n \in Nat
    BY <1>2
  <2>2. row = [b EXCEPT !.busy = FALSE, !.asking = FALSE, !.cfg = "no", !.cached = n, !.kept = "none", !.odd = FALSE]
    OBVIOUS
  <2> HIDE DEF b, n
  <2>3. row \in TabRow /\ row.open /\ row.cached = n /\ row.lastHook = b.lastHook /\ row.lastCfg = b.lastCfg
    BY <2>1, <2>2 DEF TabRow
  <2> QED
    BY <2>3 DEF b, n
<1>4. /\ Puts(t, row) /\ asks' = old \union FirstAsks(t) /\ Spends(2) /\ UNCHANGED <<handoffs, account, tokens, renewal, crossed>>
      /\ q.op = "disconnect"
  BY DEF DisconnectAnswers, pageRest, tokenVars
<1>5. \A h \in handoffs' : h \in handoffs /\ h.by # t
  BY <1>2, <1>4, MailThere DEF AwayInv
<1>6. old \subseteq asks /\ \A p \in asks : p.by # t => p \in old
  OBVIOUS
<1>7. \A p \in old : p \in asks /\ p # q
  OBVIOUS
<1> HIDE DEF row, old
<1>8. row.lastHook <= tally.fetches /\ row.lastCfg <= tally.fetches
  <2>1. tabs[t].lastHook <= tabs[t].cached /\ tabs[t].cached <= tally.fetches /\ tabs[t].lastCfg <= tally.fetches
    BY <1>1, MailThere DEF NumbersInv
  <2>2. tabs[t].lastHook \in Nat /\ tabs[t].cached \in Nat
    BY <1>2 DEF TabRow
  <2> QED
    BY <1>2, <1>3, <2>1, <2>2
<1>9. \A p \in old : p.by = t => (p.op = "hook" => p.no # row.lastHook) /\ (p.op = "config" => p.no # row.lastCfg)
  BY <1>1, <1>3, <1>7, MailThere DEF NumbersInv, Hooks, Configs
<1> QED
  BY <1>1, <1>3, <1>4, <1>5, <1>6, <1>8, <1>9, AsksAnew

\* A page that asks one question more, of a kind that the badge does not wait for.
LEMMA AsksOnce ==
  ASSUME MailInv, NEW t \in Tabs, NEW row \in TabRow, NEW op \in {"config", "start", "disconnect"}, NEW old, old \subseteq asks,
         tabs[t].open, row.open = tabs[t].open, row.cached = tabs[t].cached, row.lastHook = tabs[t].lastHook, row.lastCfg = tabs[t].lastCfg,
         Puts(t, row), asks' = old \union {Ask(Next1, t, op)}, Spends(1), UNCHANGED handoffs
  PROVE  /\ tabs' \in [Tabs -> TabRow] /\ (\A u \in Tabs : tabs'[u] = IF u = t THEN row ELSE tabs[u])
         /\ asks' \subseteq AskRow /\ tally' \in [writes : Nat, fetches : Nat] /\ AwayInv' /\ NumbersInv'
<1>s. tally' \in [writes : Nat, fetches : Nat] /\ tally'.fetches = tally.fetches + 1 /\ tally.fetches \in Nat /\ Next1 \in Nat
      /\ Next1 = tally.fetches + 1
  <2>1. 1 \in Nat
    OBVIOUS
  <2> QED
    BY <2>1, Spent DEF Next1
<1>0. PICK a \in AskRow : a.no = Next1 /\ a.by = t /\ a.op = op /\ asks' = old \union {a}
  BY <1>s, AskIs
<1>1. tabs' \in [Tabs -> TabRow] /\ \A u \in Tabs : tabs'[u] = IF u = t THEN row ELSE tabs[u]
  BY MailThere DEF Puts
<1>2. \A q \in old : q \in AskRow /\ q.by \in Tabs /\ q.no \in Nat /\ q.no <= tally.fetches
  <2>1. \A q \in old : q \in AskRow
    BY MailThere
  <2>2. \A q \in old : q.no \in 1..tally.fetches
    BY MailThere DEF NumbersInv
  <2> QED
    BY <1>s, <2>1, <2>2 DEF AskRow
<1>3. asks' \subseteq AskRow
  BY <1>0, <1>2
<1>4. \A u \in Tabs : tabs'[u].open = tabs[u].open /\ tabs'[u].cached = tabs[u].cached /\ tabs'[u].lastHook = tabs[u].lastHook
                      /\ tabs'[u].lastCfg = tabs[u].lastCfg
  BY <1>1
<1>5. AwayInv'
  <2>1. AwayInv
    BY MailThere
  <2>2. \A q \in asks' : tabs'[q.by].open
    BY <1>0, <1>1, <1>2, <2>1 DEF AwayInv
  <2>3. \A u \in Tabs : ~tabs'[u].open => tabs'[u].cfg = "unknown" /\ ~tabs'[u].asking
    BY <1>1, <2>1 DEF AwayInv
  <2>4. \A h \in handoffs : h.by \in Tabs
    BY MailThere DEF HandoffRow
  <2>5. (\A h \in handoffs' : ~tabs'[h.by].open) /\ \A h, g \in handoffs' : h.by = g.by => h = g
    BY <1>4, <2>1, <2>4 DEF AwayInv
  <2> QED
    BY <2>2, <2>3, <2>5 DEF AwayInv
<1>6. NumbersInv'
  <2>1. NumbersInv
    BY MailThere
  <2>2. \A q \in asks' : q.no \in 1..tally'.fetches
    <3>1. \A q \in old : q.no \in 1..tally.fetches
      BY <2>1 DEF NumbersInv
    <3> QED
      BY <1>s, <1>0, <3>1
  <2>3. \A p, q \in asks' : p.no = q.no => p = q
    BY <1>s, <1>0, <1>2, <2>1 DEF NumbersInv
  <2>4. ASSUME NEW u \in Tabs
        PROVE  /\ tabs'[u].lastHook <= tabs'[u].cached /\ tabs'[u].cached <= tally'.fetches /\ tabs'[u].lastCfg <= tally'.fetches
               /\ \A p \in Hooks(u)' : p.no <= tabs'[u].cached /\ p.no # tabs'[u].lastHook
               /\ \A p \in Configs(u)' : p.no # tabs'[u].lastCfg
    <3>0. tabs[u].lastHook \in Nat /\ tabs[u].lastCfg \in Nat /\ tabs[u].cached \in Nat
      BY MailThere DEF TabRow
    <3>1. /\ tabs[u].lastHook <= tabs[u].cached /\ tabs[u].cached <= tally.fetches /\ tabs[u].lastCfg <= tally.fetches
          /\ \A p \in Hooks(u) : p.no <= tabs[u].cached /\ p.no # tabs[u].lastHook
          /\ \A p \in Configs(u) : p.no # tabs[u].lastCfg
      BY <2>1 DEF NumbersInv
    <3>2. Hooks(u)' \subseteq Hooks(u)
      BY <1>0 DEF Hooks
    <3>3. \A p \in Configs(u)' : p \in Configs(u) \/ p = a
      BY <1>0 DEF Configs
    <3>4. a.no # tabs[u].lastCfg
      BY <1>s, <1>0, <3>0, <3>1
    <3>5. tabs[u].cached <= tally'.fetches /\ tabs[u].lastCfg <= tally'.fetches
      BY <1>s, <3>0, <3>1
    <3> QED
      BY <1>4, <3>1, <3>2, <3>3, <3>4, <3>5
  <2> QED
    BY <2>2, <2>3, <2>4 DEF NumbersInv
<1> QED
  BY <1>s, <1>1, <1>3, <1>5, <1>6

LEMMA AskedThere ==
  ASSUME MailInv, NEW t \in Tabs, tabs[t].cfg # "unknown" \/ tabs[t].asking
  PROVE  tabs[t].open
BY MailThere DEF AwayInv

\* To connect or to disconnect: what the page shows stays as it is.
LEMMA PressKeepsMail ==
  ASSUME MailInv, NEW t \in Tabs, NEW b \in BOOLEAN, NEW op \in {"start", "disconnect"}, tabs[t].open,
         Puts(t, [tabs[t] EXCEPT !.busy = b]), asks' = asks \union {Ask(Next1, t, op)}, Spends(1),
         UNCHANGED <<handoffs, account, tokens, renewal, crossed>>
  PROVE  MailInv'
<1> DEFINE tab == tabs[t]
           row == [tab EXCEPT !.busy = b]
<1>1. tab \in TabRow
  BY MailThere
<1>2. tab.open /\ Puts(t, row)
  OBVIOUS
<1> HIDE DEF tab
<1>3. row \in TabRow /\ row.open = tab.open /\ row.odd = tab.odd /\ row.cached = tab.cached /\ row.kept = tab.kept /\ row.shown = tab.shown
      /\ row.cfg = tab.cfg /\ row.lastHook = tab.lastHook /\ row.lastCfg = tab.lastCfg
  BY <1>1 DEF TabRow
<1> HIDE DEF row
<1>4. /\ tabs' \in [Tabs -> TabRow] /\ (\A u \in Tabs : tabs'[u] = IF u = t THEN row ELSE tabs[u])
      /\ asks' \subseteq AskRow /\ tally' \in [writes : Nat, fetches : Nat] /\ AwayInv' /\ NumbersInv'
  <2>1. row.open = tabs[t].open /\ row.cached = tabs[t].cached /\ row.lastHook = tabs[t].lastHook /\ row.lastCfg = tabs[t].lastCfg
    BY <1>2, <1>3 DEF tab
  <2> QED
    BY <1>2, <1>3, <2>1, AsksOnce
<1>5. TokensInv' /\ Connected' = Connected
  BY MailThere, TokensAside
<1>6. PICK a \in AskRow : a.by = t /\ a.op = op /\ a.step = "sent" /\ asks' = asks \union {a}
  <2>1. Next1 \in Nat
    <3>1. 1 \in Nat
      OBVIOUS
    <3> QED
      BY <3>1, Spent
  <2> QED
    BY <2>1, AskIs
<1>7. ASSUME NEW u \in Tabs PROVE ShowsIt(u)'
  <2>1. ShowsIt(u)
    BY MailThere DEF ShowsInv
  <2>2. Hooks(u)' = Hooks(u) /\ Configs(u)' = Configs(u)
    BY <1>6 DEF Hooks, Configs
  <2>3. Leaving(u)' = Leaving(u)
    BY <1>6 DEF Leaving
  <2>4. /\ tabs'[u].open = tabs[u].open /\ tabs'[u].odd = tabs[u].odd /\ tabs'[u].cached = tabs[u].cached /\ tabs'[u].kept = tabs[u].kept
        /\ tabs'[u].shown = tabs[u].shown /\ tabs'[u].cfg = tabs[u].cfg /\ tabs'[u].lastHook = tabs[u].lastHook
        /\ tabs'[u].lastCfg = tabs[u].lastCfg
    BY <1>3, <1>4 DEF tab
  <2> QED
    BY <1>5, <2>1, <2>2, <2>3, <2>4, LooksTheSame
<1>8. ShowsInv'
  BY <1>7 DEF ShowsInv
<1> QED
  BY <1>4, <1>5, <1>8, MailThere, MailKept DEF PagesInv

LEMMA PressesKeepMail ==
  ASSUME MailInv, NEW t \in Tabs, PressConnect(t) \/ ConfirmDisconnect(t)
  PROVE  MailInv'
<1>h. tabs \in [Tabs -> TabRow] /\ tabs[t] \in TabRow
  BY MailThere
<1>0. UNCHANGED <<handoffs, account, tokens, renewal, crossed>> /\ Spends(1)
  BY DEF PressConnect, ConfirmDisconnect, pageRest, tokenVars
<1>1. CASE PressConnect(t)
  <2>1. tabs[t].busy \in BOOLEAN /\ [tabs EXCEPT ![t] = [tabs[t] EXCEPT !.busy = tabs[t].busy]] = tabs
    BY <1>h DEF TabRow
  <2>2. Puts(t, [tabs[t] EXCEPT !.busy = tabs[t].busy]) /\ asks' = asks \union {Ask(Next1, t, "start")} /\ tabs[t].cfg = "no"
    BY <1>1, <2>1 DEF PressConnect, Puts
  <2>3. tabs[t].open
    BY <2>2, AskedThere
  <2> QED
    BY <1>0, <2>1, <2>2, <2>3, PressKeepsMail
<1>2. CASE ConfirmDisconnect(t)
  <2>1. Puts(t, [tabs[t] EXCEPT !.busy = TRUE]) /\ asks' = asks \union {Ask(Next1, t, "disconnect")} /\ tabs[t].asking
    BY <1>2 DEF ConfirmDisconnect
  <2>2. tabs[t].open
    BY <2>1, AskedThere
  <2> QED
    BY <1>0, <2>1, <2>2, PressKeepsMail
<1> QED
  BY <1>1, <1>2

LEMMA AskDisconnectKeepsMail ==
  ASSUME MailInv, NEW t \in Tabs, AskDisconnect(t)
  PROVE  MailInv'
<1> DEFINE tab == tabs[t]
           b == ~tab.asking
           row == [tab EXCEPT !.asking = b]
<1>1. tab \in TabRow /\ b \in BOOLEAN
  BY MailThere
<1>2. Puts(t, row) /\ tab.cfg = "yes" /\ UNCHANGED <<asks, handoffs, tally, account, tokens, renewal, crossed>>
  BY DEF AskDisconnect, pageRest, tokenVars
<1>o. tab.open
  BY <1>2, AskedThere
<1> HIDE DEF tab, b
<1>3. row \in TabRow /\ row.open = tab.open /\ row.odd = tab.odd /\ row.cached = tab.cached /\ row.kept = tab.kept /\ row.shown = tab.shown
      /\ row.cfg = tab.cfg /\ row.lastHook = tab.lastHook /\ row.lastCfg = tab.lastCfg
  BY <1>1 DEF TabRow
<1> HIDE DEF row
<1>4. tabs' \in [Tabs -> TabRow] /\ \A u \in Tabs : tabs'[u] = IF u = t THEN row ELSE tabs[u]
  BY <1>2, <1>3, MailThere DEF Puts
<1>5. \A u \in Tabs : /\ tabs'[u].open = tabs[u].open /\ tabs'[u].odd = tabs[u].odd /\ tabs'[u].cached = tabs[u].cached
                      /\ tabs'[u].kept = tabs[u].kept /\ tabs'[u].shown = tabs[u].shown /\ tabs'[u].cfg = tabs[u].cfg
                      /\ tabs'[u].lastHook = tabs[u].lastHook /\ tabs'[u].lastCfg = tabs[u].lastCfg
  BY <1>3, <1>4 DEF tab
<1>6. AwayInv'
  <2>1. AwayInv /\ (\A q \in asks : q.by \in Tabs) /\ \A h \in handoffs : h.by \in Tabs
    BY MailThere DEF AskRow, HandoffRow
  <2>2. \A u \in Tabs : ~tabs'[u].open => tabs'[u].cfg = "unknown" /\ ~tabs'[u].asking
    BY <1>o, <1>3, <1>4, <2>1 DEF AwayInv
  <2> QED
    BY <1>2, <1>5, <2>1, <2>2 DEF AwayInv
<1>7. NumbersInv'
  BY <1>2, <1>5, MailThere DEF NumbersInv, Hooks, Configs
<1>8. TokensInv' /\ Connected' = Connected
  BY <1>2, MailThere, TokensAside
<1>9. ASSUME NEW u \in Tabs PROVE ShowsIt(u)'
  <2>1. ShowsIt(u)
    BY MailThere DEF ShowsInv
  <2>2. Hooks(u)' = Hooks(u) /\ Configs(u)' = Configs(u) /\ Leaving(u)' = Leaving(u)
    BY <1>2 DEF Hooks, Configs, Leaving
  <2> QED
    BY <1>5, <1>8, <2>1, <2>2, LooksTheSame
<1>10. ShowsInv'
  BY <1>9 DEF ShowsInv
<1> QED
  BY <1>2, <1>4, <1>6, <1>7, <1>8, <1>10, MailThere, MailKept DEF PagesInv

\* Back on the page, the badge takes the answer that is kept, and the page asks again.
LEMMA RevisitsKeepsMail ==
  ASSUME MailInv, NEW t \in Tabs, Revisits(t)
  PROVE  MailInv'
<1> DEFINE tab == tabs[t]
           b == (tab.kept = "yes")
           row == [tab EXCEPT !.shown = b, !.cfg = "unknown", !.asking = FALSE]
           old == {q \in asks : q.by # t \/ q.op # "config"}
<1>1. tab \in TabRow /\ b \in BOOLEAN
  BY MailThere
<1>2. Puts(t, row) /\ tab.open /\ asks' = old \union {Ask(Next1, t, "config")} /\ Spends(1)
      /\ UNCHANGED <<handoffs, account, tokens, renewal, crossed>>
  BY DEF Revisits, pageRest, tokenVars
<1>b. b = (tab.kept = "yes")
  OBVIOUS
<1> HIDE DEF tab, b
<1>3. row \in TabRow /\ row.open = tab.open /\ row.odd = tab.odd /\ row.cached = tab.cached /\ row.kept = tab.kept /\ row.shown = b
      /\ row.lastHook = tab.lastHook /\ row.lastCfg = tab.lastCfg
  BY <1>1 DEF TabRow
<1> HIDE DEF row
<1>o. old \subseteq asks /\ \A q : q \in old <=> q \in asks /\ (q.by # t \/ q.op # "config")
  OBVIOUS
<1> HIDE DEF old
<1>4. /\ tabs' \in [Tabs -> TabRow] /\ (\A u \in Tabs : tabs'[u] = IF u = t THEN row ELSE tabs[u])
      /\ asks' \subseteq AskRow /\ tally' \in [writes : Nat, fetches : Nat] /\ AwayInv' /\ NumbersInv'
  <2>1. tabs[t].open /\ row.open = tabs[t].open /\ row.cached = tabs[t].cached /\ row.lastHook = tabs[t].lastHook
        /\ row.lastCfg = tabs[t].lastCfg
    BY <1>2, <1>3 DEF tab
  <2>2. "config" \in {"config", "start", "disconnect"}
    OBVIOUS
  <2> QED
    BY <1>2, <1>3, <1>o, <2>1, <2>2, AsksOnce
<1>5. TokensInv' /\ Connected' = Connected
  BY <1>2, MailThere, TokensAside
<1>n. Next1 \in Nat /\ tally.fetches \in Nat /\ Next1 = tally.fetches + 1
  <2>1. 1 \in Nat
    OBVIOUS
  <2> QED
    BY <1>2, <2>1, Spent DEF Next1
<1>6. PICK a \in AskRow : a.no = Next1 /\ a.by = t /\ a.op = "config" /\ a.step = "sent" /\ asks' = old \union {a}
  BY <1>2, <1>n, AskIs
<1>7. ASSUME NEW u \in Tabs PROVE ShowsIt(u)'
  <2>1. ShowsIt(u)
    BY MailThere DEF ShowsInv
  <2>2. CASE u # t
    <3>1. {q \in asks' : q.by = u} = {q \in asks : q.by = u}
      BY <1>o, <1>6, <2>2
    <3> QED
      BY <1>4, <1>5, <2>1, <2>2, <3>1, TabAside
  <2>3. CASE u = t
    <3>1. tabs'[u] = row /\ tabs[u] = tab
      BY <1>4, <2>3 DEF tab
    <3>2. Leaving(u) => Leaving(u)'
      BY <1>o, <1>6 DEF Leaving
    <3>3. BadgeInv(u) => BadgeInv(u)'
      <4>1. Hooks(u)' = Hooks(u)
        BY <1>o, <1>6, <2>3 DEF Hooks
      <4>2. Told' = Told /\ (Told = "yes" <=> Connected)
        BY <1>5 DEF Told
      <4>3. b = Connected \/ tab.kept # Told
        <5>1. Connected \in BOOLEAN
          BY DEF Connected
        <5> QED
          BY <1>b, <1>1, <4>2, <5>1
      <4> QED
        BY <1>3, <1>5, <3>1, <4>1, <4>2, <4>3 DEF BadgeInv, Fresh
    <3>4. CardInv(u)'
      <4>1. \A p \in Configs(u)' : p = a
        BY <1>o, <1>6, <2>3 DEF Configs
      <4>2. a \in Configs(u)' /\ Fresh(a)'
        BY <1>6, <2>3 DEF Configs, Fresh
      <4>3. a.no > tabs'[u].lastCfg /\ a.no \in Nat
        <5>1. tab.lastCfg \in Nat /\ tab.lastCfg <= tally.fetches
          BY <1>1, MailThere DEF NumbersInv, TabRow, tab
        <5> QED
          BY <1>n, <1>3, <1>6, <3>1, <5>1
      <4>4. a.no <= a.no
        BY <4>3
      <4> QED
        BY <4>1, <4>2, <4>3, <4>4 DEF CardInv
    <3> QED
      BY <1>3, <2>1, <3>1, <3>2, <3>3, <3>4 DEF ShowsIt
  <2> QED
    BY <2>2, <2>3
<1>8. ShowsInv'
  BY <1>7 DEF ShowsInv
<1> QED
  BY <1>2, <1>4, <1>5, <1>8, MailThere, MailKept DEF PagesInv

\* A page that takes an answer, the number of which it may note.
LEMMA AskTaken ==
  ASSUME MailInv, NEW q \in asks, NEW row \in TabRow, row.open = tabs[q.by].open, row.cached = tabs[q.by].cached,
         row.lastHook = tabs[q.by].lastHook \/ (q.op = "hook" /\ row.lastHook = q.no),
         row.lastCfg = tabs[q.by].lastCfg \/ (q.op = "config" /\ row.lastCfg = q.no),
         Puts(q.by, row), asks' = asks \ {q}, UNCHANGED <<handoffs, tally>>
  PROVE  /\ q \in AskRow /\ q.by \in Tabs /\ tabs[q.by].open
         /\ tabs' \in [Tabs -> TabRow] /\ (\A u \in Tabs : tabs'[u] = IF u = q.by THEN row ELSE tabs[u])
         /\ asks' \subseteq AskRow /\ AwayInv' /\ NumbersInv'
<1>1. q \in AskRow /\ q.by \in Tabs /\ tabs[q.by].open /\ q.no \in Nat
  <2>1. q \in AskRow
    BY MailThere
  <2> QED
    BY <2>1, MailThere DEF AwayInv, AskRow
<1>2. tabs' \in [Tabs -> TabRow] /\ \A u \in Tabs : tabs'[u] = IF u = q.by THEN row ELSE tabs[u]
  BY <1>1, MailThere DEF Puts
<1>3. asks' \subseteq AskRow
  BY MailThere
<1>4. \A u \in Tabs : tabs'[u].open = tabs[u].open /\ tabs'[u].cached = tabs[u].cached
  BY <1>2
<1>5. AwayInv'
  <2>1. AwayInv /\ (\A p \in asks : p.by \in Tabs) /\ \A h \in handoffs : h.by \in Tabs
    BY MailThere DEF AskRow, HandoffRow
  <2>2. \A u \in Tabs : ~tabs'[u].open => tabs'[u].cfg = "unknown" /\ ~tabs'[u].asking
    BY <1>1, <1>2, <1>4, <2>1 DEF AwayInv
  <2>3. (\A p \in asks' : tabs'[p.by].open) /\ \A h \in handoffs' : ~tabs'[h.by].open
    BY <1>4, <2>1 DEF AwayInv
  <2> QED
    BY <2>1, <2>2, <2>3 DEF AwayInv
<1>6. NumbersInv'
  <2>1. NumbersInv
    BY MailThere
  <2>2. (\A p \in asks' : p.no \in 1..tally'.fetches) /\ \A p, r \in asks' : p.no = r.no => p = r
    BY <2>1 DEF NumbersInv
  <2>3. \A p \in asks' : p.no # q.no
    BY <2>1 DEF NumbersInv
  <2>4. ASSUME NEW u \in Tabs
        PROVE  /\ tabs'[u].lastHook <= tabs'[u].cached /\ tabs'[u].cached <= tally'.fetches /\ tabs'[u].lastCfg <= tally'.fetches
               /\ \A p \in Hooks(u)' : p.no <= tabs'[u].cached /\ p.no # tabs'[u].lastHook
               /\ \A p \in Configs(u)' : p.no # tabs'[u].lastCfg
    <3>1. /\ tabs[u].lastHook <= tabs[u].cached /\ tabs[u].cached <= tally.fetches /\ tabs[u].lastCfg <= tally.fetches
          /\ \A p \in Hooks(u) : p.no <= tabs[u].cached /\ p.no # tabs[u].lastHook
          /\ \A p \in Configs(u) : p.no # tabs[u].lastCfg
      BY <2>1 DEF NumbersInv
    <3>2. Hooks(u)' \subseteq Hooks(u) /\ Configs(u)' \subseteq Configs(u)
      BY DEF Hooks, Configs
    <3>3. (\A p \in Hooks(u)' : p.no # q.no) /\ \A p \in Configs(u)' : p.no # q.no
      BY <2>3 DEF Hooks, Configs
    <3>4. tabs'[u].lastHook = tabs[u].lastHook \/ (u = q.by /\ q.op = "hook" /\ tabs'[u].lastHook = q.no)
      BY <1>2
    <3>5. tabs'[u].lastCfg = tabs[u].lastCfg \/ (u = q.by /\ q.op = "config" /\ tabs'[u].lastCfg = q.no)
      BY <1>2
    <3>6. tabs'[u].lastHook <= tabs[u].cached
      <4>1. CASE tabs'[u].lastHook = tabs[u].lastHook
        BY <3>1, <4>1
      <4>2. CASE u = q.by /\ q.op = "hook" /\ tabs'[u].lastHook = q.no
        <5>1. q \in Hooks(u)
          BY <4>2 DEF Hooks
        <5> QED
          BY <3>1, <4>2, <5>1
      <4> QED
        BY <3>4, <4>1, <4>2
    <3>7. tabs'[u].lastCfg <= tally.fetches
      <4>1. q.no <= tally.fetches
        BY <1>1, <2>1 DEF NumbersInv
      <4> QED
        BY <3>1, <3>5, <4>1
    <3> QED
      BY <1>4, <3>1, <3>2, <3>3, <3>4, <3>5, <3>6, <3>7
  <2> QED
    BY <2>2, <2>4 DEF NumbersInv
<1> QED
  BY <1>1, <1>2, <1>3, <1>5, <1>6

\* Of the tabs that did not ask, nothing changes.
LEMMA AskTakenAside ==
  ASSUME MailInv, NEW q \in asks, NEW u \in Tabs, u # q.by, asks' = asks \ {q}, tabs'[u] = tabs[u], Connected' = Connected
  PROVE  ShowsIt(u)'
<1>1. {p \in asks' : p.by = u} = {p \in asks : p.by = u}
  OBVIOUS
<1> QED
  BY <1>1, MailThere, TabAside DEF ShowsInv

LEMMA PressFailsKeepsMail ==
  ASSUME MailInv, NEW q \in asks, PressFails(q)
  PROVE  MailInv'
<1> DEFINE tab == tabs[q.by]
           b == (tab.busy /\ q.op = "start")
           e == (tab.error \/ q.op = "start")
           row == [tab EXCEPT !.busy = b, !.error = e]
<1>0. q.by \in Tabs
  BY MailThere DEF AskRow
<1>1. tab \in TabRow /\ b \in BOOLEAN /\ e \in BOOLEAN
  <2>1. tab \in TabRow
    BY <1>0, MailThere
  <2> QED
    BY <2>1 DEF TabRow
<1>2. Puts(q.by, row) /\ asks' = asks \ {q} /\ q.op \in {"disconnect", "start"} /\ q.step = "failed"
      /\ UNCHANGED <<handoffs, tally, account, tokens, renewal, crossed>>
  BY DEF PressFails, pageRest, tokenVars
<1> HIDE DEF tab, b, e
<1>3. row \in TabRow /\ row.open = tab.open /\ row.odd = tab.odd /\ row.cached = tab.cached /\ row.kept = tab.kept /\ row.shown = tab.shown
      /\ row.cfg = tab.cfg /\ row.lastHook = tab.lastHook /\ row.lastCfg = tab.lastCfg
  BY <1>1 DEF TabRow
<1> HIDE DEF row
<1>4. /\ tabs' \in [Tabs -> TabRow] /\ (\A u \in Tabs : tabs'[u] = IF u = q.by THEN row ELSE tabs[u])
      /\ asks' \subseteq AskRow /\ AwayInv' /\ NumbersInv'
  <2>1. row.open = tabs[q.by].open /\ row.cached = tabs[q.by].cached /\ row.lastHook = tabs[q.by].lastHook /\ row.lastCfg = tabs[q.by].lastCfg
    BY <1>3 DEF tab
  <2> QED
    BY <1>2, <1>3, <2>1, AskTaken
<1>5. TokensInv' /\ Connected' = Connected
  BY <1>2, MailThere, TokensAside
<1>6. ASSUME NEW u \in Tabs PROVE ShowsIt(u)'
  <2>1. ShowsIt(u)
    BY MailThere DEF ShowsInv
  <2>2. Hooks(u)' = Hooks(u) /\ Configs(u)' = Configs(u)
    BY <1>2 DEF Hooks, Configs
  <2>3. Leaving(u)' = Leaving(u)
    BY <1>2 DEF Leaving
  <2>4. /\ tabs'[u].open = tabs[u].open /\ tabs'[u].odd = tabs[u].odd /\ tabs'[u].cached = tabs[u].cached /\ tabs'[u].kept = tabs[u].kept
        /\ tabs'[u].shown = tabs[u].shown /\ tabs'[u].cfg = tabs[u].cfg /\ tabs'[u].lastHook = tabs[u].lastHook
        /\ tabs'[u].lastCfg = tabs[u].lastCfg
    BY <1>3, <1>4 DEF tab
  <2> QED
    BY <1>5, <2>1, <2>2, <2>3, <2>4, LooksTheSame
<1>7. ShowsInv'
  BY <1>6 DEF ShowsInv
<1> QED
  BY <1>2, <1>4, <1>5, <1>7, MailThere, MailKept DEF PagesInv

\* The kept answer arrives, or one that a later one will replace.
LEMMA HookAnswersKeepsMail ==
  ASSUME MailInv, NEW q \in asks, HookAnswers(q)
  PROVE  MailInv'
<1> DEFINE t == q.by
           tab == tabs[t]
           v == q.value
           n == q.no
           o == (tab.odd \/ q.no < tab.lastHook \/ q.step = "failed")
           k == (IF q.no = tab.cached THEN (IF q.value THEN "yes" ELSE "no") ELSE tab.kept)
           row == [tab EXCEPT !.shown = v, !.lastHook = n, !.odd = o, !.kept = k]
<1>0. q \in AskRow /\ t \in Tabs /\ v \in BOOLEAN /\ n \in Nat
  <2>1. q \in AskRow
    BY MailThere
  <2> QED
    BY <2>1 DEF AskRow
<1>1. tab \in TabRow /\ o \in BOOLEAN /\ k \in {"none", "yes", "no"}
  <2>1. tab \in TabRow
    BY <1>0, MailThere
  <2>2. tab.odd \in BOOLEAN /\ tab.kept \in {"none", "yes", "no"}
    BY <2>1 DEF TabRow
  <2>3. k \in {"none", "yes", "no"}
    BY <2>2
  <2>4. o \in BOOLEAN
    BY <2>2
  <2> QED
    BY <2>1, <2>3, <2>4
<1>2. Puts(t, row) /\ asks' = asks \ {q} /\ q.op = "hook" /\ q.step \in {"answered", "failed"}
      /\ UNCHANGED <<handoffs, tally, account, tokens, renewal, crossed>>
  BY DEF HookAnswers, pageRest, tokenVars
<1>3. /\ o = (tab.odd \/ q.no < tab.lastHook \/ q.step = "failed") /\ v = q.value /\ n = q.no
      /\ k = (IF q.no = tab.cached THEN (IF q.value THEN "yes" ELSE "no") ELSE tab.kept)
  OBVIOUS
<1> HIDE DEF tab, v, n, o, k
<1>4. row \in TabRow /\ row.open = tab.open /\ row.cached = tab.cached /\ row.cfg = tab.cfg /\ row.lastCfg = tab.lastCfg
      /\ row.shown = v /\ row.lastHook = n /\ row.odd = o /\ row.kept = k
  BY <1>0, <1>1 DEF TabRow
<1> HIDE DEF row
<1>5. /\ tabs' \in [Tabs -> TabRow] /\ (\A u \in Tabs : tabs'[u] = IF u = t THEN row ELSE tabs[u])
      /\ asks' \subseteq AskRow /\ AwayInv' /\ NumbersInv'
  <2>1. row.open = tabs[q.by].open /\ row.cached = tabs[q.by].cached /\ row.lastHook = q.no /\ row.lastCfg = tabs[q.by].lastCfg
    BY <1>3, <1>4 DEF tab
  <2> QED
    BY <1>2, <1>4, <2>1, AskTaken
<1>6. TokensInv' /\ Connected' = Connected
  BY <1>2, MailThere, TokensAside
<1>7. ASSUME row.open, ~row.odd PROVE Leaving(t)' \/ (BadgeInv(t)' /\ CardInv(t)')
  <2>0. tabs'[t] = row /\ tabs[t] = tab
    BY <1>0, <1>5 DEF tab
  <2>1. tab.open /\ ~tab.odd /\ ~(q.no < tab.lastHook) /\ q.step = "answered" /\ tab.lastHook \in Nat /\ tab.cached \in Nat
    BY <1>0, <1>1, <1>2, <1>3, <1>4, <1>7 DEF TabRow
  <2>2. q \in Hooks(t)
    BY <1>2 DEF Hooks
  <2>3. q.no <= tab.cached /\ q.no # tab.lastHook /\ tab.lastHook <= tab.cached
    BY <1>0, <2>0, <2>2, MailThere DEF NumbersInv
  <2>4. tab.lastHook # tab.cached /\ q.no \in Nat
    BY <1>0, <1>3, <2>1, <2>3
  <2>5. Leaving(t) \/ (BadgeInv(t) /\ CardInv(t))
    BY <1>0, <2>0, <2>1, MailThere DEF ShowsInv, ShowsIt
  <2>6. Leaving(t) => Leaving(t)'
    BY <1>2 DEF Leaving
  <2>7. Told' = Told /\ Told = (IF Connected THEN "yes" ELSE "no")
    BY <1>6 DEF Told
  <2>8. BadgeInv(t) => BadgeInv(t)'
    <3>1. SUFFICES ASSUME BadgeInv(t) PROVE BadgeInv(t)'
      OBVIOUS
    <3>2. PICK p \in Hooks(t) : p.no = tab.cached /\ Fresh(p)
      BY <2>0, <2>4, <3>1 DEF BadgeInv
    <3>3. CASE p = q
      <4>1. q.value = Connected
        BY <2>1, <3>2, <3>3 DEF Fresh
      <4>2. row.lastHook = row.cached /\ row.shown = Connected /\ row.kept = Told
        BY <1>3, <1>4, <2>7, <3>2, <3>3, <4>1
      <4> QED
        BY <1>6, <2>0, <2>7, <4>2 DEF BadgeInv
    <3>4. CASE p # q
      <4>1. p \in Hooks(t)' /\ Fresh(p)' /\ p.no = row.cached
        BY <1>2, <1>4, <1>6, <3>2, <3>4 DEF Hooks, Fresh
      <4> QED
        BY <2>0, <4>1 DEF BadgeInv
    <3> QED
      BY <3>3, <3>4
  <2>9. CardInv(t) => CardInv(t)'
    <3>1. Configs(t)' = Configs(t)
      BY <1>2 DEF Configs
    <3> QED
      BY <1>4, <1>6, <2>0, <2>7, <3>1 DEF CardInv, Fresh
  <2> QED
    BY <2>5, <2>6, <2>8, <2>9
<1>8. ASSUME NEW u \in Tabs PROVE ShowsIt(u)'
  <2>1. CASE u = t
    BY <1>5, <1>7, <2>1 DEF ShowsIt
  <2>2. CASE u # t
    BY <1>2, <1>5, <1>6, <2>2, AskTakenAside
  <2> QED
    BY <2>1, <2>2
<1>9. ShowsInv'
  BY <1>8 DEF ShowsInv
<1> QED
  BY <1>2, <1>5, <1>6, <1>9, MailThere, MailKept DEF PagesInv

\* The page's own question is answered; of two answers the later request counts.
LEMMA ConfigAnswersKeepsMail ==
  ASSUME MailInv, NEW q \in asks, ConfigAnswers(q)
  PROVE  MailInv'
<1> DEFINE t == q.by
           tab == tabs[t]
           n == q.no
           o == (tab.odd \/ q.no < tab.lastCfg)
           c == (IF q.value THEN "yes" ELSE "no")
           row == IF q.step = "failed" THEN [tab EXCEPT !.odd = TRUE] ELSE [tab EXCEPT !.cfg = c, !.lastCfg = n, !.odd = o]
<1>0. q \in AskRow /\ t \in Tabs /\ n \in Nat
  <2>1. q \in AskRow
    BY MailThere
  <2> QED
    BY <2>1 DEF AskRow
<1>1. tab \in TabRow /\ o \in BOOLEAN /\ c \in {"yes", "no"}
  <2>1. tab \in TabRow
    BY <1>0, MailThere
  <2>2. tab.odd \in BOOLEAN
    BY <2>1 DEF TabRow
  <2> QED
    BY <2>1, <2>2
<1>2. Puts(t, row) /\ asks' = asks \ {q} /\ q.op = "config" /\ q.step \in {"answered", "failed"}
      /\ UNCHANGED <<handoffs, tally, account, tokens, renewal, crossed>>
  BY DEF ConfigAnswers, pageRest, tokenVars
<1>3. /\ o = (tab.odd \/ q.no < tab.lastCfg) /\ n = q.no /\ c = (IF q.value THEN "yes" ELSE "no")
  OBVIOUS
<1> HIDE DEF tab, n, o, c
<1>4. row \in TabRow /\ row.open = tab.open /\ row.cached = tab.cached /\ row.lastHook = tab.lastHook /\ row.shown = tab.shown
      /\ row.kept = tab.kept
      /\ \/ row.odd /\ row.lastCfg = tab.lastCfg
         \/ q.step # "failed" /\ row.cfg = c /\ row.lastCfg = n /\ row.odd = o
  BY <1>0, <1>1 DEF TabRow
<1> HIDE DEF row
<1>5. /\ tabs' \in [Tabs -> TabRow] /\ (\A u \in Tabs : tabs'[u] = IF u = t THEN row ELSE tabs[u])
      /\ asks' \subseteq AskRow /\ AwayInv' /\ NumbersInv'
  <2>1. row.open = tabs[q.by].open /\ row.cached = tabs[q.by].cached /\ row.lastHook = tabs[q.by].lastHook
        /\ (row.lastCfg = tabs[q.by].lastCfg \/ row.lastCfg = q.no)
    BY <1>3, <1>4 DEF tab
  <2> QED
    BY <1>2, <1>4, <2>1, AskTaken
<1>6. TokensInv' /\ Connected' = Connected
  BY <1>2, MailThere, TokensAside
<1>7. ASSUME row.open, ~row.odd PROVE Leaving(t)' \/ (BadgeInv(t)' /\ CardInv(t)')
  <2>0. tabs'[t] = row /\ tabs[t] = tab
    BY <1>0, <1>5 DEF tab
  <2>1. /\ tab.open /\ ~tab.odd /\ ~(q.no < tab.lastCfg) /\ q.step = "answered" /\ tab.lastCfg \in Nat /\ q.no \in Nat
        /\ row.cfg = c /\ row.lastCfg = q.no
    BY <1>0, <1>1, <1>2, <1>3, <1>4, <1>7 DEF TabRow
  <2>2. q \in Configs(t)
    BY <1>2 DEF Configs
  <2>3. q.no # tab.lastCfg
    BY <1>0, <2>0, <2>2, MailThere DEF NumbersInv
  <2>4. Leaving(t) \/ (BadgeInv(t) /\ CardInv(t))
    BY <1>0, <2>0, <2>1, MailThere DEF ShowsInv, ShowsIt
  <2>5. Leaving(t) => Leaving(t)'
    BY <1>2 DEF Leaving
  <2>6. Told' = Told /\ Told = (IF Connected THEN "yes" ELSE "no")
    BY <1>6 DEF Told
  <2>7. BadgeInv(t) => BadgeInv(t)'
    <3>1. Hooks(t)' = Hooks(t)
      BY <1>2 DEF Hooks
    <3> QED
      BY <1>4, <1>6, <2>0, <2>6, <3>1 DEF BadgeInv, Fresh
  <2>8. CardInv(t) => CardInv(t)'
    <3>1. SUFFICES ASSUME CardInv(t) PROVE CardInv(t)'
      OBVIOUS
    <3>2. PICK p \in Configs(t) : p.no > tab.lastCfg /\ Fresh(p) /\ \A s \in Configs(t) : s.no <= p.no
      BY <2>0, <2>1, <2>2, <3>1 DEF CardInv
    <3>3. \A s \in Configs(t)' : s \in Configs(t) /\ s # q /\ s \in asks /\ s.no \in Nat
      BY <1>2, MailThere DEF Configs, AskRow
    <3>4. \A s \in Configs(t)' : s.no # q.no
      BY <3>3, MailThere DEF NumbersInv
    <3>5. CASE p = q
      <4>1. c = Told
        BY <1>3, <2>1, <2>6, <3>2, <3>5 DEF Fresh
      <4>2. \A s \in Configs(t)' : s.no < q.no
        BY <2>1, <3>2, <3>3, <3>4, <3>5
      <4> QED
        BY <2>0, <2>1, <2>6, <4>1, <4>2 DEF CardInv
    <3>6. CASE p # q
      <4>1. p \in Configs(t)' /\ Fresh(p)'
        BY <1>2, <1>6, <3>2, <3>6 DEF Configs, Fresh
      <4>2. p.no > q.no
        BY <2>1, <2>2, <3>2, <3>3, <3>4, <4>1
      <4>3. \A s \in Configs(t)' : s.no <= p.no
        BY <3>2, <3>3
      <4> QED
        BY <2>0, <2>1, <4>1, <4>2, <4>3 DEF CardInv
    <3> QED
      BY <3>5, <3>6
  <2> QED
    BY <2>4, <2>5, <2>7, <2>8
<1>8. ASSUME NEW u \in Tabs PROVE ShowsIt(u)'
  <2>1. CASE u = t
    BY <1>5, <1>7, <2>1 DEF ShowsIt
  <2>2. CASE u # t
    BY <1>2, <1>5, <1>6, <2>2, AskTakenAside
  <2> QED
    BY <2>1, <2>2
<1>9. ShowsInv'
  BY <1>8 DEF ShowsInv
<1> QED
  BY <1>2, <1>5, <1>6, <1>9, MailThere, MailKept DEF PagesInv

\* The tab is gone, and nothing it asked for comes back to it.
LEMMA GoesToProviderKeepsMail ==
  ASSUME MailInv, NEW q \in asks, GoesToProvider(q)
  PROVE  MailInv'
<1> DEFINE t == q.by
           g == [by |-> t, step |-> "consent", box |-> NoBox, old |-> FALSE]
<1>0. t \in Tabs /\ g \in HandoffRow /\ g.by = t /\ tabs[t].open
  <2>1. t \in Tabs /\ NoBox \in AnyBox
    BY MailThere DEF AskRow, AnyBox
  <2> QED
    BY <2>1, MailThere DEF HandoffRow, AwayInv
<1>1. /\ asks' = {p \in asks : p.by # t} /\ handoffs' = handoffs \union {g} /\ Puts(t, Tab)
      /\ UNCHANGED <<tally, account, tokens, renewal, crossed>>
  BY DEF GoesToProvider, pageRest, tokenVars
<1> HIDE DEF g
<1>2. Tab \in TabRow /\ Tab.open = FALSE /\ Tab.cfg = "unknown" /\ Tab.asking = FALSE /\ Tab.lastHook = 0 /\ Tab.lastCfg = 0 /\ Tab.cached = 0
  BY DEF Tab, TabRow
<1>3. tabs' \in [Tabs -> TabRow] /\ \A u \in Tabs : tabs'[u] = IF u = t THEN Tab ELSE tabs[u]
  BY <1>1, <1>2, MailThere DEF Puts
<1>4. asks' \subseteq AskRow /\ handoffs' \subseteq HandoffRow
  BY <1>0, <1>1, MailThere
<1>5. AwayInv'
  <2>1. AwayInv /\ (\A p \in asks : p.by \in Tabs) /\ \A h \in handoffs : h.by \in Tabs
    BY MailThere DEF AskRow, HandoffRow
  <2>2. \A p \in asks' : tabs'[p.by].open
    BY <1>1, <1>3, <2>1 DEF AwayInv
  <2>3. \A u \in Tabs : ~tabs'[u].open => tabs'[u].cfg = "unknown" /\ ~tabs'[u].asking
    BY <1>2, <1>3, <2>1 DEF AwayInv
  <2>4. \A h \in handoffs : h.by # t
    BY <1>0, <2>1 DEF AwayInv
  <2>5. \A h \in handoffs' : ~tabs'[h.by].open
    BY <1>0, <1>1, <1>2, <1>3, <2>1, <2>4 DEF AwayInv
  <2>6. \A h, f \in handoffs' : h.by = f.by => h = f
    BY <1>0, <1>1, <2>1, <2>4 DEF AwayInv
  <2> QED
    BY <2>2, <2>3, <2>5, <2>6 DEF AwayInv
<1>6. NumbersInv'
  <2>1. NumbersInv /\ tally.fetches \in Nat
    BY MailThere
  <2>2. (\A p \in asks' : p.no \in 1..tally'.fetches) /\ \A p, r \in asks' : p.no = r.no => p = r
    BY <1>1, <2>1 DEF NumbersInv
  <2>3. ASSUME NEW u \in Tabs
        PROVE  /\ tabs'[u].lastHook <= tabs'[u].cached /\ tabs'[u].cached <= tally'.fetches /\ tabs'[u].lastCfg <= tally'.fetches
               /\ \A p \in Hooks(u)' : p.no <= tabs'[u].cached /\ p.no # tabs'[u].lastHook
               /\ \A p \in Configs(u)' : p.no # tabs'[u].lastCfg
    <3>1. CASE u = t
      <4>1. Hooks(u)' = {} /\ Configs(u)' = {}
        BY <1>1, <3>1 DEF Hooks, Configs
      <4> QED
        BY <1>1, <1>2, <1>3, <2>1, <3>1, <4>1
    <3>2. CASE u # t
      <4>1. Hooks(u)' = Hooks(u) /\ Configs(u)' = Configs(u) /\ tabs'[u] = tabs[u]
        BY <1>1, <1>3, <3>2 DEF Hooks, Configs
      <4> QED
        BY <1>1, <2>1, <4>1 DEF NumbersInv
    <3> QED
      BY <3>1, <3>2
  <2> QED
    BY <2>2, <2>3 DEF NumbersInv
<1>7. TokensInv' /\ Connected' = Connected
  BY <1>1, MailThere, TokensAside
<1>8. ASSUME NEW u \in Tabs PROVE ShowsIt(u)'
  <2>1. CASE u = t
    BY <1>2, <1>3, <2>1 DEF ShowsIt
  <2>2. CASE u # t
    <3>1. {p \in asks' : p.by = u} = {p \in asks : p.by = u}
      BY <1>1, <2>2
    <3> QED
      BY <1>3, <1>7, <2>2, <3>1, MailThere, TabAside DEF ShowsInv
  <2> QED
    BY <2>1, <2>2
<1>9. ShowsInv'
  BY <1>8 DEF ShowsInv
<1> QED
  BY <1>1, <1>3, <1>4, <1>5, <1>6, <1>7, <1>9, MailThere, MailKept DEF PagesInv

LEMMA MailboxStep == MailInv /\ (MailboxNext \/ UNCHANGED mailboxVars) => MailInv'
<1> SUFFICES ASSUME MailInv, MailboxNext \/ UNCHANGED mailboxVars PROVE MailInv'
  OBVIOUS
<1>1. ASSUME NEW h \in handoffs, Exchange(h) \/ Connect(h) \/ Ages(h) \/ Consents(h) \/ ComesBack(h) PROVE MailInv'
  BY <1>1, HandoffsKeepMail, ConnectKeepsMail, ComesBackKeepsMail
<1>2. ASSUME NEW q \in asks, Disconnects(q) \/ ReadsAccount(q) \/ RequestFails(q) \/ GoesToProvider(q) \/ HookAnswers(q) \/ ConfigAnswers(q)
                             \/ DisconnectAnswers(q) \/ PressFails(q)
      PROVE  MailInv'
  BY <1>2, DisconnectsKeepMail, AnswersKeepMail, GoesToProviderKeepsMail, HookAnswersKeepsMail, ConfigAnswersKeepsMail,
     DisconnectAnswersKeepsMail, PressFailsKeepsMail
<1>3. CASE ComesDue \/ Renews \/ StoresToken \/ \E r \in Readers : ReadsRow(r) \/ GetsToken(r)
  BY <1>3, TokenStepsKeepMail
<1>4. ASSUME NEW t \in Tabs, OpensSettings(t) \/ Revisits(t) \/ PressConnect(t) \/ AskDisconnect(t) \/ ConfirmDisconnect(t) PROVE MailInv'
  BY <1>4, OpensSettingsKeepsMail, RevisitsKeepsMail, PressesKeepMail, AskDisconnectKeepsMail
<1>5. CASE UNCHANGED mailboxVars
  <2>1. UNCHANGED <<account, tokens, renewal, handoffs, tabs, asks, crossed, tally>>
    BY <1>5 DEF mailboxVars
  <2>2. TokensInv' /\ Connected' = Connected
    BY <2>1, MailThere, TokensAside
  <2>3. PagesInv'
    BY <2>1, <2>2, PagesAside DEF MailInv
  <2> QED
    BY <2>1, <2>2, <2>3, MailThere, MailKept
<1> QED
  BY <1>1, <1>2, <1>3, <1>4, <1>5 DEF MailboxNext

\* The stored tokens are of one mailbox unless a refresh had read the row before it was
\* replaced, and a tab through which the mailbox was connected or disconnected shows it once
\* its requests are answered: the refresh of token-refresher.ts, and useEmailConfig.ts with the
\* page of the mail settings.  For every number of mailboxes, readers, tabs and requests.
THEOREM MailboxIsShown == AdminSpec => []MailboxHonest
<1>1. AdminInit => MailInv
  BY MailStart DEF AdminInit
<1>2. MailInv /\ [AdminNext]_adminVars => MailInv'
  BY MailboxStep DEF AdminNext, adminVars
<1>3. MailInv => MailboxHonest
  <2> SUFFICES ASSUME MailInv PROVE MailboxHonest
    OBVIOUS
  <2>1. TokensInv /\ AwayInv /\ NumbersInv /\ ShowsInv
    BY MailThere
  <2>2. ASSUME NEW t \in Tabs, tabs[t].open, ~tabs[t].odd, \A q \in asks : q.by # t
        PROVE  tabs[t].shown = Connected /\ tabs[t].cfg = (IF Connected THEN "yes" ELSE "no")
    <3>1. Hooks(t) = {} /\ Configs(t) = {} /\ ~Leaving(t)
      BY <2>2 DEF Hooks, Configs, Leaving
    <3>2. BadgeInv(t) /\ CardInv(t)
      BY <2>1, <2>2, <3>1 DEF ShowsInv, ShowsIt
    <3> QED
      BY <3>1, <3>2 DEF BadgeInv, CardInv, Told
  <2>3. OwnChangeShown
    BY <2>2 DEF OwnChangeShown
  <2> QED
    BY <2>1, <2>3 DEF MailboxHonest, TokensInv
<1> QED
  BY <1>1, <1>2, <1>3, PTL DEF AdminSpec

-----------------------------------------------------------------------------
(***************************************************************************)
(* The agents and their invitations.                                       *)
(***************************************************************************)
AgentRow == [exists : BOOLEAN, role : Roles, active : BOOLEAN, accepted : BOOLEAN, password : BOOLEAN, token : Nat]
InviteRow == [of : Staff, mail : {"due", "sent", "failed"}, used : BOOLEAN, lost : BOOLEAN]
ListRows == [Staff -> ListedRow]
BrowserRow == [role : Roles \union {"none"}, rows : ListRows, inviting : BOOLEAN, saving : BOOLEAN, choice : Persons]
CallOps == {"list", "chosen", "invite", "update", "remove", "choose", "accept", "signin", "google"}
CallRow == [by : Staff, op : CallOps, step : {"sent", "passed", "found", "refused", "answered"}, of : Persons, role : Roles \union {"none"},
            active : BOOLEAN, link : Nat, rows : ListRows, choice : Persons]

\* What a call carries, when n invitations have been mailed: the link it takes is one of them,
\* and its row was active when the link was found.
Carries(c, n) ==
  /\ c.op \in {"invite", "update", "remove"} => c.of \in Staff
  /\ c.op = "invite" => c.role \in Roles
  /\ c.op = "accept" => c.link \in 1..n /\ (c.step = "found" => c.active)
CallsOf(n) == {c \in CallRow : Carries(c, n)}

AccessKinds ==
  /\ agent \in [Staff -> AgentRow] /\ links \in Seq(InviteRow) /\ Len(links) <= MaxInvites
  /\ browser \in [Staff -> BrowserRow] /\ calls \in Seq(CallsOf(Len(links)))
  /\ made \in Nat /\ made <= MaxCalls /\ Len(calls) <= made
  /\ fallback \in Persons /\ barred \in [Staff -> BOOLEAN]
TokensMailed == \A s \in Staff : agent[s].token <= Len(links)

AccessInv == AccessKinds /\ TokensMailed /\ AccessHonest

LEMMA AccessThere ==
  ASSUME AccessInv
  PROVE  /\ agent \in [Staff -> AgentRow] /\ links \in Seq(InviteRow) /\ Len(links) <= MaxInvites /\ Len(links) \in Nat
         /\ browser \in [Staff -> BrowserRow] /\ calls \in Seq(CallsOf(Len(links)))
         /\ made \in Nat /\ made <= MaxCalls /\ Len(calls) <= made /\ Len(calls) \in Nat
         /\ fallback \in Persons /\ barred \in [Staff -> BOOLEAN]
         /\ (\A s \in Staff : agent[s].token <= Len(links)) /\ DeactivationHolds /\ FreshLinkWorks
BY DEF AccessInv, AccessKinds, TokensMailed, AccessHonest

LEMMA InviteThere ==
  ASSUME AccessInv
  PROVE  DOMAIN links = 1..Len(links) /\ \A n \in DOMAIN links : links[n] \in InviteRow /\ links[n].of \in Staff
<1>1. links \in Seq(InviteRow)
  BY AccessThere
<1>2. DOMAIN links = 1..Len(links) /\ \A n \in DOMAIN links : links[n] \in InviteRow
  BY <1>1
<1> QED
  BY <1>2 DEF InviteRow

LEMMA CallThere ==
  ASSUME AccessInv, NEW i \in DOMAIN calls
  PROVE  /\ calls[i] \in CallsOf(Len(links)) /\ calls[i] \in CallRow /\ Carries(calls[i], Len(links)) /\ calls[i].by \in Staff
         /\ i \in 1..Len(calls)
<1>1. calls \in Seq(CallsOf(Len(links)))
  BY AccessThere
<1>2. i \in 1..Len(calls) /\ calls[i] \in CallsOf(Len(links))
  BY <1>1
<1> QED
  BY <1>2 DEF CallsOf, CallRow

\* A step that leaves the rows, the invitations and the admins' decisions alone.
LEMMA RowsAside ==
  ASSUME AccessInv, UNCHANGED <<agent, links, barred>>, browser' \in [Staff -> BrowserRow], calls' \in Seq(CallsOf(Len(links))),
         made' \in Nat, made' <= MaxCalls, Len(calls') <= made', fallback' \in Persons
  PROVE  AccessInv'
<1>1. AccessKinds'
  BY AccessThere DEF AccessKinds
<1>2. TokensMailed' /\ DeactivationHolds' /\ FreshLinkWorks'
  BY AccessThere DEF TokensMailed, DeactivationHolds, FreshLinkWorks
<1> QED
  BY <1>1, <1>2 DEF AccessInv, AccessHonest

\* A call that is put another in its place.
LEMMA CallMoves ==
  ASSUME AccessInv, NEW i \in DOMAIN calls, NEW c \in CallsOf(Len(links)), calls' = [calls EXCEPT ![i] = c],
         UNCHANGED <<agent, links, barred, browser, made>>, fallback' \in Persons
  PROVE  AccessInv'
<1>1. calls \in Seq(CallsOf(Len(links)))
  BY AccessThere
<1>2. calls' \in Seq(CallsOf(Len(links))) /\ Len(calls') = Len(calls)
  BY <1>1, Replaced
<1> QED
  BY <1>2, AccessThere, RowsAside

\* A call that goes on, or is answered.
LEMMA CallStep ==
  ASSUME NEW n \in Nat, NEW c \in CallsOf(n), NEW x \in {"sent", "passed", "found", "refused", "answered"}, x = "found" => c.active
  PROVE  LET d == [c EXCEPT !.step = x] IN d \in CallsOf(n)
BY DEF CallsOf, CallRow, Carries

LEMMA CallRoles ==
  ASSUME NEW n \in Nat, NEW c \in CallsOf(n), NEW x \in {"sent", "passed", "refused", "answered"}, NEW r \in Roles
  PROVE  LET d == [c EXCEPT !.step = x, !.role = r] IN d \in CallsOf(n)
BY DEF CallsOf, CallRow, Carries

LEMMA CallIs ==
  ASSUME NEW n \in Nat, NEW p \in Staff, NEW op \in CallOps
  PROVE  Call(p, op) \in CallRow /\ Call(p, op).op = op /\ Call(p, op).step = "sent" /\ Call(p, op).by = p
<1>1. Nobody \in ListRows
  BY DEF Nobody, ListRows, ListedRow, Roles
<1> DEFINE table == Nobody
<1>2. table \in ListRows /\ Call(p, op) = [by |-> p, op |-> op, step |-> "sent", of |-> "none", role |-> "none", active |-> FALSE, link |-> 0,
                                         rows |-> table, choice |-> "none"]
  BY <1>1 DEF Call
<1> HIDE DEF table
<1> QED
  BY <1>2 DEF CallRow, Persons

LEMMA ListedIs ==
  ASSUME AccessInv
  PROVE  [s \in Staff |-> Listed(s)] \in ListRows
<1>1. \A s \in Staff : agent[s] \in AgentRow
  BY AccessThere
<1>2. \A s \in Staff : Listed(s) \in ListedRow
  BY <1>1 DEF Listed, ListedRow, AgentRow
<1> QED
  BY <1>2 DEF ListRows

\* The calls that change no row.
LEMMA ReadsKeepAccess ==
  ASSUME AccessInv, NEW i \in DOMAIN calls,
         Guard(i) \/ ListAgents(i) \/ NotFound(i) \/ ChooseFallback(i) \/ ReadFallback(i) \/ FindInvite(i) \/ LosesRow(i) \/ SignIn(i)
  PROVE  AccessInv'
<1> DEFINE n == Len(links)
           c == calls[i]
<1>h. c \in CallsOf(n) /\ c \in CallRow /\ n \in Nat /\ calls \in Seq(CallsOf(n)) /\ Carries(c, n)
  BY AccessThere, CallThere
<1>f. fallback \in Persons /\ c.choice \in Persons
  BY <1>h, AccessThere DEF CallRow
<1>k. ASSUME NEW d \in CallsOf(n), calls' = [calls EXCEPT ![i] = d], UNCHANGED <<agent, links, barred, browser, made>>, fallback' \in Persons
      PROVE  AccessInv'
  BY <1>k, CallMoves
<1>s. ASSUME NEW x \in {"passed", "refused", "answered"}, Step(i, x), UNCHANGED <<agent, links, barred, browser, made>>, fallback' \in Persons
      PROVE  AccessInv'
  <2>1. [c EXCEPT !.step = x] \in CallsOf(n)
    BY <1>h, CallStep
  <2>2. calls' = [calls EXCEPT ![i] = [c EXCEPT !.step = x]]
    BY <1>s DEF Step
  <2> QED
    BY <1>k, <1>s, <2>1, <2>2
<1>1. CASE Guard(i)
  <2>1. \E x \in {"passed", "refused"} : Step(i, x)
    BY <1>1 DEF Guard
  <2> QED
    BY <1>1, <1>f, <1>s, <2>1 DEF Guard
<1>2. CASE ListAgents(i)
  <2> DEFINE table == [s \in Staff |-> Listed(s)]
             d == [c EXCEPT !.step = "answered", !.rows = table]
  <2>1. table \in ListRows
    BY ListedIs
  <2>2. calls' = [calls EXCEPT ![i] = d]
    BY <1>2 DEF ListAgents
  <2> HIDE DEF table
  <2>3. d \in CallsOf(n)
    BY <1>h, <2>1 DEF CallsOf, CallRow, Carries
  <2> QED
    BY <1>2, <1>f, <1>k, <2>2, <2>3 DEF ListAgents
<1>3. CASE NotFound(i)
  BY <1>3, <1>f, <1>s DEF NotFound
<1>4. CASE ChooseFallback(i)
  BY <1>4, <1>f, <1>s DEF ChooseFallback
<1>5. CASE ReadFallback(i)
  <2> DEFINE d == [c EXCEPT !.step = "answered", !.choice = fallback]
  <2>1. d \in CallsOf(n)
    BY <1>h, <1>f DEF CallsOf, CallRow, Carries
  <2>2. calls' = [calls EXCEPT ![i] = d]
    BY <1>5 DEF ReadFallback
  <2> QED
    BY <1>5, <1>f, <1>k, <2>1, <2>2 DEF ReadFallback
<1>6. CASE FindInvite(i)
  <2> DEFINE s == links[c.link].of
             a == agent[s].active
             x == (IF agent[s].token = c.link /\ agent[s].active THEN "found" ELSE "refused")
             d == [c EXCEPT !.step = x, !.active = a]
  <2>1. s \in Staff
    <3>1. c.link \in 1..n /\ links \in Seq(InviteRow)
      BY <1>6, <1>h, AccessThere DEF FindInvite, Stands, Carries
    <3>2. links[c.link] \in InviteRow
      BY <3>1
    <3> QED
      BY <3>2 DEF InviteRow
  <2>2. a \in BOOLEAN
    BY <2>1, AccessThere DEF AgentRow
  <2>3. calls' = [calls EXCEPT ![i] = d]
    BY <1>6 DEF FindInvite
  <2>4. x \in {"found", "refused"} /\ (x = "found" => a)
    OBVIOUS
  <2> HIDE DEF a, x
  <2>5. d \in CallsOf(n)
    BY <1>h, <2>2, <2>4 DEF CallsOf, CallRow, Carries
  <2> QED
    BY <1>6, <1>f, <1>k, <2>3, <2>5 DEF FindInvite
<1>7. CASE LosesRow(i)
  BY <1>7, <1>f, <1>s DEF LosesRow
<1>8. CASE SignIn(i)
  <2> DEFINE r == agent[c.by].role
             x == (IF Signed(c.by) THEN "answered" ELSE "refused")
             d == [c EXCEPT !.step = x, !.role = r]
  <2>1. r \in Roles /\ x \in {"answered", "refused"}
    <3>1. c.by \in Staff
      BY <1>h DEF CallRow
    <3> QED
      BY <3>1, AccessThere DEF AgentRow
  <2>2. Step(i, "refused") \/ calls' = [calls EXCEPT ![i] = d]
    BY <1>8 DEF SignIn, Answers
  <2> HIDE DEF r, x
  <2>3. d \in CallsOf(n)
    BY <1>h, <2>1, CallRoles
  <2>4. UNCHANGED <<agent, links, barred, browser, made, fallback>>
    BY <1>8 DEF SignIn
  <2> QED
    BY <1>f, <1>k, <1>s, <2>2, <2>3, <2>4
<1> QED
  BY <1>1, <1>2, <1>3, <1>4, <1>5, <1>6, <1>7, <1>8

\* A row that is changed, but for its token, or deleted.
LEMMA RowChanges ==
  ASSUME AccessInv, NEW i \in DOMAIN calls, NEW d \in CallsOf(Len(links)), NEW s \in Staff, NEW row \in AgentRow, NEW b \in BOOLEAN,
         row.token <= Len(links), row.exists => agent[s].exists /\ row.token = agent[s].token, b => ~row.active,
         agent' = [agent EXCEPT ![s] = row], barred' = [barred EXCEPT ![s] = b], calls' = [calls EXCEPT ![i] = d],
         UNCHANGED <<links, browser, made, fallback>>
  PROVE  AccessInv'
<1>1. agent' \in [Staff -> AgentRow] /\ \A u \in Staff : agent'[u] = IF u = s THEN row ELSE agent[u]
  BY AccessThere
<1>2. barred' \in [Staff -> BOOLEAN] /\ \A u \in Staff : barred'[u] = IF u = s THEN b ELSE barred[u]
  BY AccessThere
<1>3. calls' \in Seq(CallsOf(Len(links))) /\ Len(calls') = Len(calls)
  <2>1. calls \in Seq(CallsOf(Len(links)))
    BY AccessThere
  <2> QED
    BY <2>1, Replaced
<1>4. AccessKinds'
  BY <1>1, <1>2, <1>3, AccessThere DEF AccessKinds
<1>5. TokensMailed'
  BY <1>1, AccessThere DEF TokensMailed
<1>6. DeactivationHolds'
  BY <1>1, <1>2, AccessThere DEF DeactivationHolds
<1>7. FreshLinkWorks'
  <2>1. \A n \in DOMAIN links : links[n].of \in Staff
    BY InviteThere
  <2> QED
    BY <1>1, <2>1, AccessThere DEF FreshLinkWorks
<1> QED
  BY <1>4, <1>5, <1>6, <1>7 DEF AccessInv, AccessHonest

LEMMA UpdateKeepsAccess ==
  ASSUME AccessInv, NEW i \in DOMAIN calls, UpdateAgent(i)
  PROVE  AccessInv'
<1> DEFINE n == Len(links)
           c == calls[i]
           a == agent[c.of]
           d == [c EXCEPT !.step = "answered"]
<1>1. c \in CallsOf(n) /\ c \in CallRow /\ n \in Nat /\ c.op = "update" /\ c.of \in Staff /\ a.exists
  <2>1. c \in CallsOf(n) /\ c \in CallRow /\ n \in Nat /\ Carries(c, n) /\ c.op = "update" /\ a.exists
    BY AccessThere, CallThere DEF UpdateAgent, Stands
  <2> QED
    BY <2>1 DEF Carries
<1>2. d \in CallsOf(n) /\ calls' = [calls EXCEPT ![i] = d]
  <2>1. d \in CallsOf(n)
    BY <1>1, CallStep
  <2> QED
    BY <2>1 DEF UpdateAgent, Step
<1>3. a \in AgentRow /\ a.token <= n /\ c.active \in BOOLEAN /\ c.role \in Roles \union {"none"} /\ barred[c.of] \in BOOLEAN
      /\ (barred[c.of] => ~a.active)
  <2>1. a \in AgentRow /\ a.token <= n /\ barred[c.of] \in BOOLEAN /\ (barred[c.of] => ~a.active)
    BY <1>1, AccessThere DEF DeactivationHolds
  <2> QED
    BY <1>1, <2>1 DEF CallRow
<1>4. UNCHANGED <<links, browser, made, fallback>>
  BY DEF UpdateAgent
<1>5. CASE c.role = "none"
  <2> DEFINE x == c.active
             y == ~c.active
             row == [a EXCEPT !.active = x]
  <2>1. agent' = [agent EXCEPT ![c.of] = row] /\ barred' = [barred EXCEPT ![c.of] = y]
    BY <1>5 DEF UpdateAgent
  <2>2. x \in BOOLEAN /\ y \in BOOLEAN /\ (y => ~x)
    BY <1>3
  <2> HIDE DEF x, y
  <2>3. row \in AgentRow /\ row.token = a.token /\ row.exists = a.exists /\ row.active = x
    BY <1>3, <2>2 DEF AgentRow
  <2> HIDE DEF row
  <2> QED
    BY <1>1, <1>2, <1>3, <1>4, <2>1, <2>2, <2>3, RowChanges
<1>6. CASE c.role # "none"
  <2> DEFINE r == c.role
             b == barred[c.of]
             row == [a EXCEPT !.role = r]
  <2>1. agent' = [agent EXCEPT ![c.of] = row] /\ barred' = [barred EXCEPT ![c.of] = b]
    BY <1>6 DEF UpdateAgent
  <2>2. r \in Roles
    BY <1>3, <1>6
  <2>3. b \in BOOLEAN /\ (b => ~a.active)
    BY <1>3
  <2> HIDE DEF r, b
  <2>4. row \in AgentRow /\ row.token = a.token /\ row.exists = a.exists /\ row.active = a.active
    BY <1>3, <2>2 DEF AgentRow
  <2> HIDE DEF row
  <2> QED
    BY <1>1, <1>2, <1>3, <1>4, <2>1, <2>3, <2>4, RowChanges
<1> QED
  BY <1>5, <1>6

LEMMA RemoveKeepsAccess ==
  ASSUME AccessInv, NEW i \in DOMAIN calls, RemoveAgent(i)
  PROVE  AccessInv'
<1> DEFINE n == Len(links)
           c == calls[i]
           d == [c EXCEPT !.step = "answered"]
<1>1. c \in CallsOf(n) /\ n \in Nat /\ c.op = "remove" /\ c.of \in Staff
  <2>1. c \in CallsOf(n) /\ n \in Nat /\ Carries(c, n) /\ c.op = "remove"
    BY AccessThere, CallThere DEF RemoveAgent, Stands
  <2> QED
    BY <2>1 DEF Carries
<1>2. d \in CallsOf(n) /\ calls' = [calls EXCEPT ![i] = d]
  <2>1. d \in CallsOf(n)
    BY <1>1, CallStep
  <2> QED
    BY <2>1 DEF RemoveAgent, Step
<1>3. NoAgent \in AgentRow /\ NoAgent.token = 0 /\ NoAgent.exists = FALSE
  BY DEF NoAgent, AgentRow, Roles
<1>4. agent' = [agent EXCEPT ![c.of] = NoAgent] /\ barred' = [barred EXCEPT ![c.of] = FALSE] /\ UNCHANGED <<links, browser, made, fallback>>
  BY DEF RemoveAgent
<1>5. NoAgent.token <= n
  BY <1>1, <1>3
<1> QED
  BY <1>1, <1>2, <1>3, <1>4, <1>5, RowChanges

LEMMA GoogleKeepsAccess ==
  ASSUME AccessInv, NEW i \in DOMAIN calls, GoogleIn(i)
  PROVE  AccessInv'
<1> DEFINE n == Len(links)
           c == calls[i]
           p == c.by
           a == agent[p]
<1>1. c \in CallsOf(n) /\ n \in Nat /\ p \in Staff
  BY AccessThere, CallThere
<1>2. a \in AgentRow /\ a.token <= n /\ barred[p] \in BOOLEAN /\ (barred[p] => ~a.active)
  BY <1>1, AccessThere DEF DeactivationHolds
<1>3. UNCHANGED <<links, browser, made, fallback, barred>>
  BY DEF GoogleIn
<1>4. CASE a.exists
  <2> DEFINE r == a.role
             x == (IF Signed(p) THEN "answered" ELSE "refused")
             d == [c EXCEPT !.step = x, !.role = r]
             row == [a EXCEPT !.accepted = TRUE]
             b == barred[p]
  <2>1. calls' = [calls EXCEPT ![i] = d] /\ agent' = [agent EXCEPT ![p] = row]
    BY <1>4 DEF GoogleIn, Answers
  <2>2. r \in Roles /\ x \in {"answered", "refused"}
    BY <1>2 DEF AgentRow
  <2>3. barred' = [barred EXCEPT ![p] = b] /\ b \in BOOLEAN /\ (b => ~a.active)
    BY <1>1, <1>2, <1>3, AccessThere
  <2> HIDE DEF r, x, b
  <2>4. d \in CallsOf(n)
    BY <1>1, <2>2, CallRoles
  <2>5. row \in AgentRow /\ row.token = a.token /\ row.exists = a.exists /\ row.active = a.active
    BY <1>2 DEF AgentRow
  <2> HIDE DEF d, row
  <2> QED
    BY <1>1, <1>2, <1>3, <1>4, <2>1, <2>3, <2>4, <2>5, RowChanges
<1>5. CASE ~a.exists
  <2> DEFINE d == [c EXCEPT !.step = "refused"]
  <2>1. calls' = [calls EXCEPT ![i] = d] /\ UNCHANGED agent
    BY <1>5 DEF GoogleIn, Step
  <2>2. d \in CallsOf(n)
    BY <1>1, CallStep
  <2> HIDE DEF d
  <2>3. fallback' \in Persons
    BY <1>3, AccessThere
  <2> QED
    BY <1>3, <2>1, <2>2, <2>3, CallMoves
<1> QED
  BY <1>4, <1>5

\* An invitation, of which the row has the token from now on.
LEMMA InviteKeepsAccess ==
  ASSUME AccessInv, NEW i \in DOMAIN calls, Invite(i)
  PROVE  AccessInv'
<1> DEFINE n == Len(links)
           new == n + 1
           c == calls[i]
           s == c.of
           a == agent[s]
           d == [c EXCEPT !.step = "answered"]
           row == IF a.exists THEN [a EXCEPT !.role = c.role, !.token = new, !.active = TRUE] ELSE Row(c.role, FALSE, new)
<1>1. c \in CallsOf(n) /\ n \in Nat /\ new \in Nat /\ s \in Staff /\ c.role \in Roles /\ n < MaxInvites
  <2>1. c \in CallsOf(n) /\ n \in Nat /\ Carries(c, n) /\ c.op = "invite" /\ n < MaxInvites
    BY AccessThere, CallThere DEF Invite, Stands
  <2> QED
    BY <2>1 DEF Carries
<1>2. agent' = [agent EXCEPT ![s] = row] /\ links' = Append(links, Link(s)) /\ barred' = [barred EXCEPT ![s] = FALSE]
      /\ calls' = [calls EXCEPT ![i] = d] /\ UNCHANGED <<browser, made, fallback>>
  BY DEF Invite, Step
<1>3. a \in AgentRow
  BY <1>1, AccessThere
<1>4. row \in AgentRow /\ row.token = new
  <2> DEFINE r == c.role
  <2>1. r \in Roles
    BY <1>1
  <2> HIDE DEF r, new
  <2>2. LET b == [a EXCEPT !.role = r, !.token = new, !.active = TRUE] IN b \in AgentRow /\ b.token = new
    BY <1>1, <1>3, <2>1 DEF AgentRow
  <2>3. Row(r, FALSE, new) \in AgentRow /\ Row(r, FALSE, new).token = new
    BY <1>1, <2>1 DEF AgentRow, Row
  <2> QED
    BY <2>2, <2>3 DEF r
<1> HIDE DEF row
<1>5. links' \in Seq(InviteRow) /\ Len(links') = new /\ (\A j \in 1..n : links'[j] = links[j]) /\ links'[new].of = s
  <2>1. Link(s) \in InviteRow /\ Link(s).of = s
    BY <1>1 DEF Link, InviteRow
  <2>2. links \in Seq(InviteRow)
    BY AccessThere
  <2> QED
    BY <1>2, <2>1, <2>2, Appended
<1>6. calls' \in Seq(CallsOf(Len(links'))) /\ Len(calls') = Len(calls)
  <2>1. CallsOf(n) \subseteq CallsOf(new)
    BY <1>1 DEF CallsOf, Carries
  <2>2. calls \in Seq(CallsOf(n)) /\ d \in CallsOf(n)
    BY <1>1, AccessThere, CallStep
  <2>3. calls' \in Seq(CallsOf(n)) /\ Len(calls') = Len(calls)
    BY <1>2, <2>2, Replaced
  <2> QED
    BY <1>5, <2>1, <2>3
<1>7. agent' \in [Staff -> AgentRow] /\ \A u \in Staff : agent'[u] = IF u = s THEN row ELSE agent[u]
  BY <1>2, <1>4, AccessThere
<1>8. barred' \in [Staff -> BOOLEAN] /\ \A u \in Staff : barred'[u] = IF u = s THEN FALSE ELSE barred[u]
  BY <1>2, AccessThere
<1>9. AccessKinds'
  <2>1. Len(links') <= MaxInvites
    BY <1>1, <1>5, AccessAssumption
  <2> QED
    BY <1>2, <1>5, <1>6, <1>7, <1>8, <2>1, AccessThere DEF AccessKinds
<1>10. TokensMailed'
  <2>1. \A u \in Staff : agent[u].token \in Nat /\ agent[u].token <= n
    BY AccessThere DEF AgentRow
  <2> QED
    BY <1>1, <1>4, <1>5, <1>7, <2>1 DEF TokensMailed
<1>11. DeactivationHolds'
  BY <1>7, <1>8, AccessThere DEF DeactivationHolds
<1>12. FreshLinkWorks'
  <2> SUFFICES ASSUME NEW m \in DOMAIN links', agent'[links'[m].of].exists, \A j \in DOMAIN links' : j > m => links'[j].of # links'[m].of
               PROVE  agent'[links'[m].of].token = m \/ links'[m].used \/ links'[m].lost
    BY DEF FreshLinkWorks
  <2>0. DOMAIN links' = 1..new /\ DOMAIN links = 1..n
    BY <1>5, AccessThere
  <2>1. CASE m = new
    BY <1>1, <1>4, <1>5, <1>7, <2>1
  <2>2. CASE m # new
    <3>1. m \in 1..n /\ new > m /\ new \in DOMAIN links'
      BY <1>1, <2>0, <2>2
    <3>2. links'[m] = links[m] /\ links[m].of # s
      BY <1>5, <3>1
    <3>3. links[m].of \in Staff
      <4>1. links[m] \in InviteRow
        BY <2>0, <3>1, AccessThere
      <4> QED
        BY <4>1 DEF InviteRow
    <3>4. agent'[links[m].of] = agent[links[m].of]
      BY <1>7, <3>2, <3>3
    <3>5. \A j \in DOMAIN links : j > m => links[j].of # links[m].of
      BY <1>1, <1>5, <2>0, <3>1, <3>2
    <3> QED
      BY <2>0, <3>1, <3>2, <3>4, <3>5, AccessThere DEF FreshLinkWorks
  <2> QED
    BY <2>1, <2>2
<1> QED
  BY <1>9, <1>10, <1>11, <1>12 DEF AccessInv, AccessHonest

LEMMA MailKeepsAccess ==
  ASSUME AccessInv, NEW n \in DOMAIN links, MailInvite(n)
  PROVE  AccessInv'
<1>1. PICK mail \in {"sent", "failed"} : links' = [links EXCEPT ![n] = [links[n] EXCEPT !.mail = mail]]
  BY DEF MailInvite
<1> DEFINE l == [links[n] EXCEPT !.mail = mail]
<1>2. l \in InviteRow /\ l.of = links[n].of /\ l.used = links[n].used /\ l.lost = links[n].lost
  BY InviteThere DEF InviteRow
<1> HIDE DEF l
<1>3. links' \in Seq(InviteRow) /\ Len(links') = Len(links) /\ DOMAIN links' = DOMAIN links
      /\ \A j \in DOMAIN links : links'[j] = IF j = n THEN l ELSE links[j]
  <2>1. links \in Seq(InviteRow) /\ links' = [links EXCEPT ![n] = l]
    BY <1>1, AccessThere DEF l
  <2> QED
    BY <1>2, <2>1, Replaced
<1>4. \A j \in DOMAIN links : links'[j].of = links[j].of /\ links'[j].used = links[j].used /\ links'[j].lost = links[j].lost
  BY <1>2, <1>3
<1>5. UNCHANGED <<agent, browser, calls, made, fallback, barred>>
  BY DEF MailInvite
<1>6. AccessKinds'
  BY <1>3, <1>5, AccessThere DEF AccessKinds
<1>7. TokensMailed' /\ DeactivationHolds'
  BY <1>3, <1>5, AccessThere DEF TokensMailed, DeactivationHolds
<1>8. FreshLinkWorks'
  BY <1>3, <1>4, <1>5, AccessThere DEF FreshLinkWorks
<1> QED
  BY <1>6, <1>7, <1>8 DEF AccessInv, AccessHonest

\* An acceptance uses its link, and takes from the row whatever token it has by now.
LEMMA TakeKeepsAccess ==
  ASSUME AccessInv, NEW i \in DOMAIN calls, TakeInvite(i)
  PROVE  AccessInv'
<1> DEFINE n == Len(links)
           c == calls[i]
           s == links[c.link].of
           a == agent[s]
           r == a.role
           d == [c EXCEPT !.step = "answered", !.role = r]
           row == [a EXCEPT !.password = TRUE, !.accepted = TRUE, !.token = 0, !.active = TRUE]
<1>1. c \in CallsOf(n) /\ n \in Nat /\ c.link \in DOMAIN links /\ c.active /\ s \in Staff /\ a \in AgentRow /\ a.exists
  <2>1. c \in CallsOf(n) /\ n \in Nat /\ Carries(c, n) /\ c.op = "accept" /\ c.step = "found" /\ a.exists
    BY AccessThere, CallThere DEF TakeInvite, Stands
  <2>2. c.link \in DOMAIN links /\ c.active
    BY <2>1, InviteThere DEF Carries
  <2>3. s \in Staff
    BY <2>2, InviteThere
  <2>4. a \in AgentRow
    BY <2>3, AccessThere
  <2> QED
    BY <2>1, <2>2, <2>3, <2>4
<1>2. /\ agent' = [agent EXCEPT ![s] = row]
      /\ links' = [j \in DOMAIN links |-> IF j = c.link THEN [links[j] EXCEPT !.used = TRUE]
                                          ELSE [links[j] EXCEPT !.lost = @ \/ j = a.token]]
      /\ barred' = [barred EXCEPT ![s] = @ /\ ~c.active]
      /\ calls' = [calls EXCEPT ![i] = d] /\ UNCHANGED <<browser, made, fallback>>
  BY DEF TakeInvite
<1>3. row \in AgentRow /\ row.exists = a.exists /\ row.token = 0
  BY <1>1 DEF AgentRow
<1>4. agent' \in [Staff -> AgentRow] /\ \A u \in Staff : agent'[u] = IF u = s THEN row ELSE agent[u]
  <2> HIDE DEF row
  <2> QED
    BY <1>2, <1>3, AccessThere
<1>5. barred' \in [Staff -> BOOLEAN] /\ \A u \in Staff : barred'[u] = IF u = s THEN FALSE ELSE barred[u]
  <2>1. barred' = [barred EXCEPT ![s] = FALSE]
    BY <1>1, <1>2
  <2> QED
    BY <2>1, AccessThere
<1>6. calls' \in Seq(CallsOf(n)) /\ Len(calls') = Len(calls)
  <2>1. r \in Roles
    BY <1>1 DEF AgentRow
  <2>2. d \in CallsOf(n)
    <3> HIDE DEF r
    <3> QED
      BY <1>1, <2>1, CallRoles
  <2>3. calls \in Seq(CallsOf(n))
    BY AccessThere
  <2> HIDE DEF d
  <2> QED
    BY <1>2, <2>2, <2>3, Replaced
<1>7. \A j \in DOMAIN links : /\ links'[j] \in InviteRow /\ links'[j].of = links[j].of
                              /\ (links'[j].used <=> links[j].used \/ j = c.link)
                              /\ (links'[j].lost <=> links[j].lost \/ (j # c.link /\ j = a.token))
  <2> SUFFICES ASSUME NEW j \in DOMAIN links
               PROVE  /\ links'[j] \in InviteRow /\ links'[j].of = links[j].of
                      /\ (links'[j].used <=> links[j].used \/ j = c.link)
                      /\ (links'[j].lost <=> links[j].lost \/ (j # c.link /\ j = a.token))
    OBVIOUS
  <2>1. links[j] \in InviteRow
    BY InviteThere
  <2>2. CASE j = c.link
    <3>1. links'[j] = [links[j] EXCEPT !.used = TRUE]
      BY <1>2, <2>2
    <3> QED
      BY <2>1, <2>2, <3>1 DEF InviteRow
  <2>3. CASE j # c.link
    <3> DEFINE b == (links[j].lost \/ j = a.token)
    <3>1. links'[j] = [links[j] EXCEPT !.lost = b]
      BY <1>2, <2>3
    <3>2. b \in BOOLEAN
      OBVIOUS
    <3>3. b <=> links[j].lost \/ j = a.token
      OBVIOUS
    <3> HIDE DEF b
    <3> QED
      BY <2>1, <2>3, <3>1, <3>2, <3>3 DEF InviteRow
  <2> QED
    BY <2>2, <2>3
<1>8. links' \in Seq(InviteRow) /\ Len(links') = n /\ DOMAIN links' = DOMAIN links
  <2>1. DOMAIN links' = 1..n /\ DOMAIN links = 1..n
    BY <1>2, InviteThere
  <2>2. links' = [j \in 1..n |-> links'[j]]
    BY <1>2, <2>1
  <2>3. \A j \in 1..n : links'[j] \in InviteRow
    BY <1>7, <2>1
  <2>4. links' \in Seq(InviteRow)
    BY <1>1, <2>2, <2>3
  <2> QED
    BY <1>1, <2>1, <2>4
<1>9. AccessKinds'
  BY <1>2, <1>4, <1>5, <1>6, <1>8, AccessThere DEF AccessKinds
<1>10. TokensMailed'
  <2> HIDE DEF row
  <2>1. row.token <= Len(links') /\ Len(links') = Len(links)
    BY <1>1, <1>3, <1>8
  <2>2. \A u \in Staff : agent[u].token <= Len(links)
    BY AccessThere
  <2> QED
    BY <1>4, <2>1, <2>2 DEF TokensMailed
<1>11. DeactivationHolds'
  BY <1>4, <1>5, AccessThere DEF DeactivationHolds
<1>12. FreshLinkWorks'
  <2> SUFFICES ASSUME NEW m \in DOMAIN links', agent'[links'[m].of].exists, \A j \in DOMAIN links' : j > m => links'[j].of # links'[m].of
               PROVE  agent'[links'[m].of].token = m \/ links'[m].used \/ links'[m].lost
    BY DEF FreshLinkWorks
  <2>1. m \in DOMAIN links /\ links[m].of \in Staff /\ links'[m].of = links[m].of
    BY <1>7, <1>8, InviteThere
  <2>2. agent[links[m].of].exists
    BY <1>1, <1>3, <1>4, <2>1
  <2>3. \A j \in DOMAIN links : j > m => links[j].of # links[m].of
    BY <1>7, <1>8, <2>1
  <2>4. agent[links[m].of].token = m \/ links[m].used \/ links[m].lost
    BY <2>1, <2>2, <2>3, AccessThere DEF FreshLinkWorks
  <2>5. CASE links[m].of # s
    BY <1>4, <1>7, <2>1, <2>4, <2>5
  <2>6. CASE links[m].of = s
    BY <1>7, <2>1, <2>4, <2>6
  <2> QED
    BY <2>5, <2>6
<1> QED
  BY <1>9, <1>10, <1>11, <1>12 DEF AccessInv, AccessHonest

\* What the page does: a call is sent, or an answer received.
LEMMA SendKeepsAccess ==
  ASSUME AccessInv, NEW c \in CallsOf(Len(links)), Send(c), browser' \in [Staff -> BrowserRow], UNCHANGED <<agent, links, fallback, barred>>
  PROVE  AccessInv'
<1>1. calls' = Append(calls, c) /\ made' = made + 1 /\ made < MaxCalls
  BY DEF Send
<1>2. calls \in Seq(CallsOf(Len(links))) /\ made \in Nat /\ Len(calls) \in Nat /\ Len(calls) <= made /\ fallback \in Persons
  BY AccessThere
<1>3. calls' \in Seq(CallsOf(Len(links))) /\ Len(calls') = Len(calls) + 1
  BY <1>1, <1>2, Appended
<1>4. made' \in Nat /\ made' <= MaxCalls /\ Len(calls') <= made'
  BY <1>1, <1>2, <1>3, AccessAssumption
<1> QED
  BY <1>2, <1>3, <1>4, RowsAside

LEMMA PagesKeepAccess ==
  ASSUME AccessInv, NEW p \in Staff,
         OpenAgents(p) \/ PressInvite(p) \/ PressRole(p) \/ PressToggle(p) \/ PressFallback(p) \/ CallRemove(p)
         \/ SubmitAccept(p) \/ SubmitSignIn(p) \/ GoogleHandoff(p)
  PROVE  AccessInv'
<1> DEFINE n == Len(links)
<1>0. n \in Nat /\ browser[p] \in BrowserRow /\ browser \in [Staff -> BrowserRow] /\ UNCHANGED <<agent, links, fallback, barred>>
  <2>1. n \in Nat /\ browser[p] \in BrowserRow /\ browser \in [Staff -> BrowserRow]
    BY AccessThere
  <2>2. Untouched
    BY DEF OpenAgents, PressInvite, PressRole, PressToggle, PressFallback, CallRemove, SubmitAccept, SubmitSignIn, GoogleHandoff
  <2> QED
    BY <2>1, <2>2 DEF Untouched
<1>c. ASSUME NEW op \in CallOps PROVE Call(p, op) \in CallRow /\ Call(p, op).op = op /\ Call(p, op).step = "sent"
  BY <1>0, CallIs
<1>b. \A f \in {"inviting", "saving"} : [browser EXCEPT ![p].inviting = TRUE] \in [Staff -> BrowserRow]
                                        /\ [browser EXCEPT ![p].saving = TRUE] \in [Staff -> BrowserRow]
  <2>1. [browser[p] EXCEPT !.inviting = TRUE] \in BrowserRow /\ [browser[p] EXCEPT !.saving = TRUE] \in BrowserRow
    BY <1>0 DEF BrowserRow
  <2> QED
    BY <1>0, <2>1
<1>k. ASSUME NEW c \in CallsOf(n), Send(c), browser' \in [Staff -> BrowserRow] PROVE AccessInv'
  BY <1>0, <1>k, SendKeepsAccess
<1>1. ASSUME NEW op \in {"list", "chosen", "signin", "google"}, Send(Call(p, op)), UNCHANGED browser PROVE AccessInv'
  <2>1. op \in CallOps
    BY DEF CallOps
  <2> DEFINE c == Call(p, op)
  <2>2. c \in CallRow /\ c.op = op /\ c.step = "sent"
    BY <1>c, <2>1
  <2>3. c \in CallsOf(n)
    BY <2>2 DEF CallsOf, Carries
  <2> QED
    BY <1>0, <1>1, <1>k, <2>3
<1>2. ASSUME NEW op \in {"invite", "update", "remove"}, NEW s \in Staff, NEW r \in Roles, NEW b \in BOOLEAN,
             NEW d, d \in {[Call(p, op) EXCEPT !.of = s, !.role = r]}
                          \union (IF op = "invite" THEN {} ELSE {[Call(p, op) EXCEPT !.of = s, !.active = b], [Call(p, op) EXCEPT !.of = s]}),
             Send(d), browser' \in [Staff -> BrowserRow]
      PROVE  AccessInv'
  <2>1. op \in CallOps
    BY DEF CallOps
  <2> DEFINE c == Call(p, op)
  <2>2. c \in CallRow /\ c.op = op /\ c.step = "sent" /\ s \in Persons
    BY <1>c, <2>1 DEF Persons
  <2>3. d \in {[c EXCEPT !.of = s, !.role = r]} \union (IF op = "invite" THEN {} ELSE {[c EXCEPT !.of = s, !.active = b], [c EXCEPT !.of = s]})
    BY <1>2
  <2> HIDE DEF c
  <2>4. d \in CallsOf(n)
    BY <2>2, <2>3 DEF CallsOf, CallRow, Carries
  <2> QED
    BY <1>2, <1>k, <2>4
<1>3. CASE OpenAgents(p)
  <2>1. PICK op \in {"list", "chosen"} : Send(Call(p, op))
    BY <1>3 DEF OpenAgents
  <2> QED
    BY <1>1, <1>3, <2>1 DEF OpenAgents
<1>4. CASE PressInvite(p)
  <2>1. PICK s \in Staff, r \in Roles : Send([Call(p, "invite") EXCEPT !.of = s, !.role = r])
    BY <1>4 DEF PressInvite, Newcomers
  <2>2. browser' \in [Staff -> BrowserRow]
    BY <1>4, <1>b DEF PressInvite
  <2> DEFINE d == [Call(p, "invite") EXCEPT !.of = s, !.role = r]
  <2>3. Send(d) /\ d \in {[Call(p, "invite") EXCEPT !.of = s, !.role = r]}
    BY <2>1
  <2> HIDE DEF d
  <2> QED
    BY <1>2, <2>2, <2>3
<1>5. CASE PressRole(p)
  <2>1. PICK s \in Staff, r \in Roles : Send([Call(p, "update") EXCEPT !.of = s, !.role = r])
    BY <1>5 DEF PressRole
  <2>2. browser' \in [Staff -> BrowserRow]
    BY <1>0, <1>5 DEF PressRole
  <2> DEFINE d == [Call(p, "update") EXCEPT !.of = s, !.role = r]
  <2>3. Send(d) /\ d \in {[Call(p, "update") EXCEPT !.of = s, !.role = r]}
    BY <2>1
  <2> HIDE DEF d
  <2> QED
    BY <1>2, <2>2, <2>3
<1>6. CASE PressToggle(p)
  <2>1. PICK s \in Staff : Send([Call(p, "update") EXCEPT !.of = s, !.active = ~browser[p].rows[s].active])
    BY <1>6 DEF PressToggle
  <2>2. browser' \in [Staff -> BrowserRow]
    BY <1>0, <1>6 DEF PressToggle
  <2> DEFINE b == ~browser[p].rows[s].active
             d == [Call(p, "update") EXCEPT !.of = s, !.active = b]
  <2>3. Send(d) /\ b \in BOOLEAN /\ "PRIMARY_AGENT" \in Roles
    BY <2>1 DEF Roles
  <2> HIDE DEF b
  <2>4. d \in {[Call(p, "update") EXCEPT !.of = s, !.active = b], [Call(p, "update") EXCEPT !.of = s]}
    OBVIOUS
  <2> HIDE DEF d
  <2> QED
    BY <1>2, <2>2, <2>3, <2>4
<1>7. CASE PressFallback(p)
  <2>1. PICK s \in Persons : Send([Call(p, "choose") EXCEPT !.choice = s])
    BY <1>7 DEF PressFallback, Persons
  <2>2. browser' \in [Staff -> BrowserRow]
    BY <1>7, <1>b DEF PressFallback
  <2> DEFINE c == Call(p, "choose")
             d == [c EXCEPT !.choice = s]
  <2>3. c \in CallRow /\ c.op = "choose" /\ Send(d)
    BY <1>c, <2>1 DEF CallOps
  <2> HIDE DEF c
  <2>4. d \in CallsOf(n)
    BY <2>3 DEF CallsOf, CallRow, Carries
  <2> HIDE DEF d
  <2> QED
    BY <1>k, <2>2, <2>3, <2>4
<1>8. CASE CallRemove(p)
  <2>1. PICK s \in Staff : Send([Call(p, "remove") EXCEPT !.of = s])
    BY <1>8 DEF CallRemove, Newcomers
  <2>2. browser' \in [Staff -> BrowserRow]
    BY <1>0, <1>8 DEF CallRemove
  <2> DEFINE d == [Call(p, "remove") EXCEPT !.of = s]
  <2>3. Send(d) /\ d \in {[Call(p, "remove") EXCEPT !.of = s, !.active = TRUE], [Call(p, "remove") EXCEPT !.of = s]} /\ "PRIMARY_AGENT" \in Roles
    BY <2>1 DEF Roles
  <2> HIDE DEF d
  <2> QED
    BY <1>2, <2>2, <2>3
<1>9. CASE SubmitAccept(p)
  <2>1. PICK m \in DOMAIN links : Send([Call(p, "accept") EXCEPT !.link = m])
    BY <1>9 DEF SubmitAccept
  <2>2. browser' \in [Staff -> BrowserRow] /\ m \in 1..n /\ m \in Nat
    BY <1>0, <1>9, InviteThere DEF SubmitAccept
  <2> DEFINE c == Call(p, "accept")
             d == [c EXCEPT !.link = m]
  <2>3. c \in CallRow /\ c.op = "accept" /\ c.step = "sent" /\ Send(d)
    BY <1>c, <2>1 DEF CallOps
  <2> HIDE DEF c
  <2>4. d \in CallsOf(n)
    BY <2>2, <2>3 DEF CallsOf, CallRow, Carries
  <2> HIDE DEF d
  <2> QED
    BY <1>k, <2>2, <2>3, <2>4
<1>10. CASE SubmitSignIn(p)
  BY <1>1, <1>10 DEF SubmitSignIn
<1>11. CASE GoogleHandoff(p)
  BY <1>1, <1>11 DEF GoogleHandoff
<1> QED
  BY <1>3, <1>4, <1>5, <1>6, <1>7, <1>8, <1>9, <1>10, <1>11

\* An answer, and what the page does with it.
LEMMA AnswersKeepAccess ==
  ASSUME AccessInv, NEW i \in DOMAIN calls, Receive(i) \/ Fail(i)
  PROVE  AccessInv'
<1> DEFINE n == Len(links)
           c == calls[i]
           p == c.by
           b == browser[p]
<1>1. n \in Nat /\ c \in CallRow /\ p \in Staff /\ b \in BrowserRow /\ browser \in [Staff -> BrowserRow] /\ calls \in Seq(CallsOf(n))
  BY AccessThere, CallThere
<1>2. UNCHANGED <<agent, links, barred, fallback, made>>
  <2>1. Untouched /\ made' = made
    BY DEF Receive, Fail
  <2> QED
    BY <2>1 DEF Untouched
<1>3. made' \in Nat /\ made' <= MaxCalls /\ fallback' \in Persons
  BY <1>2, AccessThere
<1>4. RemoveAt(calls, i) \in Seq(CallsOf(n)) /\ Len(RemoveAt(calls, i)) = Len(calls) - 1
  BY <1>1, Removed
<1>5. calls' \in Seq(CallsOf(n)) /\ Len(calls') <= made'
  <2>1. CASE Ends(i)
    BY <1>2, <1>4, <2>1, AccessThere DEF Ends
  <2>2. CASE ListsAgain(i)
    <3> DEFINE s == RemoveAt(calls, i)
               d == Call(p, "list")
    <3>1. d \in CallRow /\ d.op = "list" /\ d.step = "sent"
      BY <1>1, CallIs DEF CallOps
    <3>2. calls' = Append(s, d) /\ s \in Seq(CallsOf(n)) /\ Len(s) = Len(calls) - 1
      BY <1>4, <2>2 DEF ListsAgain
    <3> HIDE DEF d, s
    <3>3. d \in CallsOf(n)
      BY <3>1 DEF CallsOf, Carries
    <3>4. calls' \in Seq(CallsOf(n)) /\ Len(calls') = Len(s) + 1
      BY <3>2, <3>3, Appended
    <3> QED
      BY <1>2, <3>2, <3>4, AccessThere
  <2> QED
    BY <2>1, <2>2 DEF Receive, Fail
<1>6. browser' \in [Staff -> BrowserRow]
  <2>1. c.rows \in ListRows /\ c.choice \in Persons /\ c.role \in Roles \union {"none"}
    BY <1>1 DEF CallRow
  <2> DEFINE table == c.rows
             choice == c.choice
             role == c.role
  <2>2. CASE Receive(i)
    <3> DEFINE shows == CASE c.op = "list"                           -> [b EXCEPT !.rows = table]
                          [] c.op = "chosen"                         -> [b EXCEPT !.choice = choice]
                          [] c.op = "invite"                         -> [b EXCEPT !.inviting = FALSE]
                          [] c.op = "choose"                         -> [b EXCEPT !.saving = FALSE, !.choice = choice]
                          [] c.op \in {"accept", "signin", "google"} -> Browser(role, Nobody)
                          [] OTHER                                   -> b
    <3>1. browser' = [browser EXCEPT ![p] = shows]
      BY <2>2 DEF Receive
    <3>2. Nobody \in ListRows
      BY DEF Nobody, ListRows, ListedRow, Roles
    <3>3. table \in ListRows /\ choice \in Persons /\ role \in Roles \union {"none"} /\ "none" \in Persons
      BY <2>1 DEF Persons
    <3> HIDE DEF table, choice, role
    <3>4. LET e == [b EXCEPT !.rows = table] IN e \in BrowserRow
      BY <1>1, <3>3 DEF BrowserRow
    <3>5. LET e == [b EXCEPT !.choice = choice] IN e \in BrowserRow
      BY <1>1, <3>3 DEF BrowserRow
    <3>6. LET e == [b EXCEPT !.inviting = FALSE] IN e \in BrowserRow
      BY <1>1 DEF BrowserRow
    <3>7. LET e == [b EXCEPT !.saving = FALSE, !.choice = choice] IN e \in BrowserRow
      BY <1>1, <3>3 DEF BrowserRow
    <3>8. Browser(role, Nobody) \in BrowserRow
      BY <3>2, <3>3 DEF BrowserRow, Browser
    <3>9. shows \in BrowserRow
      BY <1>1, <3>4, <3>5, <3>6, <3>7, <3>8
    <3> HIDE DEF shows
    <3> QED
      BY <1>1, <3>1, <3>9
  <2>3. CASE Fail(i)
    <3> DEFINE x == b.inviting /\ c.op # "invite"
               y == b.saving /\ c.op # "choose"
               e == [b EXCEPT !.inviting = x, !.saving = y]
    <3>1. browser' = [browser EXCEPT ![p] = e]
      BY <1>1, <2>3 DEF Fail
    <3>2. x \in BOOLEAN /\ y \in BOOLEAN
      BY <1>1 DEF BrowserRow
    <3> HIDE DEF x, y
    <3>3. e \in BrowserRow
      BY <1>1, <3>2 DEF BrowserRow
    <3> HIDE DEF e
    <3> QED
      BY <1>1, <3>1, <3>3
  <2> QED
    BY <2>2, <2>3
<1> QED
  BY <1>2, <1>3, <1>5, <1>6, RowsAside

LEMMA AccessStep == AccessInv /\ (AccessNext \/ UNCHANGED accessVars) => AccessInv'
<1> SUFFICES ASSUME AccessInv, AccessNext \/ UNCHANGED accessVars PROVE AccessInv'
  OBVIOUS
<1>1. ASSUME NEW p \in Staff,
             OpenAgents(p) \/ PressInvite(p) \/ PressRole(p) \/ PressToggle(p) \/ PressFallback(p) \/ CallRemove(p)
             \/ SubmitAccept(p) \/ SubmitSignIn(p) \/ GoogleHandoff(p)
      PROVE  AccessInv'
  BY <1>1, PagesKeepAccess
<1>2. ASSUME NEW i \in DOMAIN calls, Handle(i) PROVE AccessInv'
  BY <1>2, ReadsKeepAccess, InviteKeepsAccess, UpdateKeepsAccess, RemoveKeepsAccess, TakeKeepsAccess, GoogleKeepsAccess, AnswersKeepAccess
     DEF Handle
<1>3. ASSUME NEW n \in DOMAIN links, MailInvite(n) PROVE AccessInv'
  BY <1>3, MailKeepsAccess
<1>4. CASE UNCHANGED accessVars
  <2>1. UNCHANGED <<agent, links, browser, calls, made, fallback, barred>>
    BY <1>4 DEF accessVars
  <2> QED
    BY <2>1, AccessThere, RowsAside
<1> QED
  BY <1>1, <1>2, <1>3, <1>4 DEF AccessNext

LEMMA AccessStart == AccessInit => AccessInv
<1> SUFFICES ASSUME AccessInit PROVE AccessInv
  OBVIOUS
<1>1. links = <<>> /\ calls = <<>> /\ made = 0 /\ fallback = "none" /\ barred = [s \in Staff |-> FALSE]
  BY DEF AccessInit
<1>2. \A s \in Staff : agent[s] \in {Row("ADMIN", TRUE, 0), Row("PRIMARY_AGENT", TRUE, 0), NoAgent}
  BY DEF AccessInit
<1>3. ASSUME NEW row \in {Row("ADMIN", TRUE, 0), Row("PRIMARY_AGENT", TRUE, 0), NoAgent} PROVE row \in AgentRow /\ row.token = 0
  <2>1. Row("ADMIN", TRUE, 0) \in AgentRow /\ Row("ADMIN", TRUE, 0).token = 0
    BY DEF Row, AgentRow, Roles
  <2>2. Row("PRIMARY_AGENT", TRUE, 0) \in AgentRow /\ Row("PRIMARY_AGENT", TRUE, 0).token = 0
    BY DEF Row, AgentRow, Roles
  <2>3. NoAgent \in AgentRow /\ NoAgent.token = 0
    BY DEF NoAgent, AgentRow, Roles
  <2> QED
    BY <2>1, <2>2, <2>3
<1>4. agent \in [Staff -> AgentRow] /\ \A s \in Staff : agent[s].token = 0
  <2>1. DOMAIN agent = Staff /\ agent = [s \in Staff |-> agent[s]]
    BY DEF AccessInit
  <2> QED
    BY <1>2, <1>3, <2>1
<1>5. browser \in [Staff -> BrowserRow]
  <2> DEFINE all == [t \in Staff |-> Listed(t)]
  <2>1. all \in ListRows
    <3>1. \A t \in Staff : Listed(t) \in ListedRow
      BY <1>4 DEF Listed, ListedRow, AgentRow
    <3> QED
      BY <3>1 DEF ListRows
  <2>2. Nobody \in ListRows
    BY DEF Nobody, ListRows, ListedRow, Roles
  <2>3. browser = [s \in Staff |-> IF agent[s].exists THEN Browser(agent[s].role, all) ELSE Browser("none", Nobody)]
    BY DEF AccessInit
  <2> HIDE DEF all
  <2>4. ASSUME NEW s \in Staff PROVE Browser(agent[s].role, all) \in BrowserRow /\ Browser("none", Nobody) \in BrowserRow
    <3>1. agent[s].role \in Roles
      BY <1>4 DEF AgentRow
    <3> QED
      BY <2>1, <2>2, <3>1 DEF Browser, BrowserRow, Persons
  <2> QED
    BY <2>3, <2>4
<1>6. links \in Seq(InviteRow) /\ Len(links) = 0 /\ DOMAIN links = {} /\ calls \in Seq(CallsOf(Len(links))) /\ Len(calls) = 0
  BY <1>1
<1>7. fallback \in Persons /\ barred \in [Staff -> BOOLEAN] /\ made \in Nat /\ made <= MaxCalls
  BY <1>1, AccessAssumption DEF Persons
<1>8. AccessKinds
  BY <1>1, <1>4, <1>5, <1>6, <1>7, AccessAssumption DEF AccessKinds
<1>9. TokensMailed /\ DeactivationHolds /\ FreshLinkWorks
  BY <1>1, <1>4, <1>6 DEF TokensMailed, DeactivationHolds, FreshLinkWorks
<1> QED
  BY <1>8, <1>9 DEF AccessInv, AccessHonest

\* Whom an admin deactivated stays out, however an old invitation, Google or a password is
\* tried meanwhile, and the invitation mailed last opens the desk until it is used or an older
\* one takes its token away: agents.service.ts, auth.service.ts and the guards of the calls,
\* which read the row before the handler writes it.  For every number of colleagues, of
\* invitations and of calls on their way.
THEOREM DeskIsGuarded == AdminSpec => []AccessHonest
<1>1. AdminInit => AccessInv
  BY AccessStart DEF AdminInit
<1>2. AccessInv /\ [AdminNext]_adminVars => AccessInv'
  BY AccessStep DEF AdminNext, adminVars
<1>3. AccessInv => AccessHonest
  BY DEF AccessInv
<1> QED
  BY <1>1, <1>2, <1>3, PTL DEF AdminSpec

-----------------------------------------------------------------------------
(***************************************************************************)
(* The settings' forms.  First what a form sends of its options: a         *)
(* recursive function, whose values are found by induction over a set of   *)
(* naturals.                                                               *)
(***************************************************************************)
\* A set with 0 and with the successor of each of its members leaves out no natural number:
\* there would be a least one.
LEMMA EveryNumber ==
  ASSUME NEW S, 0 \in S, \A n \in Nat : n \in S => n + 1 \in S
  PROVE  Nat \subseteq S
<1> SUFFICES ASSUME Nat \ S # {} PROVE FALSE
  OBVIOUS
<1> DEFINE R == OpToRel(<, Nat)
           T == Nat \ S
<1>1. IsWellFoundedOn(R, Nat)
  BY NatLessThanWellFounded
<1>2. \A x, y \in Nat : y < x => <<y, x>> \in R
  BY DEF OpToRel
<1> HIDE DEF R
<1>3. PICK x \in T : \A y \in T : ~(<<y, x>> \in R)
  BY <1>1, WFMin
<1>4. x # 0 /\ x - 1 \in Nat /\ x - 1 < x /\ (x - 1) + 1 = x
  BY <1>3
<1>5. x - 1 \notin T
  BY <1>2, <1>3, <1>4
<1> QED
  BY <1>3, <1>4, <1>5

OptRow == [key : Labels, label : Labels]

\* f keeps the full ones of the first n elements of s: its value at i those of the first i.
Keeps(f, s, n) ==
  /\ f = [i \in 0..n |-> f[i]] /\ f[0] = <<>>
  /\ \A i \in 1..n : f[i] = IF Full(s[i]) THEN Append(f[i - 1], s[i]) ELSE f[i - 1]

\* What f[n] holds: the full ones of the first n, and nothing else.
Holds(t, s, n) ==
  /\ t \in Seq(OptRow)
  /\ \A j \in DOMAIN t : Full(t[j])
  /\ \A i \in 1..n : Full(s[i]) => \E j \in DOMAIN t : t[j] = s[i]

LEMMA KeepsHolds ==
  ASSUME NEW s \in Seq(OptRow), NEW f, Keeps(f, s, Len(s))
  PROVE  Holds(f[Len(s)], s, Len(s))
<1> DEFINE S == {n \in Nat : n <= Len(s) => Holds(f[n], s, n)}
<1>1. 0 \in S
  <2>1. f[0] = <<>> /\ 1..0 = {}
    BY DEF Keeps
  <2>2. <<>> \in Seq(OptRow) /\ DOMAIN <<>> = {}
    OBVIOUS
  <2>3. Holds(f[0], s, 0)
    BY <2>1, <2>2 DEF Holds
  <2> QED
    BY <2>3
<1>2. ASSUME NEW n \in Nat, n \in S PROVE n + 1 \in S
  <2> SUFFICES ASSUME n + 1 <= Len(s) PROVE Holds(f[n + 1], s, n + 1)
    OBVIOUS
  <2> DEFINE t == f[n]
             o == s[n + 1]
             u == f[n + 1]
  <2>1. n \in 0..Len(s) /\ n + 1 \in 1..Len(s) /\ (n + 1) - 1 = n
    OBVIOUS
  <2>2. Holds(t, s, n)
    BY <1>2, <2>1
  <2>3. o \in OptRow /\ t \in Seq(OptRow)
    BY <2>1, <2>2 DEF Holds
  <2>4. u = IF Full(o) THEN Append(t, o) ELSE t
    BY <2>1 DEF Keeps
  <2> HIDE DEF t, o, u
  <2>5. CASE ~Full(o)
    <3>1. \A i \in 1..n + 1 : Full(s[i]) => i \in 1..n
      BY <2>5 DEF o
    <3>2. Holds(u, s, n + 1)
      BY <2>2, <2>4, <2>5, <3>1 DEF Holds
    <3> QED
      BY <3>2 DEF u
  <2>6. CASE Full(o)
    <3>1. u \in Seq(OptRow) /\ Len(u) = Len(t) + 1 /\ (\A j \in 1..Len(t) : u[j] = t[j]) /\ u[Len(t) + 1] = o /\ Len(t) \in Nat
      BY <2>3, <2>4, <2>6, Appended
    <3>2. DOMAIN u = 1..Len(t) + 1 /\ DOMAIN t = 1..Len(t)
      BY <2>3, <3>1
    <3>3. \A j \in DOMAIN u : Full(u[j])
      <4>1. \A j \in 1..Len(t) + 1 : j \in 1..Len(t) \/ j = Len(t) + 1
        BY <3>1
      <4> QED
        BY <2>2, <2>6, <3>1, <3>2, <4>1 DEF Holds
    <3>4. ASSUME NEW i \in 1..n + 1, Full(s[i]) PROVE \E j \in DOMAIN u : u[j] = s[i]
      <4>1. CASE i = n + 1
        BY <3>1, <3>2, <4>1 DEF o
      <4>2. CASE i # n + 1
        <5>1. i \in 1..n
          BY <4>2
        <5>2. PICK j \in DOMAIN t : t[j] = s[i]
          BY <2>2, <3>4, <5>1 DEF Holds
        <5>3. j \in DOMAIN u
          BY <3>1, <3>2
        <5> QED
          BY <3>1, <3>2, <5>2, <5>3
      <4> QED
        BY <4>1, <4>2
    <3>5. Holds(u, s, n + 1)
      BY <3>1, <3>3, <3>4 DEF Holds
    <3> QED
      BY <3>5 DEF u
  <2> QED
    BY <2>5, <2>6
<1> HIDE DEF S
<1>3. Len(s) \in S
  <2>1. Nat \subseteq S
    BY <1>1, <1>2, EveryNumber
  <2> QED
    BY <2>1
<1> QED
  BY <1>3 DEF S

LEMMA KeepsThere ==
  ASSUME NEW s \in Seq(OptRow)
  PROVE  \E f : Keeps(f, s, Len(s))
<1> DEFINE S == {n \in Nat : n <= Len(s) => \E f : Keeps(f, s, n)}
<1>1. 0 \in S
  <2> DEFINE f == [i \in 0..0 |-> <<>>]
  <2>1. f = [i \in 0..0 |-> f[i]] /\ f[0] = <<>> /\ 1..0 = {}
    OBVIOUS
  <2> HIDE DEF f
  <2>2. Keeps(f, s, 0)
    BY <2>1 DEF Keeps
  <2> QED
    BY <2>2
<1>2. ASSUME NEW n \in Nat, n \in S PROVE n + 1 \in S
  <2> SUFFICES ASSUME n + 1 <= Len(s) PROVE \E g : Keeps(g, s, n + 1)
    OBVIOUS
  <2>1. PICK f : Keeps(f, s, n)
    BY <1>2
  <2> DEFINE e == IF Full(s[n + 1]) THEN Append(f[n], s[n + 1]) ELSE f[n]
             g == [i \in 0..n + 1 |-> IF i = n + 1 THEN e ELSE f[i]]
  <2>2. g = [i \in 0..n + 1 |-> g[i]] /\ g[n + 1] = e /\ \A i \in 0..n : g[i] = f[i]
    <3> HIDE DEF e
    <3>1. n + 1 \in 0..n + 1 /\ \A i \in 0..n : i \in 0..n + 1 /\ i # n + 1
      OBVIOUS
    <3> QED
      BY <3>1
  <2> HIDE DEF g
  <2>3. ASSUME NEW i \in 1..n + 1 PROVE g[i] = IF Full(s[i]) THEN Append(g[i - 1], s[i]) ELSE g[i - 1]
    <3>1. CASE i = n + 1
      <4>1. i - 1 = n /\ n \in 0..n
        BY <3>1
      <4>2. g[i - 1] = f[n] /\ g[i] = e
        BY <2>2, <3>1, <4>1
      <4> QED
        BY <3>1, <4>1, <4>2
    <3>2. CASE i # n + 1
      <4>1. i \in 1..n /\ i - 1 \in 0..n /\ i \in 0..n
        BY <3>2
      <4>2. g[i] = f[i] /\ g[i - 1] = f[i - 1]
        BY <2>2, <4>1
      <4> QED
        BY <2>1, <4>1, <4>2 DEF Keeps
    <3> QED
      BY <3>1, <3>2
  <2>4. g[0] = <<>>
    BY <2>1, <2>2 DEF Keeps
  <2>5. Keeps(g, s, n + 1)
    BY <2>2, <2>3, <2>4 DEF Keeps
  <2> QED
    BY <2>5
<1> HIDE DEF S
<1>3. Len(s) \in S
  <2>1. Nat \subseteq S
    BY <1>1, <1>2, EveryNumber
  <2> QED
    BY <2>1
<1> QED
  BY <1>3 DEF S

LEMMA KeptIs ==
  ASSUME NEW s \in Seq(OptRow)
  PROVE  Holds(Kept(s), s, Len(s))
<1> DEFINE n == Len(s)
           Same(f) == f = [i \in 0..n |-> IF i = 0 THEN <<>> ELSE IF Full(s[i]) THEN Append(f[i - 1], s[i]) ELSE f[i - 1]]
           kept == CHOOSE f : Same(f)
<1>1. \E f : Same(f)
  <2>1. PICK f : Keeps(f, s, n)
    BY KeepsThere
  <2>2. f = [i \in 0..n |-> f[i]] /\ \A i \in 0..n : f[i] = IF i = 0 THEN <<>> ELSE IF Full(s[i]) THEN Append(f[i - 1], s[i]) ELSE f[i - 1]
    <3>1. \A i \in 0..n : i = 0 \/ i \in 1..n
      OBVIOUS
    <3> QED
      BY <2>1, <3>1 DEF Keeps
  <2> QED
    BY <2>2
<1>2. Same(kept)
  BY <1>1
<1>3. Kept(s) = kept[n]
  BY DEF Kept
<1> HIDE DEF kept
<1>4. Keeps(kept, s, n)
  <2>1. kept = [i \in 0..n |-> kept[i]]
    BY <1>2
  <2>2. \A i \in 0..n : kept[i] = IF i = 0 THEN <<>> ELSE IF Full(s[i]) THEN Append(kept[i - 1], s[i]) ELSE kept[i - 1]
    BY <1>2
  <2>3. 0 \in 0..n /\ \A i \in 1..n : i \in 0..n /\ i # 0
    OBVIOUS
  <2> QED
    BY <2>1, <2>2, <2>3 DEF Keeps
<1> QED
  BY <1>3, <1>4, KeepsHolds

-----------------------------------------------------------------------------
\* The rows of the forms: the settings, a page, a call on its way.
Colours == {Plain} \union Suggested
ConfigRow == [options : Seq(OptRow), name : Named, logo : Named, colour : {c \in Colours : IsHex(c)}, on : [Switches -> BOOLEAN]]
PageRow == [open : BOOLEAN, loaded : BOOLEAN, options : Seq(OptRow), locked : SUBSET Labels, gone : SUBSET Labels, removing : Nat,
            name : Named, logo : Named, file : BOOLEAN, colour : Colours, shown : [Switches -> BOOLEAN], busy : BOOLEAN,
            toggling : BOOLEAN, asking : {"none", "on", "off"}, odd : SUBSET Switches]
PatchRow == [by : Admins, op : {"load", "brand", "logo", "identity", "switch"}, step : {"sent", "answered", "refused"},
             options : Seq(OptRow), locked : SUBSET Labels, gone : SUBSET Labels, name : Named, logo : Named, colour : Colours,
             switch : Switches \union {"none"}, value : BOOLEAN, shown : [Switches -> BOOLEAN]]

FormKinds ==
  /\ config \in ConfigRow /\ desk \in [Admins -> PageRow] /\ patches \in Seq(PatchRow)
  /\ saves \in Nat /\ saves <= MaxSaves /\ edits \in Nat /\ edits <= MaxEdits

\* Which calls an admin has on their way at once.
Loading(c) == c.op = "load" /\ Kind(c.by) # "branding"
Throwing(c) == c.op = "switch"
Saving(c) == c.op \in {"brand", "logo"}
Alone(c, d) ==
  c.by = d.by => /\ ~Loading(c)
                 /\ ~(Throwing(c) /\ Throwing(d) /\ Kind(c.by) = "general")
                 /\ ~(Saving(c) /\ Saving(d))
CallsAlone == \A i, j \in DOMAIN patches : i # j => Alone(patches[i], patches[j])

\* A page sends what it is for, and remembers that it waits for the answer.
Belongs(c) ==
  /\ Loading(c) => ~desk[c.by].loaded
  /\ Throwing(c) => c.switch \in Switches /\ Kind(c.by) # "branding" /\ (Kind(c.by) = "general" => desk[c.by].toggling)
  /\ Saving(c) => Kind(c.by) = "branding" /\ desk[c.by].busy
  /\ c.op = "identity" => Kind(c.by) = "general"

\* What is about to be shown is stored, what is about to be stored is shown, but for what is odd.
Speaks(c) ==
  /\ Loading(c) /\ c.step = "answered" => \A s \in Switches : c.shown[s] = config.on[s] \/ s \in desk[c.by].odd
  /\ Throwing(c) /\ c.step = "answered" => c.value = config.on[c.switch] \/ c.switch \in desk[c.by].odd
  /\ Throwing(c) /\ Kind(c.by) = "general" => c.value = desk[c.by].shown[c.switch] \/ c.switch \in desk[c.by].odd

\* A key that is sent as stored has a full option that is sent too, or was given up; and one
\* that is sent has an option on the page, or was given up there since.
Has(options, k) == \E j \in DOMAIN options : options[j].key = k
HasFull(options, k) == \E j \in DOMAIN options : options[j].key = k /\ Full(options[j])
Accounts(c) ==
  Saving(c) => /\ \A k \in c.locked \ {""} : k \in c.gone \/ HasFull(c.options, k)
               /\ \A k \in Labels : Has(c.options, k) => k \in desk[c.by].gone \/ Has(desk[c.by].options, k)
CallTrue(c) == Belongs(c) /\ Speaks(c) /\ Accounts(c)

Throws(a, s) == \E i \in DOMAIN patches : patches[i].by = a /\ Throwing(patches[i]) /\ patches[i].switch = s
PageTrue(a) ==
  /\ desk[a].asking # "none" => desk[a].loaded /\ Kind(a) = "general"
  /\ desk[a].loaded /\ Kind(a) # "branding" =>
       \A s \in Switches : desk[a].shown[s] = config.on[s] \/ s \in desk[a].odd \/ Throws(a, s)
  /\ Kind(a) = "branding" => \A k \in desk[a].locked : k \in desk[a].gone \/ Has(desk[a].options, k)

FormsInv ==
  /\ FormKinds /\ CallsAlone
  /\ \A i \in DOMAIN patches : CallTrue(patches[i])
  /\ \A a \in Admins : PageTrue(a)
  /\ \A j \in DOMAIN config.options : Full(config.options[j])

LEMMA FormsThere ==
  ASSUME FormsInv
  PROVE  /\ config \in ConfigRow /\ desk \in [Admins -> PageRow] /\ patches \in Seq(PatchRow)
         /\ saves \in Nat /\ saves <= MaxSaves /\ edits \in Nat /\ edits <= MaxEdits
         /\ DOMAIN patches = 1..Len(patches) /\ Len(patches) \in Nat
         /\ \A j \in DOMAIN config.options : Full(config.options[j])
         /\ \A a \in Admins : PageTrue(a) /\ desk[a] \in PageRow
         /\ CallsAlone
<1>1. config \in ConfigRow /\ desk \in [Admins -> PageRow] /\ patches \in Seq(PatchRow)
      /\ saves \in Nat /\ saves <= MaxSaves /\ edits \in Nat /\ edits <= MaxEdits
  BY DEF FormsInv, FormKinds
<1>2. DOMAIN patches = 1..Len(patches) /\ Len(patches) \in Nat
  BY <1>1
<1>3. \A a \in Admins : desk[a] \in PageRow
  BY <1>1
<1> QED
  BY <1>1, <1>2, <1>3 DEF FormsInv

LEMMA PatchThere ==
  ASSUME FormsInv, NEW i \in DOMAIN patches
  PROVE  /\ patches[i] \in PatchRow /\ patches[i].by \in Admins /\ CallTrue(patches[i]) /\ desk[patches[i].by] \in PageRow
         /\ i \in 1..Len(patches)
<1>1. patches[i] \in PatchRow /\ i \in 1..Len(patches)
  BY FormsThere
<1>2. patches[i].by \in Admins
  BY <1>1 DEF PatchRow
<1> QED
  BY <1>1, <1>2, FormsThere DEF FormsInv

LEMMA KindStays ==
  ASSUME UNCHANGED story
  PROVE  \A a : Kind(a)' = Kind(a)
BY DEF Kind

\* A call keeps what it says when its page goes from one row to another that does not contradict it.
Suits(c, row) ==
  /\ Loading(c) => ~row.loaded
  /\ Throwing(c) /\ Kind(c.by) = "general" => row.toggling /\ (row.shown[c.switch] = desk[c.by].shown[c.switch] \/ c.switch \in row.odd)
  /\ Saving(c) => row.busy /\ desk[c.by].gone \subseteq row.gone
                  /\ \A k \in Labels : Has(desk[c.by].options, k) => k \in row.gone \/ Has(row.options, k)
  /\ desk[c.by].odd \subseteq row.odd

LEMMA CallKept ==
  ASSUME NEW c \in PatchRow, CallTrue(c), NEW row \in PageRow, desk[c.by] \in PageRow, desk'[c.by] = row, Suits(c, row), UNCHANGED <<story, config>>
  PROVE  CallTrue(c)'
<1>1. \A a : Kind(a)' = Kind(a)
  BY KindStays
<1>2. (Loading(c)' <=> Loading(c)) /\ (Throwing(c)' <=> Throwing(c)) /\ (Saving(c)' <=> Saving(c))
  BY <1>1 DEF Loading, Throwing, Saving
<1>3. Belongs(c)'
  BY <1>1, <1>2 DEF CallTrue, Belongs, Suits
<1>4. Speaks(c)'
  BY <1>1, <1>2 DEF CallTrue, Speaks, Suits
<1>5. Accounts(c)'
  BY <1>1, <1>2 DEF CallTrue, Accounts, Suits
<1> QED
  BY <1>3, <1>4, <1>5 DEF CallTrue

\* A page that is edited, while nothing is sent or answered.
Edits(a, row) ==
  LET p == desk[a]
  IN /\ row.loaded = p.loaded /\ row.toggling = p.toggling /\ row.busy = p.busy /\ row.locked = p.locked
     /\ row.asking # "none" => row.loaded /\ Kind(a) = "general"
     /\ p.odd \subseteq row.odd /\ \A s \in Switches : row.shown[s] = p.shown[s] \/ s \in row.odd
     /\ p.gone \subseteq row.gone
     /\ \A k \in Labels : Has(p.options, k) => k \in row.gone \/ Has(row.options, k) \/ (~p.busy /\ k \notin p.locked)

LEMMA RowsOfDesk ==
  ASSUME FormsInv, NEW a \in Admins, NEW row \in PageRow, desk' = [desk EXCEPT ![a] = row]
  PROVE  desk' \in [Admins -> PageRow] /\ desk'[a] = row /\ \A b \in Admins : b # a => desk'[b] = desk[b]
BY FormsThere

LEMMA EditKeepsForms ==
  ASSUME FormsInv, NEW a \in Admins, NEW row \in PageRow, Edits(a, row), desk' = [desk EXCEPT ![a] = row],
         UNCHANGED <<story, config, patches>>, saves' \in Nat, saves' <= MaxSaves, edits' \in Nat, edits' <= MaxEdits
  PROVE  FormsInv'
<1>0. desk' \in [Admins -> PageRow] /\ desk'[a] = row /\ \A b \in Admins : b # a => desk'[b] = desk[b]
  BY RowsOfDesk
<1>k. \A b : Kind(b)' = Kind(b)
  BY KindStays
<1>1. FormKinds'
  BY <1>0, FormsThere DEF FormKinds
<1>2. CallsAlone'
  BY <1>k, FormsThere DEF CallsAlone, Alone, Loading, Throwing, Saving
<1>3. ASSUME NEW i \in DOMAIN patches PROVE CallTrue(patches[i])'
  <2>1. PICK c \in PatchRow : c = patches[i]
    BY PatchThere
  <2>2. c.by \in Admins /\ CallTrue(c) /\ desk[c.by] \in PageRow
    BY <2>1, PatchThere
  <2>3. CASE c.by = a
    <3>1. Suits(c, row)
      BY <2>2, <2>3 DEF CallTrue, Belongs, Suits, Edits
    <3> QED
      BY <1>0, <2>1, <2>2, <2>3, <3>1, CallKept
  <2>4. CASE c.by # a
    <3>1. Suits(c, desk[c.by]) /\ desk'[c.by] = desk[c.by]
      BY <1>0, <2>2, <2>4 DEF CallTrue, Belongs, Suits
    <3> QED
      BY <2>1, <2>2, <3>1, CallKept
  <2> QED
    BY <2>3, <2>4
<1>4. \A b, s : Throws(b, s)' <=> Throws(b, s)
  BY DEF Throws, Throwing
<1>5. ASSUME NEW b \in Admins PROVE PageTrue(b)'
  <2>1. PageTrue(b) /\ desk[b] \in PageRow
    BY FormsThere
  <2>2. CASE b # a
    BY <1>0, <1>k, <1>4, <2>1, <2>2 DEF PageTrue
  <2>3. CASE b = a
    <3>1. \A k \in row.locked : k \in Labels
      BY DEF PageRow
    <3>2. desk'[b] = row
      BY <1>0, <2>3
    <3>3. Kind(b) = "branding" => \A k \in row.locked : k \in row.gone \/ Has(row.options, k)
      BY <2>1, <2>3, <3>1 DEF PageTrue, Edits
    <3>4. row.loaded /\ Kind(b) # "branding" => \A s \in Switches : row.shown[s] = config.on[s] \/ s \in row.odd \/ Throws(b, s)
      BY <2>1, <2>3 DEF PageTrue, Edits
    <3>5. row.asking # "none" => row.loaded /\ Kind(b) = "general"
      BY <2>3 DEF Edits
    <3> QED
      BY <1>k, <1>4, <3>2, <3>3, <3>4, <3>5 DEF PageTrue
  <2> QED
    BY <2>2, <2>3
<1>6. (\A j \in DOMAIN config.options : Full(config.options[j]))'
  BY FormsThere DEF Full
<1> QED
  BY <1>1, <1>2, <1>3, <1>5, <1>6 DEF FormsInv

\* A call that is sent: the page, and the calls it had on their way.
LEMMA SendKeepsForms ==
  ASSUME FormsInv, NEW a \in Admins, NEW row \in PageRow, NEW c \in PatchRow, c.by = a, desk' = [desk EXCEPT ![a] = row],
         patches' = Append(patches, c), UNCHANGED <<story, config>>, saves' \in Nat, saves' <= MaxSaves, edits' \in Nat, edits' <= MaxEdits,
         \A i \in DOMAIN patches : Alone(patches[i], c) /\ Alone(c, patches[i]),
         \A i \in DOMAIN patches : patches[i].by = a => Suits(patches[i], row),
         CallTrue(c)',
         row.asking # "none" => row.loaded /\ Kind(a) = "general",
         row.loaded /\ Kind(a) # "branding" =>
           \A s \in Switches : row.shown[s] = config.on[s] \/ s \in row.odd \/ Throws(a, s) \/ (Throwing(c) /\ c.switch = s),
         Kind(a) = "branding" => \A k \in row.locked : k \in row.gone \/ Has(row.options, k)
  PROVE  FormsInv'
<1> DEFINE n == Len(patches)
<1>0. desk' \in [Admins -> PageRow] /\ desk'[a] = row /\ \A b \in Admins : b # a => desk'[b] = desk[b]
  BY RowsOfDesk
<1>k. \A b : Kind(b)' = Kind(b)
  BY KindStays
<1>p. patches' \in Seq(PatchRow) /\ Len(patches') = n + 1 /\ (\A i \in 1..n : patches'[i] = patches[i]) /\ patches'[n + 1] = c /\ n \in Nat
  <2>1. patches \in Seq(PatchRow) /\ n \in Nat
    BY FormsThere
  <2> QED
    BY <2>1, Appended
<1>d. DOMAIN patches' = 1..n + 1 /\ DOMAIN patches = 1..n /\ \A i \in 1..n + 1 : i \in 1..n \/ i = n + 1
  BY <1>p, FormsThere
<1>1. FormKinds'
  BY <1>0, <1>p, FormsThere DEF FormKinds
<1>2. CallsAlone'
  <2>1. ASSUME NEW i \in DOMAIN patches', NEW j \in DOMAIN patches', i # j PROVE Alone(patches'[i], patches'[j])
    <3>1. CASE i \in 1..n /\ j \in 1..n
      BY <1>d, <1>p, <2>1, <3>1, FormsThere DEF CallsAlone
    <3>2. CASE i = n + 1 /\ j \in 1..n
      BY <1>d, <1>p, <3>2
    <3>3. CASE j = n + 1 /\ i \in 1..n
      BY <1>d, <1>p, <3>3
    <3> QED
      BY <1>d, <2>1, <3>1, <3>2, <3>3
  <2> QED
    BY <1>k, <2>1 DEF CallsAlone, Alone, Loading, Throwing, Saving
<1>3. ASSUME NEW i \in DOMAIN patches' PROVE CallTrue(patches[i])'
  <2>1. CASE i = n + 1
    BY <1>p, <2>1
  <2>2. CASE i \in 1..n
    <3>1. PICK d \in PatchRow : d = patches[i]
      BY <1>d, <2>2, PatchThere
    <3>2. d.by \in Admins /\ CallTrue(d) /\ desk[d.by] \in PageRow
      BY <1>d, <2>2, <3>1, PatchThere
    <3>3. CASE d.by = a
      BY <1>0, <1>d, <1>p, <2>2, <3>1, <3>2, <3>3, CallKept
    <3>4. CASE d.by # a
      <4>1. Suits(d, desk[d.by]) /\ desk'[d.by] = desk[d.by]
        BY <1>0, <3>2, <3>4 DEF CallTrue, Belongs, Suits
      <4> QED
        BY <1>p, <2>2, <3>1, <3>2, <4>1, CallKept
    <3> QED
      BY <3>3, <3>4
  <2> QED
    BY <1>d, <2>1, <2>2
<1>4. \A b, s : (Throws(b, s) => Throws(b, s)') /\ (b = a /\ Throwing(c) /\ c.switch = s => Throws(b, s)')
  BY <1>d, <1>p DEF Throws, Throwing
<1>5. ASSUME NEW b \in Admins PROVE PageTrue(b)'
  <2>1. PageTrue(b)
    BY FormsThere
  <2>2. CASE b # a
    BY <1>0, <1>k, <1>4, <2>1, <2>2 DEF PageTrue
  <2>3. CASE b = a
    BY <1>0, <1>k, <1>4, <2>3 DEF PageTrue
  <2> QED
    BY <2>2, <2>3
<1>6. (\A j \in DOMAIN config.options : Full(config.options[j]))'
  BY FormsThere DEF Full
<1> QED
  BY <1>1, <1>2, <1>3, <1>5, <1>6 DEF FormsInv

\* A call that goes on, and stays of its class.
LEMMA PatchMoves ==
  ASSUME FormsInv, NEW i \in DOMAIN patches, NEW d \in PatchRow, patches' = [patches EXCEPT ![i] = d],
         d.by = patches[i].by, d.switch = patches[i].switch,
         d.op = patches[i].op \/ (Saving(patches[i]) /\ Saving(d)), UNCHANGED story
  PROVE  /\ patches' \in Seq(PatchRow) /\ DOMAIN patches' = DOMAIN patches /\ patches'[i] = d
         /\ \A j \in DOMAIN patches : j # i => patches'[j] = patches[j]
         /\ CallsAlone'
         /\ \A b, s : Throws(b, s)' <=> Throws(b, s)
<1>1. patches' \in Seq(PatchRow) /\ DOMAIN patches' = DOMAIN patches /\ \A j \in DOMAIN patches : patches'[j] = IF j = i THEN d ELSE patches[j]
  <2>1. patches \in Seq(PatchRow)
    BY FormsThere
  <2> QED
    BY <2>1, Replaced
<1>k. \A b : Kind(b)' = Kind(b)
  BY KindStays
<1>2. \A j \in DOMAIN patches : /\ patches'[j].by = patches[j].by /\ patches'[j].switch = patches[j].switch
                                /\ (Loading(patches'[j]) <=> Loading(patches[j]))
                                /\ (Throwing(patches'[j]) <=> Throwing(patches[j])) /\ (Saving(patches'[j]) <=> Saving(patches[j]))
  BY <1>1 DEF Loading, Throwing, Saving
<1>3. CallsAlone'
  <2>1. ASSUME NEW j \in DOMAIN patches, NEW k \in DOMAIN patches, j # k PROVE Alone(patches'[j], patches'[k])
    <3>1. Alone(patches[j], patches[k])
      BY <2>1, FormsThere DEF CallsAlone
    <3> QED
      BY <1>2, <3>1 DEF Alone
  <2> QED
    BY <1>1, <1>k, <2>1 DEF CallsAlone, Alone, Loading, Throwing, Saving
<1>4. \A b, s : Throws(b, s)' <=> Throws(b, s)
  BY <1>1, <1>2 DEF Throws, Throwing
<1> QED
  BY <1>1, <1>3, <1>4

LEMMA StepKeepsForms ==
  ASSUME FormsInv, NEW i \in DOMAIN patches, NEW d \in PatchRow, patches' = [patches EXCEPT ![i] = d],
         d.by = patches[i].by, d.switch = patches[i].switch,
         d.op = patches[i].op \/ (Saving(patches[i]) /\ Saving(d)), UNCHANGED <<story, config, desk, saves, edits>>, CallTrue(d)
  PROVE  FormsInv'
<1>p. /\ patches' \in Seq(PatchRow) /\ DOMAIN patches' = DOMAIN patches /\ patches'[i] = d
      /\ \A j \in DOMAIN patches : j # i => patches'[j] = patches[j]
      /\ CallsAlone' /\ \A b, s : Throws(b, s)' <=> Throws(b, s)
  BY PatchMoves
<1>k. \A b : Kind(b)' = Kind(b)
  BY KindStays
<1>1. FormKinds'
  BY <1>p, FormsThere DEF FormKinds
<1>2. ASSUME NEW j \in DOMAIN patches PROVE CallTrue(patches[j])'
  <2>1. PICK c \in PatchRow : c = patches'[j] /\ CallTrue(c) /\ c.by \in Admins
    BY <1>p, PatchThere
  <2>2. desk[c.by] \in PageRow /\ Suits(c, desk[c.by]) /\ desk'[c.by] = desk[c.by]
    BY <2>1, FormsThere DEF CallTrue, Belongs, Suits
  <2> QED
    BY <2>1, <2>2, CallKept
<1>3. ASSUME NEW b \in Admins PROVE PageTrue(b)'
  <2>1. PageTrue(b)
    BY FormsThere
  <2> QED
    BY <1>k, <1>p, <2>1 DEF PageTrue
<1>4. (\A j \in DOMAIN config.options : Full(config.options[j]))'
  BY FormsThere DEF Full
<1> QED
  BY <1>1, <1>2, <1>3, <1>4, <1>p DEF FormsInv

\* A call that has been answered, and what its page does with the answer.
Over(i, a, row) ==
  /\ a = patches[i].by /\ desk' = [desk EXCEPT ![a] = row] /\ patches' = RemoveAt(patches, i)
  /\ UNCHANGED <<story, config, saves, edits>>

\* The row it has then holds what the page must, and does not contradict the calls that are left.
Settles(i, a, row) ==
  /\ \A j \in DOMAIN patches : j # i /\ patches[j].by = a => Suits(patches[j], row)
  /\ row.asking # "none" => row.loaded /\ Kind(a) = "general"
  /\ row.loaded /\ Kind(a) # "branding" =>
       \A s \in Switches : row.shown[s] = config.on[s] \/ s \in row.odd
                           \/ (Throws(a, s) /\ ~(Throwing(patches[i]) /\ patches[i].switch = s))
  /\ Kind(a) = "branding" => \A k \in row.locked : k \in row.gone \/ Has(row.options, k)

LEMMA EndKeepsForms ==
  ASSUME FormsInv, NEW i \in DOMAIN patches, NEW a \in Admins, NEW row \in PageRow, Over(i, a, row), Settles(i, a, row)
  PROVE  FormsInv'
<1> USE DEF Over, Settles
<1> DEFINE n == Len(patches)
           Was(j) == IF j < i THEN j ELSE j + 1
<1>0. desk' \in [Admins -> PageRow] /\ desk'[a] = row /\ \A b \in Admins : b # a => desk'[b] = desk[b]
  BY RowsOfDesk
<1>k. \A b : Kind(b)' = Kind(b)
  BY KindStays
<1>p. patches' \in Seq(PatchRow) /\ Len(patches') = n - 1 /\ (\A j \in 1..n - 1 : patches'[j] = IF j < i THEN patches[j] ELSE patches[j + 1])
      /\ n \in Nat /\ i \in 1..n /\ DOMAIN patches = 1..n
  <2>1. patches \in Seq(PatchRow) /\ n \in Nat /\ DOMAIN patches = 1..n
    BY FormsThere
  <2> QED
    BY <2>1, Removed
<1>d. /\ DOMAIN patches' = 1..n - 1
      /\ \A j \in 1..n - 1 : Was(j) \in DOMAIN patches /\ Was(j) # i /\ patches'[j] = patches[Was(j)]
      /\ \A j, k \in 1..n - 1 : j # k => Was(j) # Was(k)
      /\ \A j \in DOMAIN patches : j # i => \E k \in 1..n - 1 : j = Was(k)
  <2>1. DOMAIN patches' = 1..n - 1
    BY <1>p
  <2>2. \A j \in 1..n - 1 : Was(j) \in 1..n /\ Was(j) # i
    BY <1>p
  <2>3. \A j, k \in 1..n - 1 : j # k => Was(j) # Was(k)
    BY <1>p
  <2>4. ASSUME NEW j \in 1..n, j # i PROVE \E k \in 1..n - 1 : j = Was(k)
    <3>1. CASE j < i
      <4>1. j \in 1..n - 1 /\ Was(j) = j
        BY <1>p, <3>1
      <4> QED
        BY <4>1
    <3>2. CASE j > i
      <4>1. j - 1 \in 1..n - 1 /\ Was(j - 1) = j
        BY <1>p, <3>2
      <4> QED
        BY <4>1
    <3> QED
      BY <1>p, <2>4, <3>1, <3>2
  <2> QED
    BY <1>p, <2>1, <2>2, <2>3, <2>4
<1> HIDE DEF Was
<1>1. FormKinds'
  BY <1>0, <1>p, FormsThere DEF FormKinds
<1>2. CallsAlone'
  <2>1. ASSUME NEW j \in 1..n - 1, NEW k \in 1..n - 1, j # k PROVE Alone(patches'[j], patches'[k])
    BY <1>d, <2>1, FormsThere DEF CallsAlone
  <2> QED
    BY <1>d, <1>k, <2>1 DEF CallsAlone, Alone, Loading, Throwing, Saving
<1>3. ASSUME NEW j \in DOMAIN patches' PROVE CallTrue(patches[j])'
  <2>1. PICK d \in PatchRow : d = patches'[j] /\ CallTrue(d) /\ d.by \in Admins /\ desk[d.by] \in PageRow /\ (d.by = a => Suits(d, row))
    BY <1>d, PatchThere
  <2>2. CASE d.by = a
    BY <1>0, <2>1, <2>2, CallKept
  <2>3. CASE d.by # a
    <3>1. Suits(d, desk[d.by]) /\ desk'[d.by] = desk[d.by]
      BY <1>0, <2>1, <2>3 DEF CallTrue, Belongs, Suits
    <3> QED
      BY <2>1, <3>1, CallKept
  <2> QED
    BY <2>2, <2>3
<1>4. \A b, s : Throws(b, s) /\ ~(b = a /\ Throwing(patches[i]) /\ patches[i].switch = s) => Throws(b, s)'
  <2> SUFFICES ASSUME NEW b, NEW s, Throws(b, s), ~(b = a /\ Throwing(patches[i]) /\ patches[i].switch = s)
               PROVE  Throws(b, s)'
    OBVIOUS
  <2>1. PICK j \in DOMAIN patches : patches[j].by = b /\ Throwing(patches[j]) /\ patches[j].switch = s
    BY DEF Throws
  <2>2. j # i
    BY <2>1
  <2>3. PICK k \in 1..n - 1 : patches'[k] = patches[j]
    BY <1>d, <2>2
  <2>4. k \in DOMAIN patches'
    BY <1>d
  <2> QED
    BY <2>1, <2>3, <2>4 DEF Throws, Throwing
<1>5. ASSUME NEW b \in Admins PROVE PageTrue(b)'
  <2>1. PageTrue(b)
    BY FormsThere
  <2>2. CASE b # a
    BY <1>0, <1>k, <1>4, <2>1, <2>2 DEF PageTrue
  <2>3. CASE b = a
    BY <1>0, <1>k, <1>4, <2>3 DEF PageTrue
  <2> QED
    BY <2>2, <2>3
<1>6. (\A j \in DOMAIN config.options : Full(config.options[j]))'
  BY FormsThere DEF Full
<1> QED
  BY <1>1, <1>2, <1>3, <1>5, <1>6 DEF FormsInv


-----------------------------------------------------------------------------
\* Editing: of the options only the key of the one that is edited can go.
LEMMA OptionEdited ==
  ASSUME NEW s \in Seq(OptRow), NEW n \in DOMAIN s, NEW o \in OptRow
  PROVE  LET t == [s EXCEPT ![n] = o]
         IN t \in Seq(OptRow) /\ \A k : Has(s, k) => Has(t, k) \/ (k = s[n].key /\ o.key # k)
<1> DEFINE t == [s EXCEPT ![n] = o]
<1>1. t \in Seq(OptRow) /\ DOMAIN t = DOMAIN s /\ \A j \in DOMAIN s : t[j] = IF j = n THEN o ELSE s[j]
  BY Replaced
<1> HIDE DEF t
<1>2. \A k : Has(s, k) => Has(t, k) \/ (k = s[n].key /\ o.key # k)
  BY <1>1 DEF Has
<1> QED
  BY <1>1, <1>2 DEF t

LEMMA OptionAdded ==
  ASSUME NEW s \in Seq(OptRow), NEW o \in OptRow
  PROVE  Append(s, o) \in Seq(OptRow) /\ \A k : Has(s, k) => Has(Append(s, o), k)
<1> DEFINE t == Append(s, o)
<1>1. t \in Seq(OptRow) /\ Len(t) = Len(s) + 1 /\ \A j \in 1..Len(s) : t[j] = s[j]
  BY Appended
<1>2. \A j \in DOMAIN s : j \in DOMAIN t /\ t[j] = s[j]
  BY <1>1
<1> HIDE DEF t
<1>3. \A k : Has(s, k) => Has(t, k)
  BY <1>2 DEF Has
<1> QED
  BY <1>1, <1>3 DEF t

LEMMA OptionDropped ==
  ASSUME NEW s \in Seq(OptRow), NEW n \in DOMAIN s
  PROVE  RemoveAt(s, n) \in Seq(OptRow) /\ \A k : Has(s, k) => Has(RemoveAt(s, n), k) \/ k = s[n].key
<1> DEFINE t == RemoveAt(s, n)
<1>1. t \in Seq(OptRow) /\ Len(t) = Len(s) - 1 /\ \A j \in 1..Len(s) - 1 : t[j] = IF j < n THEN s[j] ELSE s[j + 1]
  BY Removed
<1> HIDE DEF t
<1>2. ASSUME NEW j \in DOMAIN s, j # n PROVE \E i \in DOMAIN t : t[i] = s[j]
  <2>0. DOMAIN s = 1..Len(s) /\ Len(s) \in Nat /\ DOMAIN t = 1..Len(s) - 1
    BY <1>1
  <2>1. CASE j < n
    <3>1. j \in 1..Len(s) - 1
      BY <2>0, <2>1
    <3> QED
      BY <1>1, <2>0, <2>1, <3>1
  <2>2. CASE j > n
    <3>1. j - 1 \in 1..Len(s) - 1 /\ ~(j - 1 < n) /\ (j - 1) + 1 = j
      BY <2>0, <2>2
    <3>2. t[j - 1] = s[j]
      BY <1>1, <3>1
    <3> QED
      BY <2>0, <3>1, <3>2
  <2> QED
    BY <1>2, <2>0, <2>1, <2>2
<1>3. \A k : Has(s, k) => Has(t, k) \/ k = s[n].key
  BY <1>2 DEF Has
<1> QED
  BY <1>1, <1>3 DEF t

LEMMA TypesCounted ==
  ASSUME FormsInv, Types
  PROVE  edits' \in Nat /\ edits' <= MaxEdits
<1>1. edits \in Nat /\ edits < MaxEdits /\ edits' = edits + 1
  BY FormsThere DEF Types
<1>2. MaxEdits \in Nat
  BY FormsAssumption
<1> QED
  BY <1>1, <1>2

LEMMA LabelKeepsForms ==
  ASSUME FormsInv, NEW a \in Admins, NEW n \in DOMAIN desk[a].options, TypeLabel(a, n), UNCHANGED story
  PROVE  FormsInv'
<1> DEFINE p == desk[a]
           o == p.options[n]
<1>0. edits' \in Nat /\ edits' <= MaxEdits /\ UNCHANGED <<config, patches, saves>> /\ saves \in Nat /\ saves <= MaxSaves
  BY TypesCounted, FormsThere DEF TypeLabel
<1>1. p \in PageRow /\ p.options \in Seq(OptRow) /\ p.busy \in BOOLEAN /\ PageTrue(a) /\ OnForm(a)
  BY FormsThere DEF PageRow, TypeLabel
<1>2. o \in OptRow
  BY <1>1
<1>3. PICK label \in Labels :
        \/ Locked(a, n) /\ desk' = [desk EXCEPT ![a] = [p EXCEPT !.options[n].label = label]]
        \/ ~Locked(a, n) /\ desk' = [desk EXCEPT ![a] = [p EXCEPT !.options[n] = Option(Slug(label), label), !.gone = IF p.busy THEN @ \union {p.options[n].key} ELSE @]]
  BY DEF TypeLabel, Shows
<1>4. p.asking # "none" => p.loaded /\ Kind(a) = "general"
  BY <1>1 DEF PageTrue
<1>5. CASE Locked(a, n)
  <2> DEFINE b == [o EXCEPT !.label = label]
             t == [p.options EXCEPT ![n] = b]
             row == [p EXCEPT !.options = t]
  <2>1. b \in OptRow /\ b.key = o.key
    BY <1>2 DEF OptRow
  <2>2. desk' = [desk EXCEPT ![a] = row]
    BY <1>3, <1>5
  <2> HIDE DEF b
  <2>3. t \in Seq(OptRow) /\ \A k : Has(p.options, k) => Has(t, k)
    BY <1>1, <2>1, OptionEdited
  <2> HIDE DEF t
  <2>4. row \in PageRow
    BY <1>1, <2>3 DEF PageRow
  <2>5. Edits(a, row)
    BY <1>1, <1>4, <2>3 DEF Edits, PageRow
  <2> HIDE DEF row
  <2> QED
    BY <1>0, <2>2, <2>4, <2>5, EditKeepsForms
<1>6. CASE ~Locked(a, n)
  <2> DEFINE b == Option(Slug(label), label)
             t == [p.options EXCEPT ![n] = b]
             g == IF p.busy THEN p.gone \union {o.key} ELSE p.gone
             row == [p EXCEPT !.options = t, !.gone = g]
  <2>1. b \in OptRow
    BY DEF OptRow, Option, Slug
  <2>2. desk' = [desk EXCEPT ![a] = row]
    BY <1>3, <1>6
  <2>k. o.key \in Labels /\ o.key \notin p.locked
    BY <1>2, <1>6 DEF OptRow, Locked
  <2> HIDE DEF b
  <2>3. t \in Seq(OptRow) /\ \A k : Has(p.options, k) => Has(t, k) \/ k = o.key
    BY <1>1, <2>1, OptionEdited
  <2>4. g \in SUBSET Labels /\ p.gone \subseteq g /\ (p.busy => o.key \in g)
    BY <1>1, <2>k DEF PageRow
  <2> HIDE DEF t, g
  <2>5. row \in PageRow
    BY <1>1, <2>3, <2>4 DEF PageRow
  <2>6. /\ row.loaded = p.loaded /\ row.toggling = p.toggling /\ row.busy = p.busy /\ row.locked = p.locked /\ row.asking = p.asking
        /\ row.odd = p.odd /\ row.shown = p.shown /\ row.options = t /\ row.gone = g
    BY <1>1 DEF PageRow
  <2> HIDE DEF row
  <2>7. Edits(a, row)
    BY <1>4, <2>k, <2>3, <2>4, <2>6 DEF Edits
  <2> QED
    BY <1>0, <2>2, <2>5, <2>7, EditKeepsForms
<1> QED
  BY <1>5, <1>6

LEMMA AddKeepsForms ==
  ASSUME FormsInv, NEW a \in Admins, AddOption(a), UNCHANGED story
  PROVE  FormsInv'
<1> DEFINE p == desk[a]
           o == Option("", "")
           t == Append(p.options, o)
           row == [p EXCEPT !.options = t]
<1>0. edits' \in Nat /\ edits' <= MaxEdits /\ UNCHANGED <<config, patches, saves>> /\ saves \in Nat /\ saves <= MaxSaves
      /\ desk' = [desk EXCEPT ![a] = row]
  BY TypesCounted, FormsThere DEF AddOption, Shows
<1>1. p \in PageRow /\ p.options \in Seq(OptRow) /\ PageTrue(a)
  BY FormsThere DEF PageRow
<1>2. o \in OptRow
  BY FormsAssumption DEF OptRow, Option
<1> HIDE DEF o
<1>3. t \in Seq(OptRow) /\ \A k : Has(p.options, k) => Has(t, k)
  BY <1>1, <1>2, OptionAdded
<1> HIDE DEF t
<1>4. row \in PageRow
  BY <1>1, <1>3 DEF PageRow
<1>5. Edits(a, row)
  BY <1>1, <1>3 DEF Edits, PageRow, PageTrue
<1> HIDE DEF row
<1> QED
  BY <1>0, <1>4, <1>5, EditKeepsForms

\* An option that is deleted, on one press or two.
LEMMA DropsEdits ==
  ASSUME FormsInv, NEW a \in Admins, NEW n \in Nat
  PROVE  Drops(a, n) \in PageRow /\ Edits(a, Drops(a, n))
<1> DEFINE p == desk[a]
           z == 0
<1>1. p \in PageRow /\ p.options \in Seq(OptRow) /\ PageTrue(a) /\ z \in Nat
  BY FormsThere DEF PageRow
<1>2. CASE n \in DOMAIN p.options
  <2> DEFINE o == p.options[n]
             t == RemoveAt(p.options, n)
             g == p.gone \union {o.key}
             row == [p EXCEPT !.options = t, !.gone = g, !.removing = z]
  <2>1. Drops(a, n) = row
    BY <1>2 DEF Drops
  <2>2. o.key \in Labels
    <3>1. o \in OptRow
      BY <1>1, <1>2
    <3> QED
      BY <3>1 DEF OptRow
  <2>3. t \in Seq(OptRow) /\ \A k : Has(p.options, k) => Has(t, k) \/ k \in g
    BY <1>1, <1>2, OptionDropped
  <2>4. g \in SUBSET Labels /\ p.gone \subseteq g
    BY <1>1, <2>2 DEF PageRow
  <2> HIDE DEF t, g, z
  <2>5. row \in PageRow
    BY <1>1, <2>3, <2>4 DEF PageRow
  <2>6. /\ row.loaded = p.loaded /\ row.toggling = p.toggling /\ row.busy = p.busy /\ row.locked = p.locked /\ row.asking = p.asking
        /\ row.odd = p.odd /\ row.shown = p.shown /\ row.options = t /\ row.gone = g
    BY <1>1 DEF PageRow
  <2> HIDE DEF row
  <2>7. Edits(a, row)
    BY <1>1, <2>3, <2>4, <2>6 DEF Edits, PageTrue
  <2> QED
    BY <2>1, <2>5, <2>7
<1>3. CASE n \notin DOMAIN p.options
  <2> DEFINE row == [p EXCEPT !.removing = z]
  <2>1. Drops(a, n) = row
    BY <1>3 DEF Drops
  <2> HIDE DEF z
  <2>2. row \in PageRow
    BY <1>1 DEF PageRow
  <2>3. Edits(a, row)
    BY <1>1 DEF Edits, PageRow, PageTrue
  <2> QED
    BY <2>1, <2>2, <2>3
<1> QED
  BY <1>2, <1>3

LEMMA RemovingEdits ==
  ASSUME FormsInv, NEW a \in Admins, NEW n \in Nat
  PROVE  LET row == [desk[a] EXCEPT !.removing = n] IN row \in PageRow /\ Edits(a, row)
<1> DEFINE p == desk[a]
           row == [p EXCEPT !.removing = n]
<1>1. p \in PageRow /\ PageTrue(a)
  BY FormsThere
<1>2. row \in PageRow
  BY <1>1 DEF PageRow
<1>3. Edits(a, row)
  BY <1>1 DEF Edits, PageRow, PageTrue
<1> QED
  BY <1>2, <1>3

LEMMA PressKeepsForms ==
  ASSUME FormsInv, NEW a \in Admins, NEW n \in DOMAIN desk[a].options, PressDelete(a, n), UNCHANGED story
  PROVE  FormsInv'
<1>0. edits' \in Nat /\ edits' <= MaxEdits /\ UNCHANGED <<config, patches, saves>> /\ saves \in Nat /\ saves <= MaxSaves
  BY TypesCounted, FormsThere DEF PressDelete
<1>1. n \in Nat
  <2>1. desk[a].options \in Seq(OptRow)
    BY FormsThere DEF PageRow
  <2> QED
    BY <2>1
<1>2. CASE desk' = [desk EXCEPT ![a] = Drops(a, n)]
  <2> DEFINE row == Drops(a, n)
  <2>1. row \in PageRow /\ Edits(a, row)
    BY <1>1, DropsEdits
  <2> HIDE DEF row
  <2>2. desk' = [desk EXCEPT ![a] = row]
    BY <1>2 DEF row
  <2> QED
    BY <1>0, <2>1, <2>2, EditKeepsForms
<1>3. CASE desk' = [desk EXCEPT ![a] = [desk[a] EXCEPT !.removing = n]]
  <2> DEFINE row == [desk[a] EXCEPT !.removing = n]
  <2>1. row \in PageRow /\ Edits(a, row)
    BY <1>1, RemovingEdits
  <2> HIDE DEF row
  <2>2. desk' = [desk EXCEPT ![a] = row]
    BY <1>3 DEF row
  <2> QED
    BY <1>0, <2>1, <2>2, EditKeepsForms
<1> QED
  BY <1>2, <1>3 DEF PressDelete, Shows

LEMMA ConfirmKeepsForms ==
  ASSUME FormsInv, NEW a \in Admins, ConfirmDelete(a), UNCHANGED story
  PROVE  FormsInv'
<1> DEFINE n == desk[a].removing
<1>0. UNCHANGED <<config, patches, saves, edits>> /\ saves \in Nat /\ saves <= MaxSaves /\ edits \in Nat /\ edits <= MaxEdits
  BY FormsThere DEF ConfirmDelete
<1>1. n \in Nat /\ 0 \in Nat
  BY FormsThere DEF PageRow
<1>2. CASE desk' = [desk EXCEPT ![a] = Drops(a, n)]
  <2> DEFINE row == Drops(a, n)
  <2>1. row \in PageRow /\ Edits(a, row)
    BY <1>1, DropsEdits
  <2> HIDE DEF row
  <2>2. desk' = [desk EXCEPT ![a] = row]
    BY <1>2 DEF row
  <2> QED
    BY <1>0, <2>1, <2>2, EditKeepsForms
<1>3. CASE desk' = [desk EXCEPT ![a] = [desk[a] EXCEPT !.removing = 0]]
  <2> DEFINE row == [desk[a] EXCEPT !.removing = 0]
  <2>1. row \in PageRow /\ Edits(a, row)
    BY <1>1, RemovingEdits
  <2> HIDE DEF row
  <2>2. desk' = [desk EXCEPT ![a] = row]
    BY <1>3 DEF row
  <2> QED
    BY <1>0, <2>1, <2>2, EditKeepsForms
<1> QED
  BY <1>2, <1>3 DEF ConfirmDelete, Shows

\* What else is typed, picked or asked.
LEMMA TypingKeepsForms ==
  ASSUME FormsInv, NEW a \in Admins, TypeName(a) \/ PickLogo(a) \/ ApplyColour(a), UNCHANGED story
  PROVE  FormsInv'
<1> DEFINE p == desk[a]
<1>0. Types /\ UNCHANGED <<config, patches, saves>>
  BY DEF TypeName, PickLogo, ApplyColour
<1>1. edits' \in Nat /\ edits' <= MaxEdits /\ saves \in Nat /\ saves <= MaxSaves
  BY <1>0, TypesCounted, FormsThere
<1>2. p \in PageRow /\ PageTrue(a)
  BY FormsThere
<1>3. CASE TypeName(a)
  <2>1. PICK name \in Named : desk' = [desk EXCEPT ![a] = [p EXCEPT !.name = name]]
    BY <1>3 DEF TypeName, Shows
  <2> DEFINE row == [p EXCEPT !.name = name]
  <2>2. row \in PageRow
    BY <1>2 DEF PageRow
  <2>3. Edits(a, row)
    BY <1>2 DEF Edits, PageRow, PageTrue
  <2> QED
    BY <1>0, <1>1, <2>1, <2>2, <2>3, EditKeepsForms
<1>4. CASE PickLogo(a)
  <2>1. PICK logo \in Named : desk' = [desk EXCEPT ![a] = [p EXCEPT !.logo = logo, !.file = (logo # "" /\ Kind(a) = "branding")]]
    BY <1>4 DEF PickLogo, Shows
  <2>2. PICK file \in BOOLEAN : file = (logo # "" /\ Kind(a) = "branding")
    OBVIOUS
  <2> DEFINE row == [p EXCEPT !.logo = logo, !.file = file]
  <2>3. desk' = [desk EXCEPT ![a] = row]
    BY <2>1, <2>2
  <2>4. row \in PageRow
    BY <1>2 DEF PageRow
  <2>5. Edits(a, row)
    BY <1>2 DEF Edits, PageRow, PageTrue
  <2> QED
    BY <1>0, <1>1, <2>3, <2>4, <2>5, EditKeepsForms
<1>5. CASE ApplyColour(a)
  <2>1. PICK c \in Suggested : desk' = [desk EXCEPT ![a] = [p EXCEPT !.colour = c]]
    BY <1>5 DEF ApplyColour, Shows
  <2> DEFINE row == [p EXCEPT !.colour = c]
  <2>2. row \in PageRow
    BY <1>2 DEF PageRow, Colours
  <2>3. Edits(a, row)
    BY <1>2 DEF Edits, PageRow, PageTrue
  <2> QED
    BY <1>0, <1>1, <2>1, <2>2, <2>3, EditKeepsForms
<1> QED
  BY <1>3, <1>4, <1>5

LEMMA AskKeepsForms ==
  ASSUME FormsInv, NEW a \in Admins, AskMaintenance(a), UNCHANGED story
  PROVE  FormsInv'
<1>0. PICK s \in {"on", "off"} : desk' = [desk EXCEPT ![a] = [desk[a] EXCEPT !.asking = s]]
  BY DEF AskMaintenance, Shows
<1>1. UNCHANGED <<config, patches, saves, edits>> /\ saves \in Nat /\ saves <= MaxSaves /\ edits \in Nat /\ edits <= MaxEdits
  BY FormsThere DEF AskMaintenance
<1> DEFINE row == [desk[a] EXCEPT !.asking = s]
<1>2. desk[a] \in PageRow /\ PageTrue(a) /\ desk[a].loaded /\ Kind(a) = "general"
  BY FormsThere DEF AskMaintenance, OnGeneral
<1>3. row \in PageRow
  BY <1>2 DEF PageRow
<1>4. Edits(a, row)
  BY <1>2 DEF Edits, PageRow
<1> QED
  BY <1>0, <1>1, <1>3, <1>4, EditKeepsForms


-----------------------------------------------------------------------------
\* What is sent: the request for the settings, a save, a switch.
LEMMA SendsCounted ==
  ASSUME FormsInv, NEW c, Sends(c)
  PROVE  saves' \in Nat /\ saves' <= MaxSaves /\ patches' = Append(patches, c)
<1>1. saves \in Nat /\ saves < MaxSaves /\ saves' = saves + 1 /\ patches' = Append(patches, c)
  BY FormsThere DEF Sends
<1>2. MaxSaves \in Nat
  BY FormsAssumption
<1> QED
  BY <1>1, <1>2

LEMMA PatchKinds ==
  ASSUME NEW a \in Admins, NEW op \in {"load", "brand", "logo", "identity", "switch"}
  PROVE  /\ Patch(a, op) \in PatchRow /\ Patch(a, op).by = a /\ Patch(a, op).op = op /\ Patch(a, op).step = "sent"
         /\ Patch(a, op).switch = "none"
<1>1. <<>> \in Seq(OptRow) /\ "" \in Named /\ "ours" \in Named /\ Plain \in Colours /\ [s \in Switches |-> FALSE] \in [Switches -> BOOLEAN]
  BY DEF Named, Colours
<1>2. Patch(a, op).by = a /\ Patch(a, op).op = op /\ Patch(a, op).step = "sent" /\ Patch(a, op).switch = "none"
  BY DEF Patch
<1>3. Patch(a, op) \in PatchRow
  BY <1>1 DEF Patch, PatchRow
<1> QED
  BY <1>2, <1>3

LEMMA PageKinds ==
  /\ Page \in PageRow /\ ~Page.loaded /\ Page.asking = "none" /\ Page.locked = {} /\ Page.options = <<>> /\ ~Page.busy
  /\ ~Page.toggling /\ Page.gone = {} /\ Page.odd = {}
<1>1. <<>> \in Seq(OptRow) /\ {} \in SUBSET Labels /\ {} \in SUBSET Switches /\ "" \in Named /\ "ours" \in Named /\ Plain \in Colours
      /\ [s \in Switches |-> FALSE] \in [Switches -> BOOLEAN] /\ 0 \in Nat
  BY DEF Named, Colours
<1> QED
  BY <1>1 DEF PageRow, Page

LEMMA OpenKeepsForms ==
  ASSUME FormsInv, NEW a \in Admins, OpenSettings(a), UNCHANGED story
  PROVE  FormsInv'
<1> DEFINE row == [Page EXCEPT !.open = TRUE]
           c == Patch(a, "load")
<1>1. desk' = [desk EXCEPT ![a] = row] /\ patches' = Append(patches, c) /\ UNCHANGED <<config, saves, edits>>
  BY DEF OpenSettings, Shows
<1>2. \A i \in DOMAIN patches : patches[i].by # a
  BY DEF OpenSettings, Busy
<1>3. row \in PageRow /\ ~row.loaded /\ row.asking = "none" /\ row.locked = {}
  BY PageKinds DEF PageRow
<1>4. c \in PatchRow /\ c.by = a /\ c.op = "load" /\ c.step = "sent"
  BY PatchKinds
<1> HIDE DEF row, c
<1>5. desk'[a] = row
  BY <1>1, <1>3, RowsOfDesk
<1>6. CallTrue(c)'
  BY <1>3, <1>4, <1>5 DEF CallTrue, Belongs, Speaks, Accounts, Loading, Throwing, Saving
<1>7. \A i \in DOMAIN patches : Alone(patches[i], c) /\ Alone(c, patches[i])
  BY <1>2, <1>4 DEF Alone
<1>8. saves \in Nat /\ saves <= MaxSaves /\ edits \in Nat /\ edits <= MaxEdits
  BY FormsThere
<1> QED
  BY <1>1, <1>2, <1>3, <1>4, <1>6, <1>7, <1>8, SendKeepsForms

LEMMA IdentityKeepsForms ==
  ASSUME FormsInv, NEW a \in Admins, SaveIdentity(a), UNCHANGED story
  PROVE  FormsInv'
<1> DEFINE p == desk[a]
           row == [p EXCEPT !.busy = TRUE]
           b == Patch(a, "identity")
           call == [b EXCEPT !.name = p.name, !.logo = p.logo]
<1>1. Sends(call) /\ desk' = [desk EXCEPT ![a] = row] /\ UNCHANGED <<config, edits>> /\ p.loaded /\ Kind(a) = "general"
  BY DEF SaveIdentity, Shows, OnGeneral
<1>2. p \in PageRow /\ PageTrue(a)
  BY FormsThere
<1>3. b \in PatchRow /\ b.by = a /\ b.op = "identity" /\ b.step = "sent"
  BY PatchKinds
<1> HIDE DEF b
<1>4. PICK c \in PatchRow : c = call /\ c.by = a /\ c.op = "identity" /\ c.step = "sent"
  <2>1. call \in PatchRow /\ call.by = a /\ call.op = "identity" /\ call.step = "sent"
    BY <1>2, <1>3 DEF PatchRow, PageRow
  <2> QED
    BY <2>1
<1>5. /\ row \in PageRow /\ row.loaded = p.loaded /\ row.asking = p.asking /\ row.locked = p.locked /\ row.shown = p.shown
      /\ row.odd = p.odd /\ row.toggling = p.toggling
  BY <1>2 DEF PageRow
<1> HIDE DEF row, call
<1>6. desk'[a] = row /\ saves' \in Nat /\ saves' <= MaxSaves /\ patches' = Append(patches, c) /\ edits \in Nat /\ edits <= MaxEdits
  BY <1>1, <1>4, <1>5, RowsOfDesk, SendsCounted, FormsThere
<1>7. CallTrue(c)'
  BY <1>1, <1>4, <1>6, KindStays DEF CallTrue, Belongs, Speaks, Accounts, Loading, Throwing, Saving
<1>8. ASSUME NEW i \in DOMAIN patches
      PROVE Alone(patches[i], c) /\ Alone(c, patches[i]) /\ (patches[i].by = a => Suits(patches[i], row))
  <2>1. CallTrue(patches[i])
    BY PatchThere
  <2>2. CASE patches[i].by = a
    <3>1. ~Loading(patches[i]) /\ ~Saving(patches[i])
      BY <1>1, <2>1, <2>2 DEF CallTrue, Belongs
    <3>2. ~Loading(c) /\ ~Throwing(c) /\ ~Saving(c)
      BY <1>4 DEF Loading, Throwing, Saving
    <3>3. Suits(patches[i], row)
      BY <1>5, <2>1, <2>2, <3>1 DEF CallTrue, Belongs, Suits
    <3> QED
      BY <3>1, <3>2, <3>3 DEF Alone
  <2>3. CASE patches[i].by # a
    BY <1>4, <2>3 DEF Alone
  <2> QED
    BY <2>2, <2>3
<1>9. row.asking # "none" => row.loaded /\ Kind(a) = "general"
  BY <1>1, <1>5
<1>10. \A s \in Switches : row.shown[s] = config.on[s] \/ s \in row.odd \/ Throws(a, s)
  BY <1>1, <1>2, <1>5 DEF PageTrue
<1> QED
  BY <1>1, <1>4, <1>5, <1>6, <1>7, <1>8, <1>9, <1>10, SendKeepsForms

LEMMA BrandKeepsForms ==
  ASSUME FormsInv, NEW a \in Admins, SaveBranding(a), UNCHANGED story
  PROVE  FormsInv'
<1> DEFINE p == desk[a]
           row == [p EXCEPT !.busy = TRUE, !.file = FALSE]
           op == IF p.file THEN "logo" ELSE "brand"
           b == Patch(a, op)
           g == p.gone \union Blanked(p.options)
           call == [b EXCEPT !.logo = p.logo, !.options = p.options, !.locked = p.locked, !.gone = g, !.name = p.name, !.colour = p.colour]
<1>1. Sends(call) /\ desk' = [desk EXCEPT ![a] = row] /\ UNCHANGED <<config, edits>> /\ ~p.busy /\ Kind(a) = "branding"
  BY DEF SaveBranding, Shows, OnForm, BrandCall
<1>2. p \in PageRow /\ PageTrue(a) /\ p.options \in Seq(OptRow)
  BY FormsThere DEF PageRow
<1>3. b \in PatchRow /\ b.by = a /\ b.op = op /\ b.step = "sent" /\ op \in {"brand", "logo"}
  BY PatchKinds
<1>g. g \in SUBSET Labels
  <2>1. ASSUME NEW j \in DOMAIN p.options PROVE p.options[j].key \in Labels
    <3>1. p.options[j] \in OptRow
      BY <1>2
    <3> QED
      BY <3>1 DEF OptRow
  <2>2. p.gone \in SUBSET Labels
    BY <1>2 DEF PageRow
  <2> QED
    BY <2>1, <2>2 DEF Blanked
<1>o. \A k \in p.locked \ {""} : k \in g \/ HasFull(p.options, k)
  BY <1>1, <1>2 DEF PageTrue, Has, HasFull, Full, Blanked
<1> HIDE DEF b, g
<1>4. PICK c \in PatchRow : /\ c = call /\ c.by = a /\ c.op \in {"brand", "logo"} /\ c.step = "sent" /\ c.locked = p.locked /\ c.gone = g
                            /\ c.options = p.options
  <2>1. /\ call \in PatchRow /\ call.by = a /\ call.op \in {"brand", "logo"} /\ call.step = "sent" /\ call.locked = p.locked /\ call.gone = g
        /\ call.options = p.options
    BY <1>2, <1>3, <1>g DEF PatchRow, PageRow
  <2> QED
    BY <2>1
<1>5. /\ row \in PageRow /\ row.loaded = p.loaded /\ row.asking = p.asking /\ row.locked = p.locked /\ row.shown = p.shown
      /\ row.odd = p.odd /\ row.toggling = p.toggling /\ row.busy /\ row.options = p.options /\ row.gone = p.gone
  BY <1>2 DEF PageRow
<1> HIDE DEF row, call, op
<1>6. desk'[a] = row /\ saves' \in Nat /\ saves' <= MaxSaves /\ patches' = Append(patches, c) /\ edits \in Nat /\ edits <= MaxEdits
  BY <1>1, <1>4, <1>5, RowsOfDesk, SendsCounted, FormsThere
<1>7. CallTrue(c)'
  <2>1. Belongs(c)' /\ Speaks(c)'
    BY <1>1, <1>4, <1>5, <1>6, KindStays DEF Belongs, Speaks, Loading, Throwing, Saving
  <2>2. Accounts(c)'
    <3>1. \A k \in c.locked \ {""} : k \in c.gone \/ HasFull(c.options, k)
      BY <1>o, <1>4
    <3>2. \A k \in Labels : Has(c.options, k) => Has(desk'[c.by].options, k)
      BY <1>4, <1>5, <1>6
    <3> QED
      BY <3>1, <3>2 DEF Accounts, Has, HasFull, Full, Saving
  <2> QED
    BY <2>1, <2>2 DEF CallTrue
<1>8. ASSUME NEW i \in DOMAIN patches
      PROVE Alone(patches[i], c) /\ Alone(c, patches[i]) /\ (patches[i].by = a => Suits(patches[i], row))
  <2>1. CallTrue(patches[i])
    BY PatchThere
  <2>2. CASE patches[i].by = a
    <3>1. ~Loading(patches[i]) /\ ~Saving(patches[i]) /\ ~Throwing(patches[i])
      BY <1>1, <2>1, <2>2 DEF CallTrue, Belongs, Loading
    <3>2. ~Loading(c) /\ ~Throwing(c)
      BY <1>4 DEF Loading, Throwing
    <3>3. Suits(patches[i], row)
      BY <1>5, <2>1, <2>2, <3>1 DEF CallTrue, Belongs, Suits
    <3> QED
      BY <3>1, <3>2, <3>3 DEF Alone
  <2>3. CASE patches[i].by # a
    BY <1>4, <2>3 DEF Alone
  <2> QED
    BY <2>2, <2>3
<1>9. row.asking # "none" => row.loaded /\ Kind(a) = "general"
  BY <1>2, <1>5 DEF PageTrue
<1>10. \A k \in row.locked : k \in row.gone \/ Has(row.options, k)
  BY <1>1, <1>2, <1>5 DEF PageTrue
<1> QED
  BY <1>1, <1>4, <1>5, <1>6, <1>7, <1>8, <1>9, <1>10, SendKeepsForms

\* A switch of the general page, of a page whose question is answered by it or was not asked.
LEMMA FlagKeepsForms ==
  ASSUME FormsInv, NEW a \in Admins, desk[a].loaded, Kind(a) = "general",
         NEW p \in PageRow, p = [desk[a] EXCEPT !.asking = "none"], NEW s \in Switches, NEW value \in BOOLEAN,
         PatchFlag(a, p, s, value), UNCHANGED <<story, config, edits>>
  PROVE  FormsInv'
<1>1. desk[a] \in PageRow /\ PageTrue(a) /\ edits \in Nat /\ edits <= MaxEdits /\ saves \in Nat /\ saves <= MaxSaves
  BY FormsThere
<1>2. /\ p.loaded /\ p.asking = "none" /\ p.shown = desk[a].shown /\ p.odd = desk[a].odd /\ p.toggling = desk[a].toggling
      /\ p.busy = desk[a].busy /\ p.locked = desk[a].locked /\ p.gone = desk[a].gone /\ p.options = desk[a].options
  BY <1>1 DEF PageRow
<1> DEFINE w == [p.shown EXCEPT ![s] = value]
           o == p.odd \union {s}
<1>3. w \in [Switches -> BOOLEAN] /\ w[s] = value /\ (\A u \in Switches : u # s => w[u] = p.shown[u]) /\ o \in SUBSET Switches
  BY DEF PageRow
<1>4. CASE p.toggling
  <2> DEFINE row == [p EXCEPT !.odd = o, !.shown = w]
  <2>1. desk' = [desk EXCEPT ![a] = row] /\ UNCHANGED <<patches, saves>>
    BY <1>4 DEF PatchFlag, Shows
  <2>x. p.odd \subseteq o /\ s \in o
    OBVIOUS
  <2> HIDE DEF w, o
  <2>2. row \in PageRow
    BY <1>3 DEF PageRow
  <2>3. /\ row.loaded /\ row.asking = "none" /\ row.shown = w /\ row.odd = o /\ row.toggling = p.toggling
        /\ row.busy = p.busy /\ row.locked = p.locked /\ row.gone = p.gone /\ row.options = p.options
    BY <1>2 DEF PageRow
  <2> HIDE DEF row
  <2>4. Edits(a, row)
    BY <1>2, <1>3, <2>x, <2>3 DEF Edits
  <2> QED
    BY <1>1, <2>1, <2>2, <2>4, EditKeepsForms
<1>5. CASE ~p.toggling
  <2> DEFINE row == [p EXCEPT !.shown = w, !.toggling = TRUE]
             b == Patch(a, "switch")
             c == [b EXCEPT !.switch = s, !.value = value]
  <2>1. Sends(c) /\ desk' = [desk EXCEPT ![a] = row]
    BY <1>5 DEF PatchFlag, Shows
  <2>2. b \in PatchRow /\ b.by = a /\ b.op = "switch" /\ b.step = "sent"
    BY PatchKinds
  <2> HIDE DEF w, o, b
  <2>3. c \in PatchRow /\ c.by = a /\ c.op = "switch" /\ c.step = "sent" /\ c.switch = s /\ c.value = value
    BY <2>2 DEF PatchRow
  <2>4. row \in PageRow
    BY <1>3 DEF PageRow
  <2>5. /\ row.loaded /\ row.asking = "none" /\ row.shown = w /\ row.odd = p.odd /\ row.toggling
        /\ row.busy = p.busy /\ row.locked = p.locked /\ row.gone = p.gone /\ row.options = p.options
    BY <1>2 DEF PageRow
  <2> HIDE DEF row, c
  <2>6. desk'[a] = row /\ saves' \in Nat /\ saves' <= MaxSaves /\ patches' = Append(patches, c)
    BY <2>1, <2>4, RowsOfDesk, SendsCounted
  <2>7. CallTrue(c)'
    <3>1. Belongs(c)'
      BY <2>3, <2>5, <2>6, KindStays DEF Belongs, Loading, Throwing, Saving
    <3>2. Speaks(c)'
      BY <1>3, <2>3, <2>5, <2>6 DEF Speaks, Loading, Throwing, Saving
    <3>3. Accounts(c)'
      BY <2>3 DEF Accounts, Saving
    <3> QED
      BY <3>1, <3>2, <3>3 DEF CallTrue
  <2>8. ASSUME NEW i \in DOMAIN patches
        PROVE Alone(patches[i], c) /\ Alone(c, patches[i]) /\ (patches[i].by = a => Suits(patches[i], row))
    <3>1. CallTrue(patches[i])
      BY PatchThere
    <3>2. CASE patches[i].by = a
      <4>1. ~Loading(patches[i]) /\ ~Saving(patches[i]) /\ ~Throwing(patches[i])
        BY <1>2, <1>5, <3>1, <3>2 DEF CallTrue, Belongs
      <4>2. ~Loading(c) /\ ~Saving(c)
        BY <2>3 DEF Loading, Saving
      <4>3. Suits(patches[i], row)
        BY <1>2, <2>5, <3>2, <4>1 DEF Suits
      <4> QED
        BY <4>1, <4>2, <4>3 DEF Alone
    <3>3. CASE patches[i].by # a
      BY <2>3, <3>3 DEF Alone
    <3> QED
      BY <3>2, <3>3
  <2>9. \A u \in Switches : row.shown[u] = config.on[u] \/ u \in row.odd \/ Throws(a, u) \/ (Throwing(c) /\ c.switch = u)
    BY <1>1, <1>2, <1>3, <2>3, <2>5 DEF PageTrue, Throwing
  <2> QED
    BY <1>1, <2>1, <2>3, <2>4, <2>5, <2>6, <2>7, <2>8, <2>9, SendKeepsForms
<1> QED
  BY <1>4, <1>5

LEMMA ThrowKeepsForms ==
  ASSUME FormsInv, NEW a \in Admins, ThrowFlag(a), UNCHANGED story
  PROVE  FormsInv'
<1> DEFINE p == desk[a]
           value == ~p.shown["survey"]
<1>1. p \in PageRow /\ p.loaded /\ Kind(a) = "general" /\ p.asking = "none" /\ UNCHANGED <<config, edits>> /\ PatchFlag(a, p, "survey", value)
  BY FormsThere DEF ThrowFlag, OnGeneral
<1>2. p = [p EXCEPT !.asking = "none"]
  BY <1>1 DEF PageRow
<1>3. value \in BOOLEAN /\ "survey" \in Switches
  BY DEF Switches
<1> HIDE DEF value
<1> QED
  BY <1>1, <1>2, <1>3, FlagKeepsForms

LEMMA MaintenanceKeepsForms ==
  ASSUME FormsInv, NEW a \in Admins, ConfirmMaintenance(a), UNCHANGED story
  PROVE  FormsInv'
<1> DEFINE p == [desk[a] EXCEPT !.asking = "none"]
           value == desk[a].asking = "on"
<1>1. desk[a] \in PageRow /\ desk[a].asking # "none" /\ PageTrue(a) /\ UNCHANGED <<config, edits>>
  BY FormsThere DEF ConfirmMaintenance
<1>2. desk[a].loaded /\ Kind(a) = "general"
  BY <1>1 DEF PageTrue
<1>3. p \in PageRow /\ value \in BOOLEAN /\ "maintenance" \in Switches
  BY <1>1 DEF PageRow, Switches
<1>4. CASE PatchFlag(a, p, "maintenance", value)
  <2> HIDE DEF value
  <2>1. PICK q \in PageRow : q = p
    BY <1>3
  <2>2. PatchFlag(a, q, "maintenance", value)
    BY <1>4, <2>1
  <2> QED
    BY <1>1, <1>2, <1>3, <2>1, <2>2, FlagKeepsForms
<1>5. CASE desk' = [desk EXCEPT ![a] = p] /\ UNCHANGED <<patches, saves>>
  <2>1. Edits(a, p)
    BY <1>1 DEF Edits, PageRow
  <2>2. edits \in Nat /\ edits <= MaxEdits /\ saves \in Nat /\ saves <= MaxSaves
    BY FormsThere
  <2> HIDE DEF p
  <2> QED
    BY <1>1, <1>3, <1>5, <2>1, <2>2, EditKeepsForms
<1> QED
  BY <1>4, <1>5 DEF ConfirmMaintenance, Shows

LEMMA HandoffKeepsForms ==
  ASSUME FormsInv, NEW a \in Admins, PressHandoff(a), UNCHANGED story
  PROVE  FormsInv'
<1> DEFINE p == desk[a]
           b == Patch(a, "switch")
<1>1. PICK s \in {"sso", "secret"}, value \in BOOLEAN : Sends([b EXCEPT !.switch = s, !.value = value, !.shown = p.shown])
  BY DEF PressHandoff
<1> DEFINE call == [b EXCEPT !.switch = s, !.value = value, !.shown = p.shown]
<1>2. p \in PageRow /\ PageTrue(a) /\ p.loaded /\ Kind(a) = "sso" /\ UNCHANGED <<config, desk, edits>>
  BY FormsThere DEF PressHandoff, OnHandoff
<1>3. b \in PatchRow /\ b.by = a /\ b.op = "switch" /\ b.step = "sent" /\ s \in Switches
  BY PatchKinds DEF Switches
<1> HIDE DEF b
<1>4. PICK c \in PatchRow : c = call /\ c.by = a /\ c.op = "switch" /\ c.step = "sent" /\ c.switch = s /\ c.value = value
  <2>1. call \in PatchRow /\ call.by = a /\ call.op = "switch" /\ call.step = "sent" /\ call.switch = s /\ call.value = value
    BY <1>2, <1>3 DEF PatchRow, PageRow
  <2> QED
    BY <2>1
<1> HIDE DEF call
<1>5. /\ desk' = [desk EXCEPT ![a] = p] /\ saves' \in Nat /\ saves' <= MaxSaves /\ patches' = Append(patches, c)
      /\ edits \in Nat /\ edits <= MaxEdits
  <2>1. desk \in [Admins -> PageRow]
    BY FormsThere
  <2> QED
    BY <1>1, <1>2, <1>4, <2>1, SendsCounted, FormsThere DEF call
<1>6. CallTrue(c)'
  BY <1>2, <1>3, <1>4, KindStays DEF CallTrue, Belongs, Speaks, Accounts, Loading, Throwing, Saving
<1>7. ASSUME NEW i \in DOMAIN patches
      PROVE Alone(patches[i], c) /\ Alone(c, patches[i]) /\ (patches[i].by = a => Suits(patches[i], p))
  <2>1. CallTrue(patches[i])
    BY PatchThere
  <2>2. CASE patches[i].by = a
    <3>1. ~Loading(patches[i]) /\ ~Saving(patches[i])
      BY <1>2, <2>1, <2>2 DEF CallTrue, Belongs
    <3>2. ~Loading(c) /\ ~Saving(c)
      BY <1>4 DEF Loading, Saving
    <3>3. Suits(patches[i], p)
      BY <1>2, <2>2, <3>1 DEF Suits
    <3> QED
      BY <1>2, <2>2, <3>1, <3>2, <3>3 DEF Alone
  <2>3. CASE patches[i].by # a
    BY <1>4, <2>3 DEF Alone
  <2> QED
    BY <2>2, <2>3
<1>8. p.asking # "none" => p.loaded /\ Kind(a) = "general"
  BY <1>2 DEF PageTrue
<1>9. \A u \in Switches : p.shown[u] = config.on[u] \/ u \in p.odd \/ Throws(a, u)
  BY <1>2 DEF PageTrue
<1> HIDE DEF p
<1> QED
  BY <1>2, <1>4, <1>5, <1>6, <1>7, <1>8, <1>9, SendKeepsForms


-----------------------------------------------------------------------------
\* What the API does with a call.
LEMMA KeysAreLabels ==
  ASSUME NEW s \in Seq(OptRow)
  PROVE  Keys(s) \in SUBSET Labels /\ \A k : k \in Keys(s) <=> Has(s, k)
<1>1. ASSUME NEW j \in DOMAIN s PROVE s[j].key \in Labels
  <2>1. s[j] \in OptRow
    OBVIOUS
  <2> QED
    BY <2>1 DEF OptRow
<1> QED
  BY <1>1 DEF Keys, Has

LEMMA ReadKeepsForms ==
  ASSUME FormsInv, NEW i \in DOMAIN patches, ReadConfig(i), UNCHANGED story
  PROVE  FormsInv'
<1>1. PICK c \in PatchRow : c = patches[i] /\ CallTrue(c)
  BY PatchThere
<1> DEFINE move == [c EXCEPT !.step = "answered", !.options = config.options, !.name = config.name, !.logo = config.logo,
                             !.colour = config.colour, !.shown = config.on]
<1>2. c.op = "load" /\ patches' = [patches EXCEPT ![i] = move] /\ UNCHANGED <<config, desk, saves, edits>>
  BY <1>1 DEF ReadConfig
<1>3. config \in ConfigRow
  BY FormsThere
<1>4. move \in PatchRow /\ move.by = c.by /\ move.op = c.op /\ move.switch = c.switch /\ move.shown = config.on
  BY <1>3 DEF PatchRow, ConfigRow
<1> HIDE DEF move
<1>5. PICK d \in PatchRow : d = move
  BY <1>4
<1>6. CallTrue(d)
  BY <1>1, <1>2, <1>4, <1>5 DEF CallTrue, Belongs, Speaks, Accounts, Loading, Throwing, Saving
<1> QED
  BY <1>1, <1>2, <1>4, <1>5, <1>6, StepKeepsForms

LEMMA RefuseKeepsForms ==
  ASSUME FormsInv, NEW i \in DOMAIN patches, RefuseConfig(i), UNCHANGED story
  PROVE  FormsInv'
<1>1. PICK c \in PatchRow : c = patches[i] /\ CallTrue(c)
  BY PatchThere
<1> DEFINE d == [c EXCEPT !.step = "refused"]
<1>2. patches' = [patches EXCEPT ![i] = d] /\ UNCHANGED <<config, desk, saves, edits>>
  BY <1>1 DEF RefuseConfig
<1>3. /\ d \in PatchRow /\ d.by = c.by /\ d.op = c.op /\ d.switch = c.switch /\ d.step = "refused" /\ d.value = c.value
      /\ d.options = c.options /\ d.locked = c.locked /\ d.gone = c.gone
  BY DEF PatchRow
<1> HIDE DEF d
<1>4. CallTrue(d)
  <2>1. Belongs(d) /\ Speaks(d)
    BY <1>1, <1>3 DEF CallTrue, Belongs, Speaks, Loading, Throwing, Saving
  <2>2. Accounts(d)
    BY <1>1, <1>3 DEF CallTrue, Accounts, Saving
  <2> QED
    BY <2>1, <2>2 DEF CallTrue
<1> QED
  BY <1>1, <1>2, <1>3, <1>4, StepKeepsForms

LEMMA LogoKeepsForms ==
  ASSUME FormsInv, NEW i \in DOMAIN patches, AfterLogo(i), UNCHANGED story
  PROVE  FormsInv'
<1>1. PICK c \in PatchRow : c = patches[i] /\ CallTrue(c)
  BY PatchThere
<1> DEFINE d == [c EXCEPT !.op = "brand", !.step = "sent"]
<1>2. c.op = "logo" /\ patches' = [patches EXCEPT ![i] = d] /\ UNCHANGED <<config, desk, saves, edits>>
  BY <1>1 DEF AfterLogo
<1>3. /\ d \in PatchRow /\ d.by = c.by /\ d.op = "brand" /\ d.switch = c.switch
      /\ d.options = c.options /\ d.locked = c.locked /\ d.gone = c.gone
  BY DEF PatchRow
<1> HIDE DEF d
<1>4. CallTrue(d)
  <2>1. Belongs(d) /\ Speaks(d)
    BY <1>1, <1>2, <1>3 DEF CallTrue, Belongs, Speaks, Loading, Throwing, Saving
  <2>2. Accounts(d)
    BY <1>1, <1>2, <1>3 DEF CallTrue, Accounts, Saving
  <2> QED
    BY <2>1, <2>2 DEF CallTrue
<1>5. Saving(c) /\ Saving(d)
  BY <1>2, <1>3 DEF Saving
<1> QED
  BY <1>1, <1>2, <1>3, <1>4, <1>5, StepKeepsForms

LEMMA WrittenIs ==
  ASSUME FormsInv, NEW c \in PatchRow, CallTrue(c), c.op # "load", Valid(c)
  PROVE  LET w == Written(c)
         IN /\ w \in ConfigRow /\ \A j \in DOMAIN w.options : Full(w.options[j])
            /\ w.on = IF Throwing(c) THEN [config.on EXCEPT ![c.switch] = c.value] ELSE config.on
            /\ w.options = IF c.op = "brand" THEN Kept(c.options) ELSE config.options
<1>1. config \in ConfigRow /\ \A j \in DOMAIN config.options : Full(config.options[j])
  BY FormsThere
<1>2. c.options \in Seq(OptRow) /\ c.name \in Named /\ c.logo \in Named /\ c.colour \in Colours /\ c.value \in BOOLEAN
      /\ c.op \in {"brand", "logo", "identity", "switch"}
  BY DEF PatchRow
<1>3. CASE c.op = "brand"
  <2> DEFINE t == Kept(c.options)
             w == [config EXCEPT !.options = t, !.name = c.name, !.colour = c.colour]
  <2>1. Written(c) = w
    BY <1>3 DEF Written
  <2>2. t \in Seq(OptRow) /\ \A j \in DOMAIN t : Full(t[j])
    BY <1>2, KeptIs DEF Holds
  <2>3. c.colour \in {x \in Colours : IsHex(x)}
    BY <1>2, <1>3 DEF Valid
  <2> HIDE DEF t
  <2>4. w \in ConfigRow /\ w.options = t /\ w.on = config.on
    BY <1>1, <1>2, <2>2, <2>3 DEF ConfigRow
  <2> HIDE DEF w
  <2>5. ~Throwing(c)
    BY <1>3 DEF Throwing
  <2> QED
    BY <1>3, <2>1, <2>2, <2>4, <2>5 DEF t
<1>4. CASE c.op \in {"logo", "identity"}
  <2>1. PICK w \in ConfigRow : w = Written(c) /\ w.options = config.options /\ w.on = config.on
    <3>1. CASE c.op = "identity"
      <4> DEFINE w == [config EXCEPT !.name = c.name, !.logo = c.logo]
      <4>1. Written(c) = w
        BY <3>1 DEF Written
      <4>2. w \in ConfigRow /\ w.options = config.options /\ w.on = config.on
        BY <1>1, <1>2 DEF ConfigRow
      <4> QED
        BY <4>1, <4>2
    <3>2. CASE c.op = "logo"
      <4> DEFINE w == [config EXCEPT !.logo = c.logo]
      <4>1. Written(c) = w
        BY <3>2 DEF Written
      <4>2. w \in ConfigRow /\ w.options = config.options /\ w.on = config.on
        BY <1>1, <1>2 DEF ConfigRow
      <4> QED
        BY <4>1, <4>2
    <3> QED
      BY <1>4, <3>1, <3>2
  <2> QED
    BY <1>1, <1>4, <2>1 DEF Throwing
<1>5. CASE c.op = "switch"
  <2> DEFINE o == [config.on EXCEPT ![c.switch] = c.value]
             w == [config EXCEPT !.on = o]
  <2>1. Written(c) = w
    BY <1>5 DEF Written
  <2>2. config.on \in [Switches -> BOOLEAN]
    BY <1>1 DEF ConfigRow
  <2>3. o \in [Switches -> BOOLEAN]
    BY <1>2, <2>2
  <2> HIDE DEF o
  <2>4. w \in ConfigRow /\ w.options = config.options /\ w.on = o
    BY <1>1, <2>3 DEF ConfigRow
  <2> HIDE DEF w
  <2> QED
    BY <1>1, <1>5, <2>1, <2>4 DEF Throwing, o
<1> QED
  BY <1>2, <1>3, <1>4, <1>5

LEMMA OvertakenIs ==
  ASSUME FormsInv, NEW i \in DOMAIN patches, desk' = Overtaken(i), NEW b \in Admins
  PROVE  LET p == desk[b]
             q == desk'[b]
             c == patches[i]
         IN /\ desk' = [x \in Admins |-> desk'[x]] /\ q \in PageRow /\ p.odd \subseteq q.odd
            /\ q.loaded = p.loaded /\ q.toggling = p.toggling /\ q.busy = p.busy /\ q.options = p.options /\ q.gone = p.gone
            /\ q.shown = p.shown /\ q.locked = p.locked /\ q.asking = p.asking
            /\ Throwing(c) /\ (b # c.by \/ \E j \in DOMAIN patches : j # i /\ patches[j].by = b /\ patches[j].switch = c.switch)
                 => c.switch \in q.odd
<1>1. PICK c \in PatchRow : c = patches[i] /\ CallTrue(c)
  BY PatchThere
<1>2. PICK p \in PageRow : p = desk[b]
  BY FormsThere
<1> DEFINE P == c.op = "switch" /\ (b # c.by \/ \E j \in DOMAIN patches \ {i} : patches[j].by = b /\ patches[j].switch = c.switch)
<1>3. /\ desk' = [x \in Admins |-> desk'[x]]
      /\ desk'[b] = IF P THEN [p EXCEPT !.odd = p.odd \union {c.switch}] ELSE p
  BY <1>1, <1>2 DEF Overtaken
<1>4. CASE P
  <2> DEFINE o == p.odd \union {c.switch}
             q == [p EXCEPT !.odd = o]
  <2>1. c.switch \in Switches
    BY <1>1, <1>4 DEF CallTrue, Belongs, Throwing
  <2>2. o \in SUBSET Switches /\ p.odd \subseteq o /\ c.switch \in o
    BY <2>1 DEF PageRow
  <2>3. desk'[b] = q
    BY <1>3, <1>4
  <2> HIDE DEF o, P
  <2>4. /\ q \in PageRow /\ q.odd = o /\ q.loaded = p.loaded /\ q.toggling = p.toggling /\ q.busy = p.busy /\ q.options = p.options
        /\ q.gone = p.gone /\ q.shown = p.shown /\ q.locked = p.locked /\ q.asking = p.asking
    BY <2>2 DEF PageRow
  <2> HIDE DEF q
  <2> QED
    BY <1>1, <1>2, <1>3, <2>2, <2>3, <2>4
<1>5. CASE ~P
  <2>1. desk'[b] = p
    BY <1>3, <1>5
  <2>2. Throwing(c) => ~(b # c.by \/ \E j \in DOMAIN patches : j # i /\ patches[j].by = b /\ patches[j].switch = c.switch)
    BY <1>5 DEF Throwing
  <2> HIDE DEF P
  <2> QED
    BY <1>1, <1>2, <1>3, <2>1, <2>2
<1> QED
  BY <1>4, <1>5

LEMMA WriteKeepsForms ==
  ASSUME FormsInv, NEW i \in DOMAIN patches, WriteConfig(i), UNCHANGED story
  PROVE  FormsInv'
<1>1. PICK c \in PatchRow : c = patches[i] /\ CallTrue(c)
  BY PatchThere
<1> DEFINE d == [c EXCEPT !.step = "answered"]
<1>2. c.op # "load" /\ Valid(c) /\ config' = Written(c) /\ desk' = Overtaken(i) /\ patches' = [patches EXCEPT ![i] = d] /\ UNCHANGED <<saves, edits>>
  BY <1>1 DEF WriteConfig
<1>3. /\ d \in PatchRow /\ d.by = c.by /\ d.op = c.op /\ d.switch = c.switch /\ d.value = c.value
      /\ d.options = c.options /\ d.locked = c.locked /\ d.gone = c.gone
  BY DEF PatchRow
<1> HIDE DEF d
<1>4. /\ config' \in ConfigRow /\ (\A j \in DOMAIN config'.options : Full(config'.options[j]))
      /\ config'.on = IF Throwing(c) THEN [config.on EXCEPT ![c.switch] = c.value] ELSE config.on
  BY <1>1, <1>2, WrittenIs
<1>5. Throwing(c) => c.switch \in Switches
  BY <1>1 DEF CallTrue, Belongs
<1>6. \A s \in Switches : config'.on[s] = IF Throwing(c) /\ s = c.switch THEN c.value ELSE config.on[s]
  <2>1. config.on \in [Switches -> BOOLEAN]
    BY FormsThere DEF ConfigRow
  <2> QED
    BY <1>4, <2>1
<1>p. /\ patches' \in Seq(PatchRow) /\ DOMAIN patches' = DOMAIN patches /\ patches'[i] = d
      /\ \A j \in DOMAIN patches : j # i => patches'[j] = patches[j]
      /\ CallsAlone' /\ \A b, s : Throws(b, s)' <=> Throws(b, s)
  BY <1>1, <1>2, <1>3, PatchMoves
<1>k. \A b : Kind(b)' = Kind(b)
  BY KindStays
<1>7. desk' \in [Admins -> PageRow]
  <2>1. desk' = [x \in Admins |-> desk'[x]]
    BY <1>2 DEF Overtaken
  <2>2. \A b \in Admins : desk'[b] \in PageRow
    BY <1>2, OvertakenIs
  <2> QED
    BY <2>1, <2>2
<1>8. FormKinds'
  BY <1>2, <1>4, <1>7, <1>p, FormsThere DEF FormKinds
<1>9. ASSUME NEW j \in DOMAIN patches PROVE CallTrue(patches[j])'
  <2>1. PICK e \in PatchRow : e = patches'[j]
    BY <1>7, <1>p, <1>3, PatchThere
  <2>2. PICK f \in PatchRow : f = patches[j] /\ CallTrue(f) /\ f.by \in Admins
    BY PatchThere
  <2>3. /\ e.by = f.by /\ e.op = f.op /\ e.switch = f.switch /\ e.value = f.value /\ e.options = f.options /\ e.locked = f.locked /\ e.gone = f.gone
        /\ (j # i => e = f) /\ (j = i => f = c)
    BY <1>1, <1>3, <1>p, <2>1, <2>2
  <2>4. (Loading(e)' <=> Loading(f)) /\ (Throwing(e)' <=> Throwing(f)) /\ (Saving(e)' <=> Saving(f))
    BY <1>k, <2>3 DEF Loading, Throwing, Saving
  <2>5. PICK p \in PageRow, q \in PageRow : p = desk[f.by] /\ q = desk'[f.by]
    BY <1>7, <2>2, FormsThere
  <2>6. /\ q.loaded = p.loaded /\ q.toggling = p.toggling /\ q.busy = p.busy /\ q.options = p.options /\ q.gone = p.gone
        /\ q.shown = p.shown /\ p.odd \subseteq q.odd
        /\ Throwing(c) /\ (f.by # c.by \/ (j # i /\ f.switch = c.switch)) => c.switch \in q.odd
    BY <1>1, <1>2, <2>2, <2>5, OvertakenIs
  <2>7. Belongs(e)'
    BY <1>k, <2>2, <2>3, <2>4, <2>5, <2>6 DEF CallTrue, Belongs
  <2>8. Accounts(e)'
    BY <2>2, <2>3, <2>4, <2>5, <2>6 DEF CallTrue, Accounts
  <2>9. Speaks(e)'
    <3>1. ASSUME Loading(f), e.step = "answered", NEW s \in Switches PROVE e.shown[s] = config'.on[s] \/ s \in q.odd
      <4>1. j # i
        BY <1>2, <2>3, <3>1 DEF Loading
      <4>2. f.by # c.by
        BY <1>1, <2>2, <3>1, <4>1, FormsThere DEF CallsAlone, Alone
      <4>3. f.shown[s] = config.on[s] \/ s \in p.odd
        BY <2>2, <2>3, <2>5, <3>1, <4>1 DEF CallTrue, Speaks
      <4> QED
        BY <1>6, <2>3, <2>6, <4>1, <4>2, <4>3
    <3>2. ASSUME Throwing(f), e.step = "answered" PROVE e.value = config'.on[e.switch] \/ e.switch \in q.odd
      <4>0. f.switch \in Switches
        BY <2>2, <3>2 DEF CallTrue, Belongs
      <4>1. CASE j = i
        BY <1>6, <2>3, <3>2, <4>0, <4>1
      <4>2. CASE j # i
        <5>1. f.value = config.on[f.switch] \/ f.switch \in p.odd
          BY <2>2, <2>3, <2>5, <3>2, <4>2 DEF CallTrue, Speaks
        <5> QED
          BY <1>6, <2>3, <2>6, <4>0, <4>2, <5>1
      <4> QED
        BY <4>1, <4>2
    <3>3. Throwing(f) /\ Kind(f.by) = "general" => e.value = q.shown[e.switch] \/ e.switch \in q.odd
      BY <2>2, <2>3, <2>5, <2>6 DEF CallTrue, Speaks
    <3> QED
      BY <1>k, <2>3, <2>4, <2>5, <3>1, <3>2, <3>3 DEF Speaks
  <2> QED
    BY <2>1, <2>7, <2>8, <2>9 DEF CallTrue
<1>10. ASSUME NEW b \in Admins PROVE PageTrue(b)'
  <2>1. PICK p \in PageRow, q \in PageRow : p = desk[b] /\ q = desk'[b]
    BY <1>7, FormsThere
  <2>2. /\ q.loaded = p.loaded /\ q.options = p.options /\ q.gone = p.gone /\ q.locked = p.locked /\ q.asking = p.asking
        /\ q.shown = p.shown /\ p.odd \subseteq q.odd /\ (Throwing(c) /\ b # c.by => c.switch \in q.odd)
    BY <1>1, <1>2, <2>1, OvertakenIs
  <2>3. PageTrue(b)
    BY FormsThere
  <2>4. Throwing(c) => Throws(c.by, c.switch)
    BY <1>1 DEF Throws
  <2>5. ASSUME q.loaded, Kind(b) # "branding", NEW s \in Switches PROVE q.shown[s] = config'.on[s] \/ s \in q.odd \/ Throws(b, s)
    <3>1. p.shown[s] = config.on[s] \/ s \in p.odd \/ Throws(b, s)
      BY <2>1, <2>2, <2>3, <2>5 DEF PageTrue
    <3>2. CASE Throwing(c) /\ s = c.switch
      BY <2>2, <2>4, <3>2
    <3>3. CASE ~(Throwing(c) /\ s = c.switch)
      BY <1>6, <2>2, <3>1, <3>3
    <3> QED
      BY <3>2, <3>3
  <2> QED
    BY <1>k, <1>p, <2>1, <2>2, <2>3, <2>5 DEF PageTrue
<1>11. (\A j \in DOMAIN config.options : Full(config.options[j]))'
  BY <1>4 DEF Full
<1> QED
  BY <1>8, <1>9, <1>10, <1>11, <1>p DEF FormsInv


-----------------------------------------------------------------------------
\* What a page does with an answer.
LEMMA OthersOf ==
  ASSUME FormsInv, NEW i \in DOMAIN patches, NEW j \in DOMAIN patches, j # i, patches[j].by = patches[i].by
  PROVE  /\ CallTrue(patches[j]) /\ ~Loading(patches[i])
         /\ ~(Throwing(patches[i]) /\ Throwing(patches[j]) /\ Kind(patches[i].by) = "general")
         /\ ~(Saving(patches[i]) /\ Saving(patches[j]))
BY PatchThere, FormsThere DEF CallsAlone, Alone

LEMMA KindIs ==
  ASSUME NEW a PROVE Kind(a) \in {"general", "sso", "branding"}
BY DEF Kind

\* What is taken from it by a call that is not a request: no switch but that call's is less true than before.
CallEnded(c, p, row) ==
  /\ row.loaded = p.loaded /\ row.asking = p.asking /\ row.options = p.options /\ row.gone = p.gone /\ p.odd \subseteq row.odd
  /\ Kind(c.by) = "general" => row.shown = p.shown /\ (Throwing(c) \/ row.toggling = p.toggling)
  /\ Saving(c) \/ Kind(c.by) # "branding" \/ row.busy = p.busy
  /\ Kind(c.by) = "branding" => \A k \in row.locked : k \in row.gone \/ Has(row.options, k)
  /\ row.loaded /\ Kind(c.by) # "branding" =>
       \A s \in Switches : row.shown[s] = config.on[s] \/ s \in row.odd \/ (Throws(c.by, s) /\ ~(Throwing(c) /\ c.switch = s))

LEMMA CallEnds ==
  ASSUME FormsInv, NEW i \in DOMAIN patches, NEW c, c = patches[i], NEW p, p = desk[c.by],
         NEW row \in PageRow, Over(i, c.by, row), CallEnded(c, p, row)
  PROVE  FormsInv'
<1>1. PICK a \in Admins : a = c.by /\ PageTrue(a)
  BY PatchThere, FormsThere
<1>2. ASSUME NEW j \in DOMAIN patches, j # i, patches[j].by = a PROVE Suits(patches[j], row)
  <2>1. CallTrue(patches[j]) /\ ~(Throwing(c) /\ Throwing(patches[j]) /\ Kind(a) = "general") /\ ~(Saving(c) /\ Saving(patches[j]))
    BY <1>1, <1>2, OthersOf
  <2>2. Loading(patches[j]) => ~row.loaded
    BY <1>1, <1>2, <2>1 DEF CallTrue, Belongs, CallEnded
  <2>3. Throwing(patches[j]) /\ Kind(a) = "general" => row.toggling /\ row.shown = p.shown
    BY <1>1, <1>2, <2>1 DEF CallTrue, Belongs, CallEnded
  <2>4. Saving(patches[j]) => row.busy
    BY <1>1, <1>2, <2>1 DEF CallTrue, Belongs, CallEnded
  <2> QED
    BY <1>1, <1>2, <2>2, <2>3, <2>4 DEF Suits, CallEnded
<1>3. Settles(i, a, row)
  BY <1>1, <1>2 DEF PageTrue, Settles, CallEnded
<1>4. Over(i, a, row)
  BY <1>1
<1> QED
  BY <1>3, <1>4, EndKeepsForms

\* The row a page has when the settings arrive, or the request for them fails.
LoadEnded(c, p, row) ==
  /\ row.asking = p.asking /\ row.busy = p.busy /\ p.odd \subseteq row.odd /\ (Kind(c.by) = "general" => row.loaded)
  /\ Kind(c.by) = "branding" /\ p.busy => p.gone \subseteq row.gone /\ \A k \in Labels : Has(p.options, k) => k \in row.gone \/ Has(row.options, k)
  /\ Kind(c.by) = "branding" => \A k \in row.locked : k \in row.gone \/ Has(row.options, k)
  /\ row.loaded /\ Kind(c.by) # "branding" => \A s \in Switches : row.shown[s] = config.on[s] \/ s \in row.odd

LEMMA LoadEnds ==
  ASSUME FormsInv, NEW i \in DOMAIN patches, NEW c, c = patches[i], c.op = "load", NEW p, p = desk[c.by],
         NEW row \in PageRow, Over(i, c.by, row), LoadEnded(c, p, row)
  PROVE  FormsInv'
<1>1. PICK a \in Admins : a = c.by /\ PageTrue(a)
  BY PatchThere, FormsThere
<1>2. ASSUME NEW j \in DOMAIN patches, j # i, patches[j].by = a PROVE Suits(patches[j], row)
  <2>1. CallTrue(patches[j]) /\ ~Loading(c)
    BY <1>1, <1>2, OthersOf
  <2>2. Kind(a) = "branding"
    BY <1>1, <2>1 DEF Loading
  <2>3. ~Loading(patches[j]) /\ ~Throwing(patches[j]) /\ (Saving(patches[j]) => p.busy)
    BY <1>1, <1>2, <2>1, <2>2 DEF CallTrue, Belongs, Loading
  <2> QED
    BY <1>1, <1>2, <2>2, <2>3 DEF Suits, LoadEnded
<1>3. Settles(i, a, row)
  BY <1>1, <1>2 DEF PageTrue, Settles, LoadEnded
<1>4. Over(i, a, row)
  BY <1>1
<1> QED
  BY <1>3, <1>4, EndKeepsForms

LEMMA AnswerKeepsForms ==
  ASSUME FormsInv, NEW i \in DOMAIN patches, AnswerSettings(i), UNCHANGED story
  PROVE  FormsInv'
<1>1. PICK c \in PatchRow : c = patches[i] /\ CallTrue(c) /\ c.by \in Admins
  BY PatchThere
<1>2. PICK p \in PageRow : p = desk[c.by]
  BY <1>1, FormsThere
<1>3. /\ c.step = "answered" /\ c.op # "logo" /\ patches' = RemoveAt(patches, i) /\ UNCHANGED <<config, saves, edits>>
      /\ desk' = [desk EXCEPT ![c.by] = CASE c.op = "load"   -> Loaded(p, c)
                                          [] c.op = "brand"  -> Branded(p, c)
                                          [] c.op = "switch" -> Thrown(c.by, p, c)
                                          [] OTHER           -> [p EXCEPT !.busy = FALSE]]
  BY <1>1, <1>2 DEF AnswerSettings, Shows
<1>4. PageTrue(c.by)
  BY <1>1, FormsThere
<1>5. /\ Kind(c.by) = "branding" => \A k \in p.locked : k \in p.gone \/ Has(p.options, k)
      /\ p.loaded /\ Kind(c.by) # "branding" => \A s \in Switches : p.shown[s] = config.on[s] \/ s \in p.odd \/ Throws(c.by, s)
  BY <1>2, <1>4 DEF PageTrue
<1>6. CASE c.op = "load"
  <2> DEFINE g == IF p.busy THEN p.gone \union Keys(p.options) ELSE {}
             l == Keys(c.options)
             row == [p EXCEPT !.loaded = TRUE, !.options = c.options, !.locked = l, !.gone = g, !.name = c.name,
                              !.logo = c.logo, !.colour = c.colour, !.shown = c.shown]
  <2>1. Over(i, c.by, row)
    BY <1>1, <1>3, <1>6 DEF Loaded, Over
  <2>2. p.options \in Seq(OptRow) /\ p.gone \in SUBSET Labels
    BY DEF PageRow
  <2>3. c.options \in Seq(OptRow) /\ c.name \in Named /\ c.logo \in Named /\ c.colour \in Colours /\ c.shown \in [Switches -> BOOLEAN]
    BY DEF PatchRow
  <2>4. g \in SUBSET Labels /\ l \in SUBSET Labels /\ (p.busy => p.gone \subseteq g /\ \A k : Has(p.options, k) => k \in g)
        /\ \A k \in l : Has(c.options, k)
    BY <2>2, <2>3, KeysAreLabels
  <2> HIDE DEF g, l
  <2>5. /\ row \in PageRow /\ row.asking = p.asking /\ row.busy = p.busy /\ row.odd = p.odd /\ row.loaded /\ row.gone = g /\ row.options = c.options
        /\ row.locked = l /\ row.shown = c.shown
    BY <2>3, <2>4 DEF PageRow
  <2> HIDE DEF row
  <2>6. Kind(c.by) # "branding" => \A s \in Switches : row.shown[s] = config.on[s] \/ s \in row.odd
    BY <1>1, <1>2, <1>3, <1>6, <2>5 DEF CallTrue, Speaks, Loading
  <2>e. LoadEnded(c, p, row)
    BY <1>1, <1>2, <1>3, <1>6, <2>1, <2>4, <2>5, <2>6 DEF LoadEnded
  <2> QED
    BY <1>1, <1>2, <1>3, <1>6, <2>1, <2>4, <2>5, <2>6, <2>e, LoadEnds
<1>7. CASE c.op = "brand"
  <2> DEFINE l == Keys(c.options)
             row == [p EXCEPT !.locked = l, !.busy = FALSE]
  <2>1. Over(i, c.by, row)
    BY <1>1, <1>3, <1>7 DEF Branded, Over
  <2>2. c.options \in Seq(OptRow)
    BY DEF PatchRow
  <2>3. l \in SUBSET Labels /\ \A k \in l : Has(c.options, k)
    BY <2>2, KeysAreLabels
  <2> HIDE DEF l
  <2>4. /\ row \in PageRow /\ row.loaded = p.loaded /\ row.asking = p.asking /\ row.options = p.options /\ row.gone = p.gone
        /\ row.odd = p.odd /\ row.shown = p.shown /\ row.toggling = p.toggling /\ row.locked = l
    BY <2>3 DEF PageRow
  <2> HIDE DEF row
  <2>5. Saving(c) /\ ~Throwing(c) /\ Kind(c.by) = "branding"
    BY <1>1, <1>7 DEF CallTrue, Belongs, Saving, Throwing
  <2>6. \A k \in row.locked : k \in row.gone \/ Has(row.options, k)
    BY <1>1, <1>2, <2>3, <2>4, <2>5 DEF CallTrue, Accounts
  <2>e. CallEnded(c, p, row)
    BY <1>1, <1>2, <1>3, <2>1, <2>4, <2>5, <2>6 DEF CallEnded
  <2> QED
    BY <1>1, <1>2, <1>3, <2>1, <2>4, <2>5, <2>6, <2>e, CallEnds
<1>8. CASE c.op = "switch"
  <2>0. Throwing(c) /\ c.switch \in Switches /\ Kind(c.by) # "branding" /\ (c.value = config.on[c.switch] \/ c.switch \in p.odd)
    BY <1>1, <1>2, <1>3, <1>8 DEF CallTrue, Belongs, Speaks, Throwing
  <2>1. CASE Kind(c.by) = "general"
    <3> DEFINE row == [p EXCEPT !.toggling = FALSE]
    <3>1. Over(i, c.by, row)
      BY <1>1, <1>3, <1>8, <2>1 DEF Thrown, Over
    <3>2. /\ row \in PageRow /\ row.loaded = p.loaded /\ row.asking = p.asking /\ row.options = p.options /\ row.gone = p.gone
          /\ row.odd = p.odd /\ row.shown = p.shown /\ row.busy = p.busy
      BY DEF PageRow
    <3> HIDE DEF row
    <3>3. c.value = p.shown[c.switch] \/ c.switch \in p.odd
      BY <1>1, <1>2, <2>0, <2>1 DEF CallTrue, Speaks
    <3>4. row.loaded => \A s \in Switches : row.shown[s] = config.on[s] \/ s \in row.odd \/ (Throws(c.by, s) /\ ~(Throwing(c) /\ c.switch = s))
      BY <1>5, <2>0, <3>2, <3>3
    <3>e. CallEnded(c, p, row)
      BY <1>1, <1>2, <1>3, <2>0, <2>1, <3>1, <3>2, <3>4 DEF CallEnded
    <3> QED
      BY <1>1, <1>2, <1>3, <2>0, <2>1, <3>1, <3>2, <3>4, <3>e, CallEnds
  <2>2. CASE Kind(c.by) # "general"
    <3> DEFINE now == [c.shown EXCEPT ![c.switch] = c.value]
               o == p.odd \union (Lies(p, now) \ {c.switch})
               row == [p EXCEPT !.shown = now, !.odd = o]
    <3>1. Over(i, c.by, row)
      BY <1>1, <1>3, <1>8, <2>2 DEF Thrown, ShowsSaved, Over
    <3>2. c.shown \in [Switches -> BOOLEAN] /\ c.value \in BOOLEAN
      BY DEF PatchRow
    <3>3. now \in [Switches -> BOOLEAN] /\ now[c.switch] = c.value
      BY <2>0, <3>2
    <3>4. o \in SUBSET Switches /\ p.odd \subseteq o /\ \A s \in Switches : s # c.switch => now[s] = p.shown[s] \/ s \in o
      BY DEF PageRow, Lies
    <3> HIDE DEF now, o
    <3>5. /\ row \in PageRow /\ row.loaded = p.loaded /\ row.asking = p.asking /\ row.options = p.options /\ row.gone = p.gone
          /\ row.odd = o /\ row.shown = now /\ row.busy = p.busy
      BY <3>3, <3>4 DEF PageRow
    <3> HIDE DEF row
    <3>6. ASSUME row.loaded, NEW s \in Switches
          PROVE  row.shown[s] = config.on[s] \/ s \in row.odd \/ (Throws(c.by, s) /\ ~(Throwing(c) /\ c.switch = s))
      <4>1. CASE s = c.switch
        BY <2>0, <3>3, <3>4, <3>5, <4>1
      <4>2. CASE s # c.switch
        <5>1. p.shown[s] = config.on[s] \/ s \in p.odd \/ Throws(c.by, s)
          BY <1>5, <2>0, <3>5, <3>6
        <5> QED
          BY <3>4, <3>5, <4>2, <5>1
      <4> QED
        BY <4>1, <4>2
    <3>e. CallEnded(c, p, row)
      BY <1>1, <1>2, <1>3, <2>0, <2>2, <3>1, <3>4, <3>5, <3>6 DEF CallEnded
    <3> QED
      BY <1>1, <1>2, <1>3, <2>0, <2>2, <3>1, <3>4, <3>5, <3>6, <3>e, CallEnds
  <2> QED
    BY <2>1, <2>2
<1>9. CASE c.op = "identity"
  <2> DEFINE row == [p EXCEPT !.busy = FALSE]
  <2>1. Over(i, c.by, row)
    BY <1>1, <1>3, <1>9 DEF Over
  <2>2. /\ row \in PageRow /\ row.loaded = p.loaded /\ row.asking = p.asking /\ row.options = p.options /\ row.gone = p.gone
        /\ row.odd = p.odd /\ row.shown = p.shown /\ row.toggling = p.toggling /\ row.locked = p.locked
    BY DEF PageRow
  <2> HIDE DEF row
  <2>3. ~Throwing(c) /\ Kind(c.by) = "general"
    BY <1>1, <1>9 DEF CallTrue, Belongs, Throwing
  <2>e. CallEnded(c, p, row)
    BY <1>1, <1>2, <1>3, <1>5, <2>1, <2>2, <2>3 DEF CallEnded
  <2> QED
    BY <1>1, <1>2, <1>3, <1>5, <2>1, <2>2, <2>3, <2>e, CallEnds
<1> QED
  BY <1>3, <1>6, <1>7, <1>8, <1>9 DEF PatchRow

LEMMA FailKeepsForms ==
  ASSUME FormsInv, NEW i \in DOMAIN patches, FailSettings(i), UNCHANGED story
  PROVE  FormsInv'
<1>1. PICK c \in PatchRow : c = patches[i] /\ CallTrue(c) /\ c.by \in Admins
  BY PatchThere
<1>2. PICK p \in PageRow : p = desk[c.by]
  BY <1>1, FormsThere
<1> DEFINE cleared == [p EXCEPT !.shown["secret"] = @ /\ (c.switch = "secret" => c.value), !.odd = @ \union {c.switch}]
<1>3. /\ c.step = "refused" /\ patches' = RemoveAt(patches, i) /\ UNCHANGED <<config, saves, edits>>
      /\ desk' = [desk EXCEPT ![c.by] =
                   CASE c.op = "load" -> IF Kind(c.by) = "general" THEN [p EXCEPT !.loaded = TRUE, !.odd = Switches] ELSE p
                     [] c.op = "switch" /\ Kind(c.by) = "sso" -> cleared
                     [] c.op = "switch" /\ Kind(c.by) # "sso" -> [p EXCEPT !.toggling = FALSE, !.odd = @ \union {c.switch}]
                     [] OTHER -> [p EXCEPT !.busy = FALSE]]
  BY <1>1, <1>2 DEF FailSettings, Shows
<1> HIDE DEF cleared
<1>4. PageTrue(c.by) /\ Kind(c.by) \in {"general", "sso", "branding"}
  BY <1>1, FormsThere, KindIs
<1>5. /\ Kind(c.by) = "branding" => \A k \in p.locked : k \in p.gone \/ Has(p.options, k)
      /\ p.loaded /\ Kind(c.by) # "branding" => \A s \in Switches : p.shown[s] = config.on[s] \/ s \in p.odd \/ Throws(c.by, s)
  BY <1>2, <1>4 DEF PageTrue
<1>6. CASE c.op = "load" /\ Kind(c.by) = "general"
  <2> DEFINE row == [p EXCEPT !.loaded = TRUE, !.odd = Switches]
  <2>1. Over(i, c.by, row)
    BY <1>1, <1>3, <1>6 DEF Over
  <2>2. row \in PageRow /\ row.asking = p.asking /\ row.busy = p.busy /\ row.odd = Switches /\ row.loaded /\ p.odd \subseteq Switches
    BY DEF PageRow
  <2> HIDE DEF row
  <2>e. LoadEnded(c, p, row)
    BY <1>1, <1>2, <1>3, <1>6, <2>1, <2>2 DEF LoadEnded
  <2> QED
    BY <1>1, <1>2, <1>3, <1>6, <2>1, <2>2, <2>e, LoadEnds
<1>7. CASE c.op = "load" /\ Kind(c.by) # "general"
  <2>1. Over(i, c.by, p)
    BY <1>1, <1>3, <1>7 DEF Over
  <2>2. ~Throwing(c)
    BY <1>7 DEF Throwing
  <2>e. CallEnded(c, p, p)
    BY <1>1, <1>2, <1>3, <1>5, <1>7, <2>1, <2>2 DEF CallEnded
  <2> QED
    BY <1>1, <1>2, <1>3, <1>5, <1>7, <2>1, <2>2, <2>e, CallEnds
<1>8. CASE c.op = "switch"
  <2>0. Throwing(c) /\ c.switch \in Switches /\ Kind(c.by) # "branding"
    BY <1>1, <1>8 DEF CallTrue, Belongs, Throwing
  <2> DEFINE o == p.odd \union {c.switch}
  <2>o. o \in SUBSET Switches /\ p.odd \subseteq o /\ c.switch \in o
    BY <2>0 DEF PageRow
  <2>1. CASE Kind(c.by) = "sso"
    <3> DEFINE v == p.shown["secret"] /\ (c.switch = "secret" => c.value)
               now == [p.shown EXCEPT !["secret"] = v]
               row == [p EXCEPT !.shown = now, !.odd = o]
    <3>0. desk' = [desk EXCEPT ![c.by] = cleared]
      BY <1>3, <1>8, <2>1
    <3>1. Over(i, c.by, row)
      <4>1. cleared = row
        BY DEF cleared
      <4> QED
        BY <1>1, <1>3, <3>0, <4>1 DEF Over
    <3>2. p.shown \in [Switches -> BOOLEAN] /\ v \in BOOLEAN /\ "secret" \in Switches
      BY DEF PageRow, Switches
    <3>3. p.shown["secret"] \in BOOLEAN
      BY <3>2
    <3>4. c.switch # "secret" => v = p.shown["secret"]
      BY <3>3
    <3> HIDE DEF v
    <3>5. now \in [Switches -> BOOLEAN] /\ \A s \in Switches : s # c.switch => now[s] = p.shown[s]
      BY <3>2, <3>4
    <3> HIDE DEF now, o
    <3>6. /\ row \in PageRow /\ row.loaded = p.loaded /\ row.asking = p.asking /\ row.options = p.options /\ row.gone = p.gone
          /\ row.odd = o /\ row.shown = now /\ row.busy = p.busy
      BY <2>o, <3>5 DEF PageRow
    <3> HIDE DEF row
    <3>7. row.loaded => \A s \in Switches : row.shown[s] = config.on[s] \/ s \in row.odd \/ (Throws(c.by, s) /\ ~(Throwing(c) /\ c.switch = s))
      BY <1>5, <2>0, <2>o, <3>5, <3>6
    <3>e. CallEnded(c, p, row)
      BY <1>1, <1>2, <1>3, <2>0, <2>o, <2>1, <3>1, <3>6, <3>7 DEF CallEnded
    <3> QED
      BY <1>1, <1>2, <1>3, <2>0, <2>o, <2>1, <3>1, <3>6, <3>7, <3>e, CallEnds
  <2>2. CASE Kind(c.by) = "general"
    <3> DEFINE row == [p EXCEPT !.toggling = FALSE, !.odd = o]
    <3>1. Over(i, c.by, row)
      BY <1>1, <1>3, <1>8, <2>2 DEF Over
    <3> HIDE DEF o
    <3>2. /\ row \in PageRow /\ row.loaded = p.loaded /\ row.asking = p.asking /\ row.options = p.options /\ row.gone = p.gone
          /\ row.odd = o /\ row.shown = p.shown /\ row.busy = p.busy
      BY <2>o DEF PageRow
    <3> HIDE DEF row
    <3>3. row.loaded => \A s \in Switches : row.shown[s] = config.on[s] \/ s \in row.odd \/ (Throws(c.by, s) /\ ~(Throwing(c) /\ c.switch = s))
      BY <1>5, <2>0, <2>o, <3>2
    <3>e. CallEnded(c, p, row)
      BY <1>1, <1>2, <1>3, <2>0, <2>o, <2>2, <3>1, <3>2, <3>3 DEF CallEnded
    <3> QED
      BY <1>1, <1>2, <1>3, <2>0, <2>o, <2>2, <3>1, <3>2, <3>3, <3>e, CallEnds
  <2> QED
    BY <1>4, <2>0, <2>1, <2>2
<1>9. CASE c.op \in {"brand", "logo", "identity"}
  <2> DEFINE row == [p EXCEPT !.busy = FALSE]
  <2>1. Over(i, c.by, row)
    BY <1>1, <1>3, <1>9 DEF Over
  <2>2. /\ row \in PageRow /\ row.loaded = p.loaded /\ row.asking = p.asking /\ row.options = p.options /\ row.gone = p.gone
        /\ row.odd = p.odd /\ row.shown = p.shown /\ row.toggling = p.toggling /\ row.locked = p.locked
    BY DEF PageRow
  <2> HIDE DEF row
  <2>3. ~Throwing(c) /\ (Saving(c) \/ Kind(c.by) = "general")
    BY <1>1, <1>9 DEF CallTrue, Belongs, Throwing, Saving
  <2>e. CallEnded(c, p, row)
    BY <1>1, <1>2, <1>3, <1>5, <2>1, <2>2, <2>3 DEF CallEnded
  <2> QED
    BY <1>1, <1>2, <1>3, <1>5, <2>1, <2>2, <2>3, <2>e, CallEnds
<1> QED
  BY <1>6, <1>7, <1>8, <1>9 DEF PatchRow


-----------------------------------------------------------------------------
LEMMA FormsStep ==
  ASSUME FormsInv, FormsNext \/ UNCHANGED formsVars, UNCHANGED story
  PROVE  FormsInv'
<1>1. ASSUME NEW a \in Admins, OpenSettings(a) \/ AddOption(a) \/ ConfirmDelete(a) \/ TypeName(a) \/ PickLogo(a) \/ ApplyColour(a) \/ SaveBranding(a)
                               \/ SaveIdentity(a) \/ ThrowFlag(a) \/ AskMaintenance(a) \/ ConfirmMaintenance(a) \/ PressHandoff(a)
      PROVE  FormsInv'
  BY <1>1, OpenKeepsForms, AddKeepsForms, ConfirmKeepsForms, TypingKeepsForms, BrandKeepsForms, IdentityKeepsForms, ThrowKeepsForms,
     AskKeepsForms, MaintenanceKeepsForms, HandoffKeepsForms
<1>2. ASSUME NEW a \in Admins, NEW n \in DOMAIN desk[a].options, TypeLabel(a, n) \/ PressDelete(a, n) PROVE FormsInv'
  BY <1>2, LabelKeepsForms, PressKeepsForms
<1>3. ASSUME NEW i \in DOMAIN patches, ReadConfig(i) \/ WriteConfig(i) \/ RefuseConfig(i) \/ AfterLogo(i) \/ AnswerSettings(i) \/ FailSettings(i)
      PROVE  FormsInv'
  BY <1>3, ReadKeepsForms, WriteKeepsForms, RefuseKeepsForms, LogoKeepsForms, AnswerKeepsForms, FailKeepsForms
<1>4. CASE UNCHANGED formsVars
  <2>1. UNCHANGED <<config, desk, patches, saves, edits>>
    BY <1>4 DEF formsVars
  <2>k. \A b : Kind(b)' = Kind(b)
    BY KindStays
  <2>2. FormKinds' /\ CallsAlone' /\ (\A j \in DOMAIN config.options : Full(config.options[j]))'
    BY <2>1, <2>k, FormsThere DEF FormKinds, CallsAlone, Alone, Loading, Throwing, Saving, Full
  <2>3. ASSUME NEW j \in DOMAIN patches PROVE CallTrue(patches[j])'
    <3>1. PICK c \in PatchRow : c = patches[j] /\ CallTrue(c) /\ c.by \in Admins
      BY PatchThere
    <3>2. desk[c.by] \in PageRow /\ Suits(c, desk[c.by]) /\ desk'[c.by] = desk[c.by]
      BY <2>1, <3>1, FormsThere DEF CallTrue, Belongs, Suits
    <3> QED
      BY <2>1, <3>1, <3>2, CallKept
  <2>4. ASSUME NEW b \in Admins PROVE PageTrue(b)'
    <3>1. PageTrue(b) /\ \A s : Throws(b, s)' <=> Throws(b, s)
      BY <2>1, FormsThere DEF Throws, Throwing
    <3> QED
      BY <2>1, <2>k, <3>1 DEF PageTrue
  <2> QED
    BY <2>1, <2>2, <2>3, <2>4 DEF FormsInv
<1> QED
  BY <1>1, <1>2, <1>3, <1>4 DEF FormsNext

LEMMA FormsStart == FormsInit => FormsInv
<1> SUFFICES ASSUME FormsInit PROVE FormsInv
  OBVIOUS
<1> DEFINE o == <<Option("bug", "bug")>>
           dark == [s \in Switches |-> FALSE]
<1>1. config = [options |-> o, name |-> "ours", logo |-> "ours", colour |-> Plain, on |-> dark]
      /\ desk = [a \in Admins |-> Page] /\ patches = [i \in 1..0 |-> {}] /\ saves = 0 /\ edits = 0
  BY DEF FormsInit
<1>2. o \in Seq(OptRow) /\ \A j \in DOMAIN o : Full(o[j])
  <2>1. Option("bug", "bug") \in OptRow /\ Full(Option("bug", "bug"))
    BY FormsAssumption DEF Option, OptRow, Full
  <2> HIDE DEF Option
  <2>2. o \in Seq(OptRow) /\ DOMAIN o = 1..1 /\ o[1] = Option("bug", "bug")
    BY <2>1
  <2> QED
    BY <2>1, <2>2
<1>3. dark \in [Switches -> BOOLEAN] /\ "ours" \in Named /\ Plain \in {c \in Colours : IsHex(c)}
  BY DEF Named, Colours, IsHex, Plain
<1> HIDE DEF o, dark
<1>4. config \in ConfigRow /\ config.options = o
  BY <1>1, <1>2, <1>3 DEF ConfigRow
<1>5. patches \in Seq(PatchRow) /\ DOMAIN patches = {}
  <2>1. patches = <<>>
    BY <1>1
  <2> QED
    BY <2>1
<1>6. desk \in [Admins -> PageRow] /\ \A a \in Admins : desk[a] = Page
  BY <1>1, PageKinds
<1>7. FormKinds
  <2>1. MaxSaves \in Nat /\ MaxEdits \in Nat
    BY FormsAssumption
  <2>2. saves \in Nat /\ saves <= MaxSaves /\ edits \in Nat /\ edits <= MaxEdits
    BY <1>1, <2>1
  <2> QED
    BY <1>4, <1>5, <1>6, <2>2 DEF FormKinds
<1>8. \A a \in Admins : PageTrue(a)
  BY <1>6, PageKinds DEF PageTrue
<1> QED
  BY <1>2, <1>4, <1>5, <1>7, <1>8 DEF FormsInv, CallsAlone


\* Once no call of an admin is on its way, the switches and the secret's mark of his page are
\* what the settings hold, or have one of the reasons the property names: config.service.ts
\* and the pages' patchFlag, handleToggle and secret presses.  For every number of admins, of
\* changes and of options.
THEOREM SwitchesAreShown == AdminSpec => []SwitchesAreHonest
<1>1. AdminInit => FormsInv
  BY FormsStart DEF AdminInit
<1>2. FormsInv /\ [AdminNext]_adminVars => FormsInv'
  BY FormsStep DEF AdminNext, adminVars
<1>3. FormsInv => SwitchesAreHonest
  <2> SUFFICES ASSUME FormsInv, NEW a \in Admins, desk[a].loaded, Kind(a) # "branding", ~Busy(a), NEW s \in Switches
               PROVE  desk[a].shown[s] = config.on[s] \/ s \in desk[a].odd
    BY DEF SwitchesAreHonest
  <2>1. ~Throws(a, s)
    BY DEF Busy, Throws
  <2> QED
    BY <2>1, FormsThere DEF PageTrue
<1> QED
  BY <1>1, <1>2, <1>3, PTL DEF AdminSpec

\* Only the form of the branding, stored, changes the options.
LEMMA OptionsWritten ==
  ASSUME FormsInv, FormsNext, config'.options # config.options
  PROVE  \E i \in DOMAIN patches : WriteConfig(i) /\ patches[i].op = "brand"
<1>1. config' # config
  OBVIOUS
<1>2. ASSUME NEW a \in Admins PROVE /\ ~(OpenSettings(a) \/ AddOption(a) \/ ConfirmDelete(a) \/ TypeName(a) \/ PickLogo(a) \/ ApplyColour(a))
                                    /\ ~(SaveBranding(a) \/ SaveIdentity(a) \/ ThrowFlag(a) \/ AskMaintenance(a) \/ ConfirmMaintenance(a) \/ PressHandoff(a))
                                    /\ \A n : ~(TypeLabel(a, n) \/ PressDelete(a, n))
  BY <1>1 DEF OpenSettings, AddOption, ConfirmDelete, TypeName, PickLogo, ApplyColour, SaveBranding, SaveIdentity, ThrowFlag, AskMaintenance,
              ConfirmMaintenance, PressHandoff, TypeLabel, PressDelete
<1>3. \A i : ~(ReadConfig(i) \/ RefuseConfig(i) \/ AfterLogo(i) \/ AnswerSettings(i) \/ FailSettings(i))
  BY <1>1 DEF ReadConfig, RefuseConfig, AfterLogo, AnswerSettings, FailSettings
<1>4. PICK i \in DOMAIN patches : WriteConfig(i)
  BY <1>2, <1>3 DEF FormsNext
<1>5. PICK c \in PatchRow : c = patches[i] /\ CallTrue(c)
  BY PatchThere
<1>6. config'.options = IF c.op = "brand" THEN Kept(c.options) ELSE config.options
  BY <1>4, <1>5, WrittenIs DEF WriteConfig
<1> QED
  BY <1>4, <1>5, <1>6

\* A stored key that a save takes away was not seen as stored by the page that sent it, or was
\* given up on it: branding/page.tsx, updateAppConfig and slugify.  The options that are sent
\* are filtered by a recursive function, whose values KeptIs knows.
THEOREM KeysAreKept == AdminSpec => KeyLossHasCause
<1>1. AdminInit => FormsInv
  BY FormsStart DEF AdminInit
<1>2. FormsInv /\ [AdminNext]_adminVars => FormsInv'
  BY FormsStep DEF AdminNext, adminVars
<1> DEFINE A == \A k \in Keys(config.options) \ Keys(config'.options), i \in DOMAIN patches :
                  patches[i].step = "sent" /\ i \in DOMAIN patches' /\ patches'[i].step = "answered" => k \notin patches[i].locked \/ k \in patches[i].gone
<1>3. FormsInv /\ [AdminNext]_adminVars => [A]_formsVars
  <2> SUFFICES ASSUME FormsInv, [AdminNext]_adminVars, config'.options # config.options PROVE A
    BY DEF formsVars
  <2>1. FormsNext
    BY DEF AdminNext, adminVars, formsVars
  <2>2. PICK m \in DOMAIN patches : WriteConfig(m) /\ patches[m].op = "brand"
    BY <2>1, OptionsWritten
  <2>3. PICK c \in PatchRow : c = patches[m] /\ CallTrue(c)
    BY PatchThere
  <2> SUFFICES ASSUME NEW k \in Keys(config.options) \ Keys(config'.options), NEW i \in DOMAIN patches,
                      patches[i].step = "sent", i \in DOMAIN patches', patches'[i].step = "answered", k \in patches[i].locked, k \notin patches[i].gone
               PROVE  FALSE
    OBVIOUS
  <2>4. i = m
    <3>1. patches' = [patches EXCEPT ![m] = [c EXCEPT !.step = "answered"]]
      BY <2>2, <2>3 DEF WriteConfig
    <3>2. i # m => patches'[i] = patches[i]
      BY <3>1
    <3> QED
      BY <3>2
  <2>5. k # ""
    <3>1. PICK j \in DOMAIN config.options : k = config.options[j].key
      BY DEF Keys
    <3> QED
      BY <3>1, FormsThere DEF Full
  <2>6. HasFull(c.options, k)
    BY <2>2, <2>3, <2>4, <2>5 DEF CallTrue, Accounts, Saving
  <2>7. config'.options = Kept(c.options)
    BY <2>2, <2>3, WrittenIs DEF WriteConfig
  <2>8. c.options \in Seq(OptRow)
    BY DEF PatchRow
  <2>9. PICK j \in DOMAIN c.options : c.options[j].key = k /\ Full(c.options[j])
    BY <2>6 DEF HasFull
  <2>10. j \in 1..Len(c.options)
    BY <2>8
  <2>11. PICK n \in DOMAIN Kept(c.options) : Kept(c.options)[n] = c.options[j]
    BY <2>8, <2>9, <2>10, KeptIs DEF Holds
  <2> QED
    BY <2>7, <2>9, <2>11 DEF Keys
<1> QED
  BY <1>1, <1>2, <1>3, PTL DEF AdminSpec, KeyLossHasCause


-----------------------------------------------------------------------------
\* The kinds of all four, from their invariants.
LEMMA AccessTyped == AccessInv => AccessTypeOK
<1> SUFFICES ASSUME AccessInv PROVE AccessTypeOK
  OBVIOUS
<1> DEFINE Row1 == [exists : BOOLEAN, role : Roles, active : BOOLEAN, accepted : BOOLEAN, password : BOOLEAN, token : 0..MaxInvites]
<1>1. ASSUME NEW s \in Staff PROVE agent[s] \in Row1
  <2>1. agent[s] \in AgentRow /\ agent[s].token <= Len(links) /\ Len(links) \in Nat /\ Len(links) <= MaxInvites /\ MaxInvites \in Nat
    BY AccessThere, AccessAssumption
  <2>2. agent[s].token \in Nat
    BY <2>1 DEF AgentRow
  <2>3. agent[s].token \in 0..MaxInvites
    BY <2>1, <2>2
  <2> QED
    BY <2>1, <2>3 DEF AgentRow
<1>2. agent \in [Staff -> Row1]
  <2>1. agent \in [Staff -> AgentRow]
    BY AccessThere
  <2> HIDE DEF Row1
  <2> QED
    BY <1>1, <2>1
<1>3. \A n \in DOMAIN links : links[n] \in InviteRow
  BY InviteThere
<1>4. browser \in [Staff -> BrowserRow] /\ fallback \in Persons /\ barred \in [Staff -> BOOLEAN] /\ Len(calls) <= made
  BY AccessThere
<1>5. made \in 0..MaxCalls
  <2>1. made \in Nat /\ made <= MaxCalls /\ MaxCalls \in Nat
    BY AccessThere, AccessAssumption
  <2> QED
    BY <2>1
<1> QED
  BY <1>2, <1>3, <1>4, <1>5 DEF AccessTypeOK, InviteRow, BrowserRow, ListRows

LEMMA FormsTyped == FormsInv => FormsTypeOK
<1> SUFFICES ASSUME FormsInv PROVE FormsTypeOK
  OBVIOUS
<1>1. config \in ConfigRow /\ \A j \in DOMAIN config.options : Full(config.options[j])
  BY FormsThere
<1>2. config.on \in [Switches -> BOOLEAN] /\ config.name \in Named /\ config.logo \in Named /\ IsHex(config.colour) /\ config.options \in Seq(OptRow)
  BY <1>1 DEF ConfigRow
<1>3. Keys(config.options) \subseteq Labels \ {""}
  <2>1. Keys(config.options) \in SUBSET Labels
    BY <1>2, KeysAreLabels
  <2>2. "" \notin Keys(config.options)
    BY <1>1 DEF Keys, Full
  <2> QED
    BY <2>1, <2>2
<1>4. saves \in 0..MaxSaves /\ edits \in 0..MaxEdits
  <2>1. saves \in Nat /\ saves <= MaxSaves /\ edits \in Nat /\ edits <= MaxEdits
    BY FormsThere
  <2>2. MaxSaves \in Nat /\ MaxEdits \in Nat
    BY FormsAssumption
  <2> QED
    BY <2>1, <2>2
<1>5. ASSUME NEW a \in Admins
      PROVE  desk[a].shown \in [Switches -> BOOLEAN] /\ desk[a].asking \in {"none", "on", "off"} /\ desk[a].removing \in Nat
  <2>1. desk[a] \in PageRow
    BY FormsThere
  <2> QED
    BY <2>1 DEF PageRow
<1> QED
  BY <1>2, <1>3, <1>4, <1>5 DEF FormsTypeOK

LEMMA HubTyped == HubInv => HubTypeOK
<1> SUFFICES ASSUME HubInv PROVE HubTypeOK
  OBVIOUS
<1>1. /\ github \in [Issues -> Versions] /\ flag \in [Tix -> BOOLEAN] /\ rows \in [Tix -> IssueRow] /\ posts \subseteq Announcement
      /\ views \in [Agents -> ViewRow]
  BY HubThere
<1>2. ASSUME NEW p \in posts PROVE p.issue \in Issues /\ p.version \in Versions /\ p.step \in {"sent", "found"}
  <2>1. p \in Announcement
    BY <1>1
  <2> QED
    BY <2>1 DEF Announcement
<1>3. ASSUME NEW a \in Agents
      PROVE  views[a].ticket \in Tix \union {"none"} /\ views[a].version \in Versions /\ views[a].state \in {"idle", "handoff", "waiting", "error"}
  <2>1. views[a] \in ViewRow
    BY <1>1
  <2> QED
    BY <2>1 DEF ViewRow
<1> QED
  BY <1>1, <1>2, <1>3 DEF HubTypeOK, IssueRow

LEMMA MailboxTyped == MailInv => MailboxTypeOK
<1> SUFFICES ASSUME MailInv PROVE MailboxTypeOK
  OBVIOUS
<1>1. account \in AccountRow /\ tokens \in [Readers -> TokenRow] /\ tabs \in [Tabs -> TabRow] /\ asks \subseteq AskRow
  BY MailThere
<1>2. account.access \in AnyBox /\ account.refresh \in AnyBox /\ account.due \in BOOLEAN
  BY <1>1 DEF AccountRow
<1>3. ASSUME NEW r \in Readers PROVE tokens[r].step \in {"idle", "read", "waits"}
  <2>1. tokens[r] \in TokenRow
    BY <1>1
  <2> QED
    BY <2>1 DEF TokenRow
<1>4. ASSUME NEW t \in Tabs PROVE tabs[t].cfg \in {"unknown", "yes", "no"} /\ tabs[t].kept \in {"none", "yes", "no"} /\ tabs[t].shown \in BOOLEAN
  <2>1. tabs[t] \in TabRow
    BY <1>1
  <2> QED
    BY <2>1 DEF TabRow
<1>5. ASSUME NEW q \in asks PROVE q.by \in Tabs /\ q.step \in {"sent", "answered", "failed"}
  <2>1. q \in AskRow
    BY <1>1
  <2> QED
    BY <2>1 DEF AskRow
<1> QED
  BY <1>2, <1>3, <1>4, <1>5 DEF MailboxTypeOK, AnyBox

\* Every row, call, page and counter of the admins' desk keeps its kind, whichever part acts:
\* a stored option has a key and a label, a stored colour six digits, a token a number that
\* was given.
THEOREM DeskIsTyped == AdminSpec => []AdminTypeOK
<1> DEFINE AllInv == AccessInv /\ FormsInv /\ HubInv /\ MailInv
<1>1. AdminInit => AllInv
  BY AccessStart, FormsStart, HubStart, MailStart DEF AdminInit
<1>2. AllInv /\ [AdminNext]_adminVars => AllInv'
  <2> SUFFICES ASSUME AllInv, [AdminNext]_adminVars PROVE AllInv'
    OBVIOUS
  <2>1. /\ UNCHANGED story /\ (AccessNext \/ UNCHANGED accessVars) /\ (FormsNext \/ UNCHANGED formsVars)
        /\ (HubNext \/ UNCHANGED hubVars) /\ (MailboxNext \/ UNCHANGED mailboxVars)
    BY DEF AdminNext, adminVars
  <2> QED
    BY <2>1, AccessStep, FormsStep, LinksStep, MailboxStep
<1>3. AllInv => AdminTypeOK
  BY AccessTyped, FormsTyped, HubTyped, MailboxTyped DEF AdminTypeOK
<1> QED
  BY <1>1, <1>2, <1>3, PTL DEF AdminSpec
=============================================================================
