------------------------------ MODULE MailAccount ------------------------------
(***************************************************************************)
(* The mailbox the application reads and sends with: an admin connects it  *)
(* by a handoff to the provider, or disconnects it; whoever needs a token  *)
(* reads the account and has it refreshed when it is about to expire; and  *)
(* every page of the bridge shows whether a mailbox is connected, from one *)
(* answer that the tab keeps.                                              *)
(***************************************************************************)
EXTENDS Scenario, Naturals, FiniteSets

CONSTANTS
  Boxes,      \* mailboxes of the provider
  Readers,    \* whoever asks for tokens: the poller, the sender
  Tabs,       \* tabs of admins
  SideTabs,   \* those of them that are open only in a story of two
  MaxWrites,  \* bound: connections and disconnections
  MaxFetches  \* bound: requests of the pages

ASSUME MailboxAssumption == Boxes # {} /\ SideTabs \subseteq Tabs /\ MaxWrites \in Nat /\ MaxFetches \in Nat

VARIABLES
  account,  \* the columns of the mailbox in AppConfig
  tokens,   \* of each reader: the account it has read, and what it waits for
  renewal,  \* the refresh that holds the lock
  handoffs, \* admins who are at the provider, and callbacks on their way
  tabs,     \* what a tab keeps and shows
  asks,     \* requests of the tabs on their way, answered in any order
  crossed,  \* history: the last refresh was of an account that had been replaced
  tally

mailboxVars == <<account, tokens, renewal, handoffs, tabs, asks, crossed, tally>>

NoBox == "none"
Held(b, epoch) == [box |-> b, access |-> b, refresh |-> b, due |-> FALSE, epoch |-> epoch]

\* oauthConnected, as the API reports it.
Connected == account.access # NoBox /\ account.refresh # NoBox

\* odd: history, the tab has a reason to show something else.
Tab == [open |-> FALSE, cached |-> 0, kept |-> "none", shown |-> FALSE, cfg |-> "unknown", busy |-> FALSE, asking |-> FALSE,
        lastHook |-> 0, lastCfg |-> 0, error |-> FALSE, odd |-> FALSE]

MailboxInit ==
  /\ account \in {Held(NoBox, 0)} \union (IF "pages" \in story THEN {Held(CHOOSE b \in Boxes : TRUE, 0)} ELSE {})
  /\ tokens = [r \in Readers |-> [step |-> "idle", cfg |-> Held(NoBox, 0)]]
  /\ renewal = [step |-> "none", box |-> NoBox, epoch |-> 0]
  /\ handoffs = {} /\ tabs = [t \in Tabs |-> Tab] /\ asks = {} /\ crossed = FALSE
  /\ tally = [writes |-> 0, fetches |-> 0]

Puts(t, tab) == tabs' = [tabs EXCEPT ![t] = tab]
Ask(n, t, op) == [no |-> n, by |-> t, op |-> op, step |-> "sent", value |-> FALSE]
Spends(n) == tally.fetches + n <= MaxFetches /\ tally' = [tally EXCEPT !.fetches = @ + n]
Next1 == tally.fetches + 1
Waiting(t, op) == \E q \in asks : q.by = t /\ q.op = op
tokenVars == <<tokens, renewal>>

\* The others have not heard of what this one changed.
OthersOdd(t) == tabs' = [u \in Tabs |-> IF u = t THEN tabs[u] ELSE [tabs[u] EXCEPT !.odd = TRUE]]

-----------------------------------------------------------------------------
(***************************************************************************)
(* The API: the account and its tokens.                                    *)
(***************************************************************************)
Changes == tally.writes < MaxWrites /\ tally' = [tally EXCEPT !.writes = @ + 1]

\* The state that came back is signed and not older than ten minutes.
Exchange(h) ==
  /\ h.step = "called"
  /\ \/ ~h.old /\ handoffs' = (handoffs \ {h}) \union {[h EXCEPT !.step = "exchanged"]}
     \/ (h.old \/ "fault" \in story) /\ handoffs' = (handoffs \ {h}) \union {[h EXCEPT !.step = "back", !.box = NoBox]}
  /\ UNCHANGED <<account, tokenVars, tabs, asks, crossed, tally>>

\* Provider, address and both tokens are replaced in one write.
Connect(h) ==
  /\ h.step = "exchanged" /\ Changes
  /\ account' = Held(h.box, account.epoch + 1)
  /\ crossed' = FALSE
  /\ handoffs' = (handoffs \ {h}) \union {[h EXCEPT !.step = "back"]}
  /\ OthersOdd(h.by)
  /\ UNCHANGED <<tokenVars, asks>>

Disconnects(q) ==
  /\ q.op = "disconnect" /\ q.step = "sent" /\ Changes
  /\ account' = Held(NoBox, account.epoch + 1)
  /\ crossed' = FALSE
  /\ asks' = (asks \ {q}) \union {[q EXCEPT !.step = "answered"]}
  /\ OthersOdd(q.by)
  /\ UNCHANGED <<tokenVars, handoffs>>

ReadsAccount(q) ==
  /\ q.op # "disconnect" /\ q.step = "sent"
  /\ asks' = (asks \ {q}) \union {[q EXCEPT !.step = "answered", !.value = Connected]}
  /\ UNCHANGED <<account, tokenVars, handoffs, tabs, crossed, tally>>

RequestFails(q) ==
  /\ "fault" \in story /\ q.step = "sent"
  /\ asks' = (asks \ {q}) \union {[q EXCEPT !.step = "failed"]}
  /\ UNCHANGED <<account, tokenVars, handoffs, tabs, crossed, tally>>

\* The token comes within five minutes of its end.
ComesDue ==
  /\ "tokens" \in story /\ account.access # NoBox /\ ~account.due
  /\ account' = [account EXCEPT !.due = TRUE]
  /\ UNCHANGED <<tokenVars, handoffs, tabs, asks, crossed, tally>>

tokenRest == UNCHANGED <<handoffs, tabs, asks, tally>>

\* findActiveOauth: whoever has an access token.
ReadsRow(r) ==
  /\ "tokens" \in story /\ tokens[r].step = "idle" /\ account.access # NoBox
  /\ tokens' = [tokens EXCEPT ![r] = [step |-> "read", cfg |-> account]]
  /\ UNCHANGED <<account, renewal, crossed>> /\ tokenRest

\* getValidAccessToken, on the row as it was read: it throws, is still good, or is
\* refreshed, by one refresh for all who ask meanwhile.
GetsToken(r) ==
  LET cfg == tokens[r].cfg
  IN /\ tokens[r].step = "read"
     /\ IF cfg.refresh = NoBox \/ ~cfg.due THEN tokens' = [tokens EXCEPT ![r] = [step |-> "idle", cfg |-> Held(NoBox, 0)]] /\ UNCHANGED renewal
        ELSE /\ tokens' = [tokens EXCEPT ![r].step = "waits"]
             /\ renewal' = IF renewal.step # "none" THEN renewal ELSE [step |-> "asked", box |-> cfg.refresh, epoch |-> cfg.epoch]
     /\ UNCHANGED <<account, crossed>> /\ tokenRest

Served == [r \in Readers |-> IF tokens[r].step = "waits" THEN [step |-> "idle", cfg |-> Held(NoBox, 0)] ELSE tokens[r]]
Unlocked == [step |-> "none", box |-> NoBox, epoch |-> 0]

\* The provider answers, or refuses and all who wait fail.
Renews ==
  /\ renewal.step = "asked"
  /\ \/ renewal' = [renewal EXCEPT !.step = "given"] /\ UNCHANGED tokens
     \/ renewal' = Unlocked /\ tokens' = Served
  /\ UNCHANGED <<account, crossed>> /\ tokenRest

\* The access token alone is written, whatever account the row has by now.
StoresToken ==
  /\ renewal.step = "given"
  /\ account' = [account EXCEPT !.access = renewal.box, !.due = FALSE]
  /\ crossed' = (renewal.epoch # account.epoch)
  /\ renewal' = Unlocked /\ tokens' = Served /\ tokenRest

-----------------------------------------------------------------------------
(***************************************************************************)
(* The pages.                                                              *)
(***************************************************************************)
pageRest == UNCHANGED <<account, tokenVars, crossed>>
FreshPage == [Tab EXCEPT !.open = TRUE, !.cached = Next1]
FirstAsks(t) == {Ask(Next1, t, "hook"), Ask(Next1 + 1, t, "config")}
Away(t) == ~tabs[t].open /\ \A h \in handoffs : h.by # t

\* The script is loaded anew: nothing is kept.
OpensSettings(t) ==
  /\ "pages" \in story /\ Away(t) /\ (t \in SideTabs => "two" \in story)
  /\ Spends(2) /\ asks' = asks \union FirstAsks(t)
  /\ Puts(t, FreshPage)
  /\ UNCHANGED handoffs /\ pageRest

\* To another page and back: the hook takes the answer that is kept.
Revisits(t) ==
  /\ "revisit" \in story /\ tabs[t].open /\ ~tabs[t].busy /\ ~Waiting(t, "start")
  /\ Spends(1)
  /\ asks' = {q \in asks : q.by # t \/ q.op # "config"} \union {Ask(Next1, t, "config")}
  /\ Puts(t, [tabs[t] EXCEPT !.shown = (tabs[t].kept = "yes"), !.cfg = "unknown", !.asking = FALSE])
  /\ UNCHANGED handoffs /\ pageRest

PressConnect(t) ==
  /\ tabs[t].cfg = "no" /\ ~Waiting(t, "start") /\ tally.writes < MaxWrites
  /\ Spends(1) /\ asks' = asks \union {Ask(Next1, t, "start")}
  /\ UNCHANGED <<tabs, handoffs>> /\ pageRest

AskDisconnect(t) ==
  /\ tabs[t].cfg = "yes" /\ ~tabs[t].busy
  /\ Puts(t, [tabs[t] EXCEPT !.asking = ~@])
  /\ UNCHANGED <<asks, handoffs, tally>> /\ pageRest

ConfirmDisconnect(t) ==
  /\ tabs[t].asking /\ ~tabs[t].busy
  /\ Spends(1) /\ asks' = asks \union {Ask(Next1, t, "disconnect")}
  /\ Puts(t, [tabs[t] EXCEPT !.busy = TRUE])
  /\ UNCHANGED handoffs /\ pageRest

\* The page goes to the provider; what it waited for is gone with it.
GoesToProvider(q) ==
  /\ q.op = "start" /\ q.step = "answered"
  /\ asks' = {p \in asks : p.by # q.by}
  /\ handoffs' = handoffs \union {[by |-> q.by, step |-> "consent", box |-> NoBox, old |-> FALSE]}
  /\ Puts(q.by, Tab)
  /\ UNCHANGED tally /\ pageRest

Ages(h) ==
  /\ h.step = "consent" /\ "fault" \in story /\ ~h.old
  /\ handoffs' = (handoffs \ {h}) \union {[h EXCEPT !.old = TRUE]}
  /\ UNCHANGED <<tabs, asks, tally>> /\ pageRest

\* The admin grants a mailbox, or refuses.
Consents(h) ==
  /\ h.step = "consent"
  /\ \E b \in Boxes \union {NoBox} : handoffs' = (handoffs \ {h}) \union {[h EXCEPT !.step = IF b = NoBox THEN "back" ELSE "called", !.box = b]}
  /\ UNCHANGED <<tabs, asks, tally>> /\ pageRest

\* With ?connected=1 the page asks twice, of which the later request is kept here.
ComesBack(h) ==
  /\ h.step = "back" /\ Spends(2)
  /\ handoffs' = handoffs \ {h}
  /\ asks' = asks \union FirstAsks(h.by)
  /\ Puts(h.by, [FreshPage EXCEPT !.error = h.box = NoBox])
  /\ pageRest

\* A failed request counts as a mailbox that is not connected, and is kept too.
HookAnswers(q) ==
  LET tab == tabs[q.by]
  IN /\ q.op = "hook" /\ q.step \in {"answered", "failed"}
     /\ asks' = asks \ {q}
     /\ Puts(q.by, [tab EXCEPT !.shown = q.value, !.lastHook = q.no, !.odd = @ \/ q.no < tab.lastHook \/ q.step = "failed",
                                !.kept = IF q.no = tab.cached THEN (IF q.value THEN "yes" ELSE "no") ELSE @])
     /\ UNCHANGED <<handoffs, tally>> /\ pageRest

ConfigAnswers(q) ==
  LET tab == tabs[q.by]
  IN /\ q.op = "config" /\ q.step \in {"answered", "failed"}
     /\ asks' = asks \ {q}
     /\ Puts(q.by, IF q.step = "failed" THEN [tab EXCEPT !.odd = TRUE]
                    ELSE [tab EXCEPT !.cfg = IF q.value THEN "yes" ELSE "no", !.lastCfg = q.no, !.odd = @ \/ q.no < tab.lastCfg])
     /\ UNCHANGED <<handoffs, tally>> /\ pageRest

\* A mutant: the kept answer outlives the mailbox it tells of.
DisconnectForgets(q) ==
  /\ q.op = "disconnect" /\ q.step = "answered" /\ Spends(1)
  /\ asks' = (asks \ {q}) \union {Ask(Next1, q.by, "config")}
  /\ Puts(q.by, [tabs[q.by] EXCEPT !.busy = FALSE, !.asking = FALSE, !.cfg = "no", !.odd = FALSE])
  /\ UNCHANGED handoffs /\ pageRest

\* The kept answer is dropped, everyone asks anew, and so does the page.
DisconnectAnswers(q) ==
  /\ q.op = "disconnect" /\ q.step = "answered" /\ Spends(2)
  /\ asks' = (asks \ {q}) \union FirstAsks(q.by)
  /\ Puts(q.by, [tabs[q.by] EXCEPT !.busy = FALSE, !.asking = FALSE, !.cfg = "no", !.cached = Next1, !.kept = "none", !.odd = FALSE])
  /\ UNCHANGED handoffs /\ pageRest

PressFails(q) ==
  /\ q.op \in {"disconnect", "start"} /\ q.step = "failed"
  /\ asks' = asks \ {q}
  /\ Puts(q.by, [tabs[q.by] EXCEPT !.busy = @ /\ q.op = "start", !.error = @ \/ q.op = "start"])
  /\ UNCHANGED <<handoffs, tally>> /\ pageRest

MailboxNext ==
  \/ \E h \in handoffs : Exchange(h) \/ Connect(h) \/ Ages(h) \/ Consents(h) \/ ComesBack(h)
  \/ \E q \in asks : Disconnects(q) \/ ReadsAccount(q) \/ RequestFails(q) \/ GoesToProvider(q) \/ HookAnswers(q) \/ ConfigAnswers(q)
                     \/ DisconnectAnswers(q) \/ PressFails(q)
  \/ ComesDue \/ Renews \/ StoresToken
  \/ \E r \in Readers : ReadsRow(r) \/ GetsToken(r)
  \/ \E t \in Tabs : OpensSettings(t) \/ Revisits(t) \/ PressConnect(t) \/ AskDisconnect(t) \/ ConfirmDisconnect(t)

-----------------------------------------------------------------------------
MailboxTypeOK ==
  /\ account.access \in Boxes \union {NoBox} /\ account.refresh \in Boxes \union {NoBox} /\ account.due \in BOOLEAN
  /\ \A r \in Readers : tokens[r].step \in {"idle", "read", "waits"}
  /\ \A t \in Tabs : tabs[t].cfg \in {"unknown", "yes", "no"} /\ tabs[t].kept \in {"none", "yes", "no"} /\ tabs[t].shown \in BOOLEAN
  /\ \A q \in asks : q.by \in Tabs /\ q.step \in {"sent", "answered", "failed"}

\* The access token belongs to the mailbox whose refresh token is stored; they part only
\* by a refresh that had read the row before the mailbox was connected anew or disconnected.
MixHasCause == account.access # account.refresh => crossed

\* A tab through which the mailbox was connected or disconnected shows it, at the badge
\* and on the page, once its requests are answered, unless one failed or answers crossed.
OwnChangeShown ==
  \A t \in Tabs : LET tab == tabs[t] IN
    tab.open /\ ~tab.odd /\ (\A q \in asks : q.by # t) => tab.shown = Connected /\ tab.cfg = (IF Connected THEN "yes" ELSE "no")

\* The tokens and the pages agree with the mailbox, or part for the named causes only.
MailboxHonest == MixHasCause /\ OwnChangeShown
=============================================================================
