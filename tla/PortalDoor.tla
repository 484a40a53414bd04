----------------------------- MODULE PortalDoor -----------------------------
(***************************************************************************)
(* The portal's tabs and the session of the customer: the provider of      *)
(* lib/auth, which keeps the session in localStorage and follows the other *)
(* tabs of the browser, the forms, the pages that Google and the host      *)
(* application hand over to, and those that mailed links open.             *)
(***************************************************************************)
EXTENDS Accounts

CONSTANTS
  First,    \* the tab where a story begins
  Away,     \* tabs of another device
  MaxAsks   \* bound: calls the tabs make

ASSUME DoorAssumption == First \in Tabs /\ Away \subseteq Tabs \ {First} /\ MaxAsks \in Nat

VARIABLES
  stored,  \* the session in localStorage of each browser
  tab,     \* what each tab shows
  asked

doorVars == <<accountVars, stored, tab, asked>>

Browser(t) == IF t \in Away THEN "away" ELSE "here"
Siblings(t) == {u \in Tabs \ {t} : Browser(u) = Browser(t) /\ tab[u].loaded}
DoorPages == {"closed", "home", "auth", "google", "sso", "forgot", "verify", "reset"}
Handoffs == {"google", "sso"}

\* A story of the door begins on one page, which no mailed link has opened.
ASSUME StoryAssumption ==
  \A s \in Scenarios : "door" \in s => \E p \in DoorPages \ {"closed", "verify", "reset"} : DoorPages \intersect s = {p}

\* loaded: the provider's effects have run; stale: a storage event is due; had: the
\* session that the verification page's effect captured; cut: the effect was cleaned up.
NewTab(page) == [page |-> page, loaded |-> FALSE, session |-> "none", stale |-> FALSE, state |-> "idle", link |-> 0,
                 had |-> "none", cut |-> FALSE, timer |-> FALSE]

DoorInit ==
  /\ AccountsInit
  /\ stored = [b \in {"here", "away"} |-> IF b = "here" /\ "home" \in story THEN "unverified" ELSE "none"]
  /\ tab = [t \in Tabs |->
       CASE t = First -> IF "door" \in story THEN NewTab(CHOOSE p \in DoorPages : p \in story) ELSE NewTab("closed")
         [] t # First /\ "twin" \in story /\ t \notin Away -> NewTab("auth")
         [] OTHER -> NewTab("closed")]
  /\ ask = [t \in Tabs |-> NoAsk]
  /\ asked = 0

-----------------------------------------------------------------------------
(***************************************************************************)
(* The provider.                                                           *)
(***************************************************************************)
\* Everybody else in the browser is told of a change of localStorage.
Told(tabs, t) == [u \in Tabs |-> IF u \in Siblings(t) THEN [tabs[u] EXCEPT !.stale = TRUE] ELSE tabs[u]]

\* signIn and signOut: storage first, then this tab's state.
Enter(t, session, shows) ==
  /\ stored' = [stored EXCEPT ![Browser(t)] = session]
  /\ tab' = Told([tab EXCEPT ![t] = [shows EXCEPT !.session = session]], t)

Load(t) ==
  /\ tab[t].page # "closed" /\ ~tab[t].loaded
  /\ tab' = [tab EXCEPT ![t].loaded = TRUE, ![t].session = stored[Browser(t)]]
  /\ UNCHANGED <<accountVars, stored, asked>>

\* A mutant: the storage event is heard only when somebody has signed out.
RehydrateOut(t) ==
  /\ tab[t].stale
  /\ tab' = [tab EXCEPT ![t].stale = FALSE, ![t].session = IF stored[Browser(t)] = "none" THEN "none" ELSE @]
  /\ UNCHANGED <<accountVars, stored, asked>>

\* A storage event.  It renders the provider again, unless nobody was signed in and
\* nobody is: the handoff page's effect depends on signIn, which is then another
\* function, and its cleanup cuts off the call that is on its way.
Rehydrate(t) ==
  LET new == stored[Browser(t)]
      renders == new # "none" \/ tab[t].session # "none"
  IN /\ tab[t].stale
     /\ tab' = [tab EXCEPT ![t].stale = FALSE, ![t].session = new,
                           ![t].cut = @ \/ (renders /\ tab[t].page \in Handoffs /\ tab[t].state = "busy"),
                           ![t].timer = @ /\ ~renders]
     /\ UNCHANGED <<accountVars, stored, asked>>

SignOutHere(t) ==
  /\ "out" \in story /\ tab[t].page = "home" /\ tab[t].loaded /\ tab[t].session # "none"
  /\ Enter(t, "none", tab[t])
  /\ UNCHANGED <<accountVars, asked>>

-----------------------------------------------------------------------------
(***************************************************************************)
(* What a customer does.                                                   *)
(***************************************************************************)
Calls(t, call) == ask[t].op = "none" /\ asked < MaxAsks /\ Room(call.op) /\ ask' = [ask EXCEPT ![t] = call] /\ asked' = asked + 1

SignInForm == {[Ask("signin") EXCEPT !.password = p] : p \in {"old", "new"}}
SignUpForm == {[Ask("signup") EXCEPT !.password = "old"]}
ForgotForm == {Ask("forgot")}
ResetForm(t) == {[Ask("reset") EXCEPT !.password = "new", !.link = tab[t].link]}

FormOf(t) ==
  CASE tab[t].page = "auth"   -> SignInForm \union SignUpForm
    [] tab[t].page = "forgot" -> ForgotForm
    [] tab[t].page = "reset"  -> ResetForm(t)
    [] OTHER                  -> {}

\* A form is sent once at a time: its button is disabled while it is busy.
SubmitForm(t) ==
  /\ tab[t].state \notin {"busy", "done"}
  /\ \E call \in FormOf(t) : Calls(t, call)
  /\ tab' = [tab EXCEPT ![t].state = "busy"]
  /\ UNCHANGED <<row, links, burnt, breaks, stored>>

\* The effect of a page that acts when it opens; handledRef lets it run once.
Acts(t, page, timer) ==
  /\ tab[t].page = page /\ tab[t].state = "idle"
  /\ Calls(t, [Ask(page) EXCEPT !.link = tab[t].link])
  /\ tab' = [tab EXCEPT ![t].state = "busy", ![t].had = tab[t].session, ![t].timer = timer]
  /\ UNCHANGED <<row, links, burnt, breaks, stored>>

\* The handoffs wait until the provider is loaded, the verification does not.
VerifyEffect(t) == Acts(t, "verify", FALSE)

GoogleEffect(t) == tab[t].loaded /\ Acts(t, "google", TRUE)
HandoffEffect(t) == tab[t].loaded /\ Acts(t, "sso", TRUE)
RunEffect(t) == VerifyEffect(t) \/ GoogleEffect(t) \/ HandoffEffect(t)

\* The banner above every page of an account that is not verified.
PressResend(t) ==
  /\ "resend" \in story /\ tab[t].page = "home" /\ tab[t].session = "unverified"
  /\ Calls(t, Ask("resend"))
  /\ UNCHANGED <<row, links, burnt, breaks, stored, tab>>

\* A mailed link is opened in a tab of this browser or of another device.
OpenLink(t) ==
  /\ tab[t].page = "closed" /\ (t \in Away => "away" \in story)
  /\ \E i \in DOMAIN links :
       /\ links[i].mail = "sent"
       /\ tab' = [tab EXCEPT ![t] = [NewTab(links[i].kind) EXCEPT !.link = i]]
  /\ UNCHANGED <<accountVars, stored, asked>>

\* "Back to sign in", or to the tickets.
GoOn(t) ==
  /\ tab[t].page \notin {"closed", "home", "auth"} /\ tab[t].state \in {"done", "error"} /\ ask[t].op = "none"
  /\ tab' = [tab EXCEPT ![t] = [@ EXCEPT !.page = IF tab[t].session = "none" THEN "auth" ELSE "home", !.state = "idle", !.link = 0,
                                         !.cut = FALSE, !.timer = FALSE, !.had = "none"]]
  /\ UNCHANGED <<accountVars, stored, asked>>

-----------------------------------------------------------------------------
(***************************************************************************)
(* Answers.                                                                *)
(***************************************************************************)
Hangs(t) == ask' = [ask EXCEPT ![t] = NoAsk]

\* 15 seconds of a handoff are over; a late answer is taken all the same.
TimesOut(t) ==
  /\ tab[t].timer
  /\ tab' = [tab EXCEPT ![t].timer = FALSE, ![t].state = "error"]
  /\ UNCHANGED <<accountVars, stored, asked>>

\* The forms, and a handoff whose effect is still the page's, sign in.
SignsIn(t) ==
  /\ ask[t].op \in {"signin", "signup"} \/ (tab[t].page \in Handoffs /\ ~tab[t].cut)
  /\ Enter(t, ask[t].session, [tab[t] EXCEPT !.page = "home", !.state = "idle", !.timer = FALSE])

\* A verification updates the session that the effect has seen, if it saw one.
ShowsVerified(t) ==
  /\ ask[t].op = "verify"
  /\ IF tab[t].had # "none" THEN Enter(t, "verified", [tab[t] EXCEPT !.state = "done"])
                            ELSE tab' = [tab EXCEPT ![t].state = "done"] /\ UNCHANGED stored

ShowsReset(t) == ask[t].op = "reset" /\ tab' = [tab EXCEPT ![t].state = "done"] /\ UNCHANGED stored
ShowsMailed(t) == ask[t].op = "forgot" /\ tab' = [tab EXCEPT ![t].state = "done"] /\ UNCHANGED stored

\* The banner says that a mail is on its way; a handoff that was cut off says nothing.
Nothing(t) ==
  /\ ask[t].op = "resend" \/ (tab[t].page \in Handoffs /\ tab[t].cut)
  /\ tab' = [tab EXCEPT ![t].timer = FALSE] /\ UNCHANGED stored

Good(t) ==
  /\ ask[t].step = "answered"
  /\ SignsIn(t) \/ ShowsVerified(t) \/ ShowsReset(t) \/ ShowsMailed(t) \/ Nothing(t)
  /\ Hangs(t)
  /\ UNCHANGED <<row, links, burnt, breaks, asked>>

\* The page of a forgotten password says the same whatever happened.
Bad(t) ==
  /\ ask[t].step = "refused"
  /\ tab' = [tab EXCEPT ![t].timer = FALSE,
                        ![t].state = CASE tab[t].cut \/ ask[t].op = "resend" -> @ [] ask[t].op = "forgot" -> "done" [] OTHER -> "error"]
  /\ Hangs(t)
  /\ UNCHANGED <<row, links, burnt, breaks, stored, asked>>

DoorNext ==
  \/ AccountsNext /\ UNCHANGED <<stored, tab, asked>>
  \/ \E t \in Tabs : Load(t) \/ Rehydrate(t) \/ SignOutHere(t) \/ SubmitForm(t) \/ RunEffect(t) \/ PressResend(t)
                     \/ OpenLink(t) \/ GoOn(t) \/ TimesOut(t) \/ Good(t) \/ Bad(t)

\* The browser delivers its events, runs effects and timers; a call may never be
\* answered, and nobody has to do anything.
DoorFair ==
  \A t \in Tabs : /\ WF_doorVars(Load(t)) /\ WF_doorVars(Rehydrate(t)) /\ WF_doorVars(RunEffect(t)) /\ WF_doorVars(TimesOut(t))

DoorTypeOK ==
  /\ AccountsTypeOK
  /\ stored \in [{"here", "away"} -> Sessions] /\ asked \in 0..MaxAsks
  /\ tab \in [Tabs -> [page : DoorPages, loaded : BOOLEAN, session : Sessions, stale : BOOLEAN, state : {"idle", "busy", "error", "done"},
                       link : 0..MaxLinks, had : Sessions, cut : BOOLEAN, timer : BOOLEAN]]

\* The tabs of a browser end up with one session, the one in its storage, in
\* whatever order they signed in and out: a tab that differs is caught up.
TabsAgree == \A t \in Tabs : tab[t].loaded /\ tab[t].session # stored[Browser(t)] ~> tab[t].session = stored[Browser(t)]

\* A handoff page does not wait for ever, even for a call that is never answered,
\* unless the session of another tab has cut its effect off.
HandoffEnds == \A t \in Tabs : tab[t].page \in Handoffs /\ tab[t].state = "busy" ~> tab[t].state # "busy" \/ tab[t].cut
=============================================================================
