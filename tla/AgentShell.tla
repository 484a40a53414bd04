----------------------------- MODULE AgentShell -----------------------------
(***************************************************************************)
(* What runs behind every page of the bridge while an agent is signed in:  *)
(* the event stream with its single-use tickets, the loop that polls the   *)
(* state of the mail archive, and the badge of unread notifications with   *)
(* the panel behind it.                                                    *)
(***************************************************************************)
EXTENDS Integers, FiniteSets, Sequences, Scenario

CONSTANTS
  Notices,      \* notifications that will be created
  MaxSignIns,   \* bound: sessions
  MaxChains,    \* bound: loops of the archive's poll at once
  MaxSeen,      \* bound: mails of the archive
  MaxBreaks     \* bound: broken connections and failed requests

ASSUME ShellAssumption ==
  /\ MaxSignIns \in Nat \ {0} /\ MaxChains \in Nat \ {0} /\ MaxSeen \in Nat /\ MaxBreaks \in Nat
  /\ IsFiniteSet(Notices)

VARIABLES
  session,   \* number of the present session, 0 when nobody is signed in
  signIns,   \* sessions so far
  stream,    \* of every session: what its connect chain does
  breaks,
  archive,   \* the archive's state in the database
  resets,    \* 1 once the archive was reset
  card,      \* what the card shows of it, and whether an old count is held
  chain,     \* the poll loops: what each waits for
  timerRef,  \* the loop whose timer a refresh would clear, 0 for none
  events,    \* archive-progress events on their way
  notices,   \* notifications created, and read by this agent
  badge,     \* the count at the bell, and its request
  panel      \* the panel: open, what it lists, what it shows as read, its request

shellVars == <<session, signIns, stream, breaks, archive, resets, card, chain, timerRef, events, notices, badge, panel>>

Sessions == 1..MaxSignIns
Chains == 1..MaxChains
Progress == [status : {"IDLE", "RUNNING", "DONE", "CANCELLED"}, seen : 0..MaxSeen]
Nothing == [status |-> "IDLE", seen |-> 0]

ShellInit ==
  /\ session = 0 /\ signIns = 0 /\ breaks = 0
  /\ stream = [s \in Sessions |-> "none"]
  /\ archive = Nothing /\ resets = 0 /\ card = [shown |-> Nothing, held |-> FALSE]
  /\ chain = [c \in Chains |-> [pc |-> "none", got |-> Nothing]] /\ timerRef = 0
  /\ events = <<>>
  /\ notices = [made |-> {}, read |-> {}]
  /\ badge = [count |-> 0, asked |-> FALSE]
  /\ panel = [open |-> FALSE, listed |-> {}, read |-> {}, pending |-> {}]

archiveVars == <<archive, resets, card, chain, timerRef, events>>
noticeVars == <<notices, badge, panel>>

-----------------------------------------------------------------------------
(***************************************************************************)
(* Signing in and out, and the event stream.                               *)
(***************************************************************************)
\* The effects of a new token: the stream connects, the loop polls, the badge asks.
SignIn ==
  /\ {"session", "archive", "notices"} \intersect story # {}
  /\ session = 0 /\ signIns < MaxSignIns /\ ("session" \notin story => signIns = 0)
  /\ session' = signIns + 1 /\ signIns' = signIns + 1
  /\ stream' = [stream EXCEPT ![signIns + 1] = "asking"]
  /\ chain' = IF "archive" \in story THEN [chain EXCEPT ![1] = [pc |-> "sent", got |-> Nothing]] ELSE chain
  /\ badge' = IF "notices" \in story THEN [badge EXCEPT !.asked = TRUE] ELSE badge
  /\ UNCHANGED <<breaks, archive, resets, card, timerRef, events, notices, panel>>

Open(s) == stream[s] \in {"opening", "open"}

\* signOut: the cleanup of the effect closes the stream and clears its timer; a
\* chain that waits for its ticket learns of it when the ticket comes.
SignOut ==
  /\ "session" \in story /\ session # 0
  /\ session' = 0
  /\ stream' = [stream EXCEPT ![session] = IF @ = "asking" THEN "asking" ELSE "gone"]
  /\ UNCHANGED <<signIns, breaks, archiveVars, noticeVars>>

Cancelled(s) == s # session

\* Mutant: the chain does not look whether it was cancelled while it asked.
TicketComesLate(s) == stream' = [stream EXCEPT ![s] = "opening"]

\* The ticket is there: a cancelled chain stops, another opens an EventSource.
TicketComes(s) == stream' = [stream EXCEPT ![s] = IF Cancelled(s) THEN "gone" ELSE "opening"]

\* The request for the ticket, or the EventSource, fails: a retry is scheduled.
Breaks(s) ==
  /\ breaks < MaxBreaks /\ breaks' = breaks + 1
  /\ stream' = [stream EXCEPT ![s] = IF Cancelled(s) THEN "gone" ELSE "waiting"]

Connects(s) ==
  /\ \/ stream[s] = "asking" /\ TicketComes(s) /\ UNCHANGED breaks
     \/ stream[s] = "opening" /\ stream' = [stream EXCEPT ![s] = "open"] /\ UNCHANGED breaks
     \/ stream[s] = "waiting" /\ stream' = [stream EXCEPT ![s] = "asking"] /\ UNCHANGED breaks
  /\ UNCHANGED <<session, signIns, archiveVars, noticeVars>>

Interrupts(s) ==
  /\ "session" \in story /\ stream[s] \in {"asking", "opening", "open"} /\ Breaks(s)
  /\ UNCHANGED <<session, signIns, archiveVars, noticeVars>>

-----------------------------------------------------------------------------
(***************************************************************************)
(* useBackfillStatus: the state of the archive.                            *)
(***************************************************************************)
streamVars == <<session, signIns, stream>>

\* The archive goes on, ends, is cancelled, or is reset and starts anew; each of
\* it is broadcast, the last one when it is done.
ArchiveMoves ==
  /\ "archive" \in story /\ Len(events) < 2
  /\ \/ archive.status = "RUNNING" /\ archive.seen < MaxSeen /\ archive' = [archive EXCEPT !.seen = @ + 1]
     \/ archive.status = "RUNNING" /\ \E status \in {"DONE", "CANCELLED"} : archive' = [archive EXCEPT !.status = status]
     \/ archive.status = "IDLE" /\ archive' = [archive EXCEPT !.status = "RUNNING"]
     \/ "reset" \in story /\ resets = 0 /\ archive.seen = MaxSeen /\ archive.status = "CANCELLED" /\ archive' = Nothing
  /\ resets' = IF archive' = Nothing THEN 1 ELSE resets
  /\ events' = IF archive'.status \in {"RUNNING", "DONE"} THEN Append(events, archive') ELSE events
  /\ UNCHANGED <<streamVars, breaks, card, chain, timerRef, noticeVars>>

\* An archive-progress event; it is lost when the stream is not open.
EventComes ==
  /\ events # <<>> /\ events' = Tail(events)
  /\ card' = IF session # 0 /\ stream[session] = "open" THEN [shown |-> Head(events), held |-> FALSE] ELSE card
  /\ UNCHANGED <<streamVars, breaks, archive, resets, chain, timerRef, noticeVars>>

ServeStatus(c) ==
  /\ chain[c].pc = "sent"
  /\ chain' = [chain EXCEPT ![c] = [pc |-> "answered", got |-> archive]]
  /\ UNCHANGED <<streamVars, breaks, archive, resets, card, timerRef, events, noticeVars>>

Rests(c) == [chain EXCEPT ![c] = [pc |-> "timer", got |-> Nothing]]

\* The answer is shown, but for a count below the one that is there, and the loop
\* sets its next timer.
StatusComes(c) ==
  LET got == chain[c].got
      seen == IF got.seen < card.shown.seen THEN card.shown.seen ELSE got.seen
  IN /\ chain[c].pc = "answered"
     /\ card' = [shown |-> [got EXCEPT !.seen = seen], held |-> seen # got.seen]
     /\ chain' = Rests(c) /\ timerRef' = c
     /\ UNCHANGED <<streamVars, breaks, archive, resets, events, noticeVars>>

StatusFails(c) == chain' = Rests(c) /\ timerRef' = c

PollFails(c) ==
  /\ "archive" \in story /\ chain[c].pc \in {"sent", "answered"} /\ breaks < MaxBreaks /\ breaks' = breaks + 1
  /\ StatusFails(c)
  /\ UNCHANGED <<streamVars, archive, resets, card, events, noticeVars>>

TimerFires(c) ==
  /\ chain[c].pc = "timer"
  /\ chain' = [chain EXCEPT ![c].pc = "sent"] /\ timerRef' = IF timerRef = c THEN 0 ELSE timerRef
  /\ UNCHANGED <<streamVars, breaks, archive, resets, card, events, noticeVars>>

\* refresh of the card's buttons: the timer that is known is cleared and the loop
\* entered again; a loop that waits for its answer goes on beside it.
RefreshCard ==
  /\ "refresh" \in story /\ session # 0
  /\ LET left == [chain EXCEPT ![IF timerRef = 0 THEN 1 ELSE timerRef] = IF timerRef = 0 THEN @ ELSE [pc |-> "none", got |-> Nothing]]
     IN \E c \in Chains : left[c].pc = "none" /\ chain' = [left EXCEPT ![c].pc = "sent"]
  /\ timerRef' = 0
  /\ UNCHANGED <<streamVars, breaks, archive, resets, card, events, noticeVars>>

-----------------------------------------------------------------------------
(***************************************************************************)
(* Notifications: the rows, the badge and the panel.                       *)
(***************************************************************************)
\* createAndBroadcast; the bridge does not listen to the event.
NoticeMade(n) ==
  /\ "notices" \in story /\ n \notin notices.made
  /\ notices' = [notices EXCEPT !.made = @ \union {n}]
  /\ UNCHANGED <<streamVars, breaks, archiveVars, badge, panel>>

AskBadge ==
  /\ "notices" \in story /\ session # 0 /\ ~badge.asked
  /\ badge' = [badge EXCEPT !.asked = TRUE]
  /\ UNCHANGED <<streamVars, breaks, archiveVars, notices, panel>>

\* unreadCount: all notifications but those this agent has read.
Unread == Cardinality(notices.made) - Cardinality(notices.read)

BadgeComes ==
  /\ badge.asked /\ badge' = [count |-> Unread, asked |-> FALSE]
  /\ UNCHANGED <<streamVars, breaks, archiveVars, notices, panel>>

\* The panel lists what is there when it opens, and closing it asks for the count.
OpenPanel ==
  /\ "notices" \in story /\ session # 0 /\ ~panel.open
  /\ panel' = [panel EXCEPT !.open = TRUE, !.listed = notices.made, !.read = notices.read]
  /\ UNCHANGED <<streamVars, breaks, archiveVars, notices, badge>>

ClosePanel ==
  /\ panel.open /\ panel.pending = {}
  /\ panel' = [panel EXCEPT !.open = FALSE] /\ badge' = [badge EXCEPT !.asked = TRUE]
  /\ UNCHANGED <<streamVars, breaks, archiveVars, notices>>

\* markRead of one row and markAllRead: the rows of the server, those it has by
\* then; the panel shows its own as read once the answer is there.
MarkRead ==
  /\ panel.open /\ panel.pending = {}
  /\ \E some \in {{n} : n \in panel.listed \ panel.read} :
       /\ panel' = [panel EXCEPT !.pending = some]
       /\ notices' = [notices EXCEPT !.read = @ \union some]
  /\ UNCHANGED <<streamVars, breaks, archiveVars, badge>>

MarkAllRead ==
  /\ panel.open /\ panel.pending = {} /\ panel.listed \ panel.read # {}
  /\ panel' = [panel EXCEPT !.pending = panel.listed]
  /\ notices' = [notices EXCEPT !.read = @ \union notices.made]
  /\ UNCHANGED <<streamVars, breaks, archiveVars, badge>>

MarkedComes ==
  /\ panel.pending # {}
  /\ panel' = [panel EXCEPT !.read = @ \union panel.pending, !.pending = {}]
  /\ UNCHANGED <<streamVars, breaks, archiveVars, notices, badge>>

ShellNext ==
  \/ SignIn \/ SignOut \/ ArchiveMoves \/ EventComes \/ RefreshCard
  \/ \E s \in Sessions : Connects(s) \/ Interrupts(s)
  \/ \E c \in Chains : ServeStatus(c) \/ StatusComes(c) \/ PollFails(c) \/ TimerFires(c)
  \/ \E n \in Notices : NoticeMade(n)
  \/ AskBadge \/ BadgeComes \/ OpenPanel \/ ClosePanel \/ MarkRead \/ MarkAllRead \/ MarkedComes

\* Requests are answered, timers fire and the intervals go on; nobody has to sign in.
ShellFair ==
  /\ WF_shellVars(EventComes) /\ WF_shellVars(AskBadge) /\ WF_shellVars(BadgeComes)
  /\ \A s \in Sessions : WF_shellVars(Connects(s))
  /\ \A c \in Chains : WF_shellVars(ServeStatus(c)) /\ WF_shellVars(StatusComes(c)) /\ WF_shellVars(TimerFires(c))

-----------------------------------------------------------------------------
(***************************************************************************)
(* Properties.                                                             *)
(***************************************************************************)
ShellTypeOK ==
  /\ session \in 0..signIns /\ signIns \in 0..MaxSignIns /\ breaks \in 0..MaxBreaks
  /\ stream \in [Sessions -> {"none", "asking", "opening", "open", "waiting", "gone"}]
  /\ archive \in Progress /\ resets \in 0..1 /\ card.shown \in Progress
  /\ chain \in [Chains -> [pc : {"none", "sent", "answered", "timer"}, got : Progress]] /\ timerRef \in 0..MaxChains
  /\ notices.read \subseteq notices.made /\ notices.made \subseteq Notices
  /\ badge.count \in 0..Cardinality(Notices)
  /\ panel.listed \subseteq notices.made

\* However sign-outs, sign-ins, late tickets and retries meet, a browser holds one
\* stream at the most, and none when nobody is signed in.
OneStream ==
  /\ Cardinality({s \in Sessions : Open(s)}) <= 1
  /\ \A s \in Sessions : Open(s) => s = session

\* What an agent who is signed in sees catches up: the stream opens, the card shows
\* the state of the archive (an old count is held after a reset), the badge the
\* unread rows.
ShellSettles == <>[](session # 0 =>
  /\ "session" \in story => stream[session] = "open"
  /\ "archive" \in story => card.shown.status = archive.status /\ (card.shown.seen = archive.seen \/ card.held)
  /\ "notices" \in story => badge.count = Unread)
=============================================================================
