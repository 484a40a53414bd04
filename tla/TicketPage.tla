----------------------------- MODULE TicketPage -----------------------------
(***************************************************************************)
(* One ticket open in two browsers: the customer's page of the portal and  *)
(* the agent's page of the bridge.  Each keeps a copy of the ticket, which *)
(* requests on their way replace, extend or leave behind, and a composer.  *)
(*                                                                         *)
(* A request is sent, answered by the API (what it changes happens then)   *)
(* and taken by the page when its answer arrives, in any order.  A read of *)
(* the ticket is one snapshot.  Both pages stay open and visible.          *)
(***************************************************************************)
EXTENDS Integers, FiniteSets, Sequences, Scenario, Orders

CONSTANTS
  Files,      \* attachments
  Tags,
  People,     \* addresses that can be in copy
  MaxLog,     \* bound: messages of the ticket
  MaxCalls,   \* bound: requests of a page on their way
  MaxDrafts,  \* bound: texts written on each page, and mails
  MaxFaults   \* bound: requests that fail and answers that are lost

ASSUME PageAssumption ==
  /\ MaxLog \in Nat \ {0} /\ MaxCalls \in Nat \ {0, 1} /\ MaxDrafts \in Nat /\ MaxFaults \in Nat

VARIABLES
  ticket,   \* the rows: log of messages, status, tags, participants
  upload,   \* attachments in storage, and the message each is on
  view,     \* what each page shows; last is the portal's lastMessageIdRef
  draft,    \* the composers
  calls,    \* requests on their way
  botStep,  \* "none", "posted" (the message is there, the status not yet), "done"
  heard,    \* a message-created event has reached the bridge
  written,  \* texts written on each page, and mails
  faults,
  lost      \* answers to a reply that did not arrive

pageVars == <<ticket, upload, view, draft, calls, botStep, heard, written, faults, lost>>

Pages == {"portal", "agent"}
Slots == 1..MaxCalls
Kinds == {"reply", "mail", "agent", "note", "bot", "event", "quiet"}
Statuses == {"NEW", "OPEN", "IN_PROGRESS", "WAITING", "RESOLVED"}
Requests == {"none", "load", "poll", "send", "resolve", "status", "convert", "tags", "attach"}

-----------------------------------------------------------------------------
(***************************************************************************)
(* The ticket's rows and what a page is told of them.                      *)
(***************************************************************************)
\* The customer is not shown what is internal: notes and changes of the tags.
Visible(by, i) == by = "agent" \/ ticket.log[i] \notin {"note", "quiet"}

\* The messages up to the n-th, as findById returns them to a page.
Messages(by, n) == Ascending({i \in 1..n : Visible(by, i)})

Snapshot == [n |-> Len(ticket.log), status |-> ticket.status, tags |-> ticket.tags, cc |-> ticket.cc]

NoPlan == [note |-> FALSE, files |-> {}, cc |-> {}, tags |-> {}, status |-> "OPEN"]
NoCall == [kind |-> "none", pc |-> "idle", plan |-> NoPlan, got |-> [n |-> 0, status |-> "OPEN", tags |-> {}, cc |-> {}]]
Call(kind, plan) == [NoCall EXCEPT !.kind = kind, !.pc = "sent", !.plan = plan]

PageInit ==
  /\ ticket = [log |-> <<"reply">>, status |-> IF "triage" \in story THEN "NEW" ELSE IF "reopen" \in story THEN "RESOLVED" ELSE "OPEN",
               tags |-> {}, cc |-> {}]
  /\ upload = [f \in Files |-> [stored |-> FALSE, on |-> 0]]
  /\ view = [by \in Pages |-> [shown |-> <<>>, status |-> "NONE", tags |-> {}, last |-> 0]]
  /\ draft = [by \in Pages |-> [text |-> FALSE, note |-> FALSE, files |-> {}, cc |-> {}, sending |-> FALSE]]
  /\ calls = [by \in Pages |-> [s \in Slots |-> IF s = 2 /\ by \in story THEN Call("load", NoPlan) ELSE NoCall]]
  /\ botStep = IF "bot" \in story THEN "none" ELSE "done"
  /\ heard = FALSE
  /\ written = [by \in Pages \union {"mail"} |-> 0]
  /\ faults = 0 /\ lost = 0

\* The status after a reply: the transition of messages.create and the ingestion,
\* which do not move a thread that is no ticket yet.
Moves(from, role) ==
  CASE role = "agent" /\ from = "OPEN"                        -> "IN_PROGRESS"
    [] role = "agent" /\ from = "IN_PROGRESS"                 -> "WAITING"
    [] role = "customer" /\ from \in {"WAITING", "RESOLVED"}  -> "IN_PROGRESS"
    [] OTHER                                                  -> from

\* The ticket with a message of this kind, and the event row of its transition.
Posted(t, kind) ==
  LET to == CASE kind \in {"reply", "mail"} -> Moves(t.status, "customer")
              [] kind = "agent"             -> Moves(t.status, "agent")
              [] OTHER                      -> t.status
  IN [t EXCEPT !.log = @ \o (IF to = t.status THEN <<kind>> ELSE <<kind, "event">>), !.status = to]

-----------------------------------------------------------------------------
(***************************************************************************)
(* What the two people do.                                                 *)
(***************************************************************************)
Loaded(by) == view[by].status # "NONE"
Start(by, s, call) == calls' = [calls EXCEPT ![by][s] = call]
Idle(by, s) == s # 1 /\ calls[by][s].kind = "none"

\* The portal has no composer under a resolved ticket.
HasComposer(by) == Loaded(by) /\ (by = "portal" => view[by].status # "RESOLVED")

\* The agent chooses between a reply and a note when he opens the composer.
Write(by) ==
  /\ (IF by = "portal" THEN "reply" ELSE "answer") \in story /\ HasComposer(by) /\ ~draft[by].text /\ written[by] < MaxDrafts
  /\ \E note \in IF by = "agent" /\ "note" \in story THEN BOOLEAN ELSE {FALSE} :
       draft' = [draft EXCEPT ![by].text = TRUE, ![by].note = note]
  /\ written' = [written EXCEPT ![by] = @ + 1]
  /\ UNCHANGED <<ticket, upload, view, calls, botStep, heard, faults, lost>>

\* The portal's button is disabled during an upload, the bridge disables the wrong one.
Attach(by, s, f) ==
  /\ "attach" \in story /\ HasComposer(by) /\ Idle(by, s) /\ ~upload[f].stored
  /\ \A c \in Slots : calls[by][c].kind = "attach" => by = "agent" /\ calls[by][c].plan.files # {f}
  /\ Start(by, s, Call("attach", [NoPlan EXCEPT !.files = {f}]))
  /\ UNCHANGED <<ticket, upload, view, draft, botStep, heard, written, faults, lost>>

\* The cross of a chip: an attachment or a person in copy.
RemoveChip(by) ==
  /\ \/ \E f \in draft[by].files :
          draft' = [draft EXCEPT ![by].files = @ \ {f}]
     \/ \E p \in draft[by].cc :
          draft' = [draft EXCEPT ![by].cc = @ \ {p}]
  /\ "chips" \in story /\ HasComposer(by)
  /\ UNCHANGED <<ticket, upload, view, calls, botStep, heard, written, faults, lost>>

\* Mutant: the portal's button stays enabled while a reply is on its way.
MaySendAgain(by) == draft[by].text /\ HasComposer(by)

\* The portal's button is disabled while a reply is on its way; the bridge's
\* Ctrl+Enter and Send & Resolve do not look at isSending.
MaySend(by) == draft[by].text /\ HasComposer(by) /\ (by = "portal" => ~draft[by].sending)

\* sendReply and sendMessage, the latter also as the first half of Send & Resolve.
Send(by, s) ==
  /\ MaySend(by) /\ Idle(by, s)
  /\ \E kind \in IF by = "agent" /\ "resolve" \in story THEN {"send", "resolve"} ELSE {"send"} :
       Start(by, s, Call(kind, [NoPlan EXCEPT !.note = draft[by].note, !.files = draft[by].files,
                                              !.cc = IF draft[by].note THEN {} ELSE draft[by].cc]))
  /\ draft' = [draft EXCEPT ![by].sending = TRUE]
  /\ UNCHANGED <<ticket, upload, view, botStep, heard, written, faults, lost>>

\* updateStatus of the select and the button, reopenTicket of the portal.
SetStatus(by, s, status) ==
  /\ {"status", "reopen"} \intersect story # {} /\ Loaded(by) /\ Idle(by, s) /\ status # view[by].status
  /\ by = "portal" => view[by].status = "RESOLVED" /\ status = "OPEN"
  /\ Start(by, s, Call("status", [NoPlan EXCEPT !.status = status]))
  /\ UNCHANGED <<ticket, upload, view, draft, botStep, heard, written, faults, lost>>

\* handleConvert, whose button is disabled meanwhile.
Convert(s) ==
  /\ view["agent"].status = "NEW" /\ Idle("agent", s)
  /\ \A c \in Slots : calls["agent"][c].kind # "convert"
  /\ Start("agent", s, Call("convert", NoPlan))
  /\ UNCHANGED <<ticket, upload, view, draft, botStep, heard, written, faults, lost>>

\* toggleTag sends the whole set, made from the tags the page shows.
ToggleTag(s, t) ==
  LET next == IF t \in view["agent"].tags THEN view["agent"].tags \ {t} ELSE view["agent"].tags \union {t}
  IN /\ "tags" \in story /\ Loaded("agent") /\ Idle("agent", s)
     /\ Start("agent", s, Call("tags", [NoPlan EXCEPT !.tags = next]))
     /\ UNCHANGED <<ticket, upload, view, draft, botStep, heard, written, faults, lost>>

-----------------------------------------------------------------------------
(***************************************************************************)
(* What the pages do by themselves, and the rest of the system.            *)
(***************************************************************************)
\* The intervals: 5 s in the portal, 10 s in the bridge.
Poll(by, s) ==
  /\ by \in story /\ calls[by][s].kind = "none" /\ (s = 1 \/ "overtake" \in story)
  /\ Start(by, s, Call("poll", NoPlan))
  /\ UNCHANGED <<ticket, upload, view, draft, botStep, heard, written, faults, lost>>

\* The bridge reloads the ticket of a message-created event.
Reload(s) ==
  /\ heard /\ Idle("agent", s)
  /\ heard' = FALSE /\ Start("agent", s, Call("poll", NoPlan))
  /\ UNCHANGED <<ticket, upload, view, draft, botStep, written, faults, lost>>

Broadcast == heard' = ("sse" \in story)

\* A mail of the customer, or of somebody who joins the copy list; the ingestion
\* broadcasts nothing.
MailArrives ==
  /\ "mail" \in story /\ Len(ticket.log) + 2 <= MaxLog /\ written["mail"] < MaxDrafts
  /\ \E more \in {{}} \union {{p} : p \in People} :
       ticket' = [Posted(ticket, "mail") EXCEPT !.cc = @ \union more]
  /\ written' = [written EXCEPT !["mail"] = @ + 1]
  /\ UNCHANGED <<upload, view, draft, calls, botStep, heard, faults, lost>>

\* The bot posts its answer, and sets WAITING in a second write without an event.
BotPosts ==
  /\ botStep = "none" /\ Len(ticket.log) + 1 <= MaxLog
  /\ ticket' = Posted(ticket, "bot") /\ botStep' = "posted" /\ Broadcast
  /\ UNCHANGED <<upload, view, draft, calls, written, faults, lost>>

BotWaits ==
  /\ botStep = "posted"
  /\ ticket' = [ticket EXCEPT !.status = "WAITING"] /\ botStep' = "done"
  /\ UNCHANGED <<upload, view, draft, calls, heard, written, faults, lost>>

-----------------------------------------------------------------------------
(***************************************************************************)
(* The API answers.                                                        *)
(***************************************************************************)
Answer(by, s, got) == Start(by, s, [calls[by][s] EXCEPT !.pc = "answered", !.got = got])

\* findById.
ServeRead(by, s) ==
  /\ calls[by][s].kind \in {"load", "poll"}
  /\ Answer(by, s, Snapshot)
  /\ UNCHANGED <<ticket, upload, heard>>

\* The attachments of a new message: those that are on no message yet.
Claim(files, id) ==
  [f \in Files |-> IF f \in files /\ upload[f].on = 0 THEN [upload[f] EXCEPT !.on = id] ELSE upload[f]]

\* MessagesService.create: the copy list of an agent's reply replaces the participants.
ServeSend(by, s) ==
  LET plan == calls[by][s].plan
      kind == IF by = "portal" THEN "reply" ELSE IF plan.note THEN "note" ELSE "agent"
      id == Len(ticket.log) + 1
  IN /\ calls[by][s].kind \in {"send", "resolve"} /\ Len(ticket.log) + 2 <= MaxLog
     /\ ticket' = [Posted(ticket, kind) EXCEPT !.cc = IF kind = "agent" THEN plan.cc ELSE @]
     /\ upload' = Claim(plan.files, id)
     /\ Answer(by, s, [Snapshot EXCEPT !.n = id, !.cc = plan.cc])
     /\ Broadcast

\* TicketsService.update and convert; a page is told what the rows are afterwards
\* only by convert.
ServePatch(by, s) ==
  LET c == calls[by][s]
      next == CASE c.kind = "status"  -> [ticket EXCEPT !.status = c.plan.status]
                [] c.kind = "tags"    -> [ticket EXCEPT !.tags = c.plan.tags]
                [] c.kind = "convert" -> [ticket EXCEPT !.status = IF @ = "NEW" THEN "OPEN" ELSE @]
      rows == CASE c.kind = "status" /\ next # ticket -> <<"event">>
                [] c.kind = "tags" /\ next # ticket   -> <<"quiet">>
                [] OTHER                              -> <<>>
  IN /\ c.kind \in {"status", "tags", "convert"} /\ by = "agent" /\ Len(ticket.log) + 2 <= MaxLog
     /\ ticket' = [next EXCEPT !.log = @ \o rows]
     /\ Answer(by, s, [n |-> Len(ticket.log) + Len(rows), status |-> next.status, tags |-> next.tags, cc |-> next.cc])
     /\ UNCHANGED <<upload, heard>>

\* POST /files/upload.
ServeUpload(by, s) ==
  /\ calls[by][s].kind = "attach"
  /\ upload' = [f \in Files |-> IF f \in calls[by][s].plan.files THEN [upload[f] EXCEPT !.stored = TRUE] ELSE upload[f]]
  /\ Answer(by, s, Snapshot)
  /\ UNCHANGED <<ticket, heard>>

Serve(by, s) ==
  /\ calls[by][s].pc = "sent"
  /\ ServeRead(by, s) \/ ServeSend(by, s) \/ ServePatch(by, s) \/ ServeUpload(by, s)
  /\ UNCHANGED <<view, draft, botStep, written, faults, lost>>

\* PATCH /tickets/:id is the agents': the portal's reopen button is refused.
Refused(by, s) == by = "portal" /\ calls[by][s].kind = "status"

MayFault == "fault" \in story /\ faults < MaxFaults

TooLong(by, s) == calls[by][s].kind \in {"send", "resolve", "status", "convert", "tags"} /\ Len(ticket.log) + 2 > MaxLog

\* A request that fails; the bound on the log refuses one that writes as well.
Fails(by, s) ==
  /\ calls[by][s].pc = "sent"
  /\ \/ (Refused(by, s) \/ TooLong(by, s)) /\ UNCHANGED faults
     \/ MayFault /\ faults' = faults + 1
  /\ Start(by, s, [calls[by][s] EXCEPT !.pc = "failed"])
  /\ UNCHANGED <<ticket, upload, view, draft, botStep, heard, written, lost>>

\* An answer is lost on its way.
Loses(by, s) ==
  /\ calls[by][s].pc = "answered" /\ MayFault
  /\ faults' = faults + 1
  /\ lost' = lost + (IF calls[by][s].kind = "send" THEN 1 ELSE 0)
  /\ Start(by, s, [calls[by][s] EXCEPT !.pc = "failed"])
  /\ UNCHANGED <<ticket, upload, view, draft, botStep, heard, written>>

-----------------------------------------------------------------------------
(***************************************************************************)
(* The answers arrive.                                                     *)
(***************************************************************************)
Shows(by, got) ==
  [view[by] EXCEPT !.shown = Messages(by, got.n), !.status = got.status, !.tags = got.tags,
                   !.last = IF by = "portal" THEN got.n ELSE 0]

LastOf(by, got) == LET all == Messages(by, got.n) IN IF all = <<>> THEN 0 ELSE all[Len(all)]

\* setTicket of a load.  A poll of the portal takes nothing when the last message
\* is the one it knows, and leaves the rest of the ticket as it was.
TakeRead(by, s) ==
  LET c == calls[by][s]
      known == c.kind = "poll" /\ by = "portal" /\ Loaded(by) /\ LastOf(by, c.got) = view[by].last
  IN /\ c.kind \in {"load", "poll"}
     /\ view' = IF known THEN view
                ELSE [view EXCEPT ![by] =
                        [Shows(by, c.got) EXCEPT
                           !.last = IF by = "agent" \/ (c.kind = "poll" /\ ~Loaded(by)) THEN 0 ELSE LastOf(by, c.got)]]
     /\ draft' = IF by = "agent" /\ ~Loaded(by) THEN [draft EXCEPT ![by].cc = c.got.cc] ELSE draft
     /\ Start(by, s, NoCall)

\* Mutant: the reply the portal appends becomes the last message it knows.
TakeSendLast(by, s) ==
  LET c == calls[by][s]
  IN /\ c.kind \in {"send", "resolve"}
     /\ view' = [view EXCEPT ![by].shown = Append(@, c.got.n), ![by].last = IF by = "portal" THEN c.got.n ELSE 0]
     /\ draft' = [draft EXCEPT ![by].text = FALSE, ![by].files = {}, ![by].sending = FALSE]
     /\ Start(by, s, IF c.kind = "resolve" THEN Call("status", [NoPlan EXCEPT !.status = "RESOLVED"]) ELSE NoCall)

\* The message is appended to whatever is shown and the composer emptied of
\* whatever is in it; the copy list is what the server kept.
TakeSend(by, s) ==
  LET c == calls[by][s]
  IN /\ c.kind \in {"send", "resolve"}
     /\ view' = [view EXCEPT ![by].shown = Append(@, c.got.n)]
     /\ draft' = [draft EXCEPT ![by].text = FALSE, ![by].files = {}, ![by].sending = FALSE,
                               ![by].cc = IF by = "agent" /\ ~c.plan.note THEN c.got.cc ELSE @]
     /\ Start(by, s, IF c.kind = "resolve" THEN Call("status", [NoPlan EXCEPT !.status = "RESOLVED"]) ELSE NoCall)

\* updateStatus and updateTags read the ticket again, handleConvert has it already.
TakePatch(by, s) ==
  LET c == calls[by][s]
  IN /\ c.kind \in {"status", "tags", "convert"}
     /\ view' = CASE c.kind = "tags"    -> [view EXCEPT ![by].tags = c.plan.tags]
                  [] c.kind = "convert" -> [view EXCEPT ![by] = Shows(by, c.got)]
                  [] OTHER              -> view
     /\ Start(by, s, IF c.kind = "convert" THEN NoCall ELSE Call("poll", NoPlan))
     /\ UNCHANGED draft

TakeUpload(by, s) ==
  /\ calls[by][s].kind = "attach"
  /\ draft' = [draft EXCEPT ![by].files = @ \union calls[by][s].plan.files]
  /\ Start(by, s, NoCall)
  /\ UNCHANGED view

\* A page that could not be loaded stays empty until a poll; a reply that could
\* not be sent stays in the composer, and Send & Resolve goes on to resolve.
TakeFailure(by, s) ==
  LET kind == calls[by][s].kind
  IN /\ draft' = IF kind \in {"send", "resolve"} THEN [draft EXCEPT ![by].sending = FALSE] ELSE draft
     /\ Start(by, s, IF kind = "resolve" THEN Call("status", [NoPlan EXCEPT !.status = "RESOLVED"]) ELSE NoCall)
     /\ UNCHANGED view

Arrive(by, s) ==
  /\ \/ /\ calls[by][s].pc = "answered"
        /\ TakeRead(by, s) \/ TakeSend(by, s) \/ TakePatch(by, s) \/ TakeUpload(by, s)
     \/ calls[by][s].pc = "failed" /\ TakeFailure(by, s)
  /\ UNCHANGED <<ticket, upload, botStep, heard, written, faults, lost>>

PageNext ==
  \/ MailArrives \/ BotPosts \/ BotWaits
  \/ \E by \in Pages : Write(by) \/ RemoveChip(by)
  \/ \E by \in Pages, s \in Slots :
       \/ Send(by, s) \/ Poll(by, s) \/ Serve(by, s) \/ Fails(by, s) \/ Loses(by, s) \/ Arrive(by, s)
       \/ \E f \in Files : Attach(by, s, f)
       \/ \E status \in Statuses \ {"NEW"} : SetStatus(by, s, status)
  \/ \E s \in Slots : Convert(s) \/ Reload(s) \/ \E t \in Tags : ToggleTag(s, t)

\* The intervals go on, the API answers and the answers arrive; nobody has to write.
PageFair ==
  /\ WF_pageVars(BotWaits)
  /\ \A by \in Pages : WF_pageVars(Poll(by, 1))
  /\ \A by \in Pages, s \in Slots :
       WF_pageVars(Serve(by, s) \/ Fails(by, s)) /\ WF_pageVars(Arrive(by, s))

-----------------------------------------------------------------------------
(***************************************************************************)
(* Properties.                                                             *)
(***************************************************************************)
PageTypeOK ==
  /\ Len(ticket.log) \in 1..MaxLog
  /\ \A i \in DOMAIN ticket.log : ticket.log[i] \in Kinds
  /\ ticket.status \in Statuses /\ ticket.tags \subseteq Tags /\ ticket.cc \subseteq People
  /\ upload \in [Files -> [stored : BOOLEAN, on : 0..MaxLog]]
  /\ \A by \in Pages :
       /\ view[by].status \in Statuses \union {"NONE"} /\ view[by].last \in 0..MaxLog
       /\ \A i \in DOMAIN view[by].shown : view[by].shown[i] \in 1..Len(ticket.log)
       /\ draft[by] \in [text : BOOLEAN, note : BOOLEAN, files : SUBSET Files, cc : SUBSET People, sending : BOOLEAN]
       /\ \A s \in Slots : calls[by][s].kind \in Requests /\ calls[by][s].pc \in {"idle", "sent", "answered", "failed"}
  /\ botStep \in {"none", "posted", "done"} /\ heard \in BOOLEAN
  /\ \A by \in DOMAIN written : written[by] \in 0..MaxDrafts
  /\ faults \in 0..MaxFaults /\ lost \in 0..MaxFaults

\* A reply the customer wrote once is on the ticket once: pressed twice, the
\* button sends once, and only an answer that did not arrive makes him send again.
SentOnce ==
  Cardinality({i \in DOMAIN ticket.log : ticket.log[i] = "reply"}) <= 1 + written["portal"] + lost

\* However the answers overtake each other, the bridge's page ends up showing the
\* ticket as it is, each message once, and the portal's every message the customer
\* may see.
PagesCatchUp == <>[](
  /\ "agent" \in story =>
       /\ view["agent"].shown = Messages("agent", Len(ticket.log))
       /\ view["agent"].status = ticket.status /\ view["agent"].tags = ticket.tags
  /\ "portal" \in story =>
       \A i \in 1..Len(ticket.log) :
         Visible("portal", i) => \E k \in DOMAIN view["portal"].shown : view["portal"].shown[k] = i)
=============================================================================
