---------------------------- MODULE EmailDelivery ----------------------------
(***************************************************************************)
(* What one ticket mails to its customer.                                  *)
(*                                                                         *)
(* Three senders share the Gmail account: the worker of                    *)
(* email:send-confirmation, the worker of email:send-reply (agents'        *)
(* replies and the acknowledgements of portal replies) and the bot, which  *)
(* mails its answer itself.  A sender reads the ticket, sends, and then    *)
(* writes in separate calls what it learnt: the Gmail thread on the        *)
(* ticket, the delivery watermark and the Message-ID on the rows.  The     *)
(* poller meanwhile ingests the threads the customer has written in, the   *)
(* support desk's own sent mails among them.                               *)
(*                                                                         *)
(* A mail is its place in the order of sending, and the Message-ID Gmail   *)
(* gives it; a thread is the mail that opened it.  What replies do to the  *)
(* status of the ticket is TicketLifecycle's.                              *)
(***************************************************************************)
EXTENDS Integers, Sequences, FiniteSets

CONSTANTS
  Msgs,            \* rows of Message that people and the bot write
  Confirm,         \* the item of the confirmation job
  Posts,           \* the kinds of messages that are written, a subset of Kinds
  Mirror,          \* AppConfig.mirrorPortalRepliesToEmail
  ConfirmationOn,  \* the confirmationEmail feature is not suppressed
  MaxRetries,      \* retryLimit of the two e-mail queues
  MaxAnswers,      \* bound: mails the customer writes
  MaxFaults        \* bound: crashes and failed calls

Kinds == {"description", "portalReply", "agentReply", "botReply", "note"}

ASSUME ItemAssumption == Confirm \notin Msgs
ASSUME PostAssumption == Posts \subseteq Kinds
ASSUME FlagAssumption == Mirror \in BOOLEAN /\ ConfirmationOn \in BOOLEAN
ASSUME BoundAssumption ==
  MaxRetries \in Nat /\ MaxAnswers \in Nat /\ MaxFaults \in Nat

Items    == Msgs \union {Confirm}
Senders  == {"confirm", "reply", "bot"}
NoThread == -1  \* Ticket.externalThreadId is null
NoMail   == 0   \* no Message-ID of Gmail's

VARIABLES
  thread,    \* Ticket.externalThreadId; 0 is a thread the customer opened
  rows,      \* the rows of Message: kind, customerEmailedAt, messageId
  markers,   \* Message-IDs of the confirmation_sent rows
  copies,    \* sent mails ingested as further messages of the ticket
  strays,    \* sent mails ingested into other conversations
  split,     \* threads that are other conversations
  wire,      \* the mails Gmail has accepted
  answered,  \* the mails the customer has answered
  fresh,     \* threads to ingest: with a mail of the customer and a new one
  jobs,      \* the e-mail job of every item
  sender,    \* the handlers of the three senders
  announced, \* items with an email_delivery_failed event
  faults     \* crashes and failed calls so far

vars == <<thread, rows, markers, copies, strays, split, wire, answered, fresh,
          jobs, sender, announced, faults>>
mailbox == <<split, copies, strays, answered>>

NoSend == [pc |-> "idle", item |-> Confirm, thread |-> NoThread, quotes |-> {},
           cites |-> NoMail, mail |-> NoMail, id |-> NoMail]

\* A ticket of the portal, or a conversation the customer opened by mail.
Init ==
  /\ thread \in {NoThread, 0}
  /\ rows = [m \in Msgs |-> [kind |-> "none", emailed |-> FALSE, id |-> NoMail]]
  /\ markers = {} /\ copies = {} /\ strays = {} /\ split = {}
  /\ wire = <<>>
  /\ answered = {} /\ fresh = {}
  /\ jobs = [i \in Items |-> [state |-> "none", tries |-> 0]]
  /\ sender = [s \in Senders |-> NoSend]
  /\ announced = {}
  /\ faults = 0

Fault ==
  /\ faults < MaxFaults
  /\ faults' = faults + 1

\* The enqueue: an error is logged, and the job is lost.
Enqueue(i) ==
  \/ jobs' = [jobs EXCEPT ![i].state = "queued"] /\ UNCHANGED faults
  \/ jobs' = [jobs EXCEPT ![i].state = "lost"] /\ Fault

-----------------------------------------------------------------------------
(***************************************************************************)
(* What is written on the ticket.                                          *)
(***************************************************************************)
Unwritten == {m \in Msgs : rows[m].kind = "none"}
Active    == jobs[Confirm].state # "none"
Write(m, kind) == rows' = [rows EXCEPT ![m].kind = kind]

\* activateTicket, by the creation of a portal ticket, with or without a
\* description, or by the conversion of a conversation.
Activate ==
  /\ ~Active
  /\ Enqueue(Confirm)
  /\ \/ UNCHANGED rows
     \/ /\ thread = NoThread /\ "description" \in Posts
        /\ \E m \in Unwritten : Write(m, "description")
  /\ UNCHANGED <<thread, markers, wire, fresh, sender, announced, mailbox>>

\* MessagesService.create; notes are never queued for mailing.
Post(m) ==
  /\ m \in Unwritten /\ (thread = NoThread => Active)
  /\ \E kind \in Posts \intersect {"portalReply", "agentReply", "note"} :
       /\ Write(m, kind)
       /\ IF kind = "note" THEN UNCHANGED <<jobs, faults>> ELSE Enqueue(m)
  /\ UNCHANGED <<thread, markers, wire, fresh, sender, announced, mailbox>>

\* The bot posts its answer and goes on to mail it.
BotPost(m) ==
  /\ "botReply" \in Posts
  /\ m \in Unwritten /\ Active /\ sender["bot"].pc = "idle"
  /\ Write(m, "botReply")
  /\ sender' = [sender EXCEPT !["bot"] = [NoSend EXCEPT !.pc = "load", !.item = m]]
  /\ UNCHANGED <<thread, markers, wire, fresh, jobs, announced, faults, mailbox>>

-----------------------------------------------------------------------------
(***************************************************************************)
(* The senders.                                                            *)
(***************************************************************************)
Kind(s) == IF s = "confirm" THEN "confirmation" ELSE rows[sender[s].item].kind

\* Mutant: a reply is marked as delivered before it is sent.
StepsMarkFirst(kind) ==
  CASE kind = "confirmation" -> <<"send", "stamp", "record", "mark", "done">>
    [] kind = "agentReply"   -> <<"mark", "send", "stamp", "record", "done">>
    [] kind = "portalReply"  -> <<"send", "stamp", "record", "done">>
    [] OTHER                 -> <<"send", "stamp", "mark", "done">>

\* The database and Gmail calls of a sender, in order.  The bot's path does not
\* store the Message-ID.
Steps(kind) ==
  CASE kind = "confirmation" -> <<"send", "stamp", "record", "mark", "done">>
    [] kind = "agentReply"   -> <<"send", "stamp", "mark", "record", "done">>
    [] kind = "portalReply"  -> <<"send", "stamp", "record", "done">>
    [] OTHER                 -> <<"send", "stamp", "mark", "done">>

StepAfter(s) ==
  LET steps == Steps(Kind(s))
  IN steps[1 + CHOOSE n \in DOMAIN steps : steps[n] = sender[s].pc]

Advance(s) == sender' = [sender EXCEPT ![s].pc = StepAfter(s)]
Leave(s)   == sender' = [sender EXCEPT ![s] = NoSend]

\* Mutant: a failing job is dropped.
FailedDropped(job) == [job EXCEPT !.state = "done"]

\* Mutant: retryLimit is not honoured.
FailedForever(job) == [state |-> "queued", tries |-> job.tries + 1]

\* pg-boss's fail(), and its expiry of a job whose handler died.
Failed(job) ==
  IF job.tries < MaxRetries THEN [state |-> "queued", tries |-> job.tries + 1]
  ELSE [job EXCEPT !.state = "failed"]

\* retrycount >= retrylimit: work() is called without includeMetadata, so both
\* are undefined and the comparison is false.
IsFinalAttempt(s) == FALSE

\* The handler throws to pg-boss.  The bot's handler has no job here.
Throws(s) ==
  /\ Leave(s)
  /\ jobs' = IF s = "bot" THEN jobs ELSE [jobs EXCEPT ![sender[s].item] = Failed(@)]
  /\ UNCHANGED announced

\* Its catch, from the send on: the last attempt announces the failure and
\* completes, any other one throws.
Caught(s) ==
  IF IsFinalAttempt(s)
  THEN /\ Leave(s)
       /\ jobs' = [jobs EXCEPT ![sender[s].item].state = "done"]
       /\ announced' = announced \union {sender[s].item}
  ELSE Throws(s)

Queue(s) == CASE s = "confirm" -> {Confirm} [] s = "reply" -> Msgs [] OTHER -> {}

Take(s) ==
  /\ sender[s].pc = "idle"
  /\ \E i \in Queue(s) :
       /\ jobs[i].state = "queued"
       /\ jobs' = [jobs EXCEPT ![i].state = "active"]
       /\ sender' = [sender EXCEPT ![s] = [NoSend EXCEPT !.pc = "load", !.item = i]]
  /\ UNCHANGED <<thread, rows, markers, wire, fresh, announced, faults, mailbox>>

\* Mutant: the marker of a sent confirmation is not looked for.
SkipsUnguarded(s) ==
  CASE s = "confirm" -> ~ConfirmationOn
    [] s = "reply"   -> \/ Kind(s) \notin {"portalReply", "agentReply"}
                        \/ Kind(s) = "portalReply" /\ ~Mirror
    [] OTHER         -> FALSE

\* The early returns of the two workers.
Skips(s) ==
  CASE s = "confirm" -> markers # {} \/ ~ConfirmationOn
    [] s = "reply"   -> \/ Kind(s) \notin {"portalReply", "agentReply"}
                        \/ Kind(s) = "portalReply" /\ ~Mirror
    [] OTHER         -> FALSE

\* loadUndeliveredHistory: the replies whose watermark is null.
History == {m \in Msgs : rows[m].kind \notin {"none", "note"} /\ ~rows[m].emailed}

Stored == {rows[m].id : m \in Msgs} \union markers \union copies  \* of the ticket
Held   == (Stored \union strays) \ {NoMail}  \* Message.messageId is unique

\* The In-Reply-To of a reply: the last stored Message-ID, the order of the rows
\* being abstracted to that of the mails.
LastStored ==
  CHOOSE i \in Stored \union {NoMail} : \A j \in Stored : j <= i

\* The reads before the send.
Load(s) ==
  /\ sender[s].pc = "load"
  /\ sender' = [sender EXCEPT ![s] =
       IF Skips(s) THEN [@ EXCEPT !.pc = "done"]
       ELSE [@ EXCEPT !.pc = Steps(Kind(s))[1], !.thread = thread,
                      !.cites  = IF s = "confirm" THEN NoMail ELSE LastStored,
                      !.quotes = IF s = "confirm" THEN History ELSE {}]]
  /\ UNCHANGED <<thread, rows, markers, wire, fresh, jobs, announced, faults, mailbox>>

NextMail == Len(wire) + 1

InThread(th) == {i \in DOMAIN wire : wire[i].thread = th}
Answers(th)  == InThread(th) \intersect answered
Heard(th)    == th = 0 \/ Answers(th) # {}

\* Gmail takes the mail, into the thread the ticket had or into a new one.
Accept(s) ==
  LET th == IF sender[s].thread = NoThread THEN NextMail ELSE sender[s].thread
  IN /\ wire' = Append(wire, [item |-> sender[s].item, quotes |-> sender[s].quotes,
                              thread |-> th, cites |-> sender[s].cites])
     /\ fresh' = IF Heard(th) THEN fresh \union {th} ELSE fresh

\* The follow-up call learns the Message-ID; when it fails the mail is recorded
\* under the sender's own id, which Gmail has replaced.
Send(s) ==
  /\ sender[s].pc = "send"
  /\ Accept(s)
  /\ \/ sender' = [sender EXCEPT ![s] = [@ EXCEPT !.pc = StepAfter(s),
                     !.mail = NextMail, !.id = NextMail]]
        /\ UNCHANGED faults
     \/ sender' = [sender EXCEPT ![s] = [@ EXCEPT !.pc = StepAfter(s),
                     !.mail = NextMail]]
        /\ Fault
  /\ UNCHANGED <<thread, rows, markers, jobs, announced, mailbox>>

\* Refused, or accepted with the answer lost.
SendFails(s) ==
  /\ sender[s].pc = "send" /\ Fault
  /\ Caught(s)
  /\ Accept(s) \/ UNCHANGED <<wire, fresh>>
  /\ UNCHANGED <<thread, rows, markers, mailbox>>

\* Mutant: the stamp requires the ticket to be without a thread.
StampStrict(s) ==
  LET th == wire[sender[s].mail].thread
  IN /\ sender[s].pc = "stamp"
     /\ IF thread = NoThread /\ th \notin split
        THEN /\ thread' = th
             /\ Advance(s) /\ UNCHANGED <<jobs, announced>>
        ELSE Caught(s) /\ UNCHANGED thread
     /\ UNCHANGED <<rows, markers, wire, fresh, faults, mailbox>>

\* stampGmailThreadId: only a ticket without a thread is updated; a thread that
\* is another conversation's violates the unique key.
Stamp(s) ==
  LET th == wire[sender[s].mail].thread
  IN /\ sender[s].pc = "stamp"
     /\ IF thread = NoThread /\ th \in split
        THEN Caught(s) /\ UNCHANGED thread
        ELSE /\ thread' = IF thread = NoThread THEN th ELSE thread
             /\ Advance(s) /\ UNCHANGED <<jobs, announced>>
     /\ UNCHANGED <<rows, markers, wire, fresh, faults, mailbox>>

\* markMessagesEmailed.
Mark(s) ==
  LET sent == IF s = "confirm" THEN sender[s].quotes ELSE {sender[s].item}
  IN /\ sender[s].pc = "mark"
     /\ rows' = [m \in Msgs |->
          IF m \in sent THEN [rows[m] EXCEPT !.emailed = TRUE] ELSE rows[m]]
     /\ Advance(s)
     /\ UNCHANGED <<thread, markers, wire, fresh, jobs, announced, faults, mailbox>>

\* The Message-ID on the reply's row, or the confirmation_sent row: a mail that
\* is already ingested violates the unique key.
Record(s) ==
  /\ sender[s].pc = "record"
  /\ IF sender[s].id \in Held
     THEN Caught(s) /\ UNCHANGED <<rows, markers>>
     ELSE /\ IF s = "confirm"
             THEN markers' = markers \union {sender[s].id} /\ UNCHANGED rows
             ELSE rows' = [rows EXCEPT ![sender[s].item].id = sender[s].id]
                  /\ UNCHANGED markers
          /\ Advance(s) /\ UNCHANGED <<jobs, announced>>
  /\ UNCHANGED <<thread, wire, fresh, faults, mailbox>>

\* The handler has returned; pg-boss completes the job.
Complete(s) ==
  /\ sender[s].pc = "done"
  /\ jobs' = IF s = "bot" THEN jobs ELSE [jobs EXCEPT ![sender[s].item].state = "done"]
  /\ Leave(s)
  /\ UNCHANGED <<thread, rows, markers, wire, fresh, announced, faults, mailbox>>

\* A database call of a sender throws.
CallFails(s) ==
  /\ sender[s].pc \in {"load", "stamp", "mark", "record"} /\ Fault
  /\ IF sender[s].pc = "load" THEN Throws(s) ELSE Caught(s)
  /\ UNCHANGED <<thread, rows, markers, wire, fresh, mailbox>>

\* The process restarts: pg-boss expires the active jobs.
Crash ==
  /\ Fault
  /\ \E s \in Senders : sender[s].pc # "idle"
  /\ sender' = [s \in Senders |-> NoSend]
  /\ jobs' = [i \in Items |-> IF jobs[i].state = "active" THEN Failed(jobs[i]) ELSE jobs[i]]
  /\ UNCHANGED <<thread, rows, markers, wire, fresh, announced, mailbox>>

-----------------------------------------------------------------------------
(***************************************************************************)
(* The customer, and the ingestion of the threads of the mailbox.          *)
(***************************************************************************)
Answer(i) ==
  /\ i \in DOMAIN wire \ answered /\ Cardinality(answered) < MaxAnswers
  /\ answered' = answered \union {i}
  /\ fresh' = fresh \union {wire[i].thread}
  /\ UNCHANGED <<thread, rows, markers, wire, jobs, sender, announced, faults,
                 split, copies, strays>>

\* The In-Reply-To headers of a thread's mails.
Cited(th) == ({wire[i].cites : i \in InThread(th)} \union Answers(th)) \ {NoMail}

\* Mutant: a thread is looked up by its mails before its id.
OwnersByMail(th) ==
  (IF thread = th \/ Cited(th) \intersect Stored # {} THEN {"ticket"} ELSE {})
  \union (IF Cited(th) \intersect Held = {} THEN {"other"} ELSE {})

\* Whose message the thread is: by externalThreadId, else by a stored Message-ID
\* that one of its mails answers, else a new conversation's.
Owners(th) ==
  IF thread = th THEN {"ticket"}
  ELSE IF th \in split THEN {"other"}
  ELSE (IF Cited(th) \intersect Stored # {} THEN {"ticket"} ELSE {})
       \union (IF Cited(th) \intersect strays # {} \/ Cited(th) \intersect Held = {}
               THEN {"other"} ELSE {})

\* fetchAndUpsertThread, which skips the mails whose Message-ID is stored, and
\* the threads with no mail of the customer: those never are in fresh.  The
\* transaction is one step: one that loses a race is retried by its own queue.
Ingest(th) ==
  LET new == InThread(th) \ Held
  IN /\ th \in fresh
     /\ fresh' = fresh \ {th}
     /\ \E o \in Owners(th) :
          IF o = "ticket"
          THEN /\ thread' = th
               /\ copies' = copies \union new
               /\ UNCHANGED <<split, strays>>
          ELSE /\ split' = split \union {th}
               /\ strays' = strays \union new
               /\ UNCHANGED <<thread, copies>>
     /\ UNCHANGED <<rows, markers, wire, answered, jobs, sender, announced, faults>>

-----------------------------------------------------------------------------
Step(s) ==
  \/ Take(s) \/ Load(s) \/ Send(s) \/ Stamp(s) \/ Mark(s) \/ Record(s) \/ Complete(s)

Next ==
  \/ Activate
  \/ \E m \in Msgs : Post(m) \/ BotPost(m)
  \/ \E s \in Senders : Step(s) \/ SendFails(s) \/ CallFails(s)
  \/ Crash
  \/ \E i \in DOMAIN wire : Answer(i)
  \/ \E th \in fresh : Ingest(th)

Spec == Init /\ [][Next]_vars

\* The event loop runs the handlers, pg-boss hands out queued jobs.
FairSpec == Spec /\ \A s \in Senders : WF_vars(Step(s))

-----------------------------------------------------------------------------
(***************************************************************************)
(* Properties.                                                             *)
(***************************************************************************)

Mails == [item : Items, quotes : SUBSET Msgs, thread : Nat, cites : Nat]
Sends == [pc : {"idle", "load", "send", "stamp", "mark", "record", "done"}, item : Items,
          thread : {NoThread} \union (0..Len(wire)), quotes : SUBSET Msgs,
          cites : 0..Len(wire), mail : 0..Len(wire), id : 0..Len(wire)]

\* The values the variables range over; in particular no job is retried beyond
\* the limit of its queue, and no mail cites a later one.
TypeOK ==
  /\ thread \in {NoThread} \union (0..Len(wire))
  /\ rows \in [Msgs -> [kind : Kinds \union {"none"}, emailed : BOOLEAN,
                        id : 0..Len(wire)]]
  /\ markers \subseteq 0..Len(wire)
  /\ copies \union strays \union answered \subseteq DOMAIN wire
  /\ split \union fresh \subseteq 0..Len(wire)
  /\ wire \in Seq(Mails)
  /\ \A i \in DOMAIN wire : wire[i].thread <= i /\ wire[i].cites < i
  /\ jobs \in [Items -> [state : {"none", "queued", "active", "done", "failed", "lost"},
                         tries : 0..MaxRetries]]
  /\ sender \in [Senders -> Sends]
  /\ announced \subseteq Items
  /\ faults \in 0..MaxFaults

\* Once the confirmation_sent row is stored no retry, crash or failing call makes
\* the worker send the confirmation again.
ConfirmationStaysSent ==
  [][markers # {} => \A i \in (DOMAIN wire)' \ DOMAIN wire : wire'[i].item # Confirm]_vars

\* A message is marked as delivered only when a mail has carried or quoted it:
\* a watermark that lies hides the message from every later quotation.
WatermarkMeansMailed ==
  \A m \in Msgs : rows[m].emailed =>
    \E i \in DOMAIN wire : m = wire[i].item \/ m \in wire[i].quotes

\* An internal note is never on the wire, as a mail or within one, whatever the
\* queues hold.
NotesStayInside ==
  \A i \in DOMAIN wire : \A m \in Msgs :
    rows[m].kind = "note" => m # wire[i].item /\ m \notin wire[i].quotes

\* What is on the wire and what the rows say of it agree.
WireMatchesRows == WatermarkMeansMailed /\ NotesStayInside

\* One Gmail thread never belongs to two conversations, with the stamps of the
\* senders racing the ingestion.
ThreadNotShared == thread \notin split

\* While nothing fails, a message is mailed twice only when its sent copy was
\* ingested before the sender could store the Message-ID, or when its thread was.
DuplicateNeedsCopy ==
  \A i, j \in DOMAIN wire :
    i < j /\ wire[i].item = wire[j].item /\ faults = 0
    => i \in copies \union strays \/ wire[i].thread \in split

\* A queued reply of an agent is mailed, or its job is dead-lettered.
RepliesGoOut ==
  \A m \in Msgs :
    (jobs[m].state = "queued" /\ rows[m].kind = "agentReply")
    ~> (jobs[m].state = "failed" \/ \E i \in DOMAIN wire : wire[i].item = m)
=============================================================================
