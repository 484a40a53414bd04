--------------------------- MODULE TicketLifecycle ---------------------------
(***************************************************************************)
(* The life of one row of the Ticket table of the support desk API.        *)
(*                                                                         *)
(* Four kinds of code write that row, with no lock between them: the HTTP  *)
(* handlers of TicketsService and MessagesService, the ingestion of e-mail *)
(* threads, the fire-and-forget escalation, and the bot's worker.  Every   *)
(* one of them reads the row first and writes it in a later database call, *)
(* so each handler is modelled by its steps between two awaits: what it    *)
(* read is kept in a snapshot, and the write uses the snapshot wherever    *)
(* the code does.                                                          *)
(*                                                                         *)
(* A request is one HTTP call or one e-mail ingestion.  Its identity also  *)
(* stands for the time at which it wrote (firstResolvedAt) and for the     *)
(* bot job it queued.  Rows of Message are kept only as the set of the     *)
(* requests whose messages are stored; SYSTEM_EVENT rows, which nothing    *)
(* here reads, and SSE broadcasts are left out.                            *)
(***************************************************************************)
EXTENDS Integers, Sequences, FiniteSets

CONSTANTS
  Requests,    \* identities of HTTP calls and mail ingestions, each used once
  Agents,      \* support agents
  None,        \* "null": no assignee, never resolved
  Calls,       \* what a request may ask for: a subset of AllCalls
  MaxRetries,  \* retryLimit of the queue bot:respond-to-ticket
  MaxFaults    \* bound: process crashes and failed enqueues in a behaviour

(***************************************************************************)
(* Values.                                                                 *)
(***************************************************************************)
Lifecycle  == {"OPEN", "IN_PROGRESS", "WAITING", "RESOLVED", "CLOSED"}
Triage     == {"NEW", "DISMISSED"}
Statuses   == Lifecycle \union Triage \union {"ABSENT"}  \* ABSENT: no row yet
ResolvedOnly == {"RESOLVED"}   \* Mutant: a closed ticket stays closed
Reopenable == {"RESOLVED", "CLOSED"}
Roles      == {"agent", "customer"}

\* The authors of the messages of a thread that are not stored yet, in order.
\* Bound: one ingestion finds at most two new messages.
Batches == {<<a>> : a \in Roles} \union {<<a, b>> : a \in Roles, b \in Roles}

\* What the API and the mail worker can be asked to do.  A PATCH leaves a field
\* alone with "keep"; live is FALSE when the archive import ingests the thread.
AllCalls ==
  [op : {"none", "create", "agentReply", "internalNote", "customerReply",
         "convert", "discard"}]
  \union [op : {"patch"}, status : Lifecycle \union {"keep"},
          assignee : Agents \union {None, "keep"}]
  \union [op : {"mail"}, batch : Batches, live : BOOLEAN]

ASSUME RetryAssumption == MaxRetries \in Nat \ {0}
ASSUME FaultAssumption == MaxFaults \in Nat
ASSUME NoneAssumption  == None \notin Requests \union Agents
ASSUME CallAssumption  == Calls \subseteq AllCalls

Replies == {"agentReply", "internalNote", "customerReply"}

VARIABLES
  ticket,        \* the row of Ticket
  stored,        \* requests whose messages are rows of Message
  resolveJobs,   \* requests that queued ai:classify-ticket and ai:request-csat
  req,           \* the handlers, one per request
  job,           \* the bot:respond-to-ticket job queued by a request
  bot,           \* the bot worker: it takes one job at a time
  answers,       \* how many REPLY messages the bot posted
  interactions,  \* how many BotInteraction rows there are
  didAnswer,     \* some BotInteraction row has didAnswer = true
  faults         \* crashes and failed enqueues so far

vars == <<ticket, stored, resolveJobs, req, job, bot, answers, interactions,
          didAnswer, faults>>
rowVars == <<ticket, stored, resolveJobs>>
botVars == <<job, bot, answers, interactions, didAnswer>>

NoSnap == [status |-> "ABSENT", isTicket |-> FALSE, resolvedBy |-> None,
           auto |-> FALSE]
NoCall == [op |-> "none"]
Idle   == [pc |-> "idle", answered |-> FALSE]

Init ==
  /\ \E channel \in {"PORTAL", "EMAIL"} :
       ticket = [source |-> channel, status |-> "ABSENT", isTicket |-> FALSE,
                 assignee |-> None, dismissed |-> FALSE, reopens |-> 0,
                 resolvedBy |-> None]
  /\ stored = {}
  /\ resolveJobs = {}
  /\ req = [r \in Requests |-> [pc |-> "idle", call |-> NoCall, snap |-> NoSnap]]
  /\ job = [r \in Requests |-> [state |-> "none", tries |-> 0]]
  /\ bot = Idle
  /\ answers = 0
  /\ interactions = 0
  /\ didAnswer = FALSE
  /\ faults = 0

-----------------------------------------------------------------------------
(***************************************************************************)
(* The rules that move a status.                                           *)
(***************************************************************************)

\* The status a reply asks for, given the status its handler has read; the same
\* status when the reply moves nothing.
ReplyMove(from, role) ==
  CASE role = "agent" /\ from = "OPEN"              -> "IN_PROGRESS"
    [] role = "agent" /\ from = "IN_PROGRESS"       -> "WAITING"
    [] role = "customer" /\ from = "WAITING"        -> "IN_PROGRESS"
    [] role = "customer" /\ from \in Reopenable     -> "IN_PROGRESS"
    [] OTHER                                        -> from

Reopens(from, role) == role = "customer" /\ from \in Reopenable

\* Mutant: reopening a ticket also clears its first resolution.
TransitionClearsResolved(t, from, role) ==
  IF ReplyMove(from, role) = from THEN t
  ELSE [t EXCEPT !.status = ReplyMove(from, role),
                 !.reopens = IF Reopens(from, role) THEN @ + 1 ELSE @,
                 !.resolvedBy = IF Reopens(from, role) THEN None ELSE @]

\* The row t after a reply of role, computed from the status read earlier.
ApplyReplyTransition(t, from, role) ==
  IF ReplyMove(from, role) = from THEN t
  ELSE [t EXCEPT !.status = ReplyMove(from, role),
                 !.reopens = IF Reopens(from, role) THEN @ + 1 ELSE @]

\* The loop over the new messages of a thread carries the moved status along.
TransitionAll(t, from, batch) ==
  LET first == ApplyReplyTransition(t, from, batch[1])
  IN IF Len(batch) = 1 THEN first
     ELSE ApplyReplyTransition(first, ReplyMove(from, batch[1]), batch[2])

MovesAny(from, batch) ==
  \/ ReplyMove(from, batch[1]) # from
  \/ Len(batch) = 2 /\ ReplyMove(from, batch[2]) # from

FromCustomer(batch) == \E i \in DOMAIN batch : batch[i] = "customer"

\* Mutant: the assignee is checked on the row the caller had read.
EscalateUnchecked(t, agent) ==
  [t EXCEPT !.status = "OPEN", !.assignee = IF agent = None THEN @ ELSE agent]

\* escalateToHuman's conditional update: only a row nobody is assigned to is
\* touched; agent is what the shift resolver returned.
EscalateToHuman(t, agent) ==
  IF t.assignee # None THEN t
  ELSE [t EXCEPT !.status = "OPEN", !.assignee = agent]

-----------------------------------------------------------------------------
(***************************************************************************)
(* HTTP handlers.                                                          *)
(***************************************************************************)
Snapshot == [status |-> ticket.status, isTicket |-> ticket.isTicket,
             resolvedBy |-> ticket.resolvedBy, auto |-> FALSE]

Goto(r, pc) == req' = [req EXCEPT ![r].pc = pc]

\* TicketsService.create: one transaction inserts the row and its description.
CreateTicket(r) ==
  /\ req[r].pc = "idle"
  /\ [op |-> "create"] \in Calls
  /\ ticket.source = "PORTAL" /\ ticket.status = "ABSENT"
  /\ ticket' = [ticket EXCEPT !.status = "OPEN", !.isTicket = TRUE]
  /\ stored' = stored \union {r}
  /\ req' = [req EXCEPT ![r] = [pc |-> "activate", call |-> [op |-> "create"],
                                snap |-> NoSnap]]
  /\ UNCHANGED <<resolveJobs, botVars, faults>>

\* Every other handler starts by reading the row.  HTTP calls need one (404);
\* a thread with no row yet is one that e-mail starts.
Begin(r, c) ==
  /\ req[r].pc = "idle"
  /\ c.op \notin {"none", "create"}
  /\ ticket.status = "ABSENT" => c.op = "mail" /\ ticket.source = "EMAIL"
  /\ req' = [req EXCEPT ![r] = [pc |-> "read", call |-> c, snap |-> Snapshot]]
  /\ UNCHANGED <<rowVars, botVars, faults>>

\* MessagesService.create looks for a bot answer only when it read WAITING.
NeedsBotCheck(r) ==
  req[r].call.op = "customerReply" /\ req[r].snap.status = "WAITING"

CheckBotAnswer(r) ==
  /\ req[r].pc = "read" /\ NeedsBotCheck(r)
  /\ req' = [req EXCEPT ![r].pc = "checked",
                       ![r].snap = [@ EXCEPT !.auto = didAnswer]]
  /\ UNCHANGED <<rowVars, botVars, faults>>

\* The transaction of MessagesService.create: the message, and the transition
\* from the status that was read before the transaction.
StoreReply(r) ==
  LET s    == req[r].snap
      role == IF req[r].call.op = "agentReply" THEN "agent" ELSE "customer"
  IN /\ req[r].call.op \in Replies
     /\ \/ req[r].pc = "read" /\ ~NeedsBotCheck(r)
        \/ req[r].pc = "checked"
     /\ stored' = stored \union {r}
     /\ ticket' = IF req[r].call.op # "internalNote" /\ ~s.auto /\ s.isTicket
                  THEN ApplyReplyTransition(ticket, s.status, role)
                  ELSE ticket
     /\ Goto(r, IF s.auto THEN "escalate" ELSE "done")
     /\ UNCHANGED <<resolveJobs, botVars, faults>>

\* The transaction of TicketsService.update, and the jobs a resolution queues.
PatchTicket(r) ==
  LET c == req[r].call
      s == req[r].snap
      resolves == c.status = "RESOLVED" /\ s.status # "RESOLVED"
  IN /\ c.op = "patch" /\ req[r].pc = "read"
     /\ ticket' = [ticket EXCEPT
          !.status     = IF c.status = "keep" THEN @ ELSE c.status,
          !.assignee   = IF c.assignee = "keep" THEN @ ELSE c.assignee,
          !.resolvedBy = IF resolves /\ s.resolvedBy = None THEN r ELSE @]
     /\ resolveJobs' = IF resolves /\ s.isTicket
                       THEN resolveJobs \union {r} ELSE resolveJobs
     /\ Goto(r, "done")
     /\ UNCHANGED <<stored, botVars, faults>>

\* TicketsService.convert.
ConvertTicket(r) ==
  /\ req[r].call.op = "convert" /\ req[r].pc = "read"
  /\ IF req[r].snap.isTicket
     THEN /\ UNCHANGED ticket
          /\ Goto(r, "done")
     ELSE /\ ticket' = [ticket EXCEPT !.isTicket = TRUE, !.status = "OPEN",
                                      !.dismissed = FALSE]
          /\ Goto(r, "activate")
  /\ UNCHANGED <<stored, resolveJobs, botVars, faults>>

\* activateTicket queues the bot's job; an enqueue error is swallowed.
ActivateTicket(r) ==
  /\ req[r].pc = "activate"
  /\ job' = [job EXCEPT ![r].state = "queued"]
  /\ Goto(r, "done")
  /\ UNCHANGED <<rowVars, bot, answers, interactions, didAnswer, faults>>

ActivationLost(r) ==
  /\ req[r].pc = "activate"
  /\ faults < MaxFaults
  /\ faults' = faults + 1
  /\ Goto(r, "done")
  /\ UNCHANGED <<rowVars, botVars>>

\* TicketsService.discard: only what was read as NEW is dismissed.
DiscardTicket(r) ==
  /\ req[r].call.op = "discard" /\ req[r].pc = "read"
  /\ ticket' = IF req[r].snap.status = "NEW"
               THEN [ticket EXCEPT !.status = "DISMISSED", !.dismissed = TRUE]
               ELSE ticket
  /\ Goto(r, "done")
  /\ UNCHANGED <<stored, resolveJobs, botVars, faults>>

\* The fire-and-forget escalation: the shift resolver may find nobody.
Escalate(r) ==
  /\ req[r].pc = "escalate"
  /\ \E agent \in Agents \union {None} : ticket' = EscalateToHuman(ticket, agent)
  /\ Goto(r, "done")
  /\ UNCHANGED <<stored, resolveJobs, botVars, faults>>

-----------------------------------------------------------------------------
(***************************************************************************)
(* Ingestion of an e-mail thread: a transaction at READ COMMITTED, so the  *)
(* row it reads at its start may change before it writes.                  *)
(***************************************************************************)
IsMail(r)   == req[r].call.op = "mail"
Transits(r) ==   \* the loop over the messages writes the status
  /\ req[r].call.live /\ req[r].snap.isTicket
  /\ MovesAny(req[r].snap.status, req[r].call.batch)

\* No row for the thread: the conversation is created.  When another ingestion
\* inserted it in between, the unique externalThreadId aborts the transaction
\* and the job is retried.
IngestNewThread(r) ==
  /\ IsMail(r) /\ req[r].pc = "read" /\ req[r].snap.status = "ABSENT"
  /\ IF ticket.status = "ABSENT"
     THEN /\ ticket' = [ticket EXCEPT !.status = "NEW"]
          /\ stored' = stored \union {r}
          /\ Goto(r, "done")
     ELSE /\ UNCHANGED <<ticket, stored>>
          /\ Goto(r, "retry")
  /\ UNCHANGED <<resolveJobs, botVars, faults>>

\* Mutant: a redelivered thread is not compared with the stored messages.
IngestReplyAgain(r) ==
  /\ IsMail(r) /\ req[r].pc = "read" /\ req[r].snap.status # "ABSENT"
  /\ Transits(r)
  /\ ticket' = TransitionAll(ticket, req[r].snap.status, req[r].call.batch)
  /\ stored' = stored \union {r}
  /\ Goto(r, "written")
  /\ UNCHANGED <<resolveJobs, botVars, faults>>

\* New messages that move the status: the row is locked from the first write on.
IngestReply(r) ==
  /\ IsMail(r) /\ req[r].pc = "read" /\ req[r].snap.status # "ABSENT"
  /\ r \notin stored /\ Transits(r)
  /\ ticket' = TransitionAll(ticket, req[r].snap.status, req[r].call.batch)
  /\ stored' = stored \union {r}
  /\ Goto(r, "written")
  /\ UNCHANGED <<resolveJobs, botVars, faults>>

\* New messages that move nothing: the status is read again, unlocked ...
IngestRecheck(r) ==
  /\ IsMail(r) /\ req[r].pc = "read" /\ req[r].snap.status # "ABSENT"
  /\ r \notin stored /\ ~Transits(r)
  /\ req' = [req EXCEPT ![r].pc = "checked",
                       ![r].snap = [@ EXCEPT !.status = ticket.status]]
  /\ UNCHANGED <<rowVars, botVars, faults>>

\* ... and a dismissed conversation its customer wrote to is NEW again.
IngestMessage(r) ==
  /\ IsMail(r) /\ req[r].pc = "checked"
  /\ stored' = stored \union {r}
  /\ ticket' = IF FromCustomer(req[r].call.batch)
                    /\ req[r].snap.status = "DISMISSED"
               THEN [ticket EXCEPT !.status = "NEW"] ELSE ticket
  /\ Goto(r, "written")
  /\ UNCHANGED <<resolveJobs, botVars, faults>>

\* A redelivered thread whose messages are all stored.
IngestNothing(r) ==
  /\ IsMail(r) /\ req[r].pc = "read"
  /\ r \in stored
  /\ Goto(r, "done")
  /\ UNCHANGED <<rowVars, botVars, faults>>

\* After the transaction: a live customer mail on a bot-answered ticket.
AfterIngest(r) ==
  /\ req[r].pc = "written"
  /\ Goto(r, IF /\ req[r].call.live /\ FromCustomer(req[r].call.batch)
                /\ didAnswer
             THEN "escalate" ELSE "done")
  /\ UNCHANGED <<rowVars, botVars, faults>>

\* The queue hands an ingestion that failed or was cut short to the worker again.
RetryIngest(r) ==
  /\ req[r].pc = "retry"
  /\ req' = [req EXCEPT ![r].pc = "read", ![r].snap = Snapshot]
  /\ UNCHANGED <<rowVars, botVars, faults>>

-----------------------------------------------------------------------------
(***************************************************************************)
(* The bot worker: BotService.respondTo under pg-boss's retries.  bot.pc   *)
(* names the next step; the job being answered is the active one.          *)
(***************************************************************************)
Active(r) == job[r].state = "active"

SetBot(pc) == bot' = [bot EXCEPT !.pc = pc]

Finish(r, state) == job' = [job EXCEPT ![r].state = state]

\* The feature flag is off, or maintenance mode is on.
BotSuppressed(r) ==
  /\ bot.pc = "idle" /\ job[r].state = "queued"
  /\ Finish(r, "suppressed")
  /\ UNCHANGED <<rowVars, req, bot, answers, interactions, didAnswer, faults>>

\* Some attempt for this ticket has already reached its verdict.
BotSkip(r) ==
  /\ bot.pc = "idle" /\ job[r].state = "queued" /\ interactions > 0
  /\ Finish(r, "completed")
  /\ UNCHANGED <<rowVars, req, bot, answers, interactions, didAnswer, faults>>

\* Mutant: the idempotency check is missing.
BotStartUnchecked(r) ==
  /\ bot.pc = "idle" /\ job[r].state = "queued"
  /\ Finish(r, "active")
  /\ bot' = [pc |-> "ask", answered |-> FALSE]
  /\ UNCHANGED <<rowVars, req, answers, interactions, didAnswer, faults>>

BotStart(r) ==
  /\ bot.pc = "idle" /\ job[r].state = "queued" /\ interactions = 0
  /\ Finish(r, "active")
  /\ bot' = [pc |-> "ask", answered |-> FALSE]
  /\ UNCHANGED <<rowVars, req, answers, interactions, didAnswer, faults>>

\* A gate fails: retrieval score, can_answer, confidence or citations.
BotGateFails ==
  /\ bot.pc = "ask"
  /\ SetBot("escalate")
  /\ UNCHANGED <<rowVars, req, job, answers, interactions, didAnswer, faults>>

\* All gates pass: the answer is posted, and visible in the portal at once ...
BotPost ==
  /\ bot.pc = "ask"
  /\ answers' = answers + 1
  /\ bot' = [pc |-> "wait", answered |-> TRUE]
  /\ UNCHANGED <<rowVars, req, job, interactions, didAnswer, faults>>

\* ... then the status is written, whatever it is by now ...
BotWait ==
  /\ bot.pc = "wait"
  /\ ticket' = [ticket EXCEPT !.status = "WAITING"]
  /\ SetBot("mail")
  /\ UNCHANGED <<stored, resolveJobs, req, job, answers, interactions, didAnswer,
                 faults>>

\* ... and the answer is mailed.
BotMail ==
  /\ bot.pc = "mail"
  /\ SetBot("audit")
  /\ UNCHANGED <<rowVars, req, job, answers, interactions, didAnswer, faults>>

\* Mutant: the transient error is rethrown but the job is not queued again.
BotRetryDropped(r) ==
  /\ bot.pc \in {"ask", "mail"} /\ Active(r) /\ job[r].tries < MaxRetries
  /\ Finish(r, "failed")
  /\ bot' = Idle
  /\ UNCHANGED <<rowVars, req, answers, interactions, didAnswer, faults>>

\* Mutant: the attempts are not counted against retryLimit.
BotRetryForever(r) ==
  /\ bot.pc \in {"ask", "mail"} /\ Active(r)
  /\ job' = [job EXCEPT ![r] = [state |-> "queued", tries |-> @.tries + 1]]
  /\ bot' = Idle
  /\ UNCHANGED <<rowVars, req, answers, interactions, didAnswer, faults>>

\* A transient error of the model or of the mail server, retries left: rethrown,
\* with no verdict, and pg-boss queues the job again.
BotRetry(r) ==
  /\ bot.pc \in {"ask", "mail"} /\ Active(r) /\ job[r].tries < MaxRetries
  /\ job' = [job EXCEPT ![r] = [state |-> "queued", tries |-> @.tries + 1]]
  /\ bot' = Idle
  /\ UNCHANGED <<rowVars, req, answers, interactions, didAnswer, faults>>

\* A terminal error, or any error on the last attempt.
BotGiveUp ==
  /\ bot.pc \in {"ask", "mail"}
  /\ SetBot("escalate")
  /\ UNCHANGED <<rowVars, req, job, answers, interactions, didAnswer, faults>>

BotEscalate ==
  /\ bot.pc = "escalate"
  /\ \E agent \in Agents \union {None} : ticket' = EscalateToHuman(ticket, agent)
  /\ SetBot("audit")
  /\ UNCHANGED <<stored, resolveJobs, req, job, answers, interactions, didAnswer,
                 faults>>

\* Mutant: an attempt that posted an answer leaves no BotInteraction row.
BotAuditEscalationsOnly(r) ==
  /\ bot.pc = "audit" /\ Active(r)
  /\ interactions' = IF bot.answered THEN interactions ELSE interactions + 1
  /\ Finish(r, "completed")
  /\ bot' = Idle
  /\ UNCHANGED <<rowVars, req, answers, didAnswer, faults>>

\* The finally block writes the BotInteraction row; the job is complete.
BotAudit(r) ==
  /\ bot.pc = "audit" /\ Active(r)
  /\ interactions' = interactions + 1
  /\ didAnswer' = (didAnswer \/ bot.answered)
  /\ Finish(r, "completed")
  /\ bot' = Idle
  /\ UNCHANGED <<rowVars, req, answers, faults>>

-----------------------------------------------------------------------------
(***************************************************************************)
(* The API process dies and is restarted.  Handlers are gone; the queue    *)
(* gives the ingestions back, and the bot's active job after its expiry,   *)
(* unless it has no retries left.                                          *)
(***************************************************************************)
Crash ==
  /\ faults < MaxFaults
  /\ faults' = faults + 1
  /\ req' = [r \in Requests |->
       IF req[r].pc \in {"idle", "retry", "done"} THEN req[r]
       ELSE [req[r] EXCEPT !.pc = IF IsMail(r) THEN "retry" ELSE "done"]]
  /\ job' = [r \in Requests |->
       IF ~Active(r) THEN job[r]
       ELSE IF job[r].tries < MaxRetries
            THEN [state |-> "queued", tries |-> job[r].tries + 1]
            ELSE [job[r] EXCEPT !.state = "failed"]]
  /\ bot' = Idle
  /\ UNCHANGED <<rowVars, answers, interactions, didAnswer>>

HandlerStep(r) ==
  \/ CheckBotAnswer(r) \/ StoreReply(r) \/ PatchTicket(r) \/ ConvertTicket(r)
  \/ ActivateTicket(r) \/ DiscardTicket(r) \/ Escalate(r)
  \/ IngestNewThread(r) \/ IngestReply(r) \/ IngestRecheck(r)
  \/ IngestMessage(r) \/ IngestNothing(r) \/ AfterIngest(r) \/ RetryIngest(r)

BotStep ==
  \/ BotGateFails \/ BotPost \/ BotWait \/ BotMail \/ BotGiveUp \/ BotEscalate
  \/ \E r \in Requests :
       BotSuppressed(r) \/ BotSkip(r) \/ BotStart(r) \/ BotRetry(r) \/ BotAudit(r)

Next ==
  \/ \E r \in Requests : CreateTicket(r)
  \/ \E r \in Requests, c \in Calls : Begin(r, c)
  \/ \E r \in Requests : HandlerStep(r)
  \/ \E r \in Requests : ActivationLost(r)
  \/ BotStep
  \/ Crash

Spec == Init /\ [][Next]_vars

\* Handlers that started run on, and the worker keeps polling its queue; nothing
\* makes customers or agents call.
FairSpec ==
  /\ Spec
  /\ \A r \in Requests : WF_vars(HandlerStep(r))
  /\ WF_vars(BotStep)

-----------------------------------------------------------------------------
(***************************************************************************)
(* Properties.                                                             *)
(***************************************************************************)
Rows == [source : {"PORTAL", "EMAIL"}, status : Statuses, isTicket : BOOLEAN,
         assignee : Agents \union {None}, dismissed : BOOLEAN, reopens : Nat,
         resolvedBy : Requests \union {None}]
Snapshots == [status : Statuses, isTicket : BOOLEAN,
              resolvedBy : Requests \union {None}, auto : BOOLEAN]
Handlers == [pc : {"idle", "read", "checked", "written", "activate", "escalate",
                   "retry", "done"},
             call : AllCalls, snap : Snapshots]
Jobs == [state : {"none", "queued", "active", "completed", "suppressed", "failed"},
         tries : 0..MaxRetries]

TypeOK ==
  /\ ticket \in Rows
  /\ stored \in SUBSET Requests
  /\ resolveJobs \in SUBSET Requests
  /\ req \in [Requests -> Handlers]
  /\ job \in [Requests -> Jobs]
  /\ bot \in [pc : {"idle", "ask", "wait", "mail", "escalate", "audit"},
              answered : BOOLEAN]
  /\ answers \in Nat
  /\ interactions \in Nat
  /\ didAnswer \in BOOLEAN
  /\ faults \in 0..MaxFaults

\* A ticket gets one verdict from the bot, answered or escalated, however many
\* agents convert it at once, however often the job is retried and wherever the
\* process dies (the idempotency check and the finally block of respondTo).
OneVerdict == interactions <= 1

\* The customer sees a second bot answer only when an attempt was cut short and
\* retried: racing activations alone never make the bot answer twice.
SecondAnswerNeedsRetry == answers > 1 => \E r \in Requests : job[r].tries > 0

\* A resolved ticket has a first resolution, although PATCH decides whether to
\* stamp it from a row read before its transaction (the analytics take resolution
\* times from it).
ResolvedIsStamped == ticket.status = "RESOLVED" => ticket.resolvedBy # None

\* Requests that added a message of the customer to the ticket.
CustomerRequests ==
  {r \in stored : \/ req[r].call.op = "customerReply"
                  \/ IsMail(r) /\ FromCustomer(req[r].call.batch)}

\* A customer message reopens a ticket at most once, also when the queue delivers
\* its thread again after a crash (dedup by externalMessageId).
ReopensAreReplies == ticket.reopens <= Cardinality(CustomerRequests)

\* An escalation leaves a ticket that has an assignee exactly as it is, whatever
\* its caller had read; only a PATCH takes a ticket away from an agent.
EscalationKeepsOwner ==
  [][ticket.assignee # None =>
       /\ BotEscalate => ticket' = ticket
       /\ \A r \in Requests : Escalate(r) => ticket' = ticket
       /\ ticket'.assignee # ticket.assignee
            => \E r \in Requests : PatchTicket(r)]_vars

\* Every activated ticket is answered or handed to a human in the end, through
\* transient errors, retries and restarts, unless the feature flag suppressed the
\* bot or the process died in the last attempt.
ActivationSettles ==
  \A r \in Requests : job[r].state = "queued" ~>
    \/ interactions = 1 \/ job[r].state = "suppressed"
    \/ job[r].state = "failed" /\ faults > 0

\* What the rest of the system may rely on: see TicketPromise.
Promise == INSTANCE TicketPromise WITH
  stage   <- IF ticket.status = "ABSENT" THEN "absent"
             ELSE IF ticket.isTicket THEN "ticket" ELSE "conversation",
  verdict <- IF interactions = 0 THEN "none"
             ELSE IF didAnswer THEN "answered" ELSE "escalated",
  resolved <- ticket.resolvedBy # None

ImplementsPromise == Promise!Spec
=============================================================================
