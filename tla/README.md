# TMR Athena in TLA+

TMR Athena is a support desk: a NestJS API (`src/apps/api`) over Postgres
(Prisma, READ COMMITTED) with the durable queue pg-boss, an agents' console
(`src/apps/bridge`) and a customers' portal (`src/apps/portal`), both Next.js.
Mail goes through one Gmail or Microsoft account that the support team connects;
a bot answers new tickets out of a knowledge base.

This directory models the parts in which several actors write or show the same
rows over time: what happens to a ticket, how the inbox is imported, what is
mailed to the customer, how the knowledge base is scanned and embedded, what the
workers make of messages and of resolved tickets, and what the pages of agents,
customers and admins make of it while answers are on their way. TLC checks the
models on small instances. The theorems hold for every instance and are checked by
TLAPS: they state the safety properties of every component, those of the pages
and of the admins' desk included.

Paths below are relative to `src/apps/api/src/modules/` unless they begin with
`docs/`, `bridge/` or `portal/`. `docs/` is the repository's own documentation,
mostly `docs/atlas/`; `bridge/` and `portal/` are the `src` of these apps under
`src/apps/`.

## 1. Inventory

### 1.1 Parts, their state and their operations

| Part | State it keeps | Operations | Correct when |
|---|---|---|---|
| Tickets (`tickets/`), messages (`messages/`) | `Ticket`: status, isTicket, assignee, firstResolvedAt, reopenedCount; `Message` rows | create, PATCH, convert, discard, reply, note; `applyReplyTransition` | status, ticket flag and resolution stamps stay coherent whatever handlers interleave; what a customer writes stays where agents look |
| Bot (`bot/`) | `BotInteraction` rows, the answer among the messages | `respondTo` under a job with retries, `escalateToHuman` | one verdict per ticket, a human in the end, nobody loses a ticket they took |
| Thread ingestion (`email-sync/thread-ingestion.service.ts`) | messages by Message-ID, tickets by externalThreadId | `fetchAndUpsertThread`, one transaction per thread | a message is stored exactly once and on its own ticket; a replay changes nothing |
| Mail synchronisation (`email-sync/`) | `AppConfig`: archiveStatus, archivePageToken, gmailHistoryId / graphDeltaLink | cron poll, poll/now, backfill/run, archive resume, cancel, resync, the archive loop, the ingest worker | no mail is passed over; DONE means imported; RUNNING means that somebody is at it |
| Outgoing mail (`email/`) | externalThreadId, `customerEmailedAt`, `messageId`, the `confirmation_sent` rows | confirmation, agents' replies, acknowledgements, the bot's mail | each mail once, in one Gmail thread; notes never leave; queued replies go out |
| Queue (`queue/`, pg-boss 9) | jobs: state, retry count, singleton key | send, work, retry, expiry, failed-job list | used by the parts above and below |
| Knowledge base (`knowledge-base/`), its page (`bridge/.../settings/ai-assistant`) | sources, chunks, the phase and progress of a run in `AppConfig`; the phase the page shows | scan, confirm, embed, cancel, crawl, manual page, reindex, delete, wipe; loads and polls | a phase has its worker and ends; sources that are ready have chunks; the page sees the end |
| Ticket pages (`bridge/.../tickets/[id]`, `portal/.../tickets/[id]`) | a copy of the ticket, a composer with text and files, requests on their way | poll, event, send, upload, set status, tags, convert, reopen | the copy catches up, each message once; a reply is not sent twice |
| Lists (`bridge/.../inbox`, `.../domain/[domain]`, `portal/.../tickets`) | rows, filter, offset | load, background refresh, scroll, filter | the list catches up and never shows a ticket twice |
| Shell of the bridge (`bridge/lib`, sidebar, notifications) | the event stream, the archive card, the badge, the panel | connect with a single-use ticket, retry, poll, mark read | one stream per session; badge and card catch up |
| Customers' accounts (`auth/`, `portal/lib/auth.tsx` and its pages) | `User`, `MagicToken`, used handoffs; sessions in localStorage and in tabs | sign-up, sign-in, Google, handoff, guest, verify, reset | links work once; tabs agree; handoffs end |
| Form for a ticket (`portal/app/submit`), files (`files/`) | the fields, files and link; uploads; the ticket made of them | add, remove, submit, retry | what was attached arrives, one ticket per submission |
| Agents (`agents/`, `auth/`), their pages | `Agent` rows, invitation tokens, the fallback agent; the guard of each call | invite, accept, sign in, promote, deactivate, remove | who was deactivated stays out; the link mailed last works |
| Settings (`config/`, `bridge/.../settings`) | the row of `AppConfig`; each admin's copy in a form | load, edit, save, toggle, generate and clear a secret | shown as stored; option keys outlive renamings |
| GitHub link (`github/`, `bridge/.../settings/github`) | account, repository, secret; issue, version and attention flag of a ticket | connect, create, link, read, acknowledge, webhook events | a link follows its issue; a change waits for a reader |
| Mail account (`email-oauth/`, `bridge/.../settings/email`) | encrypted tokens, the refresh in flight; what each tab shows | connect, disconnect, refresh | the access token is the connected mailbox's; the badge tells the truth |
| AI workers (`ai/`), survey (`analytics/rating.controller.ts`) | sentiment and topic rows, counters, survey marker, rating, the features that are off | analyze, classify, request-csat, submit | analysis once, an agent's priority stands, counters equal to what is classified, one survey, one rating |
| Shift routing (`bot/shift-resolver.service.ts`, `shifts/`) | shifts, lastAssignedAt | resolve the agent of an escalation | the agent on duty, round robin |
| Plain records: customers, organisations, tags, canned responses, customer metadata, analytics | a row each, or none | create, read, update, delete | nothing interleaves |

### 1.2 How they interact

* The HTTP handlers, the workers and the cron run in one Node process; a
  handler is interrupted at every `await`. There are no locks. Only the
  transactions of Prisma and the unique keys of `Message.messageId`,
  `Message.externalMessageId` and `Ticket.externalThreadId` order the writers.
* `TicketsService.create` and `convert` call `activateTicket`, which queues the
  confirmation and the bot's job without awaiting them.
* `MessagesService.create` moves the ticket (`applyReplyTransition`), queues the
  mail of the reply and, for an answer to the bot, fires `escalateToHuman`.
* The poller queues one ingestion per changed thread, the archive ingests
  threads itself; both end in `fetchAndUpsertThread`, which moves the ticket and
  may fire `escalateToHuman`.
* The senders of mail write what they learn from Gmail to the ticket and to the
  messages; the ingestion reads exactly those columns to recognise the thread
  and the sent copies.
* Whoever stores a customer's message queues its analysis, and a conversion those
  of all messages before it; a PATCH that resolves queues the classification at
  once and the survey for later. The rating form posts without a session.
* The pages read rows over HTTP and keep copies in React state. The API
  broadcasts events over SSE, best effort; a page that hears one reads again, and
  most pages poll as well. Nothing but the last answer to arrive decides what a
  page shows.
* The workers of the knowledge base learn of a cancel by reading the phase
  between two pages; the page of the assistant learns of their end by polling it.
* Everybody who reads or sends mail asks `TokenRefresher` for an access token;
  callers that come while a refresh runs share it.

### 1.3 What is hard

* Read, await, write: nearly every handler decides on a row it read before its
  transaction, so the hazard of this code is the stale decision.
* Work in several external and database calls without an outbox: an answer is
  posted, then mailed, then audited; a mail is sent, then recorded.
* Retries of pg-boss after an error, and after the expiry of a dead process's
  job, start the handler from its beginning; retries by a person whose page
  shows an error do the same.
* Several importers of one inbox, a checkpoint, a page token and a status that
  handlers, loop and restart all write.
* Answers that overtake each other on their way to a page; effects of React that
  run again, or are cut off, because another tab changed the session.

The complete list of the hazards, each at its line and with the properties that
answer it, is `hazards` in `PROJECT.json`. Hazards of the parts that are not
modelled are in section 7.

## 2. Modules

| Module | What it is |
|---|---|
| `TicketLifecycle` | one ticket: HTTP handlers, ingestion, escalation, bot worker |
| `TicketPromise` | abstract: what the lifecycle promises to its readers |
| `TicketHeard` | two history variables over `TicketLifecycle`: is the customer heard |
| `TicketLifecycle_proofs` | theorems about `TicketLifecycle` and `TicketHeard`, with their proofs |
| `MailSync` | poller, ingest worker, archive loop, the handlers of the archive |
| `MailSync_proofs` | theorems about `MailSync`, with their proofs |
| `SyncClaims` | what a comment says of the archive and the code does not keep |
| `EmailDelivery` | the three senders of a ticket's mail, the customer, the ingestion |
| `EmailDelivery_proofs` | theorems about `EmailDelivery`, with their proofs |
| `KnowledgeBase` | scan, embed, crawl and index workers, the handlers of the index |
| `AssistantPage` | composes the page of the assistant with `KnowledgeBase` |
| `AssistantPage_proofs` | theorems about the two, with their proofs |
| `Orders` | lists made of a set, ascending or by a key |
| `Scenario` | the choice of a behaviour's story, see section 3 |
| `TicketPage`, `TicketList`, `AgentShell` | the browsers of customer and agent |
| `AgentDesk` | composes the three |
| `AgentDesk_proofs` | theorems about the three, with their proofs |
| `Accounts`, `PortalDoor` | a customer's account, and the tabs that use it |
| `TicketForm` | the form for a new ticket with its uploads |
| `FrontDoor` | composes the portal's side before there is a ticket |
| `FrontDoor_proofs` | theorems about `Accounts`, `PortalDoor` and `TicketForm`, with their proofs |
| `AgentAccess`, `SettingsForms`, `GithubLink`, `MailAccount` | what admins do |
| `AdminDesk` | composes the four |
| `AdminDesk_proofs` | theorems about the four, with their proofs |
| `TicketJobs` | what the AI workers have in common: bags of jobs, retries, features |
| `MessageAnalysis`, `ClosingSurvey` | what is made of messages, and of resolutions |
| `TicketInsight` | composes the two |
| `TicketInsight_proofs` | theorems about `TicketInsight`, with their proofs |
| `MC*` | the scenarios and symmetries TLC uses; one per run's specification |

The components share one convention: **an action is what the code does between
two awaits**. A handler is a record with a program counter and the values it has
read; the write that follows uses those values wherever the code does. A request
of a page has its steps at the API and a step of its own when the answer
arrives. Operators that begin with "Mutant" in their comment are not part of any
specification: each is a plausible bug, used to test that a property can fail.

### 2.1 TicketLifecycle

`ticket` is the row of `Ticket` reduced to status, isTicket, assignee, whether
dismissedAt is set, reopenedCount and firstResolvedAt (the request that stamped
it stands for the time). `req[r]` is the handler of request `r`, a call of the
API or the ingestion of a thread; `job[r]` the bot's job that `r` queued; `bot`
the worker; `answers` and `interactions` count the posted answers and the
`BotInteraction` rows.

* `ReplyMove`, `ApplyReplyTransition`: `tickets/util/apply-reply-transition.ts`.
* `CreateTicket`, `PatchTicket`, `ConvertTicket`, `DiscardTicket`,
  `ActivateTicket`, `ActivationLost`: `tickets/tickets.service.ts`.
* `CheckBotAnswer`, `StoreReply`, `Escalate`: `messages/messages.service.ts`.
* `Ingest*`, `AfterIngest`, `RetryIngest`: `email-sync/thread-ingestion.service.ts`.
  The transaction of an ingestion is two steps where READ COMMITTED lets others
  write between its read and its write, and one step from its first write on,
  because that write locks the row.
* `Bot*`: `bot/bot.service.ts`, `respondTo`, a step per call awaited. Retrieval,
  generation and the confidence gates are one choice: `BotPost` or
  `BotGateFails`; a transient error is `BotRetry`, any other `BotGiveUp`.
* `Crash`: all handlers are gone; pg-boss gives the ingestions and the active
  bot job back, unless its retries are used up.

The documented status machine lives in `Init` and `ReplyMove`; what agents
write with PATCH is unrestricted, as in the code.

`TicketPromise` has three variables and four actions: a conversation may become
a ticket and never turns back, the bot gives one verdict, on tickets only, and
a resolution is never forgotten. `ImplementsPromise` maps a ticket to it.

### 2.2 MailSync

The inbox is a sequence, a mail is its position and belongs to a thread; a
historyId or delta link is the number of mails it has seen. `cfg` is the status,
page token and checkpoint of `AppConfig`. `jobs[t]` is the ingestion job of
thread `t` (there is one at most because of its singleton key), `worker`,
`poll[p]`, `loop` and `ctl` are the actors' program counters and reads.

* `Poll*`: `live-poller.service.ts` and the two providers, one action per call;
  `PollRecover` is the fallback of an expired checkpoint, `PollProfile` the
  separate call for the current historyId.
* `Ingest*`: `workers/ingest-thread.worker.ts` and the read and insert of
  `fetchAndUpsertThread`, with the conflict on the unique key.
* `Archive*`: `runBackgroundArchive`, with its status check before each page,
  `setInitialCheckpoint` at the end, the catch and the finally.
* `Reset`, `Run`, `Resume`, `Cancel`, `StartArchive`, `StartProfile`,
  `StartMark`, `Launch`: the handlers and `startForeground`.
* `Crash`: `onApplicationBootstrap` resumes a RUNNING archive.

`causes` is a history variable. Wherever the code lets the checkpoint pass over
a mail, the action that does so notes why: the fetch of its thread failed
(`fetch`, logged and swallowed), its enqueue was dropped by the singleton key
(`collapsed`), it came between two calls of a poll (`gap`), it was older than
the recovery window (`aged`), its job was dead-lettered (`dead`), it came during
an archive (`post`), or it is left to the archive (`archive`). `LossHasCause`
says that this list is complete.

### 2.3 EmailDelivery

A mail is its position on the `wire`, which also is the Message-ID Gmail gives
it; a thread is the mail that opened it. `rows` are the messages with their kind,
watermark (`customerEmailedAt`) and stored Message-ID; `markers` the
`confirmation_sent` rows; `copies`, `strays` and `split` what the ingestion made
of sent mails and threads; `sender[s]` one of three senders with what it has
read.

* `Activate`, `Post`, `BotPost`: who writes messages and queues mails.
* `Take`, `Load`, `Send`, `SendFails`, `Stamp`, `Mark`, `Record`, `Complete`:
  `workers/send-confirmation.worker.ts`, `workers/send-reply.worker.ts`, the
  mail of `respondTo`, and `email.service.ts`. `Steps` gives the order of the
  calls of each of them, which differs.
* `CallFails`, `Crash`: a database call throws, the process dies.
* `Answer`, `Owners`, `Ingest`: the customer answers; the thread of the mail is
  attributed by externalThreadId, else by the Message-IDs it cites.

### 2.4 KnowledgeBase and AssistantPage

`source[p]` is the row of a page's `KnowledgeSource` with its chunks, and
whether the site still has the version that was fetched; `state` is the phase and
the crawl status of `AppConfig`; `quoted` the pages the estimate on the confirm
screen counts. `queue` holds the jobs of the four queues by how often they were
tried, `task` the pages in work on each way, `worker` the crawling workers,
`embed` the embedding one, `handler` the cancel or wipe in progress.

* `Start`, `ConfirmEmbed`, `CancelCrawl`, `CancelScan*`, `Wipe*`,
  `DeleteSource`, `ReindexSource`, `AddManual`, `Manual*`:
  `knowledge-base/knowledge-base.controller.ts`. A cancel and a wipe are several
  writes, each an action, because the workers run between them.
* `TakeCrawl`, `Visit`, `ReportScan`, `EndCrawl`, `CrawlFails`, `TakeReindex`,
  `TakeEmbed`, `ListScanned`, `NextSource`, `EmbedThrows`:
  `workers/crawl-and-index.worker.ts`.
* `Upserted`, `Fetch`, `StoreScanned`, `StoreIndexed`, `ReadChunks`,
  `WriteChunks`, `MarkIndexed`: `indexer.service.ts`.
* `Crash`: active jobs come back until their retries are used up.

`AssistantPage` adds what the page shows and what is on its way to it: a button
can be pressed only in the phase *shown* (`Offers`), which is what makes a press
late.

### 2.5 TicketPage, TicketList, AgentShell: the browsers

`TicketPage` has the rows of one ticket (a log of messages, status, tags,
participants), `upload`, what each page shows (`view`), the composers (`draft`)
and the requests on their way (`calls`). `Serve` is the API's part of a request,
`Arrive` the page's, so that reads, sends and patches overtake each other;
`Fails` and `Loses` are a request that does nothing and an answer that is lost.
`TicketList` has the rows of the tickets, the inbox with its offset and filter,
and a list that is replaced as a whole. `AgentShell` has one connect chain per
session (`stream`), the poll loops of the archive card (`chain`) with the one
timer that can be cleared, the events on their way, the badge and the panel.
`AgentDesk` runs them side by side.

### 2.6 Accounts, PortalDoor, TicketForm: the portal's door

`Accounts` has the `User` row of one address, the links mailed to it, the fate of
each link's mail, the handoff's jti and one call per tab, which walks from "sent"
over "looked" to its answer: between the look and the write other tabs write.
`PortalDoor` adds what each tab shows and the session in the localStorage of each
browser: the provider's load and its storage listener (`Load`, `Rehydrate`,
`Told`), the forms, and the effects of the handoff and link pages (`RunEffect`,
`TimesOut`). `TicketForm` is the form: `Ahead` gives the next call, `Continues`
what an answer changes, `Now` what is read at which moment: the files at the
press, the description after the uploads. `FrontDoor` composes them.

### 2.7 AgentAccess, SettingsForms, GithubLink, MailAccount: the admins

`AgentAccess` has the rows of the agents, the invitations mailed and the calls of
each browser; each call passes `Guard` first and acts later, as a guard and a
handler do. `SettingsForms` has the row of the settings and each admin's copy of
it with the keys the page holds locked; `Bucket`, `Colourful`, `Suggested` and
`Slug` translate the arithmetic of the colours and of the keys. `GithubLink` has
each issue's version at GitHub, the link with the version it last took over, the
attention flag, and the webhook calls on their way. `MailAccount` has the columns
of the account, who waits for a token, the one refresh that holds the lock, and
what each tab has cached. `AdminDesk` composes them.

### 2.8 MessageAnalysis, ClosingSurvey, TicketInsight: the workers behind the desk

A queue is a bag of jobs, each about a message or a ticket with the number of its
tries (`TicketJobs`): nothing but the worker keeps two jobs about the same thing
apart. `msg[m]` is a message with the handler that stores it; `analyser`,
`classifier` and `surveyor` are the workers with what they have read.

* `Reads`, `Stores`, `Announces`, `AnnounceFails`: `messages/messages.service.ts`
  and `email-sync/thread-ingestion.service.ts`, which store a message and queue
  its analysis if the ticket was a real one when they read it. In the story
  `thread` both messages are stored by one ingestion, and the newest alone is
  queued.
* `StartsConvert`, `Converts`, `Backfills`, `Chooses`: `tickets/tickets.service.ts`.
* `Looks`, `Judges`, `Records`, `GivesUp`, `AttemptFails`:
  `ai/workers/analyze-message.worker.ts`, `ai/gemini.service.ts`.
* `ReadsToClose`, `Resolves`, `Enqueues`, `Reopens`: the PATCH that resolves and the
  reply that reopens.
* `ReadsTopic`, `Names`, `Counted`, `Files`, `FilingFails`:
  `ai/workers/classify-ticket.worker.ts`. Its `previous` topic is read before the
  call of the model; one worker at a time is what makes that safe (`TopicInv`).
* `Checks`, `Mails`, `MailSwallowed`, `Marks`, `SurveyFails`:
  `ai/workers/request-csat.worker.ts`, `email.service.ts`. The marker is written
  behind the mail; the status of the ticket is not looked at again.
* `Posts`, `Accepts`, `Rates`: `analytics/rating.controller.ts`.
* `Dies`: every handler is gone, a job in hand has another try or none;
  `Switches`: the features and the maintenance that suppress them all.

The `excuses` of a message and of a survey are history: why nobody will analyse it
or mail it. They are set where the cause happens, never where the property looks.
Only live mails are modelled: the archive queues no analysis. The tickets of
`ClosingSurvey` are real ones, and the sending of its mail is `sendRaw` alone.

### 2.9 Boundaries between the modules

What an ingested thread does to the status is TicketLifecycle's; that it is
stored once is MailSync's; to which ticket it belongs is EmailDelivery's. Each
takes the other two as a free choice, so that none of them assumes what another
shows. The modules of the browsers take what others do to their rows as a free
choice in the same way: `MailArrives`, `Change`, `ArchiveMoves`.

TicketHeard looks at the actions of TicketLifecycle and no action of
TicketLifecycle looks at it. `unread` says that the customer wrote last and no
agent has written or decided since; `excuses` has the reasons for which the code may
leave the ticket where nobody looks: those of the write that stored the customer's
last message (`WrittenBlind`), and of the steps that passed over it since
(`Overtaken`).

## 3. What the runs check

| Run | Instance | Shows |
|---|---|---|
| `ticket_desk` | four calls of opening, conversion, dismissal, reply, resolution by an owner and mails, one retry, one fault | types; a RESOLVED ticket is stamped; reopenings never exceed the customer's messages; an escalation never touches an assigned ticket; refinement of `TicketPromise` |
| `ticket_settles` | three calls around the bot and a writing customer, one retry, one crash; fair | `UnheardHasCause`; one verdict; a second answer only after a retry; every queued bot job leads to a verdict, is suppressed, or was cut off by the crash in its last attempt |
| `sync_both` | one thread, two mails, the cron poller, the worker and the archive with resets, no fault | types; `LossHasCause` with two importers |
| `sync_archive` | two threads, two mails, all controls, two faults | `DoneMeansImported`; `LoopLostHasCause` |
| `sync_settles` | two threads, two mails, a cron and a manual poll, one fault; fair | every mail of a connected inbox is stored or has a cause |
| `mail_sends` | the confirmation and one message of any kind or a note, an answer, two faults; fair | types; no Gmail thread belongs to two conversations; a watermark means mailed, notes never leave; a recorded confirmation is not repeated; duplicates without failures have the ingestion race as their only reason; a queued reply of an agent is mailed or dead-lettered |
| `assistant_page` | one page of the help centre, eight stories; fair | types; a phase that shows work has a worker, and only a wipe separates a ready source from its chunks; scans and embeddings end; the page sees the end |
| `agent_desk` | nineteen stories of ticket page, inbox, lists and shell; fair | types; a reply is stored once unless an answer was lost; one stream; pages, inbox, badge and card catch up |
| `front_door` | eight stories of three tabs in two browsers, or of the form; fair | types; a link used twice, a ticket or a file too many or too few has its named cause; tabs agree; handoffs end |
| `admin_desk` | twenty-one stories of one to three people | types; access is what was decided last; switches show what is stored; option keys are not lost; links follow their issues and changes wait for a reader; the token is the connected mailbox's, and a tab shows its own change; each but for named causes |
| `ticket_insight` | eight stories of two messages, two tickets and topics, two submissions, two faults; fair | a message is analysed once, on a real ticket, and an agent's priority stands but for one race; the counters are what they count; one survey, one rating, but for named causes; analyses and surveys happen or have an excuse |
| `claim_cancel` | one archive, reset and cancel | a comment refuted, see section 6 |

**Stories.** The parts a composition puts side by side do not act on each other
within the instance, so their states would only multiply. `Scenario` has one
variable, chosen at the start: the events that may happen in this behaviour. A
story is a question ("two tabs, a Google sign-in and a sign-out"), the stories of
an MC module are all its initial states, and every action fires in some of them.

**Why the bounds are enough.** Each property relates one ticket (or one mail,
one archive, one page, one row of settings) to the few actors that may write it
at once. Two requests already give every race between a stale read and a write;
the third and fourth let a race be followed by the reply or resolution that
reveals it. One retry is enough to start a handler again; the theorems hold for
any number. Two mails on two threads let one be listed and the other arrive
later; two faults allow a failure in the recovery of another. Batches of one
ingestion have at most two messages: the loop over them carries one status
along, and two messages already reach every pair of transitions. A page of the
list has two rows of three tickets, so that an offset can pass over one. Three
tabs are two of one browser, which share a storage, and one of another, which
does not. Two requests of a page on their way can overtake each other, three let
a send meet a poll and an event. Symmetry is used only in runs without liveness
and only over sets no property tells apart.

**Deadlock.** Requests, mails, stories and messages are used up in a bounded
behaviour; the system may then stop, so the runs do not ask for absence of
deadlock.

**Fairness.** The fair specifications assume that a handler that has started runs
on (the event loop), that pg-boss hands out queued jobs, that the cron ticks,
that the intervals and timers of an open, visible page fire, and that a request
is answered or fails. Nothing obliges customers, agents or admins to act, calls
to fail, or the process to die; where a page waits for a call that never returns
(`Hangs`), only the page's own timer ends it. One strong fairness is used,
`SF_listVars(Scroll)`: the observer at the end of the inbox's rows reports again
after each load while the end is in view. In `ticket_settles` a job whose last
attempt is cut short by a crash is dead-lettered without a verdict, and a lost
enqueue has no job at all; the property names the first and does not speak of
the second.

## 4. What is proved

In `TicketLifecycle_proofs`, for any sets of requests and agents, any calls, any
retry limit and any bound on faults. The assumptions are the ones of the
module: the retry limit is at least one, and `None` is neither a request nor an
agent.

| Theorem | Property | Argument |
|---|---|---|
| `TypeCorrect` | `TypeOK` | inductive as it stands |
| `ResolvedStamped` | `ResolvedIsStamped` | `StampInv`: PATCH does not look at the row it writes but at its snapshot, so the invariant must say of every snapshot in flight that whoever read RESOLVED or a stamp knows the row to be stamped; `RowGrows` shows a stamp is never cleared |
| `OneVerdictEver` | `OneVerdict` | `BotInv`: while the worker is busy there is no verdict and one job is active, and a job is queued by the last step of its request |
| `AnswerTwiceNeedsRetry` | `SecondAnswerNeedsRetry` | the last conjunct of `BotInv`: until a job is tried again, an answer is followed by its verdict before the worker is idle; a crash of the busy worker always leaves a tried or failed job |
| `ReopensCounted` | `ReopensAreReplies` | `ReopenInv`: a request moves the status only while none of its messages is stored and stores them in the same transaction, and only an ingestion is taken up again; so each reopening can be counted against a stored message |
| `CustomerHeard` | `UnheardHasCause` | `HeardInv`, see below |
| `OwnerKept` | `EscalationKeepsOwner` | `EscalateFrame` for the conditional update, and `OnlyPatchReassigns` over all actions |
| `PromiseKept` | `ImplementsPromise` | `StageInv`: bot jobs exist only on tickets; with `RowGrows` and `OnlyPatchStamps` every step is a step of the promise or a stutter |

Lemmas about the operators (`ReplyMoveRange`, `TransitionFrame`,
`TransitionAllFrame`, `EscalateFrame`) say what a transition and an escalation
may touch of the row; the proofs of the invariants cite them instead of
expanding the operators.

`CustomerHeard` is about the watched lifecycle; `HeardImplementsSpec` carries over
what is proved of the lifecycle. `SeenInv` says what handlers have seen: whoever found a
row works on a ticket that still is there, and a reply that is not written yet is
not stored. `HeardInv` is the property with the
handlers that are about to escalate taken in; `BatchHeard` and `StoredIsHeard` show
that a write from a snapshot that is still true leaves the ticket where agents look,
`QuietStep` that no other step but the excused ones hides it. The proof
fails without the excuse of a dismissal during a conversion, a race of three
requests that is easily left out of an instance.

In `MailSync_proofs`, for any threads, polls, provider and controls, any retry
limit and any bounds on mails and faults. The assumptions are again the ones of
the module: the bounds are natural numbers.

| Theorem | Property | Argument |
|---|---|---|
| `TypeCorrect` | `TypeOK` | `TypeInv`: the mails in hand and the mails a checkpoint counts, wherever it is on its way, are mails of the inbox (`Bounds`), and the active job is the one the worker has (`JobInv`), without which a failing job could be nobody's |
| `NoLossWithoutCause` | `LossHasCause` | `CoverInv`: the checkpoint a poll is about to write is covered already, by stored mails, jobs, causes, or the threads it still has to queue; `AccountedStays` shows that no step of anybody takes back what accounts for a mail, so the polls do not need to know of each other |
| `DoneImports` | `DoneMeansImported` | `ImportInv`: behind every page token, the saved one and the loop's, all mails are imported but those of threads still to be listed; while a page is in hand its mails are among the fetched ones. A resume, a restart or a cancel keeps a token or drops it, and both keep the invariant |
| `LoopIsNotLost` | `LoopLostHasCause` | An action property that needs only the types: a step of the loop that leaves with the row at RUNNING was leaving before (`LoopAbandonsNothing`), a handler leaves its caller waiting for nothing but the loop (`HandlersAbandonNothing`), polls and worker touch neither (`PollsAbandonNothing`), and a crash begins a RUNNING archive anew |

`Frames` and `Causing` say once what the steps of each actor leave alone and that
causes are only ever added; the proofs cite them instead of the actions.

In `EmailDelivery_proofs`, for any messages and kinds, both switches, any retry
limit and any bounds on answers and faults.

| Theorem | Property | Argument |
|---|---|---|
| `TypeCorrect` | `TypeOK` | `BaseInv` adds `WorkInv`: jobs exist only for rows that are mailed, a sender holds such a row and is on the path of its kind, and behind the send the mail it remembers is on the wire |
| `ThreadStaysOne` | `ThreadNotShared` | inductive over `BaseInv`: `Stamp` and `Ingest` are the only writers of the two sides, and each looks at the other's |
| `RowsMatchWire` | `WireMatchesRows` | `KnownInv`: what a sender quotes or has mailed is a written row and no note; kinds are written once (`RowsStep`), and `Mark` comes behind the send |
| `ConfirmedOnce` | `ConfirmationStaysSent` | `MarkedInv`: once there is a marker the worker is not before its send; only its own `Record` adds one |
| `RepeatsHaveCopies` | `DuplicateNeedsCopy` | `CalmInv`, which holds until the first fault: the item of a mail that is not excused is neither queued nor held by a sender before its send. To show that a refused `Stamp` or `Record` is excused, a sender must know the Message-ID of the *last* mail of its item (`LatestInv`), and the stored ones must be those of other mails (`IdsInv`, `UnrecordedInv`) |

`SenderStep`, `JobsStep`, `RowsStep`, `IdsStep` and `WireStep` say once what a step
may do to a sender, a job, a row and the wire; the proofs cite them instead of the
actions.

In `TicketInsight_proofs`, for any messages, tickets, topics, agents, submissions,
ratings other than zero, retry limits and bounds; of the tickets it is assumed that
they are finitely many, as rows of a table are, because their number is counted.

| Theorem | Property | Argument |
|---|---|---|
| `InsightTyped` | the types of both parts | inductive as it stands; `AboutAdded`, `AboutRemoved` and `AboutRetried` say of the bags that every job is about a message, or a ticket, whatever is queued, taken or tried again |
| `AnalysisIsHonest` | `AnalysisHonest` | `AnalysisInv`: the message in the worker's hand is not analysed yet and its ticket is a real one, and a choice made since the priority was read is marked as crossed; `UnjudgedKept` covers the steps that do not judge |
| `CountersAreRight` | `CountersMatch` | `TopicInv`: until it is filed, the topic the worker has read is the ticket's; `FilesCounts` compares the sets of tickets before and after with the facts about cardinalities |
| `SurveyIsHonest` | `SurveyHonest` | `MailInv`: without a marker every mail but the one of the attempt at work is of an attempt that ended too early; `RateInv`: unless two were checked at once, an accepted submission is alone and nothing was rated before it. They are kept apart by `SameMails` and `SameRates` |

`CountersAreRight` rests on the one worker with one job in hand; `TopicInv` fails
with two.

In `AssistantPage_proofs`, for any pages, stories and bounds; the queues' names are
assumed to be no pages.

| Theorem | Property | Argument |
|---|---|---|
| `PhaseIsBacked` | `PhaseIsHonest` | `BusyInv` strengthens "somebody is at it": a job of the phase waits, or is at work and has not seen a cancel, *and has died at most as often as the process has*. Without that count the crash is not covered: the job it cuts off must have a try left. A cancel that a worker has seen may outlive its phase, so a worker that has seen one does not count. `ReadyInv` adds the list of the embedding worker: its sources have chunks although a page on it may be scanned again meanwhile, and the page in its hand is on the list or is gone |
| `AssistantIsTyped` | `TypeOK` | `KbShape`: of the queues, that no job was tried more often than its queue allows, which `TakenOut` and `Requeued` say of a job taken from the middle and put back at the end |

`WorkKept`, `CrawlerKept` and `EmbedderKept` say what a step of a page, of a crawling
worker and of the embedding worker must leave alone; every action is shown to be
one of them.

In `AgentDesk_proofs`, for any files, people, tickets and notices (finitely many of the
latter two), sessions and bounds.

| Theorem | Property | Argument |
|---|---|---|
| `StreamIsOne` | `OneStream` | `StreamInv`: the present session is the last that began, and one that is over is at most waiting for its ticket |
| `RepliesAreSentOnce` | `SentOnce` | `ComposerInv`: while a reply is on its way its text is in the composer and the button is disabled, and no other request carries one; `CreditInv` counts replies on the ticket *and the text that waits* against the texts written and the answers lost |
| `DeskIsTyped` | `TypeOK` | `PageInv`: an answer on its way tells of messages the ticket has, and the ticket only grows (`Truthful`, `ViewsStay`). `ListInv`: every row that is shown or on its way is one the ticket had, and two rows of the same moment are of one ticket (`Held`, `Dated`), so that a merge by moment puts no ticket twice. `ShellInv`: the panel lists only notices that were made, and what was read was made, so that the badge's count of the rest stays between none and all |

In `FrontDoor_proofs`, for any tabs (finitely many), links, files and bounds. It is
also assumed that a story of the door begins on one page which no mailed link opens:
a link is mailed by a press, never there at the start.

| Theorem | Property | Argument |
|---|---|---|
| `DoorIsOnce` | `OnceOrCaused` | `LinkUse`: the uses of a link and the calls that have found it valid and not yet marked it, counted together, are one unless two calls found it at once. `FormCounts` and `FormClaims`: a ticket is confirmed, owed to the attempt on its way, or there is a failure for it; a paper is still to upload or among the rows the handler holds, and those are nobody's until the ticket is made |
| `FrontIsTyped` | `FrontTypeOK` | `DoorInv` and `FormInv`; that the links stay in bound needs the calls that may still mail one to be counted (`RoomLeft`) |

In `AdminDesk_proofs`, for any admins, agents, issues, tickets, mailboxes, tabs,
options and bounds; there is at least one ticket and one mailbox, and the labels that
may be typed include the empty one and the one a new form has.

| Theorem | Property | Argument |
|---|---|---|
| `DeskFollowsGithub` | `IssuesHonest` | `LinkInv`: of an issue nothing was missed of, the last announcement is on its way or every link has it; and one that has found its row is all the other links do not lack. Versions only grow, and what a link writes was read at GitHub before |
| `MailboxIsShown` | `MailboxHonest` | `TokensInv`: what a reader has read is of the account that is there, or of an older one (`epoch`). `ShowsInv`: a tab with no reason to be wrong shows the mailbox, or waits for the *latest* of its requests, and that one has not been answered with anything else; requests are numbered for it (`NumbersInv`) |
| `DeskIsGuarded` | `AccessHonest` | `AccessKinds`: an acceptance that has found its row has found it active; the rest is inductive as it stands |
| `SwitchesAreShown` | `SwitchesAreHonest` | `Alone`: which calls an admin can have on their way at once; `Speaks`: what is about to be shown is stored, what is about to be stored is shown, but for what is odd |
| `KeysAreKept` | `KeyLossHasCause` | `Accounts`: a key that is sent as stored has a full option that is sent too, or was given up; `KeptIs` says which options the filter keeps |
| `DeskIsTyped` | `AdminTypeOK` | the kinds of the four parts, from the same invariants |

`KeptIs` is about a recursive function. Its proof is by induction over the length of
the list; `EveryNumber` derives it from the well-foundedness of the natural numbers in
the form for *sets*, because the theorems of the library that take a predicate as a
parameter cannot be instantiated here.

**What the proofs corrected.** Most of the invariants above failed in their first form,
and four of the failures were in the model or in what a property said. Settings that
arrive after a save was pressed replace the form, and the keys that were sent are no
longer on it: `KeyLossHasCause` lacked that cause, and TLC had no story in which it
matters (`forms` with `options` and `identity` was added). A pending deletion can name an option
that is no longer there (`Drops`). Two arms of the case distinction for a failing call
overlapped (`FailSettings`). A hand-written story of the door could have begun on a page
only a link opens (`StoryAssumption`).

**Only model-checked.** Liveness, and what fairness or ENABLED would be needed for: out
of the prover's reach. Every invariant and every action property of a passing run is
the property of a theorem.

## 5. Assumptions

* One API process, as deployed; pg-boss gives a job to one worker at a time, and
  no handler outlives the expiration of its job. A queue of the AI workers has one
  worker that takes one job at a time, the default of the library that `work` uses.
* READ COMMITTED. A Prisma `update` of listed columns overwrites them and leaves
  the others alone.
* Gmail keeps the order of a thread's mails, and a threadId names one thread.
* The delta of Microsoft Graph and the history of Gmail list every thread with a
  mail after the checkpoint, unless the checkpoint has expired.
* The pages stay open and visible while they are looked at, and a request over
  HTTP is answered in a finite time or fails, unless a story says otherwise.
* Parts that only share a browser do not act on each other but through the calls
  and events that are modelled; the stories of section 3 rest on it.

## 6. Where the documentation and the code differ

One claim is refuted by a run, a trace of the model's actions:

* `claim_cancel`: "CANCELLED is intentional"
  (`email-sync/email-sync-backfill.service.ts:40`), and the loop checks for it
  between pages (`docs/atlas/email.md:90`). A cancel during a page is overwritten
  by the RUNNING the page is saved with (152).

The models show more; the properties of the passing runs name most of them as a
cause. Tickets, bot and mail:

* "retries/reopens never produce a second bot reply"
  (`docs/atlas/ticket-lifecycle.md:77`): a transient error of the mail after the
  answer is posted leaves no `BotInteraction` row, and the retry posts it again.
* A conversion racing a dismissal leaves a ticket DISMISSED
  (`tickets/tickets.service.ts:329`, against `ticket-lifecycle.md:12`); two
  resolutions at once both stamp firstResolvedAt (288).
* What a customer writes is hidden from the agents in seven ways
  (`UnheardHasCause`): the reply read the ticket before its resolution
  (`messages/messages.service.ts:129`), or an ingestion looked at the status a
  second time and for DISMISSED only (`thread-ingestion.service.ts:349`); the bot
  sets WAITING on whatever the ticket is by then (`bot/bot.service.ts:208`); a
  reply to the bot skips the transition and the escalation leaves an assigned
  ticket alone (330); the process dies before the escalation; a reply to a
  conversation that has a ticket's status moves nothing; a reply in the portal does
  not revive a conversation that was dismissed while it became a ticket; the archive
  imports it.
* Mail that arrives during an archive is not picked up after it
  (`docs/atlas/email.md:394`): the archive moves the checkpoint again when it
  ends, past the mails on threads it had already listed.
* A failed fetch of a thread completes its job (`thread-ingestion.service.ts:79`);
  the singleton key drops the job of a mail that arrives while the active job of
  its thread has fetched already (`queue/queue.service.ts:250`).
* Resume, run and resync start nothing while the old loop is leaving
  (`email-sync-backfill.service.ts:104`); a Microsoft inbox never gets its first
  checkpoint (92).
* A permanent failure does not appear in the ticket (`docs/atlas/email.md:98`):
  the last attempt is never recognised, because the workers do not ask pg-boss
  for the retry count.
* The confirmation is sent again when its answer is lost or the process dies
  before the marker (`workers/send-confirmation.worker.ts:61`); a confirmation
  quotes a reply that was mailed after its history was read
  (`email/email.service.ts:480`); a reply loaded before the stamp opens a second
  Gmail thread (524); the bot's Message-ID is never stored
  (`bot/bot.service.ts:220`).

Knowledge base and its page:

* The shortcut for unchanged pages is never taken, because the upsert it reads
  has already reset the status (`indexer.service.ts:60`); a cancel after the last
  page is overwritten by the report of the scan (`crawl-and-index.worker.ts:186`);
  discarding a scan deletes sources that were indexed before and are only being
  scanned again (`knowledge-base.controller.ts:133`); the estimate quotes pages
  that are gone, or not yet counted, when it is confirmed.
* One failed poll ends the polling for good while the page goes on showing work
  (`bridge/.../settings/ai-assistant/page.tsx:136`); an enqueue that is lost
  leaves the phase busy without a worker.

Pages of tickets, lists and the shell:

* The bridge fills the people in copy once (`tickets/[id]/page.tsx:474`), and a
  reply deletes all others of the ticket (`messages.service.ts:103`), those that
  a mail added meanwhile too (against `docs/atlas/messages.md:170`).
* The portal shows its own reply twice when a poll brought it before the answer;
  its status is stale after the bot's silent WAITING; its "Reopen ticket" is
  always refused, because the route is guarded for agents.
* Ctrl+Enter and "Send & resolve" do not look whether a send is on its way, and
  the latter resolves though the send failed; what is typed or attached during a
  send is erased by its answer; tag sets of two agents overwrite each other.
* The observer at the end of the inbox is set up once and can be lost
  (`inbox/page.tsx:244`); a background refresh never removes rows; a late answer
  for another filter mixes with the rows; scrolling by offset skips tickets that
  moved. A second poll loop of the archive starts when `refresh()` comes during a
  request; the card keeps the old count after a reset (`Math.max`). "Mark all
  read" marks notifications the panel has not shown.

The portal's door:

* The effect of the verification page runs once, possibly before the provider has
  loaded the session, and then the banner stays; a link opened in another browser
  does not tell the first one (`docs/atlas/auth.md:67`); its late answer signs in
  again after a sign-out; an event of another tab during a handoff cuts its
  effect off, with its timer: the page waits for ever.
* `sendEmailVerification` and `sendPasswordReset` swallow their errors, so that
  the retries of their queues never happen; the page says "sent" all the same.
* A customer whose row was made by a mail or as a guest can neither sign up, nor
  sign in, nor reset a password. The handoff's jti is used up before the account
  is written: a failure in between burns the link.
* An upload that is refused is passed over in silence; a form sent again uploads
  again; a ticket whose activation fails is there, and the retry makes another;
  the description is read after the uploads, the title at the press.

The admins' pages:

* Inviting a deactivated agent again activates him with his old password; the
  mail says the link expires in seven days (`email/email.service.ts:636`), and
  nothing expires it; Google marks an invitation as accepted before it looks
  whether the agent is active. A deactivated fallback agent stays chosen.
* A save sends the whole form as it was loaded and overwrites what another admin
  saved; a branding page whose load failed offers the defaults for saving; a
  second switch thrown while one is on its way is shown and not sent; a secret is
  shown as cleared though the call failed. A suggested colour of a pure channel
  has seven digits, which the API refuses (`config/config.service.ts:31`). An
  option that is renamed during its first save gets another key, and a saved
  empty option freezes the empty key (`branding/page.tsx:269`, 646).
* An announcement signed with the secret before the last is refused and never
  repeated; two links to one issue: only one ticket hears of it. Two agents who
  create at once leave an issue at GitHub nobody is linked to. The secrets are
  stored as they are, where `docs/atlas/github.md:14` says encrypted, and the
  handoff carries no state (42).
* A refresh of the access token that is on its way when the mailbox is
  disconnected writes its token back (`token-refresher.ts:62`, against
  `docs/atlas/email.md:331`); a failed load of the configuration is kept, and the
  badge says "not connected" until something invalidates it.

The workers behind the desk:

* Of a thread that is ingested at once only the newest mail is analysed; a message
  that is stored while its conversation is converted can miss both its handler's
  enqueue and the conversion's; enqueues are not awaited, and their errors are
  dropped or logged. A job given up ends as if it were done: the comment "until a later edit"
  (`ai/workers/analyze-message.worker.ts:130`) has no code behind it.
* An analysis raises the priority from what it read before the model was asked,
  over the choice an agent made meanwhile.
* `sendRaw` swallows its errors, so that a survey that was not sent is recorded
  (`ai/workers/request-csat.worker.ts:68`); a process that dies between the mail and
  the marker mails it again; the survey goes out though the ticket was reopened
  before its half hour was over. Two submissions of the rating form both pass the check
  (`analytics/rating.controller.ts:48`), and the later overwrites the earlier.
* The topic counters move from a topic read before a model call of seconds
  (`ai/workers/classify-ticket.worker.ts:74`): right with one worker that takes one
  job at a time, as configured; a second one would let them drift.

## 7. Not modelled

* Retrieval, generation, chunking, embedding: pure or external; the bot's
  verdict is a free choice.
* Bounces, priorities, avatars, search, AI drafts, and the statistics of the
  console: no property tells them apart.
* What the model answers: a free choice. The page behind the survey's link, which
  the portal does not have; the model begins at the call the controller serves.
* Shift routing. Its hazards: an overnight window is matched with the day of the
  moment after midnight (`bot/shift-resolver.service.ts:34`); two escalations at
  once pick the same agent (58).
* Analytics and its charts: reads only. Customers, organisations, customer
  metadata, canned responses: single rows.
* Infrastructure, scripts and generated documentation.

## 8. Plan

1. **`ShiftRouting`**: pure: windows over the week against a reference
   definition, then round robin under two escalations.
2. The claims of section 6 that no property names yet.

