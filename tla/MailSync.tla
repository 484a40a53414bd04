------------------------------ MODULE MailSync ------------------------------
(***************************************************************************)
(* How the support inbox gets into the database.                           *)
(*                                                                         *)
(* Two importers work on one AppConfig row.  The live poller asks the      *)
(* provider what changed since a checkpoint, queues one durable            *)
(* email:ingest-thread job per changed thread and then moves the           *)
(* checkpoint; a worker fetches and stores the threads.  The archive loop  *)
(* pages through the whole inbox, storing threads itself, and persists a   *)
(* page token after each page.  Agents start, cancel, resume and reset the *)
(* archive meanwhile, and the process may die between any two awaits.      *)
(*                                                                         *)
(* The inbox is the sequence of its mails, a mail being the thread it      *)
(* belongs to; a historyId or a delta link is the number of mails it has   *)
(* seen.  What a stored thread does to its ticket is TicketLifecycle's.    *)
(***************************************************************************)
EXTENDS Integers, Sequences, FiniteSets

CONSTANTS
  Threads,     \* threads of the inbox
  NoThread,    \* no thread in hand
  MaxMails,    \* bound: mails that arrive in a behaviour
  Pollers,     \* polls that may be in flight at once
  Manual,      \* those of them started by POST /sync/poll/now, not by the cron
  Provider,    \* "GMAIL" or "GRAPH"
  Controls,    \* what agents do to the archive: a subset of AllControls
  MaxRetries,  \* retryLimit of the queue email:ingest-thread
  MaxFaults    \* bound: crashes, failed calls and expired checkpoints

AllControls == {"reset", "run", "resume", "cancel"}
Mails  == 1..MaxMails
Null   == -1                         \* no checkpoint
NoPage == [rest |-> {}, upto |-> 0]  \* no page token

ASSUME ThreadAssumption   == NoThread \notin Threads
ASSUME MailAssumption     == MaxMails \in Nat
ASSUME PollerAssumption   == Manual \subseteq Pollers
ASSUME ProviderAssumption == Provider \in {"GMAIL", "GRAPH"}
ASSUME ControlAssumption  == Controls \subseteq AllControls
ASSUME SyncRetries        == MaxRetries \in Nat
ASSUME SyncFaults         == MaxFaults \in Nat

VARIABLES
  inbox,    \* the provider's mailbox
  stored,   \* mails that are rows of Message
  cfg,      \* archiveStatus, archivePageToken and checkpoint of AppConfig
  jobs,     \* the ingestion job of each thread; singletonKey allows one
  worker,   \* the worker of email:ingest-thread, one job at a time
  poll,     \* the polls in flight
  loop,     \* runBackgroundArchive
  ctl,      \* the archive handler in flight; bound: one, besides cancel
  causes,   \* history: why a mail may be passed over by the checkpoint
  faults    \* crashes, failed calls and expired checkpoints so far

vars == <<inbox, stored, cfg, jobs, worker, poll, loop, ctl, causes, faults>>

NoWork == [pc |-> "idle", thread |-> NoThread, got |-> {}, known |-> {}]
NoPoll == [pc |-> "idle", cp |-> 0, found |-> {}, latest |-> 0]
NoLoop == [pc |-> "off", saw |-> "IDLE", token |-> NoPage, latest |-> 0,
           thread |-> NoThread, got |-> {}, known |-> {}]
NoCtl  == [pc |-> "idle", latest |-> 0]

\* The row of a fresh installation, and of an inbox whose import is done.
Init ==
  /\ inbox = <<>>
  /\ stored = {}
  /\ \E start \in {[status |-> "IDLE", checkpoint |-> Null],
                   [status |-> "DONE", checkpoint |-> 0]} :
       cfg = [status |-> start.status, token |-> NoPage,
              checkpoint |-> start.checkpoint]
  /\ jobs = [t \in Threads |-> [state |-> "none", tries |-> 0]]
  /\ worker = NoWork
  /\ poll = [p \in Pollers |-> NoPoll]
  /\ loop = NoLoop
  /\ ctl = NoCtl
  /\ causes = [i \in Mails |-> {}]
  /\ faults = 0

-----------------------------------------------------------------------------
(***************************************************************************)
(* The provider.                                                           *)
(***************************************************************************)
Size == Len(inbox)

MailsOf(t)   == {i \in 1..Size : inbox[i] = t}
After(n)     == {i \in 1..Size : i > n}
ThreadsOf(M) == {inbox[i] : i \in M}

\* The mails of M that are not stored have why as one of their causes.
Blame(M, why) ==
  causes' = [i \in Mails |-> IF i \in M \ stored THEN causes[i] \union {why}
                             ELSE causes[i]]

Fault ==
  /\ faults < MaxFaults
  /\ faults' = faults + 1

Arrive(t) ==
  /\ Size < MaxMails
  /\ inbox' = Append(inbox, t)
  /\ UNCHANGED <<stored, cfg, jobs, worker, poll, loop, ctl, causes, faults>>

-----------------------------------------------------------------------------
(***************************************************************************)
(* The live poller: LivePollerService.pollOne and the pollChanges of the   *)
(* providers.  Every action is one call awaited.                           *)
(***************************************************************************)

\* The row is read once; the cron leaves a running archive alone.
PollBegin(p) ==
  /\ poll[p].pc = "idle"
  /\ p \notin Manual => cfg.status # "RUNNING"
  /\ cfg.checkpoint # Null
  /\ poll' = [poll EXCEPT ![p] = [NoPoll EXCEPT !.pc = "list", !.cp = cfg.checkpoint]]
  /\ UNCHANGED <<inbox, stored, cfg, jobs, worker, loop, ctl, causes, faults>>

\* history.list or messages/delta; Gmail asks the profile when nothing changed.
PollList(p) ==
  /\ poll[p].pc = "list"
  /\ poll' = [poll EXCEPT ![p] = [@ EXCEPT
       !.pc     = IF Provider = "GMAIL" /\ After(poll[p].cp) = {}
                  THEN "profile" ELSE "enqueue",
       !.found  = ThreadsOf(After(poll[p].cp)),
       !.latest = Size]]
  /\ UNCHANGED <<inbox, stored, cfg, jobs, worker, loop, ctl, causes, faults>>

\* The checkpoint has expired: the threads of the last seven days are listed,
\* so that mails up to some point may be too old.
PollRecover(p) ==
  /\ poll[p].pc = "list" /\ Fault
  /\ \E old \in poll[p].cp..Size :
       /\ poll' = [poll EXCEPT ![p] = [@ EXCEPT !.pc = "profile", !.latest = Size,
                                               !.found = ThreadsOf(After(old))]]
       /\ Blame(After(poll[p].cp) \ After(old), "aged")
  /\ UNCHANGED <<inbox, stored, cfg, jobs, worker, loop, ctl>>

\* The profile's historyId is the new checkpoint, listed or not.
PollProfile(p) ==
  /\ poll[p].pc = "profile"
  /\ poll' = [poll EXCEPT ![p] = [@ EXCEPT !.pc = "enqueue", !.latest = Size]]
  /\ Blame({i \in After(poll[p].latest) : inbox[i] \notin poll[p].found}, "gap")
  /\ UNCHANGED <<inbox, stored, cfg, jobs, worker, loop, ctl, faults>>

\* Any call of the poll throws: the tick is over.
PollFails(p) ==
  /\ poll[p].pc # "idle" /\ Fault
  /\ poll' = [poll EXCEPT ![p] = NoPoll]
  /\ UNCHANGED <<inbox, stored, cfg, jobs, worker, loop, ctl, causes>>

Live(t) == jobs[t].state \in {"queued", "active"}

\* What the active job of t will not fetch any more.
Missed(t) ==
  IF jobs[t].state = "active" /\ worker.pc # "fetch" THEN MailsOf(t) \ worker.got ELSE {}

\* boss.send with a singletonKey inserts nothing while the thread's job is live.
PollEnqueue(p) ==
  /\ poll[p].pc = "enqueue"
  /\ \E t \in poll[p].found :
       /\ poll' = [poll EXCEPT ![p].found = @ \ {t}]
       /\ jobs' = IF Live(t) THEN jobs
                  ELSE [jobs EXCEPT ![t] = [state |-> "queued", tries |-> 0]]
       /\ Blame(IF Live(t) THEN Missed(t) ELSE {}, "collapsed")
  /\ UNCHANGED <<inbox, stored, cfg, worker, loop, ctl, faults>>

\* Mutant: the checkpoint is written before all threads are queued.
PollAdvanceEarly(p) ==
  /\ poll[p].pc = "enqueue"
  /\ cfg' = [cfg EXCEPT !.checkpoint = poll[p].latest]
  /\ poll' = [poll EXCEPT ![p] = IF @.found = {} THEN NoPoll ELSE @]
  /\ UNCHANGED <<inbox, stored, jobs, worker, loop, ctl, causes, faults>>

PollAdvance(p) ==
  /\ poll[p].pc = "enqueue" /\ poll[p].found = {}
  /\ cfg' = [cfg EXCEPT !.checkpoint = poll[p].latest]
  /\ poll' = [poll EXCEPT ![p] = NoPoll]
  /\ UNCHANGED <<inbox, stored, jobs, worker, loop, ctl, causes, faults>>

-----------------------------------------------------------------------------
(***************************************************************************)
(* The worker: one job of email:ingest-thread, fetchAndUpsertThread.  Its  *)
(* transaction looks for the messages it has and inserts the others.       *)
(***************************************************************************)
IngestStart(t) ==
  /\ worker.pc = "idle" /\ jobs[t].state = "queued"
  /\ jobs' = [jobs EXCEPT ![t] = [@ EXCEPT !.state = "active"]]
  /\ worker' = [NoWork EXCEPT !.pc = "fetch", !.thread = t]
  /\ UNCHANGED <<inbox, stored, cfg, poll, loop, ctl, causes, faults>>

IngestFetch ==
  /\ worker.pc = "fetch"
  /\ worker' = [worker EXCEPT !.pc = "read", !.got = MailsOf(worker.thread)]
  /\ UNCHANGED <<inbox, stored, cfg, jobs, poll, loop, ctl, causes, faults>>

\* fetchThread throws: logged, and the job completes.
IngestFetchFails ==
  /\ worker.pc = "fetch" /\ Fault
  /\ jobs' = [jobs EXCEPT ![worker.thread] = [state |-> "none", tries |-> 0]]
  /\ worker' = NoWork
  /\ Blame(MailsOf(worker.thread), "fetch")
  /\ UNCHANGED <<inbox, stored, cfg, poll, loop, ctl>>

IngestRead ==
  /\ worker.pc = "read"
  /\ worker' = [worker EXCEPT !.pc = "insert", !.known = worker.got \intersect stored]
  /\ UNCHANGED <<inbox, stored, cfg, jobs, poll, loop, ctl, causes, faults>>

\* Somebody stored one of the messages in between: a unique key is violated.
Conflict(w) == (w.got \ w.known) \intersect stored # {}

IngestInsert ==
  /\ worker.pc = "insert" /\ ~Conflict(worker)
  /\ stored' = stored \union worker.got
  /\ jobs' = [jobs EXCEPT ![worker.thread] = [state |-> "none", tries |-> 0]]
  /\ worker' = NoWork
  /\ UNCHANGED <<inbox, cfg, poll, loop, ctl, causes, faults>>

\* Mutant: retryLimit is not honoured.
FailedForever(job) == [state |-> "queued", tries |-> job.tries + 1]

\* pg-boss's fail(): queued again while retries are left, else dead-lettered.
Failed(job) ==
  IF job.tries < MaxRetries THEN [state |-> "queued", tries |-> job.tries + 1]
  ELSE [job EXCEPT !.state = "failed"]

Dead(t) == IF jobs[t].tries < MaxRetries THEN {} ELSE MailsOf(t)

\* Mutant: a failing job is dropped.
IngestFailsDropped ==
  /\ worker.pc \in {"read", "insert"}
  /\ IF worker.pc = "insert" /\ Conflict(worker) THEN UNCHANGED faults ELSE Fault
  /\ jobs' = [jobs EXCEPT ![worker.thread] = [state |-> "none", tries |-> 0]]
  /\ worker' = NoWork
  /\ UNCHANGED <<inbox, stored, cfg, poll, loop, ctl, causes>>

\* The transaction aborts, on a conflict or because the database does.
IngestFails ==
  /\ worker.pc \in {"read", "insert"}
  /\ IF worker.pc = "insert" /\ Conflict(worker) THEN UNCHANGED faults ELSE Fault
  /\ jobs' = [jobs EXCEPT ![worker.thread] = Failed(@)]
  /\ Blame(Dead(worker.thread), "dead")
  /\ worker' = NoWork
  /\ UNCHANGED <<inbox, stored, cfg, poll, loop, ctl>>

-----------------------------------------------------------------------------
(***************************************************************************)
(* The archive: runBackgroundArchive.  A page token continues the listing  *)
(* it came from: the threads not listed yet of the inbox as it was then.   *)
(* Bound: a page is one thread.                                            *)
(***************************************************************************)
At(pc) == loop.pc = pc

ArchiveInit ==
  /\ At("init")
  /\ loop' = [loop EXCEPT !.pc = "check", !.token = cfg.token]
  /\ UNCHANGED <<inbox, stored, cfg, jobs, worker, poll, ctl, causes, faults>>

\* The status is read again before every page ...
ArchiveCheck ==
  /\ At("check")
  /\ loop' = [loop EXCEPT !.pc = "decide", !.saw = cfg.status]
  /\ UNCHANGED <<inbox, stored, cfg, jobs, worker, poll, ctl, causes, faults>>

\* ... and acted upon when the answer is here.
ArchiveDecide ==
  /\ At("decide")
  /\ loop' = IF loop.saw \in {"CANCELLED", "IDLE"} THEN NoLoop
             ELSE [loop EXCEPT !.pc = "list", !.saw = "IDLE"]
  /\ UNCHANGED <<inbox, stored, cfg, jobs, worker, poll, ctl, causes, faults>>

\* The next page of the listing the token stands for.
Listing == IF loop.token.rest = {} THEN [rest |-> ThreadsOf(1..Size), upto |-> Size]
           ELSE loop.token

\* What is left of it after the page of thread t.
ListingAfter(t) == [Listing EXCEPT !.rest = @ \ {t}]

\* Mutant: the page token is saved before the page is processed.
ArchiveListSaves ==
  /\ At("list")
  /\ IF Listing.rest = {}
     THEN loop' = [loop EXCEPT !.pc = "finish", !.token = Listing] /\ UNCHANGED cfg
     ELSE \E t \in Listing.rest :
            LET next == ListingAfter(t)
            IN /\ loop' = [loop EXCEPT !.pc = "fetch", !.thread = t, !.token = next]
               /\ cfg' = [cfg EXCEPT !.token = IF next.rest = {} THEN NoPage ELSE next]
  /\ UNCHANGED <<inbox, stored, jobs, worker, poll, ctl, causes, faults>>

ArchiveList ==
  /\ At("list")
  /\ IF Listing.rest = {}
     THEN loop' = [loop EXCEPT !.pc = "finish", !.token = Listing]
     ELSE \E t \in Listing.rest :
            loop' = [loop EXCEPT !.pc = "fetch", !.thread = t,
                                 !.token = ListingAfter(t)]
  /\ UNCHANGED <<inbox, stored, cfg, jobs, worker, poll, ctl, causes, faults>>

ArchiveFetch ==
  /\ At("fetch")
  /\ loop' = [loop EXCEPT !.pc = "read", !.got = MailsOf(loop.thread)]
  /\ UNCHANGED <<inbox, stored, cfg, jobs, worker, poll, ctl, causes, faults>>

\* fetchThread throws: logged, and the archive goes on without the thread.
ArchiveFetchFails ==
  /\ At("fetch") /\ Fault
  /\ Blame(MailsOf(loop.thread), "fetch")
  /\ loop' = [loop EXCEPT !.pc = "save"]
  /\ UNCHANGED <<inbox, stored, cfg, jobs, worker, poll, ctl>>

ArchiveRead ==
  /\ At("read")
  /\ loop' = [loop EXCEPT !.pc = "insert", !.known = loop.got \intersect stored]
  /\ UNCHANGED <<inbox, stored, cfg, jobs, worker, poll, ctl, causes, faults>>

ArchiveInsert ==
  /\ At("insert")
  /\ stored' = IF Conflict(loop) THEN stored ELSE stored \union loop.got
  /\ loop' = IF Conflict(loop) THEN [NoLoop EXCEPT !.pc = "error"]
             ELSE [loop EXCEPT !.pc = "save", !.got = {}, !.known = {}]
  /\ UNCHANGED <<inbox, cfg, jobs, worker, poll, ctl, causes, faults>>

\* The token of the next page, and RUNNING whatever the status is by now.
ArchiveSave ==
  LET last == loop.token.rest = {}
  IN /\ At("save")
     /\ cfg' = [cfg EXCEPT !.token = IF last THEN NoPage ELSE loop.token,
                           !.status = "RUNNING"]
     /\ loop' = [loop EXCEPT !.pc = IF last THEN "finish" ELSE "check",
                             !.thread = NoLoop.thread]
     /\ UNCHANGED <<inbox, stored, jobs, worker, poll, ctl, causes, faults>>

ArchiveFinish ==
  /\ At("finish")
  /\ cfg' = [cfg EXCEPT !.token = NoPage, !.status = "DONE"]
  /\ loop' = [NoLoop EXCEPT !.pc = IF Provider = "GMAIL" THEN "profile" ELSE "closing"]
  /\ UNCHANGED <<inbox, stored, jobs, worker, poll, ctl, causes, faults>>

\* setInitialCheckpoint, at the end of the archive.
ArchiveProfile ==
  /\ At("profile")
  /\ loop' = [loop EXCEPT !.pc = "mark", !.latest = Size]
  /\ UNCHANGED <<inbox, stored, cfg, jobs, worker, poll, ctl, causes, faults>>

ArchiveProfileFails ==
  /\ At("profile") /\ Fault
  /\ loop' = [loop EXCEPT !.pc = "closing"]
  /\ UNCHANGED <<inbox, stored, cfg, jobs, worker, poll, ctl, causes>>

ArchiveMark ==
  /\ At("mark")
  /\ cfg' = [cfg EXCEPT !.checkpoint = loop.latest]
  /\ Blame(1..loop.latest, "post")
  /\ loop' = [NoLoop EXCEPT !.pc = "closing"]
  /\ UNCHANGED <<inbox, stored, jobs, worker, poll, ctl, faults>>

\* A call of the loop throws: the catch block writes FAILED.
ArchiveThrows ==
  /\ loop.pc \in {"init", "check", "list", "read", "save", "finish"} /\ Fault
  /\ loop' = [NoLoop EXCEPT !.pc = "error"]
  /\ UNCHANGED <<inbox, stored, cfg, jobs, worker, poll, ctl, causes>>

ArchiveError ==
  /\ At("error")
  /\ cfg' = [cfg EXCEPT !.status = "FAILED"]
  /\ loop' = [NoLoop EXCEPT !.pc = "closing"]
  /\ UNCHANGED <<inbox, stored, jobs, worker, poll, ctl, causes, faults>>

\* That write fails too, silently.
ArchiveErrorLost ==
  /\ At("error") /\ Fault
  /\ loop' = [NoLoop EXCEPT !.pc = "closing"]
  /\ UNCHANGED <<inbox, stored, cfg, jobs, worker, poll, ctl, causes>>

\* The finally block: backgroundRunning = false.
ArchiveClose ==
  /\ At("closing")
  /\ loop' = NoLoop
  /\ UNCHANGED <<inbox, stored, cfg, jobs, worker, poll, ctl, causes, faults>>

-----------------------------------------------------------------------------
(***************************************************************************)
(* The handlers of agents: connecting or resync (both reset the row and    *)
(* start), backfill/run, archive/resume and archive/cancel.                *)
(***************************************************************************)
Allowed(op) == op \in Controls /\ ctl.pc = "idle"

Reset ==
  /\ Allowed("reset")
  /\ cfg' = [status |-> "IDLE", token |-> NoPage, checkpoint |-> Null]
  /\ ctl' = [ctl EXCEPT !.pc = "start"]
  /\ UNCHANGED <<inbox, stored, jobs, worker, poll, loop, causes, faults>>

Run ==
  /\ Allowed("run")
  /\ ctl' = [ctl EXCEPT !.pc = "start"]
  /\ UNCHANGED <<inbox, stored, cfg, jobs, worker, poll, loop, causes, faults>>

Resume ==
  /\ Allowed("resume")
  /\ cfg' = [cfg EXCEPT !.status = "RUNNING"]
  /\ ctl' = [ctl EXCEPT !.pc = "launch"]
  /\ UNCHANGED <<inbox, stored, jobs, worker, poll, loop, causes, faults>>

Cancel ==
  /\ "cancel" \in Controls
  /\ cfg' = [cfg EXCEPT !.status = "CANCELLED"]
  /\ UNCHANGED <<inbox, stored, jobs, worker, poll, loop, ctl, causes, faults>>

\* startForeground, once the provider has answered about aliases and totals.
StartArchive ==
  /\ ctl.pc = "start"
  /\ cfg' = [cfg EXCEPT !.status = "RUNNING", !.token = NoPage]
  /\ ctl' = [ctl EXCEPT !.pc = IF Provider = "GMAIL" THEN "profile" ELSE "launch"]
  /\ UNCHANGED <<inbox, stored, jobs, worker, poll, loop, causes, faults>>

StartProfile ==
  /\ ctl.pc = "profile"
  /\ ctl' = [pc |-> "mark", latest |-> Size]
  /\ UNCHANGED <<inbox, stored, cfg, jobs, worker, poll, loop, causes, faults>>

StartProfileFails ==
  /\ ctl.pc = "profile" /\ Fault
  /\ ctl' = [ctl EXCEPT !.pc = "launch"]
  /\ UNCHANGED <<inbox, stored, cfg, jobs, worker, poll, loop, causes>>

\* The first checkpoint: older mails are left to the archive.
StartMark ==
  /\ ctl.pc = "mark"
  /\ cfg' = [cfg EXCEPT !.checkpoint = ctl.latest]
  /\ Blame(1..ctl.latest, "archive")
  /\ ctl' = [NoCtl EXCEPT !.pc = "launch"]
  /\ UNCHANGED <<inbox, stored, jobs, worker, poll, loop, faults>>

\* runBackgroundArchive returns at once while backgroundRunning is set.
Launch ==
  /\ ctl.pc = "launch"
  /\ loop' = IF At("off") THEN [NoLoop EXCEPT !.pc = "init"] ELSE loop
  /\ ctl' = NoCtl
  /\ UNCHANGED <<inbox, stored, cfg, jobs, worker, poll, causes, faults>>

\* Mutant: only what was interrupted in this process is taken up again.
CrashForgets ==
  /\ Fault
  /\ poll' = [p \in Pollers |-> NoPoll]
  /\ ctl' = NoCtl
  /\ loop' = IF cfg.status = "RUNNING" /\ cfg.token # NoPage THEN [NoLoop EXCEPT !.pc = "init"] ELSE NoLoop
  /\ worker' = NoWork
  /\ UNCHANGED <<inbox, stored, cfg, jobs, causes>>

\* The process dies and is restarted: a RUNNING archive is resumed, the active
\* job fails by its expiry.
Crash ==
  /\ Fault
  /\ poll' = [p \in Pollers |-> NoPoll]
  /\ ctl' = NoCtl
  /\ loop' = IF cfg.status = "RUNNING" THEN [NoLoop EXCEPT !.pc = "init"] ELSE NoLoop
  /\ worker' = NoWork
  /\ IF worker.pc = "idle" THEN UNCHANGED <<jobs, causes>>
     ELSE /\ jobs' = [jobs EXCEPT ![worker.thread] = Failed(@)]
          /\ Blame(Dead(worker.thread), "dead")
  /\ UNCHANGED <<inbox, stored, cfg>>

PollStep(p) == PollList(p) \/ PollProfile(p) \/ PollEnqueue(p) \/ PollAdvance(p)

WorkerStep ==
  \/ \E t \in Threads : IngestStart(t)
  \/ IngestFetch \/ IngestRead \/ IngestInsert
  \/ worker.pc = "insert" /\ Conflict(worker) /\ IngestFails

ArchiveStep ==
  \/ ArchiveInit \/ ArchiveCheck \/ ArchiveDecide \/ ArchiveList \/ ArchiveFetch
  \/ ArchiveRead \/ ArchiveInsert \/ ArchiveSave \/ ArchiveFinish
  \/ ArchiveProfile \/ ArchiveMark \/ ArchiveError \/ ArchiveClose

StartStep == StartArchive \/ StartProfile \/ StartMark \/ Launch

Next ==
  \/ \E t \in Threads : Arrive(t)
  \/ \E p \in Pollers : PollBegin(p) \/ PollStep(p) \/ PollRecover(p) \/ PollFails(p)
  \/ WorkerStep \/ IngestFails \/ IngestFetchFails
  \/ ArchiveStep \/ ArchiveFetchFails \/ ArchiveProfileFails \/ ArchiveThrows
  \/ ArchiveErrorLost
  \/ Reset \/ Run \/ Resume \/ Cancel \/ StartStep \/ StartProfileFails
  \/ Crash

Spec == Init /\ [][Next]_vars

\* The cron ticks, the worker polls its queue, and what was started runs on;
\* nothing makes mails arrive, agents act, or calls fail.
FairSpec ==
  /\ Spec
  /\ \A p \in Pollers \ Manual : WF_vars(PollBegin(p))
  /\ \A p \in Pollers : WF_vars(PollStep(p))
  /\ WF_vars(WorkerStep)
  /\ WF_vars(ArchiveStep)
  /\ WF_vars(StartStep)

-----------------------------------------------------------------------------
(***************************************************************************)
(* Properties.                                                             *)
(***************************************************************************)
Statuses == {"IDLE", "RUNNING", "CANCELLED", "DONE", "FAILED"}
Tokens   == [rest : SUBSET Threads, upto : 0..MaxMails]
Reasons  == {"fetch", "collapsed", "gap", "aged", "dead", "post", "archive"}

TypeOK ==
  /\ inbox \in Seq(Threads) /\ Size <= MaxMails
  /\ stored \subseteq 1..Size
  /\ cfg \in [status : Statuses, token : Tokens, checkpoint : {Null} \union 0..MaxMails]
  /\ jobs \in [Threads -> [state : {"none", "queued", "active", "failed"},
                           tries : 0..MaxRetries]]
  /\ worker \in [pc : {"idle", "fetch", "read", "insert"}, thread : Threads \union {NoThread},
                 got : SUBSET Mails, known : SUBSET Mails]
  /\ poll \in [Pollers -> [pc : {"idle", "list", "profile", "enqueue"},
                           cp : 0..MaxMails, found : SUBSET Threads,
                           latest : 0..MaxMails]]
  /\ loop \in [pc : {"off", "init", "check", "decide", "list", "fetch", "read",
                     "insert", "save", "finish", "profile", "mark", "error",
                     "closing"},
               saw : Statuses, token : Tokens, latest : 0..MaxMails,
               thread : Threads \union {NoThread}, got : SUBSET Mails, known : SUBSET Mails]
  /\ ctl \in [pc : {"idle", "start", "profile", "mark", "launch"},
              latest : 0..MaxMails]
  /\ causes \in [Mails -> SUBSET Reasons]
  /\ faults \in 0..MaxFaults

\* The thread of mail i has a job that fetches it, or has fetched it.
WillStore(i) ==
  LET t == inbox[i]
  IN \/ jobs[t].state = "queued"
     \/ /\ jobs[t].state = "active" /\ worker.thread = t
        /\ worker.pc = "fetch" \/ i \in worker.got

\* A checkpoint passes over a mail only when the mail is stored, its job will
\* store it, or one of the named causes holds: whatever polls overlap and
\* wherever the process dies ("enqueue before advancing so a crash never loses
\* a thread", live-poller.service.ts).
LossHasCause ==
  \A i \in 1..Size :
    i <= cfg.checkpoint => i \in stored \/ WillStore(i) \/ causes[i] # {}

\* When an archive reports DONE, every mail that was in the inbox when its listing
\* began is stored, unless fetching its thread failed: across cancels, resumes,
\* failures, restarts and concurrent starts (pages replayed, never skipped).
DoneMeansImported ==
  [][ArchiveFinish =>
       \A i \in 1..loop.token.upto : i \in stored \/ "fetch" \in causes[i]]_vars

\* The loop no longer looks at the row, or has seen that it shall stop.
Leaving ==
  \/ loop.pc \in {"off", "profile", "mark", "closing"}
  \/ At("decide") /\ loop.saw \in {"CANCELLED", "IDLE"}

\* The row says RUNNING and nobody is at it or is about to start.
Abandoned == cfg.status = "RUNNING" /\ ctl.pc = "idle" /\ Leaving

\* An archive that says RUNNING is abandoned in two ways only: a resume, a run or a
\* resync found the old loop still on its way out and started none ("if
\* (this.backgroundRunning) return"), or FAILED could not be written.  Restarts,
\* cancels during a page and starts of any other timing do not strand it.
LoopLostHasCause ==
  [][~Abandoned /\ Abandoned' => (Launch /\ Leaving /\ ~At("off")) \/ ArchiveErrorLost]_vars

\* A mail of a connected inbox is stored in the end, or passed over for a cause.
MailsArrive ==
  \A i \in Mails :
    (i <= Size /\ cfg.checkpoint # Null) ~> (i \in stored \/ causes[i] # {})
=============================================================================
