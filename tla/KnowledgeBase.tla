---------------------------- MODULE KnowledgeBase ----------------------------
(***************************************************************************)
(* The index of the help centre: pages are scanned, which chunks them and  *)
(* costs nothing, and embedded once an administrator has confirmed the     *)
(* cost.                                                                   *)
(*                                                                         *)
(* Four queues (kb:scan, kb:embed, the older kb:crawl that does both at    *)
(* once, and kb:index-page for one source) have one worker each in the     *)
(* process; a page added by hand is scanned by its HTTP handler, which     *)
(* does not wait for it.  They all write the same rows, and the workers    *)
(* learn of a cancel by reading the phase between two pages.               *)
(*                                                                         *)
(* A task is one page on one of these ways.  A row that is deleted and     *)
(* created again has another id: a task or worker that holds the old id    *)
(* sees its row as gone.                                                   *)
(***************************************************************************)
EXTENDS Integers, Sequences, FiniteSets, SequencesExt

CONSTANTS
  Pages,       \* the URLs of the help centre
  Scenarios,   \* what may happen in a behaviour: sets of AllEvents
  MaxJobs,     \* bound: jobs waiting in a queue
  MaxCrashes,  \* bound: restarts of the process
  MaxFaults    \* bound: failing calls of the queue and of the AI provider

AllWays == {"scan", "crawl", "manual", "reindex"}   \* in which pages come in
AllEvents == AllWays \union {"cancel", "wipe", "delete", "publish", "crash", "fault", "page", "lapse"}
Crawls  == {"scan", "crawl"}
Workers == {"scan", "crawl", "embed"}
Jobs    == Workers \union Pages   \* a page: its kb:index-page job

ASSUME ScenarioAssumption == Scenarios \subseteq SUBSET AllEvents
ASSUME PageAssumption == Pages \intersect Workers = {}
ASSUME BoundAssumption == MaxJobs \in Nat /\ MaxCrashes \in Nat /\ MaxFaults \in Nat

VARIABLES
  events,   \* the scenario: chosen at first, never changed
  source,   \* KnowledgeSource: status, chunks, indexedAt, unchanged on the site since the fetch
  state,    \* AppConfig.kbPhase and kbCrawlStatus
  quoted,   \* the pages the cost estimate on the confirm screen counts
  queue,    \* the waiting jobs: how often each has been tried
  task,     \* the pages in work, by way
  worker,   \* the crawling workers
  embed,    \* the embedding worker
  handler,  \* the cancel or wipe request in progress
  crashes, faults

kb == <<events, source, state, quoted, queue, task, worker, embed, handler, crashes, faults>>

Tasks     == AllWays \X Pages
NoSource  == [status |-> "none", chunks |-> "none", indexed |-> FALSE, current |-> TRUE]
NoTask    == [pc |-> "idle", row |-> "none", tries |-> 0, stored |-> FALSE,
              phase |-> "IDLE", pending |-> {}]
NoWorker  == [pc |-> "idle", tries |-> 0, cancelled |-> FALSE, pending |-> {}]
NoEmbed   == [pc |-> "idle", tries |-> 0, todo |-> {}, gone |-> {}, page |-> {}, held |-> FALSE]

KbInit ==
  /\ events \in Scenarios
  /\ source = [p \in Pages |-> NoSource]
  /\ state = [q \in Crawls |-> "IDLE"]
  /\ quoted = {}
  /\ queue = [j \in Jobs |-> <<>>]
  /\ task = [t \in Tasks |-> NoTask]
  /\ worker = [q \in Crawls |-> NoWorker]
  /\ embed = NoEmbed
  /\ handler = "idle"
  /\ crashes = 0 /\ faults = 0

Fault  == "fault" \in events /\ faults < MaxFaults /\ faults' = faults + 1
phase  == state["scan"]
Rows(status) == {p \in Pages : source[p].status = status}

\* estimatePendingCost: the scanned sources, and their chunks without embedding.
Pending == {p \in Rows("SCANNED") : source[p].chunks = "plain"}

RetryLimit(j) == IF j \in Pages THEN 3 ELSE 1

\* Mutant: retryLimit is not honoured.
RequeueAlways(j, tries) == [queue EXCEPT ![j] = Append(@, tries + 1)]

\* pg-boss's fail(), or its expiry of a job whose handler died.
Requeue(j, tries) ==
  IF tries < RetryLimit(j) THEN [queue EXCEPT ![j] = Append(@, tries + 1)] ELSE queue

Enqueue(j) ==
  /\ Len(queue[j]) < MaxJobs
  /\ \/ queue' = [queue EXCEPT ![j] = Append(@, 0)] /\ UNCHANGED faults
     \/ UNCHANGED queue /\ Fault

-----------------------------------------------------------------------------
(***************************************************************************)
(* The requests of the settings page.                                      *)
(***************************************************************************)

\* The buttons KbPhasePanel shows in a phase.
Offers(shown, command) ==
  CASE command = "scan"   -> shown \notin {"SCANNING", "AWAITING_CONFIRM", "EMBEDDING"}
    [] command = "cancel" -> shown \in {"SCANNING", "AWAITING_CONFIRM"}
    [] command = "embed"  -> shown = "AWAITING_CONFIRM"

\* startScan, and startCrawl of the older way.
Start(q) ==
  /\ q \in events
  /\ state' = [state EXCEPT ![q] = IF q = "scan" THEN "SCANNING" ELSE "RUNNING"]
  /\ quoted' = IF q = "scan" THEN {} ELSE quoted
  /\ Enqueue(q)
  /\ UNCHANGED <<events, source, task, worker, embed, handler, crashes>>

ConfirmEmbed ==
  /\ state' = [state EXCEPT !["scan"] = "EMBEDDING"]
  /\ Enqueue("embed")
  /\ UNCHANGED <<events, source, quoted, task, worker, embed, handler, crashes>>

CancelCrawl ==
  /\ {"crawl", "cancel"} \subseteq events
  /\ state' = [state EXCEPT !["crawl"] = "CANCELLED"]
  /\ UNCHANGED <<events, source, quoted, queue, task, worker, embed, handler, crashes, faults>>

\* The deletion of rows and, by the foreign key, of their chunks: whoever holds
\* an id holds a dead one.
Delete(gone) ==
  /\ source' = [p \in Pages |-> IF p \in gone THEN NoSource ELSE source[p]]
  /\ task' = [t \in Tasks |->
       IF t[2] \in gone /\ task[t].row = "held" THEN [task[t] EXCEPT !.row = "gone"] ELSE task[t]]
  /\ embed' = [embed EXCEPT !.todo = @ \ gone, !.gone = @ \union (embed.todo \intersect gone),
                            !.held = @ /\ embed.page \intersect gone = {}]
  /\ queue' = [j \in Jobs |-> IF j \in gone THEN <<>> ELSE queue[j]]

\* cancelScan deletes what is only scanned, then writes the phase.
CancelScan ==
  /\ "cancel" \in events /\ handler = "idle"
  /\ Delete(Rows("SCANNED"))
  /\ handler' = "cancel"
  /\ UNCHANGED <<events, state, quoted, worker, crashes, faults>>

CancelScanPhase ==
  /\ handler = "cancel"
  /\ state' = [state EXCEPT !["scan"] = "CANCELLED"]
  /\ quoted' = {}
  /\ handler' = "idle"
  /\ UNCHANGED <<events, source, queue, task, worker, embed, crashes, faults>>

\* wipeIndex: the chunks, the sources, the configuration.
WipeChunks ==
  /\ "wipe" \in events /\ handler = "idle"
  /\ source' = [p \in Pages |-> [source[p] EXCEPT !.chunks = "none"]]
  /\ embed' = [embed EXCEPT !.held = FALSE]
  /\ handler' = "wipeSources"
  /\ UNCHANGED <<events, state, quoted, queue, task, worker, crashes, faults>>

WipeSources ==
  /\ handler = "wipeSources"
  /\ Delete({p \in Pages : source[p].status # "none"})
  /\ handler' = "wipeConfig"
  /\ UNCHANGED <<events, state, quoted, worker, crashes, faults>>

WipeConfig ==
  /\ handler = "wipeConfig"
  /\ state' = [q \in Crawls |-> "IDLE"]
  /\ quoted' = {}
  /\ handler' = "idle"
  /\ UNCHANGED <<events, source, queue, task, worker, embed, crashes, faults>>

DeleteSource(p) ==
  /\ "delete" \in events /\ source[p].status # "none"
  /\ Delete({p})
  /\ UNCHANGED <<events, state, quoted, worker, handler, crashes, faults>>

ReindexSource(p) ==
  /\ "reindex" \in events /\ source[p].status # "none"
  /\ Enqueue(p)
  /\ UNCHANGED <<events, source, state, quoted, task, worker, embed, handler, crashes>>

\* manualIndex answers at once; runManualScan goes on.
AddManual(p) ==
  /\ "manual" \in events /\ task[<<"manual", p>>].pc = "idle"
  /\ task' = [task EXCEPT ![<<"manual", p>>].pc = "upsert"]
  /\ UNCHANGED <<events, source, state, quoted, queue, worker, embed, handler, crashes, faults>>

-----------------------------------------------------------------------------
(***************************************************************************)
(* One page: scanPage (scan, manual) and indexPage (crawl, reindex).       *)
(***************************************************************************)
Goes(t, pc)   == task' = [task EXCEPT ![t].pc = pc]
Scans(t)      == t[1] \in {"scan", "manual"}
Row(p, new)   == source' = [source EXCEPT ![p] = new]

\* The handler of the page has returned: a hand-added page goes on to the
\* estimate, the job of a reindexing completes.
Returns(t, stored) ==
  /\ task' = [task EXCEPT ![t] =
       IF t[1] = "manual" THEN [NoTask EXCEPT !.pc = "config", !.stored = stored] ELSE NoTask]
  /\ UNCHANGED queue

\* It has thrown: the crawling workers log it, the manual scan ends, the job of
\* a reindexing is retried.
Throws(t) ==
  /\ task' = [task EXCEPT ![t] = NoTask]
  /\ queue' = IF t[1] = "reindex" THEN Requeue(t[2], task[t].tries) ELSE queue

\* onPage of a crawl looks for a cancel before it goes on to the page.
Visit(t) ==
  /\ task[t].pc = "visit"
  /\ IF state[t[1]] = "CANCELLED" \/ worker[t[1]].cancelled
     THEN /\ worker' = [worker EXCEPT ![t[1]].cancelled = TRUE]
          /\ Goes(t, "idle")
     ELSE Goes(t, "upsert") /\ UNCHANGED worker
  /\ UNCHANGED <<events, source, state, quoted, queue, embed, handler, crashes, faults>>

\* The upsert by URL, which sets PENDING and creates a missing row.
Upsert(t) ==
  LET p == t[2]
  IN /\ task[t].pc = "upsert"
     /\ source' = [source EXCEPT ![p].status = "PENDING"]
     /\ task' = [task EXCEPT ![t].pc = "fetch", ![t].row = "held"]
     /\ UNCHANGED <<events, state, quoted, queue, worker, embed, handler, crashes, faults>>

\* The test that skips a page: the row is the one the upsert returned, so its
\* status is PENDING whatever it was before.
Upserted     == "PENDING"
Unchanged(p) == source[p].current /\ Upserted = "INDEXED"

\* The page is fetched: it is gone, or unchanged, or has no text, or goes on.
\* Updating a row that is gone throws.
Fetch(t) ==
  LET p == t[2]
      Skipped(new) == Row(p, new) /\ Returns(t, FALSE)
  IN /\ task[t].pc = "fetch"
     /\ IF task[t].row = "gone" THEN Throws(t) /\ UNCHANGED source
        ELSE \/ Skipped([source[p] EXCEPT !.status = "SKIPPED"])
             \/ IF Unchanged(p) THEN Returns(t, FALSE) /\ UNCHANGED source
                ELSE \/ Skipped([source[p] EXCEPT !.status = "SKIPPED", !.current = TRUE])
                     \/ /\ Row(p, [source[p] EXCEPT !.status = "FETCHED", !.current = TRUE])
                        /\ Goes(t, "store") /\ UNCHANGED queue
     /\ UNCHANGED <<events, state, quoted, worker, embed, handler, crashes, faults>>

\* The transaction that replaces the chunks of a row it still finds.
Stores(t, new) ==
  LET p == t[2]
  IN /\ task[t].pc = "store"
     /\ IF task[t].row = "gone" THEN Throws(t) /\ UNCHANGED <<events, source, embed>>
        ELSE /\ Row(p, new)
             /\ embed' = [embed EXCEPT !.held = @ /\ p \notin embed.page]
             /\ Returns(t, TRUE)
     /\ UNCHANGED <<events, state, quoted, worker, handler, crashes, faults>>

StoreScanned(t) == Scans(t) /\ Stores(t, [source[t[2]] EXCEPT !.status = "SCANNED", !.chunks = "plain"])

\* Here the provider has embedded the chunks before.
StoreIndexed(t) ==
  ~Scans(t) /\ Stores(t, [source[t[2]] EXCEPT !.status = "INDEXED", !.chunks = "embedded", !.indexed = TRUE])

\* The provider fails.
StoreFails(t) ==
  /\ task[t].pc = "store" /\ ~Scans(t) /\ Fault
  /\ Throws(t)
  /\ UNCHANGED <<events, source, state, quoted, worker, embed, handler, crashes>>

\* runManualScan reads the phase, then the estimate, and writes both.
ManualConfig(p) ==
  LET t == <<"manual", p>>
  IN /\ task[t].pc = "config"
     /\ task' = [task EXCEPT ![t].pc = "estimate", ![t].phase = phase]
     /\ UNCHANGED <<events, source, state, quoted, queue, worker, embed, handler, crashes, faults>>

ManualEstimate(p) ==
  LET t == <<"manual", p>>
  IN /\ task[t].pc = "estimate"
     /\ task' = [task EXCEPT ![t].pc = "report", ![t].pending = Pending]
     /\ UNCHANGED <<events, source, state, quoted, queue, worker, embed, handler, crashes, faults>>

ManualReport(p) ==
  LET t == <<"manual", p>>
      pending == task[t].pending
  IN /\ task[t].pc = "report"
     /\ task' = [task EXCEPT ![t] = NoTask]
     /\ IF task[t].phase \in {"IDLE", "AWAITING_CONFIRM", "DONE"}
        THEN IF pending = {} /\ ~task[t].stored
             THEN state' = [state EXCEPT !["scan"] = "FAILED"] /\ UNCHANGED quoted
             ELSE state' = [state EXCEPT !["scan"] = "AWAITING_CONFIRM"] /\ quoted' = pending
        ELSE UNCHANGED <<events, state, quoted>>
     /\ UNCHANGED <<events, source, queue, worker, embed, handler, crashes, faults>>

-----------------------------------------------------------------------------
(***************************************************************************)
(* The workers of kb:scan, kb:crawl and kb:index-page.                     *)
(***************************************************************************)
InWork(q) == \E t \in Tasks : t[1] = q /\ task[t].pc # "idle"

\* Mutant: the cancelled flag of the last job is not reset.
TakeCrawlCancelled(q) ==
  /\ worker[q].pc = "idle" /\ queue[q] # <<>>
  /\ queue' = [queue EXCEPT ![q] = Tail(@)]
  /\ worker' = [worker EXCEPT ![q] = [NoWorker EXCEPT !.pc = "crawl", !.tries = Head(queue[q]),
                                                     !.cancelled = TRUE]]
  /\ UNCHANGED <<events, source, state, quoted, task, embed, handler, crashes, faults>>

\* The job is taken and the site is crawled: CrawlerService finds some pages.
TakeCrawl(q) ==
  /\ worker[q].pc = "idle" /\ queue[q] # <<>>
  /\ \E k \in DOMAIN queue[q], found \in SUBSET Pages :
       /\ queue' = [queue EXCEPT ![q] = RemoveAt(@, k)]
       /\ worker' = [worker EXCEPT ![q] = [NoWorker EXCEPT !.pc = "crawl", !.tries = queue[q][k]]]
       /\ task' = [t \in Tasks |->
            IF t[1] = q /\ t[2] \in found THEN [NoTask EXCEPT !.pc = "visit"] ELSE task[t]]
  /\ UNCHANGED <<events, source, state, quoted, embed, handler, crashes, faults>>

\* Every page has been visited: a cancelled crawl leaves without a word, the
\* older crawl is done, the scan goes on to the estimate.
EndCrawl(q) ==
  /\ worker[q].pc = "crawl" /\ ~InWork(q)
  /\ IF q = "scan" /\ ~worker[q].cancelled
     THEN worker' = [worker EXCEPT ![q].pc = "report", ![q].pending = Pending]
     ELSE worker' = [worker EXCEPT ![q] = NoWorker]
  /\ state' = IF q = "crawl" /\ ~worker[q].cancelled THEN [state EXCEPT ![q] = "DONE"] ELSE state
  /\ UNCHANGED <<events, source, quoted, queue, task, embed, handler, crashes, faults>>

\* The scan writes the phase it ends in.
ReportScan ==
  /\ worker["scan"].pc = "report"
  /\ LET pending == worker["scan"].pending
     IN /\ state' = [state EXCEPT !["scan"] = IF pending = {} THEN "FAILED" ELSE "AWAITING_CONFIRM"]
        /\ quoted' = IF pending = {} THEN quoted ELSE pending
  /\ worker' = [worker EXCEPT !["scan"] = NoWorker]
  /\ UNCHANGED <<events, source, queue, task, embed, handler, crashes, faults>>

\* The crawl itself throws: the phase says so and the job is retried.
CrawlFails(q) ==
  /\ worker[q].pc = "crawl" /\ ~InWork(q) /\ Fault
  /\ state' = [state EXCEPT ![q] = "FAILED"]
  /\ queue' = Requeue(q, worker[q].tries)
  /\ worker' = [worker EXCEPT ![q] = NoWorker]
  /\ UNCHANGED <<events, source, quoted, task, embed, handler, crashes>>

\* One source is indexed again, by the URL of its row.
TakeReindex(p) ==
  /\ "reindex" \in events /\ ~InWork("reindex")
  /\ \E k \in DOMAIN queue[p] :
       /\ queue' = [queue EXCEPT ![p] = RemoveAt(@, k)]
       /\ task' = [task EXCEPT ![<<"reindex", p>>] =
            [NoTask EXCEPT !.pc = "upsert", !.tries = queue[p][k]]]
  /\ UNCHANGED <<events, source, state, quoted, worker, embed, handler, crashes, faults>>

-----------------------------------------------------------------------------
(***************************************************************************)
(* The worker of kb:embed.                                                 *)
(***************************************************************************)
TakeEmbed ==
  /\ embed.pc = "idle"
  /\ \E k \in DOMAIN queue["embed"] :
       /\ queue' = [queue EXCEPT !["embed"] = RemoveAt(@, k)]
       /\ embed' = [NoEmbed EXCEPT !.pc = "list", !.tries = queue["embed"][k]]
  /\ UNCHANGED <<events, source, state, quoted, task, worker, handler, crashes, faults>>

\* The scanned sources, once; none is a success.
ListScanned ==
  /\ embed.pc = "list"
  /\ IF Rows("SCANNED") = {}
     THEN embed' = NoEmbed /\ state' = [state EXCEPT !["scan"] = "DONE"]
     ELSE embed' = [embed EXCEPT !.pc = "next", !.todo = Rows("SCANNED")] /\ UNCHANGED state
  /\ UNCHANGED <<events, source, quoted, queue, task, worker, handler, crashes, faults>>

\* Between two sources: all embedded, cancelled, or the next one.
NextSource ==
  /\ embed.pc = "next"
  /\ \/ /\ embed.todo \union embed.gone = {}
        /\ embed' = NoEmbed /\ state' = [state EXCEPT !["scan"] = "DONE"]
     \/ /\ embed.todo \union embed.gone # {} /\ phase = "CANCELLED"
        /\ embed' = NoEmbed /\ UNCHANGED state
     \/ /\ embed.todo \union embed.gone # {} /\ phase # "CANCELLED"
        /\ \E p \in embed.todo \union embed.gone :
             embed' = [embed EXCEPT !.pc = "read", !.page = {p}]
        /\ UNCHANGED state
  /\ UNCHANGED <<events, source, quoted, queue, task, worker, handler, crashes, faults>>

EmbedThrows ==
  /\ state' = [state EXCEPT !["scan"] = "FAILED"]
  /\ queue' = Requeue("embed", embed.tries)
  /\ embed' = NoEmbed

\* The ids and texts of the chunks without embedding; none is a success.
ReadChunks ==
  \E p \in embed.page :
    /\ embed.pc = "read"
    /\ IF p \in embed.gone THEN EmbedThrows /\ UNCHANGED source
       ELSE /\ IF source[p].chunks = "plain"
               THEN embed' = [embed EXCEPT !.pc = "write", !.held = TRUE] /\ UNCHANGED source
               ELSE embed' = [embed EXCEPT !.pc = "next", !.todo = @ \ {p}, !.page = {}]
                    /\ Row(p, [source[p] EXCEPT !.status = "INDEXED", !.indexed = TRUE])
            /\ UNCHANGED <<state, queue>>
    /\ UNCHANGED <<events, quoted, task, worker, handler, crashes, faults>>

\* The provider has embedded the texts; the update finds the chunks by their ids.
WriteChunks ==
  \E p \in embed.page :
    /\ embed.pc = "write"
    /\ IF embed.held THEN Row(p, [source[p] EXCEPT !.chunks = "embedded"]) ELSE UNCHANGED source
    /\ embed' = [embed EXCEPT !.pc = "mark", !.held = FALSE]
    /\ UNCHANGED <<events, state, quoted, queue, task, worker, handler, crashes, faults>>

EmbedFails ==
  /\ embed.pc = "write" /\ Fault
  /\ EmbedThrows
  /\ UNCHANGED <<events, source, quoted, task, worker, handler, crashes>>

MarkIndexed ==
  \E p \in embed.page :
    /\ embed.pc = "mark"
    /\ IF p \in embed.gone THEN EmbedThrows /\ UNCHANGED source
       ELSE /\ Row(p, [source[p] EXCEPT !.status = "INDEXED", !.indexed = TRUE])
            /\ embed' = [embed EXCEPT !.pc = "next", !.todo = @ \ {p}, !.page = {}]
            /\ UNCHANGED <<state, queue>>
    /\ UNCHANGED <<events, quoted, task, worker, handler, crashes, faults>>

-----------------------------------------------------------------------------
\* The help centre publishes a new version of a page.
Publish(p) ==
  /\ "publish" \in events /\ source[p].current
  /\ Row(p, [source[p] EXCEPT !.current = FALSE])
  /\ UNCHANGED <<events, state, quoted, queue, task, worker, embed, handler, crashes, faults>>

\* The jobs that are active, each alone in its queue, and how often they were tried.
Active(j) ==
  CASE j \in Crawls -> worker[j].pc # "idle"
    [] j = "embed"  -> embed.pc # "idle"
    [] j \in Pages  -> task[<<"reindex", j>>].pc # "idle"

Tried(j) ==
  CASE j \in Crawls -> worker[j].tries
    [] j = "embed"  -> embed.tries
    [] j \in Pages  -> task[<<"reindex", j>>].tries

\* The process restarts: the requests and hand-added pages are lost, pg-boss
\* expires the active jobs.
Crash ==
  /\ "crash" \in events /\ crashes < MaxCrashes
  /\ crashes' = crashes + 1
  /\ queue' = [j \in Jobs |-> IF Active(j) THEN Requeue(j, Tried(j))[j] ELSE queue[j]]
  /\ task' = [t \in Tasks |-> NoTask]
  /\ worker' = [q \in Crawls |-> NoWorker]
  /\ embed' = NoEmbed
  /\ handler' = "idle"
  /\ UNCHANGED <<events, source, state, quoted, faults>>

PageStep(t) == Visit(t) \/ Upsert(t) \/ Fetch(t) \/ StoreScanned(t) \/ StoreIndexed(t)
ManualStep(p) == ManualConfig(p) \/ ManualEstimate(p) \/ ManualReport(p)
EmbedStep == TakeEmbed \/ ListScanned \/ NextSource \/ ReadChunks \/ WriteChunks \/ MarkIndexed
CrawlStep(q) == TakeCrawl(q) \/ EndCrawl(q) \/ (q = "scan" /\ ReportScan)

\* What goes on without a request: the page AssistantPage adds the requests.
Background ==
  \/ WipeSources
  \/ \E t \in Tasks : PageStep(t) \/ StoreFails(t)
  \/ \E p \in Pages : ManualStep(p) \/ TakeReindex(p) \/ Publish(p)
  \/ \E q \in Crawls : CrawlStep(q) \/ CrawlFails(q)
  \/ EmbedStep \/ EmbedFails
  \/ Crash

-----------------------------------------------------------------------------
Statuses == {"none", "PENDING", "FETCHED", "SKIPPED", "SCANNED", "INDEXED"}
Phases   == {"IDLE", "SCANNING", "AWAITING_CONFIRM", "EMBEDDING", "DONE", "FAILED", "CANCELLED"}

\* The values the variables range over; in particular no job is tried beyond
\* the retryLimit of its queue.
KbTypeOK ==
  /\ events \in Scenarios
  /\ source \in [Pages -> [status : Statuses, chunks : {"none", "plain", "embedded"},
                           indexed : BOOLEAN, current : BOOLEAN]]
  /\ state["scan"] \in Phases
  /\ state["crawl"] \in {"IDLE", "RUNNING", "DONE", "FAILED", "CANCELLED"}
  /\ quoted \subseteq Pages
  /\ \A j \in Jobs : queue[j] \in Seq(0..RetryLimit(j))
  /\ task \in [Tasks -> [pc : {"idle", "visit", "upsert", "fetch", "store", "config",
                               "estimate", "report"},
                         row : {"none", "held", "gone"}, tries : 0..3, stored : BOOLEAN,
                         phase : Phases, pending : SUBSET Pages]]
  /\ worker \in [Crawls -> [pc : {"idle", "crawl", "report"}, tries : 0..1,
                            cancelled : BOOLEAN, pending : SUBSET Pages]]
  /\ embed \in [pc : {"idle", "list", "next", "read", "write", "mark"}, tries : 0..1,
                todo : SUBSET Pages, gone : SUBSET Pages, page : SUBSET Pages, held : BOOLEAN]
  /\ handler \in {"idle", "cancel", "wipeSources", "wipeConfig"}
  /\ crashes \in 0..MaxCrashes /\ faults \in 0..MaxFaults

\* While the page shows a scan, a crawl or an embedding, somebody is at it or will
\* be: cancels, restarts and older jobs that end late never leave it spinning,
\* unless an enqueue was lost or the process died once too often.
BusyHasWorker ==
  faults = 0 /\ crashes <= 1 =>
    /\ phase = "SCANNING" => queue["scan"] # <<>> \/ worker["scan"].pc # "idle"
    /\ phase = "EMBEDDING" => queue["embed"] # <<>> \/ embed.pc # "idle"
    /\ state["crawl"] = "RUNNING" => queue["crawl"] # <<>> \/ worker["crawl"].pc # "idle"

\* A source that is scanned or ready has chunks; only a wipe in progress, or
\* one that a restart cut short, takes the chunks before the sources.
ReadyHasChunks ==
  \A p \in Rows("SCANNED") \union Rows("INDEXED") :
    source[p].chunks = "none" => handler = "wipeSources" \/ crashes > 0

\* What the page shows of a source or a phase has something behind it.
PhaseIsHonest == BusyHasWorker /\ ReadyHasChunks
=============================================================================
