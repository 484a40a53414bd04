------------------------ MODULE AssistantPage_proofs ------------------------
(***************************************************************************)
(* Proofs about the knowledge base and its settings page, for any pages,   *)
(* scenarios and bounds: a phase that shows work has a worker, a source    *)
(* that is ready has chunks, and no job is tried too often.                *)
(***************************************************************************)
EXTENDS AssistantPage, TLAPS

-----------------------------------------------------------------------------
(***************************************************************************)
(* The rows, and what is kept of them.                                     *)
(***************************************************************************)
SourceRow == [status : Statuses, chunks : {"none", "plain", "embedded"}, indexed : BOOLEAN, current : BOOLEAN]
TaskSteps == {"idle", "visit", "upsert", "fetch", "store", "config", "estimate", "report"}
TaskRow   == [pc : TaskSteps, row : {"none", "held", "gone"}, tries : 0..3, stored : BOOLEAN, phase : Phases, pending : SUBSET Pages]
WorkerRow == [pc : {"idle", "crawl", "report"}, tries : 0..1, cancelled : BOOLEAN, pending : SUBSET Pages]
EmbedRow  == [pc : {"idle", "list", "next", "read", "write", "mark"}, tries : 0..1, todo : SUBSET Pages, gone : SUBSET Pages,
              page : SUBSET Pages, held : BOOLEAN]
CrawlPhases == {"IDLE", "RUNNING", "DONE", "FAILED", "CANCELLED"}

SourceOK == source \in [Pages -> SourceRow]
StateOK  == state \in [Crawls -> Phases \union CrawlPhases] /\ state["scan"] \in Phases /\ state["crawl"] \in CrawlPhases
QueueOK  == queue \in [Jobs -> Seq(Nat)] /\ \A j \in Jobs : \A k \in DOMAIN queue[j] : queue[j][k] <= RetryLimit(j)
TaskOK   == task \in [Tasks -> TaskRow]
WorkerOK == worker \in [Crawls -> WorkerRow]
EmbedOK  == embed \in EmbedRow
OtherOK  ==
  /\ events \in Scenarios /\ quoted \subseteq Pages
  /\ handler \in {"idle", "cancel", "wipeSources", "wipeConfig"}
  /\ crashes \in 0..MaxCrashes /\ faults \in 0..MaxFaults

KbShape == SourceOK /\ StateOK /\ QueueOK /\ TaskOK /\ WorkerOK /\ EmbedOK /\ OtherOK

\* A job which the process has not died of too often waits, or is at work.
Waits(q)   == \E k \in DOMAIN queue[q] : queue[q][k] <= crashes
Crawled(q) == Waits(q) \/ (worker[q].pc # "idle" /\ ~worker[q].cancelled /\ worker[q].tries <= crashes)
Embedded   == Waits("embed") \/ (embed.pc # "idle" /\ embed.tries <= crashes)

\* What is shown as at work has such a job: a retry is left for each death it survives.
BusyInv ==
  faults = 0 /\ crashes <= 1 =>
    /\ phase = "SCANNING" => Crawled("scan")
    /\ phase = "EMBEDDING" => Embedded
    /\ state["crawl"] = "RUNNING" => Crawled("crawl")

\* A source that is ready, or that the embedding worker has yet to do, has its chunks;
\* the worker's page is one of its list, or one whose row has gone since.
Ready == {"SCANNED", "INDEXED"}
Excused == handler = "wipeSources" \/ crashes > 0
PageListed == embed.page \subseteq embed.todo \union embed.gone /\ (embed.pc = "list" => embed.page = {})
ReadyInv ==
  /\ PageListed
  /\ \A p \in Pages : source[p].status \in Ready \/ p \in embed.todo => source[p].chunks # "none" \/ Excused
  /\ \A p \in embed.todo : source[p].status # "none"

KbInv == KbShape /\ BusyInv /\ ReadyInv

-----------------------------------------------------------------------------
(***************************************************************************)
(* The queues.                                                             *)
(***************************************************************************)
LEMMA Joined ==
  ASSUME NEW T, NEW a \in Seq(T), NEW b \in Seq(T)
  PROVE  /\ a \o b \in Seq(T)
         /\ Len(a \o b) = Len(a) + Len(b)
         /\ \A j \in 1..Len(a) + Len(b) : (a \o b)[j] = IF j <= Len(a) THEN a[j] ELSE b[j - Len(a)]
OBVIOUS

\* What is left of a queue when a job is taken out of it.
LEMMA TakenOut ==
  ASSUME NEW T, NEW s \in Seq(T), NEW i \in DOMAIN s
  PROVE  /\ RemoveAt(s, i) \in Seq(T)
         /\ \A j \in DOMAIN RemoveAt(s, i) : \E k \in DOMAIN s : RemoveAt(s, i)[j] = s[k]
         /\ \A k \in DOMAIN s \ {i} : \E j \in DOMAIN RemoveAt(s, i) : RemoveAt(s, i)[j] = s[k]
<1>i. i \in 1..Len(s) /\ Len(s) \in Nat
  OBVIOUS
<1> DEFINE a == SubSeq(s, 1, i - 1)
           b == SubSeq(s, i + 1, Len(s))
           rest == RemoveAt(s, i)
<1>1. a \in Seq(T) /\ Len(a) = i - 1 /\ \A j \in 1..i - 1 : a[j] = s[j]
  BY <1>i
<1>2. b \in Seq(T) /\ Len(b) = Len(s) - i /\ \A j \in 1..Len(s) - i : b[j] = s[j + i]
  BY <1>i
<1>3. rest = a \o b
  BY DEF RemoveAt
<1> HIDE DEF a, b, rest
<1>4. /\ rest \in Seq(T)
      /\ Len(rest) = Len(a) + Len(b)
      /\ \A j \in 1..Len(a) + Len(b) : rest[j] = IF j <= Len(a) THEN a[j] ELSE b[j - Len(a)]
  BY <1>1, <1>2, <1>3, Joined
<1>5. DOMAIN rest = 1..Len(s) - 1 /\ Len(a) + Len(b) = Len(s) - 1
  BY <1>i, <1>1, <1>2, <1>4
<1>6. ASSUME NEW j \in 1..Len(s) - 1 PROVE rest[j] = IF j < i THEN s[j] ELSE s[j + 1]
  <2>1. rest[j] = IF j <= i - 1 THEN a[j] ELSE b[j - (i - 1)]
    BY <1>1, <1>4, <1>5
  <2>2. CASE j < i
    BY <2>1, <2>2, <1>i, <1>1
  <2>3. CASE ~(j < i)
    BY <2>1, <2>3, <1>i, <1>2
  <2> QED
    BY <2>2, <2>3
<1>7. ASSUME NEW j \in DOMAIN rest PROVE \E k \in DOMAIN s : rest[j] = s[k]
  <2>1. j \in 1..Len(s) - 1 /\ j + 1 \in DOMAIN s /\ j \in DOMAIN s
    BY <1>i, <1>5
  <2>2. QED
    BY <1>6, <2>1
<1>8. ASSUME NEW k \in DOMAIN s \ {i} PROVE \E j \in DOMAIN rest : rest[j] = s[k]
  <2>1. CASE k < i
    <3>1. k \in 1..Len(s) - 1
      BY <1>i, <2>1
    <3>2. rest[k] = s[k]
      BY <1>6, <2>1, <3>1
    <3>3. QED
      BY <1>5, <3>1, <3>2
  <2>2. CASE k > i
    <3>1. k - 1 \in 1..Len(s) - 1 /\ ~(k - 1 < i) /\ (k - 1) + 1 = k
      BY <1>i, <2>2
    <3>2. rest[k - 1] = s[k]
      BY <1>6, <3>1
    <3>3. QED
      BY <1>5, <3>1, <3>2
  <2>3. QED
    BY <1>i, <2>1, <2>2
<1>9. QED
  BY <1>4, <1>7, <1>8 DEF rest

\* The jobs of the workers are none of the pages' jobs.
LEMMA JobFacts ==
  /\ Crawls \subseteq Workers /\ Workers \subseteq Jobs /\ Pages \subseteq Jobs /\ "embed" \in Workers
  /\ \A j \in Workers : RetryLimit(j) = 1 /\ j \notin Pages
  /\ \A p \in Pages : RetryLimit(p) = 3
BY PageAssumption DEF Crawls, Workers, Jobs, RetryLimit

\* One more job at the end of a queue.
LEMMA OneMore ==
  ASSUME QueueOK, NEW j \in Jobs, NEW n \in Nat, n <= RetryLimit(j), queue' = [queue EXCEPT ![j] = Append(@, n)], crashes' = crashes
  PROVE  /\ QueueOK' /\ \A i \in Jobs : Waits(i) => Waits(i)'
         /\ n <= crashes => Waits(j)'
<1>1. queue \in [Jobs -> Seq(Nat)] /\ queue[j] \in Seq(Nat)
  BY DEF QueueOK
<1>2. PICK s \in Seq(Nat) : s = queue[j]
  BY <1>1
<1> DEFINE new == Append(s, n)
<1>3. /\ new \in Seq(Nat) /\ DOMAIN s \subseteq DOMAIN new /\ Len(s) + 1 \in DOMAIN new /\ new[Len(s) + 1] = n
      /\ \A k \in DOMAIN s : new[k] = s[k]
      /\ \A k \in DOMAIN new : k \in DOMAIN s \/ k = Len(s) + 1
  OBVIOUS
<1> HIDE DEF new
<1>4. queue' \in [Jobs -> Seq(Nat)] /\ queue'[j] = new /\ \A i \in Jobs \ {j} : queue'[i] = queue[i]
  BY <1>1, <1>2, <1>3 DEF new
<1>5. \A i \in Jobs : \A k \in DOMAIN queue'[i] : queue'[i][k] <= RetryLimit(i)
  BY <1>2, <1>3, <1>4 DEF QueueOK
<1>6. QueueOK'
  BY <1>4, <1>5 DEF QueueOK, RetryLimit
<1>7. \A i \in Jobs : Waits(i) => Waits(i)'
  BY <1>2, <1>3, <1>4 DEF Waits
<1>8. n <= crashes => Waits(j)'
  BY <1>3, <1>4 DEF Waits
<1>9. QED
  BY <1>6, <1>7, <1>8

\* A request for a job finds the queue as it was only when the queue has failed.
LEMMA EnqueueKeeps ==
  ASSUME QueueOK, OtherOK, NEW j \in Jobs, Enqueue(j), crashes' = crashes
  PROVE  /\ QueueOK' /\ \A i \in Jobs : Waits(i) => Waits(i)'
         /\ faults' \in 0..MaxFaults
         /\ faults' = 0 => faults = 0 /\ Waits(j)'
<1>1. faults \in 0..MaxFaults /\ MaxFaults \in Nat /\ crashes \in Nat
  BY BoundAssumption DEF OtherOK
<1>2. CASE queue' = [queue EXCEPT ![j] = Append(@, 0)] /\ UNCHANGED faults
  <2>1. 0 <= RetryLimit(j) /\ 0 \in Nat
    BY DEF RetryLimit
  <2>2. QueueOK' /\ (\A i \in Jobs : Waits(i) => Waits(i)') /\ (0 <= crashes => Waits(j)')
    BY <1>2, <2>1, OneMore
  <2>3. QED
    BY <1>1, <1>2, <2>2
<1>3. CASE UNCHANGED queue /\ Fault
  <2>1. faults' = faults + 1 /\ faults < MaxFaults
    BY <1>3 DEF Fault
  <2>2. QueueOK' /\ \A i \in Jobs : Waits(i) => Waits(i)'
    BY <1>3 DEF QueueOK, Waits, RetryLimit
  <2>3. QED
    BY <1>1, <2>1, <2>2
<1>4. QED
  BY <1>2, <1>3 DEF Enqueue

LEMMA RequeueKeeps ==
  ASSUME QueueOK, NEW j \in Jobs, NEW n \in Nat, queue' = Requeue(j, n), crashes' = crashes
  PROVE  QueueOK' /\ \A i \in Jobs : Waits(i) => Waits(i)'
<1>1. CASE n < RetryLimit(j)
  <2>1. queue' = [queue EXCEPT ![j] = Append(@, n + 1)]
    BY <1>1 DEF Requeue
  <2>2. n + 1 \in Nat /\ n + 1 <= RetryLimit(j)
    BY <1>1 DEF RetryLimit
  <2>3. QED
    BY <2>1, <2>2, OneMore
<1>2. CASE ~(n < RetryLimit(j))
  <2>1. queue' = queue
    BY <1>2 DEF Requeue
  <2>2. QED
    BY <2>1 DEF QueueOK, Waits, RetryLimit
<1>3. QED
  BY <1>1, <1>2

\* A job is taken.  If none that counts is left, it was the one.
LEMMA TakeKeeps ==
  ASSUME QueueOK, NEW j \in Jobs, NEW k \in DOMAIN queue[j], queue' = [queue EXCEPT ![j] = RemoveAt(@, k)], crashes' = crashes
  PROVE  /\ QueueOK' /\ queue[j][k] \in 0..RetryLimit(j)
         /\ \A i \in Jobs \ {j} : Waits(i) => Waits(i)'
         /\ Waits(j) => Waits(j)' \/ queue[j][k] <= crashes
<1>1. queue \in [Jobs -> Seq(Nat)] /\ queue[j] \in Seq(Nat)
  BY DEF QueueOK
<1>2. PICK s \in Seq(Nat) : s = queue[j]
  BY <1>1
<1> DEFINE new == RemoveAt(s, k)
<1>3. /\ new \in Seq(Nat) /\ \A m \in DOMAIN new : \E n \in DOMAIN s : new[m] = s[n]
      /\ \A n \in DOMAIN s \ {k} : \E m \in DOMAIN new : new[m] = s[n]
  <2>1. k \in DOMAIN s
    BY <1>2
  <2>2. QED
    BY <2>1, TakenOut, Zenon
<1> HIDE DEF new
<1>4. queue' \in [Jobs -> Seq(Nat)] /\ queue'[j] = new /\ \A i \in Jobs \ {j} : queue'[i] = queue[i]
  BY <1>1, <1>2, <1>3 DEF new
<1>5. \A i \in Jobs : \A m \in DOMAIN queue'[i] : queue'[i][m] <= RetryLimit(i)
  BY <1>2, <1>3, <1>4 DEF QueueOK
<1>6. QueueOK'
  BY <1>4, <1>5 DEF QueueOK, RetryLimit
<1>7. queue[j][k] \in 0..RetryLimit(j)
  <2>1. queue[j][k] \in Nat /\ queue[j][k] <= RetryLimit(j)
    BY <1>1 DEF QueueOK
  <2>2. QED
    BY <2>1 DEF RetryLimit
<1>8. \A i \in Jobs \ {j} : Waits(i) => Waits(i)'
  BY <1>4 DEF Waits
<1>9. Waits(j) => Waits(j)' \/ queue[j][k] <= crashes
  BY <1>2, <1>3, <1>4 DEF Waits
<1>10. QED
  BY <1>6, <1>7, <1>8, <1>9

-----------------------------------------------------------------------------
(***************************************************************************)
(* What keeps the two promises.                                            *)
(***************************************************************************)
\* A step that does not begin to show work, and that ends no job that is shown.
LEMMA BusyStays ==
  ASSUME BusyInv, crashes' = crashes, faults' = 0 => faults = 0,
         state'["scan"] \in {"SCANNING", "EMBEDDING"} => state'["scan"] = state["scan"],
         state'["scan"] = "SCANNING" => (Crawled("scan") => Crawled("scan")'),
         state'["scan"] = "EMBEDDING" => (Embedded => Embedded'),
         state'["crawl"] = "RUNNING" => state["crawl"] = "RUNNING" /\ (Crawled("crawl") => Crawled("crawl")')
  PROVE  BusyInv'
BY DEF BusyInv, phase

\* A step that takes no chunks, and that makes nothing ready but what has chunks.
LEMMA ReadyStays ==
  ASSUME ReadyInv, Excused => Excused',
         PageListed', embed'.todo \subseteq embed.todo,
         \A p \in Pages : source'[p].status \in Ready \/ p \in embed'.todo =>
           \/ source'[p].chunks # "none"
           \/ source'[p].chunks = source[p].chunks /\ (source[p].status \in Ready \/ p \in embed.todo),
         \A p \in embed'.todo : source'[p].status # "none"
  PROVE  ReadyInv'
<1>1. ASSUME NEW p \in Pages, source'[p].status \in Ready \/ p \in embed'.todo, ~(source'[p].chunks # "none") PROVE Excused'
  BY <1>1 DEF ReadyInv
<1>2. QED
  BY <1>1 DEF ReadyInv

\* The rows that a deletion leaves, and who held the others.
LEMMA DeleteKeeps ==
  ASSUME KbShape, NEW old \in SUBSET Pages, Delete(old), crashes' = crashes
  PROVE  /\ SourceOK' /\ TaskOK' /\ EmbedOK' /\ QueueOK'
         /\ \A j \in Workers : Waits(j) => Waits(j)'
         /\ embed'.pc = embed.pc /\ embed'.tries = embed.tries /\ embed'.page = embed.page
         /\ embed'.todo = embed.todo \ old /\ embed'.gone = embed.gone \union (embed.todo \intersect old)
         /\ \A p \in Pages : IF p \in old THEN source'[p].status = "none" ELSE source'[p] = source[p]
<1> USE DEF KbShape
<1>1. SourceOK' /\ \A p \in Pages : IF p \in old THEN source'[p].status = "none" ELSE source'[p] = source[p]
  <2>1. NoSource \in SourceRow /\ NoSource.status = "none"
    BY DEF NoSource, SourceRow, Statuses
  <2>2. source' = [p \in Pages |-> IF p \in old THEN NoSource ELSE source[p]] /\ source \in [Pages -> SourceRow]
    BY DEF Delete, SourceOK
  <2>3. QED
    BY <2>1, <2>2 DEF SourceOK
<1>2. TaskOK'
  <2>1. task \in [Tasks -> TaskRow]
    BY DEF TaskOK
  <2>2. \A t \in Tasks : [task[t] EXCEPT !.row = "gone"] \in TaskRow /\ task[t] \in TaskRow
    BY <2>1 DEF TaskRow
  <2>3. task' = [t \in Tasks |-> IF t[2] \in old /\ task[t].row = "held" THEN [task[t] EXCEPT !.row = "gone"] ELSE task[t]]
    BY DEF Delete
  <2>4. QED
    BY <2>2, <2>3 DEF TaskOK
<1>3. /\ EmbedOK' /\ embed'.pc = embed.pc /\ embed'.tries = embed.tries /\ embed'.page = embed.page
      /\ embed'.todo = embed.todo \ old /\ embed'.gone = embed.gone \union (embed.todo \intersect old)
  <2>1. embed \in EmbedRow
    BY DEF EmbedOK
  <2> DEFINE todo == embed.todo \ old
             gone == embed.gone \union (embed.todo \intersect old)
             held == embed.held /\ embed.page \intersect old = {}
  <2>2. embed' = [embed EXCEPT !.todo = todo, !.gone = gone, !.held = held]
    BY <2>1 DEF Delete, EmbedRow
  <2>3. todo \in SUBSET Pages /\ gone \in SUBSET Pages /\ held \in BOOLEAN
    BY <2>1 DEF EmbedRow
  <2> HIDE DEF todo, gone, held
  <2>4. /\ embed' \in EmbedRow /\ embed'.pc = embed.pc /\ embed'.tries = embed.tries /\ embed'.page = embed.page
        /\ embed'.todo = todo /\ embed'.gone = gone
    BY <2>1, <2>2, <2>3 DEF EmbedRow
  <2>5. QED
    BY <2>4 DEF EmbedOK, todo, gone
<1>4. QueueOK' /\ \A j \in Workers : Waits(j) => Waits(j)'
  <2>1. queue \in [Jobs -> Seq(Nat)] /\ queue' = [j \in Jobs |-> IF j \in old THEN <<>> ELSE queue[j]]
    BY DEF QueueOK, Delete
  <2>2. queue' \in [Jobs -> Seq(Nat)] /\ \A j \in Jobs : queue'[j] = IF j \in old THEN <<>> ELSE queue[j]
    BY <2>1
  <2>3. \A j \in Jobs : \A k \in DOMAIN queue'[j] : k \in DOMAIN queue[j] /\ queue'[j][k] = queue[j][k]
    BY <2>2
  <2>4. QueueOK'
    BY <2>2, <2>3 DEF QueueOK, RetryLimit
  <2>5. \A j \in Workers : queue'[j] = queue[j]
    BY <2>2, JobFacts
  <2>6. QED
    BY <2>4, <2>5 DEF Waits
<1>5. QED
  BY <1>1, <1>2, <1>3, <1>4

\* A deletion in which nothing else happens that matters here.
LEMMA DeletedStays ==
  ASSUME KbInv, NEW old \in SUBSET Pages, Delete(old), UNCHANGED <<worker, crashes, faults, state>>,
         (Excused => Excused') \/ old = {p \in Pages : source[p].status # "none"}
  PROVE  BusyInv' /\ ReadyInv'
<1> USE DEF KbInv
<1>1. /\ \A j \in Workers : Waits(j) => Waits(j)'
      /\ embed'.pc = embed.pc /\ embed'.tries = embed.tries /\ embed'.page = embed.page
      /\ embed'.todo = embed.todo \ old /\ embed'.gone = embed.gone \union (embed.todo \intersect old)
      /\ \A p \in Pages : IF p \in old THEN source'[p].status = "none" ELSE source'[p] = source[p]
  BY DeleteKeeps
<1>2. BusyInv'
  <2>1. /\ (Crawled("scan") => Crawled("scan")') /\ (Crawled("crawl") => Crawled("crawl")') /\ (Embedded => Embedded')
    BY <1>1, JobFacts DEF Crawled, Embedded, Crawls
  <2>2. QED
    BY <2>1, BusyStays
<1>3. embed.todo \subseteq Pages
  BY DEF KbShape, EmbedOK, EmbedRow
<1>4. PageListed'
  BY <1>1 DEF ReadyInv, PageListed
<1>5. CASE Excused => Excused'
  <2>1. \A p \in Pages : source'[p].status \in Ready \/ p \in embed'.todo => source'[p] = source[p]
    BY <1>1 DEF Ready
  <2>2. \A p \in Pages : source'[p].status \in Ready \/ p \in embed'.todo =>
           source'[p].chunks = source[p].chunks /\ (source[p].status \in Ready \/ p \in embed.todo)
    BY <1>1, <2>1
  <2>3. \A p \in embed'.todo : source'[p].status # "none"
    BY <1>1, <1>3 DEF ReadyInv
  <2>4. embed'.todo \subseteq embed.todo
    BY <1>1
  <2>5. ReadyInv'
    BY <1>4, <1>5, <2>2, <2>3, <2>4, ReadyStays
  <2>6. QED
    BY <1>2, <2>5
<1>6. CASE old = {p \in Pages : source[p].status # "none"}
  <2>1. \A p \in Pages : source'[p].status = "none"
    BY <1>1, <1>6
  <2>2. embed'.todo = {}
    BY <1>1, <1>3, <1>6 DEF ReadyInv
  <2>3. ReadyInv'
    BY <1>4, <2>1, <2>2 DEF ReadyInv, Ready
  <2>4. QED
    BY <1>2, <2>3
<1>7. QED
  BY <1>5, <1>6

LEMMA StateWrites ==
  ASSUME StateOK, NEW q \in Crawls, NEW v, q = "scan" => v \in Phases, q = "crawl" => v \in CrawlPhases,
         state' = [state EXCEPT ![q] = v]
  PROVE  StateOK' /\ state'[q] = v /\ \A r \in Crawls \ {q} : state'[r] = state[r]
<1>1. state \in [Crawls -> Phases \union CrawlPhases] /\ v \in Phases \union CrawlPhases
  BY DEF StateOK, Crawls
<1>2. /\ state' \in [Crawls -> Phases \union CrawlPhases] /\ state'[q] = v
      /\ \A r \in Crawls \ {q} : state'[r] = state[r]
  BY <1>1
<1>3. QED
  BY <1>2 DEF StateOK, Crawls

-----------------------------------------------------------------------------
(***************************************************************************)
(* The requests.                                                           *)
(***************************************************************************)
LEMMA StartKept == ASSUME KbInv, NEW q \in Crawls, Start(q) PROVE KbInv'
<1> USE DEF KbInv
<1> DEFINE v == IF q = "scan" THEN "SCANNING" ELSE "RUNNING"
<1>1. /\ state' = [state EXCEPT ![q] = v] /\ quoted' = (IF q = "scan" THEN {} ELSE quoted)
      /\ Enqueue(q) /\ UNCHANGED <<events, source, task, worker, embed, handler, crashes>>
  BY DEF Start
<1>2. /\ StateOK' /\ state'[q] = v /\ \A r \in Crawls \ {q} : state'[r] = state[r]
  <2>1. (q = "scan" => v \in Phases) /\ (q = "crawl" => v \in CrawlPhases)
    BY DEF Phases, CrawlPhases
  <2> HIDE DEF v
  <2>2. QED
    BY <1>1, <2>1, StateWrites DEF KbShape
<1>3. /\ QueueOK' /\ \A i \in Jobs : Waits(i) => Waits(i)'
      /\ faults' \in 0..MaxFaults
      /\ faults' = 0 => faults = 0 /\ Waits(q)'
  BY <1>1, JobFacts, EnqueueKeeps DEF KbShape
<1>4. KbShape'
  BY <1>1, <1>2, <1>3 DEF KbShape, SourceOK, TaskOK, WorkerOK, EmbedOK, OtherOK
<1>5. BusyInv'
  <2>1. faults' = 0 => Crawled(q)'
    BY <1>3 DEF Crawled
  <2>2. \A r \in Crawls : Crawled(r) => Crawled(r)'
    BY <1>1, <1>3, JobFacts DEF Crawled
  <2>3. Embedded => Embedded'
    BY <1>1, <1>3, JobFacts DEF Embedded
  <2>4. CASE q = "scan"
    BY <1>1, <1>2, <1>3, <2>1, <2>2, <2>4 DEF BusyInv, phase, Crawls
  <2>5. CASE q = "crawl"
    BY <1>1, <1>2, <1>3, <2>1, <2>2, <2>3, <2>5 DEF BusyInv, phase, Crawls
  <2>6. QED
    BY <2>4, <2>5 DEF Crawls
<1>6. ReadyInv'
  BY <1>1 DEF ReadyInv, PageListed, Excused
<1>7. QED
  BY <1>4, <1>5, <1>6

LEMMA ConfirmKept == ASSUME KbInv, ConfirmEmbed PROVE KbInv'
<1> USE DEF KbInv
<1>1. /\ state' = [state EXCEPT !["scan"] = "EMBEDDING"] /\ Enqueue("embed")
      /\ UNCHANGED <<events, source, quoted, task, worker, embed, handler, crashes>>
  BY DEF ConfirmEmbed
<1>2. StateOK' /\ state'["scan"] = "EMBEDDING" /\ state'["crawl"] = state["crawl"]
  BY <1>1, StateWrites DEF KbShape, Crawls, Phases
<1>3. /\ QueueOK' /\ \A i \in Jobs : Waits(i) => Waits(i)'
      /\ faults' \in 0..MaxFaults
      /\ faults' = 0 => faults = 0 /\ Waits("embed")'
  BY <1>1, JobFacts, EnqueueKeeps DEF KbShape
<1>4. KbShape'
  BY <1>1, <1>2, <1>3 DEF KbShape, SourceOK, TaskOK, WorkerOK, EmbedOK, OtherOK
<1>5. BusyInv'
  <2>1. faults' = 0 => Embedded'
    BY <1>3 DEF Embedded
  <2>2. Crawled("crawl") => Crawled("crawl")'
    BY <1>1, <1>3, JobFacts DEF Crawled, Crawls
  <2>3. QED
    BY <1>1, <1>2, <1>3, <2>1, <2>2 DEF BusyInv, phase
<1>6. ReadyInv'
  BY <1>1 DEF ReadyInv, PageListed, Excused
<1>7. QED
  BY <1>4, <1>5, <1>6

\* What writes a phase that shows no work, and nothing else that matters here.
LEMMA PhaseKept ==
  ASSUME KbInv, StateOK', OtherOK', UNCHANGED <<source, queue, task, worker, embed, crashes, faults>>,
         Excused => Excused',
         state'["scan"] \in {"SCANNING", "EMBEDDING"} => state'["scan"] = state["scan"],
         state'["crawl"] = "RUNNING" => state["crawl"] = "RUNNING"
  PROVE  KbInv'
<1> USE DEF KbInv
<1>1. KbShape'
  BY DEF KbShape, SourceOK, TaskOK, WorkerOK, EmbedOK, QueueOK, RetryLimit
<1>2. BusyInv'
  <2>1. (\A r \in Crawls : Crawled(r) => Crawled(r)') /\ (Embedded => Embedded')
    BY DEF Crawled, Embedded, Waits
  <2>2. QED
    BY <2>1, BusyStays DEF Crawls
<1>3. ReadyInv'
  BY DEF ReadyInv, PageListed
<1>4. QED
  BY <1>1, <1>2, <1>3

LEMMA CancelKept == ASSUME KbInv, CancelCrawl \/ CancelScanPhase \/ WipeConfig PROVE KbInv'
<1> USE DEF KbInv
<1>1. /\ UNCHANGED <<events, source, queue, task, worker, embed, crashes, faults>>
      /\ quoted' \in {quoted, {}} /\ handler' \in {handler, "idle"} /\ (Excused => Excused')
  BY DEF CancelCrawl, CancelScanPhase, WipeConfig, Excused
<1>2. OtherOK'
  BY <1>1 DEF OtherOK, KbShape
<1>3. /\ StateOK' /\ (state'["scan"] \in {"SCANNING", "EMBEDDING"} => state'["scan"] = state["scan"])
      /\ state'["crawl"] = "RUNNING" => state["crawl"] = "RUNNING"
  <2>1. CASE CancelCrawl
    <3>1. state' = [state EXCEPT !["crawl"] = "CANCELLED"]
      BY <2>1 DEF CancelCrawl
    <3>2. StateOK' /\ state'["crawl"] = "CANCELLED" /\ state'["scan"] = state["scan"]
      BY <3>1, StateWrites DEF KbShape, Crawls, CrawlPhases
    <3>3. QED
      BY <3>2
  <2>2. CASE CancelScanPhase
    <3>1. state' = [state EXCEPT !["scan"] = "CANCELLED"]
      BY <2>2 DEF CancelScanPhase
    <3>2. StateOK' /\ state'["scan"] = "CANCELLED" /\ state'["crawl"] = state["crawl"]
      BY <3>1, StateWrites DEF KbShape, Crawls, Phases
    <3>3. QED
      BY <3>2
  <2>3. CASE WipeConfig
    <3>1. state' = [q \in Crawls |-> "IDLE"]
      BY <2>3 DEF WipeConfig
    <3>2. StateOK' /\ state'["scan"] = "IDLE" /\ state'["crawl"] = "IDLE"
      BY <3>1 DEF StateOK, Crawls, Phases, CrawlPhases
    <3>3. QED
      BY <3>2
  <2>4. QED
    BY <2>1, <2>2, <2>3
<1>4. QED
  BY <1>1, <1>2, <1>3, PhaseKept

\* The requests that delete rows.
LEMMA DeletionKept ==
  ASSUME KbInv, CancelScan \/ WipeSources \/ \E p \in Pages : DeleteSource(p)
  PROVE  KbInv'
<1> USE DEF KbInv
<1>1. PICK old \in SUBSET Pages :
        /\ Delete(old) /\ UNCHANGED <<events, state, quoted, worker, crashes, faults>>
        /\ handler' \in {handler, "cancel", "wipeConfig"}
        /\ (Excused => Excused') \/ old = {p \in Pages : source[p].status # "none"}
  <2>1. CASE CancelScan
    BY <2>1 DEF CancelScan, Rows, Excused
  <2>2. CASE WipeSources
    BY <2>2 DEF WipeSources
  <2>3. CASE \E p \in Pages : DeleteSource(p)
    BY <2>3 DEF DeleteSource, Excused
  <2>4. QED
    BY <2>1, <2>2, <2>3
<1>2. SourceOK' /\ TaskOK' /\ EmbedOK' /\ QueueOK'
  BY <1>1, DeleteKeeps
<1>3. KbShape'
  BY <1>1, <1>2 DEF KbShape, StateOK, WorkerOK, OtherOK
<1>4. BusyInv' /\ ReadyInv'
  BY <1>1, DeletedStays
<1>5. QED
  BY <1>3, <1>4

LEMMA WipeChunksKept == ASSUME KbInv, WipeChunks PROVE KbInv'
<1> USE DEF KbInv
<1>1. /\ source' = [p \in Pages |-> [source[p] EXCEPT !.chunks = "none"]] /\ embed' = [embed EXCEPT !.held = FALSE]
      /\ handler' = "wipeSources"
      /\ UNCHANGED <<events, state, quoted, queue, task, worker, crashes, faults>>
  BY DEF WipeChunks
<1>2. SourceOK' /\ \A p \in Pages : source'[p].status = source[p].status
  <2>1. \A p \in Pages : source[p] \in SourceRow
    BY DEF KbShape, SourceOK
  <2>2. \A p \in Pages : [source[p] EXCEPT !.chunks = "none"] \in SourceRow /\ [source[p] EXCEPT !.chunks = "none"].status = source[p].status
    BY <2>1 DEF SourceRow
  <2>3. QED
    BY <1>1, <2>2 DEF SourceOK
<1>3. /\ EmbedOK' /\ embed'.pc = embed.pc /\ embed'.tries = embed.tries /\ embed'.page = embed.page
      /\ embed'.todo = embed.todo /\ embed'.gone = embed.gone
  BY <1>1 DEF KbShape, EmbedOK, EmbedRow
<1>4. KbShape'
  BY <1>1, <1>2, <1>3 DEF KbShape, StateOK, QueueOK, RetryLimit, TaskOK, WorkerOK, OtherOK
<1>5. BusyInv'
  <2>1. (\A r \in Crawls : Crawled(r) => Crawled(r)') /\ (Embedded => Embedded')
    BY <1>1, <1>3 DEF Crawled, Embedded, Waits
  <2>2. QED
    BY <1>1, <2>1, BusyStays DEF Crawls
<1>6. ReadyInv'
  <2>1. embed.todo \subseteq Pages
    BY DEF KbShape, EmbedOK, EmbedRow
  <2>2. QED
    BY <1>1, <1>2, <1>3, <2>1 DEF ReadyInv, PageListed, Excused
<1>7. QED
  BY <1>4, <1>5, <1>6

LEMMA ReindexKept == ASSUME KbInv, NEW p \in Pages, ReindexSource(p) PROVE KbInv'
<1> USE DEF KbInv
<1>1. Enqueue(p) /\ UNCHANGED <<events, source, state, quoted, task, worker, embed, handler, crashes>>
  BY DEF ReindexSource
<1>2. /\ QueueOK' /\ \A i \in Jobs : Waits(i) => Waits(i)'
      /\ faults' \in 0..MaxFaults /\ (faults' = 0 => faults = 0)
  BY <1>1, JobFacts, EnqueueKeeps DEF KbShape
<1>3. KbShape'
  BY <1>1, <1>2 DEF KbShape, SourceOK, StateOK, TaskOK, WorkerOK, EmbedOK, OtherOK
<1>4. BusyInv'
  <2>1. (\A r \in Crawls : Crawled(r) => Crawled(r)') /\ (Embedded => Embedded')
    BY <1>1, <1>2, JobFacts DEF Crawled, Embedded
  <2>2. QED
    BY <1>1, <1>2, <2>1, BusyStays DEF Crawls
<1>5. ReadyInv'
  BY <1>1 DEF ReadyInv, PageListed, Excused
<1>6. QED
  BY <1>3, <1>4, <1>5

-----------------------------------------------------------------------------
(***************************************************************************)
(* One page on its way in.                                                 *)
(***************************************************************************)
LEMMA TaskSet ==
  ASSUME TaskOK, NEW t \in Tasks, NEW new \in TaskRow, task' = [task EXCEPT ![t] = new]
  PROVE  TaskOK'
BY DEF TaskOK

LEMMA TaskFacts ==
  ASSUME TaskOK
  PROVE  /\ NoTask \in TaskRow /\ \A stored \in BOOLEAN : [NoTask EXCEPT !.pc = "config", !.stored = stored] \in TaskRow
         /\ \A t \in Tasks : t[1] \in AllWays /\ t[2] \in Pages /\ task[t] \in TaskRow
<1>1. NoTask \in TaskRow
  BY DEF NoTask, TaskRow, TaskSteps, Phases
<1>2. \A stored \in BOOLEAN : [NoTask EXCEPT !.pc = "config", !.stored = stored] \in TaskRow
  BY <1>1 DEF TaskRow, TaskSteps
<1>3. \A t \in Tasks : t[1] \in AllWays /\ t[2] \in Pages /\ task[t] \in TaskRow
  BY DEF Tasks, TaskOK
<1>4. QED
  BY <1>1, <1>2, <1>3

LEMMA GoesKeeps == ASSUME TaskOK, NEW t \in Tasks, NEW pc \in TaskSteps, Goes(t, pc) PROVE TaskOK'
<1>1. task[t] \in TaskRow
  BY TaskFacts
<1>2. [task[t] EXCEPT !.pc = pc] \in TaskRow
  BY <1>1 DEF TaskRow
<1>3. task' = [task EXCEPT ![t] = [task[t] EXCEPT !.pc = pc]]
  BY DEF Goes
<1>4. QED
  BY <1>2, <1>3 DEF TaskOK

LEMMA ReturnsKeeps ==
  ASSUME TaskOK, NEW t \in Tasks, NEW stored \in BOOLEAN, Returns(t, stored)
  PROVE  TaskOK' /\ queue' = queue
<1> DEFINE new == IF t[1] = "manual" THEN [NoTask EXCEPT !.pc = "config", !.stored = stored] ELSE NoTask
<1>1. new \in TaskRow
  BY TaskFacts
<1>2. task' = [task EXCEPT ![t] = new] /\ queue' = queue
  BY DEF Returns
<1> HIDE DEF new
<1>3. QED
  BY <1>1, <1>2 DEF TaskOK

LEMMA ThrowsKeeps ==
  ASSUME TaskOK, QueueOK, NEW t \in Tasks, Throws(t), crashes' = crashes
  PROVE  TaskOK' /\ QueueOK' /\ \A i \in Jobs : Waits(i) => Waits(i)'
<1>1. t[2] \in Jobs /\ task[t].tries \in Nat
  <2>1. t[2] \in Pages /\ task[t] \in TaskRow
    BY TaskFacts
  <2>2. task[t].tries \in 0..3
    BY <2>1 DEF TaskRow
  <2>3. QED
    BY <2>1, <2>2, JobFacts
<1>2. TaskOK'
  BY TaskFacts, TaskSet DEF Throws
<1>3. CASE t[1] = "reindex"
  <2>1. PICK j \in Jobs, n \in Nat : j = t[2] /\ n = task[t].tries
    BY <1>1
  <2>2. queue' = Requeue(j, n)
    BY <1>3, <2>1 DEF Throws
  <2>3. QED
    BY <1>2, <2>2, RequeueKeeps
<1>4. CASE t[1] # "reindex"
  <2>1. queue' = queue
    BY <1>4 DEF Throws
  <2>2. QED
    BY <1>2, <2>1 DEF QueueOK, Waits, RetryLimit
<1>5. QED
  BY <1>3, <1>4

\* A step that begins and ends no job of a crawl or an embedding, and makes no source
\* ready without its chunks.
LEMMA WorkKept ==
  ASSUME KbInv, SourceOK', TaskOK', QueueOK', EmbedOK',
         UNCHANGED <<events, state, quoted, worker, handler, crashes>>, faults' \in 0..MaxFaults, faults' = 0 => faults = 0,
         \A i \in Workers : Waits(i) => Waits(i)',
         embed'.pc = embed.pc, embed'.tries = embed.tries, embed'.todo = embed.todo, embed'.gone = embed.gone, embed'.page = embed.page,
         \A p \in Pages : \/ source'[p].status = source[p].status /\ source'[p].chunks = source[p].chunks
                          \/ /\ source'[p].status # "none"
                             /\ source'[p].chunks # "none" \/ (source'[p].chunks = source[p].chunks /\ source'[p].status \notin Ready)
  PROVE  KbInv'
<1> USE DEF KbInv
<1>1. KbShape'
  BY DEF KbShape, StateOK, WorkerOK, OtherOK
<1>2. BusyInv'
  <2>1. (\A r \in Crawls : Crawled(r) => Crawled(r)') /\ (Embedded => Embedded')
    BY JobFacts DEF Crawled, Embedded
  <2>2. QED
    BY <2>1, BusyStays DEF Crawls
<1>3. ReadyInv'
  <2>1. embed.todo \subseteq Pages
    BY DEF KbShape, EmbedOK, EmbedRow
  <2>2. PageListed' /\ embed'.todo \subseteq embed.todo
    BY DEF ReadyInv, PageListed
  <2>3. \A p \in embed'.todo : source'[p].status # "none"
    BY <2>1 DEF ReadyInv
  <2>4. Excused => Excused'
    BY DEF Excused
  <2>5. \A p \in Pages : source'[p].status \in Ready \/ p \in embed'.todo =>
           \/ source'[p].chunks # "none"
           \/ source'[p].chunks = source[p].chunks /\ (source[p].status \in Ready \/ p \in embed.todo)
    OBVIOUS
  <2>6. QED
    BY <2>2, <2>3, <2>4, <2>5, ReadyStays
<1>4. QED
  BY <1>1, <1>2, <1>3

\* A step that changes the pages' tasks only.
LEMMA OnlyTask ==
  ASSUME KbInv, TaskOK', UNCHANGED <<events, source, state, quoted, queue, worker, embed, handler, crashes, faults>>
  PROVE  KbInv'
<1>1. SourceOK' /\ QueueOK' /\ EmbedOK' /\ faults' \in 0..MaxFaults /\ \A i \in Workers : Waits(i) => Waits(i)'
  BY DEF KbInv, KbShape, SourceOK, QueueOK, RetryLimit, EmbedOK, OtherOK, Waits
<1>2. QED
  BY <1>1, WorkKept

\* One source is written.
LEMMA RowSets ==
  ASSUME SourceOK, NEW p \in Pages, NEW new \in SourceRow, Row(p, new)
  PROVE  SourceOK' /\ source'[p] = new /\ \A q \in Pages \ {p} : source'[q] = source[q]
BY DEF SourceOK, Row

LEMMA ManualAdded == ASSUME KbInv, NEW p \in Pages, AddManual(p) PROVE KbInv'
<1>1. PICK t \in Tasks : t = <<"manual", p>>
  BY DEF Tasks, AllWays
<1>2. TaskOK /\ task[t] \in TaskRow
  BY TaskFacts DEF KbInv, KbShape
<1>3. [task[t] EXCEPT !.pc = "upsert"] \in TaskRow
  BY <1>2 DEF TaskRow, TaskSteps
<1>4. task' = [task EXCEPT ![t] = [task[t] EXCEPT !.pc = "upsert"]]
  BY <1>1 DEF AddManual
<1>5. TaskOK'
  BY <1>2, <1>3, <1>4 DEF TaskOK
<1>6. QED
  BY <1>5, OnlyTask DEF AddManual

\* A worker that sees the cancel keeps nothing going that is shown: its phase is
\* CANCELLED, or its job did not count before.
LEMMA VisitKept == ASSUME KbInv, NEW t \in Tasks, Visit(t) PROVE KbInv'
<1>1. TaskOK /\ task[t].pc = "visit" /\ worker \in [Crawls -> WorkerRow]
  BY DEF KbInv, KbShape, Visit, WorkerOK
<1>2. CASE ~(state[t[1]] = "CANCELLED" \/ worker[t[1]].cancelled)
  <2>1. Goes(t, "upsert") /\ UNCHANGED <<events, source, state, quoted, queue, worker, embed, handler, crashes, faults>>
    BY <1>2 DEF Visit
  <2>2. TaskOK'
    BY <1>1, <2>1, GoesKeeps DEF TaskSteps
  <2>3. QED
    BY <2>1, <2>2, OnlyTask
<1>3. CASE state[t[1]] = "CANCELLED" \/ worker[t[1]].cancelled
  <2>1. /\ worker' = [worker EXCEPT ![t[1]].cancelled = TRUE] /\ Goes(t, "idle")
        /\ UNCHANGED <<events, source, state, quoted, queue, embed, handler, crashes, faults>>
    BY <1>3 DEF Visit
  <2>2. TaskOK'
    BY <1>1, <2>1, GoesKeeps DEF TaskSteps
  <2>3. /\ worker' \in [Crawls -> WorkerRow]
        /\ \A q \in Crawls \ {t[1]} : worker'[q] = worker[q]
    <3>1. CASE t[1] \in Crawls
      <4>1. [worker[t[1]] EXCEPT !.cancelled = TRUE] \in WorkerRow
        BY <1>1, <3>1 DEF WorkerRow
      <4>2. QED
        BY <1>1, <2>1, <4>1
    <3>2. CASE t[1] \notin Crawls
      BY <1>1, <2>1, <3>2
    <3>3. QED
      BY <3>1, <3>2
  <2>4. KbShape'
    BY <2>1, <2>2, <2>3 DEF KbInv, KbShape, SourceOK, StateOK, QueueOK, RetryLimit, WorkerOK, EmbedOK, OtherOK
  <2>5. ASSUME NEW q \in Crawls, state[q] # "CANCELLED" PROVE Crawled(q) => Crawled(q)'
    <3>1. CASE q # t[1]
      BY <2>1, <2>3, <3>1 DEF Crawled, Waits
    <3>2. CASE q = t[1]
      BY <1>3, <2>1, <2>5, <3>2 DEF Crawled, Waits
    <3>3. QED
      BY <3>1, <3>2
  <2>6. Embedded => Embedded'
    BY <2>1 DEF Embedded, Waits
  <2>7. BusyInv'
    BY <2>1, <2>5, <2>6, BusyStays DEF KbInv, Crawls
  <2>8. ReadyInv'
    BY <2>1 DEF KbInv, ReadyInv, PageListed, Excused
  <2>9. QED
    BY <2>4, <2>7, <2>8 DEF KbInv
<1>4. QED
  BY <1>2, <1>3

LEMMA UpsertKept == ASSUME KbInv, NEW t \in Tasks, Upsert(t) PROVE KbInv'
<1>1. TaskOK /\ SourceOK /\ task[t] \in TaskRow /\ t[2] \in Pages
  BY TaskFacts DEF KbInv, KbShape
<1>2. PICK p \in Pages : p = t[2]
  BY <1>1
<1>3. /\ source' = [source EXCEPT ![p] = [source[p] EXCEPT !.status = "PENDING"]]
      /\ task' = [task EXCEPT ![t] = [task[t] EXCEPT !.pc = "fetch", !.row = "held"]]
      /\ UNCHANGED <<events, state, quoted, queue, worker, embed, handler, crashes, faults>>
  BY <1>1, <1>2 DEF Upsert, TaskOK
<1>4. [task[t] EXCEPT !.pc = "fetch", !.row = "held"] \in TaskRow
  BY <1>1 DEF TaskRow, TaskSteps
<1>5. TaskOK'
  BY <1>1, <1>3, <1>4 DEF TaskOK
<1>6. PICK new \in SourceRow : new = [source[p] EXCEPT !.status = "PENDING"] /\ new.status = "PENDING" /\ new.chunks = source[p].chunks
  <2>1. source[p] \in SourceRow
    BY <1>1 DEF SourceOK
  <2> DEFINE new == [source[p] EXCEPT !.status = "PENDING"]
  <2>2. new \in SourceRow /\ new.status = "PENDING" /\ new.chunks = source[p].chunks
    BY <2>1 DEF SourceRow, Statuses
  <2> HIDE DEF new
  <2>3. PICK z \in SourceRow : z = new
    BY <2>2
  <2>4. QED
    BY <2>2, <2>3 DEF new
<1>7. SourceOK' /\ source'[p] = new /\ \A q \in Pages \ {p} : source'[q] = source[q]
  BY <1>1, <1>3, <1>6, RowSets DEF Row
<1>8. QueueOK' /\ EmbedOK' /\ faults' \in 0..MaxFaults /\ \A i \in Workers : Waits(i) => Waits(i)'
  BY <1>3 DEF KbInv, KbShape, QueueOK, RetryLimit, EmbedOK, OtherOK, Waits
<1>9. \A q \in Pages : \/ source'[q].status = source[q].status /\ source'[q].chunks = source[q].chunks
                       \/ /\ source'[q].status # "none"
                          /\ source'[q].chunks # "none" \/ (source'[q].chunks = source[q].chunks /\ source'[q].status \notin Ready)
  BY <1>6, <1>7 DEF Ready
<1>10. QED
  BY <1>3, <1>5, <1>7, <1>8, <1>9, WorkKept

\* A page is skipped, fetched or gone.
LEMMA FetchKept == ASSUME KbInv, NEW t \in Tasks, Fetch(t) PROVE KbInv'
<1>1. TaskOK /\ SourceOK /\ QueueOK /\ task[t] \in TaskRow /\ t[2] \in Pages
  BY TaskFacts DEF KbInv, KbShape
<1>2. PICK p \in Pages : p = t[2]
  BY <1>1
<1>3. UNCHANGED <<events, state, quoted, worker, embed, handler, crashes, faults>>
  BY DEF Fetch
<1>4. EmbedOK' /\ faults' \in 0..MaxFaults
  BY <1>3 DEF KbInv, KbShape, EmbedOK, OtherOK
<1>5. CASE task[t].row = "gone"
  <2>1. Throws(t) /\ UNCHANGED source
    BY <1>5 DEF Fetch
  <2>2. TaskOK' /\ QueueOK' /\ \A i \in Jobs : Waits(i) => Waits(i)'
    BY <1>1, <1>3, <2>1, ThrowsKeeps
  <2>3. SourceOK'
    BY <1>1, <2>1 DEF SourceOK
  <2>4. QED
    BY <1>3, <1>4, <2>1, <2>2, <2>3, JobFacts, WorkKept
<1>6. CASE task[t].row # "gone"
  <2>1. queue' = queue /\ TaskOK'
    <3>1. Returns(t, FALSE) \/ (Goes(t, "store") /\ UNCHANGED queue)
      BY <1>6 DEF Fetch
    <3>2. QED
      BY <1>1, <3>1, ReturnsKeeps, GoesKeeps DEF TaskSteps
  <2>2. QueueOK' /\ \A i \in Jobs : Waits(i) => Waits(i)'
    BY <1>1, <1>3, <2>1 DEF QueueOK, RetryLimit, Waits
  <2>3. SourceOK' /\ \A q \in Pages : \/ source'[q] = source[q]
                                      \/ source'[q].status \in {"SKIPPED", "FETCHED"} /\ source'[q].chunks = source[q].chunks
    <3>1. source[p] \in SourceRow
      BY <1>1 DEF SourceOK
    <3>2. CASE source' = source
      BY <1>1, <3>2 DEF SourceOK
    <3>3. ASSUME NEW new, Row(p, new), new \in SourceRow, new.status \in {"SKIPPED", "FETCHED"}, new.chunks = source[p].chunks
          PROVE  SourceOK' /\ \A q \in Pages : \/ source'[q] = source[q]
                                               \/ source'[q].status \in {"SKIPPED", "FETCHED"} /\ source'[q].chunks = source[q].chunks
      <4>1. SourceOK' /\ source'[p] = new /\ \A q \in Pages \ {p} : source'[q] = source[q]
        BY <1>1, <3>3, RowSets
      <4>2. QED
        BY <3>3, <4>1
    <3>4. CASE Row(p, [source[p] EXCEPT !.status = "SKIPPED"])
      <4> DEFINE new == [source[p] EXCEPT !.status = "SKIPPED"]
      <4>1. new \in SourceRow /\ new.status = "SKIPPED" /\ new.chunks = source[p].chunks
        BY <3>1 DEF SourceRow, Statuses
      <4>2. Row(p, new)
        BY <3>4
      <4> HIDE DEF new
      <4>3. PICK z \in SourceRow : z = new
        BY <4>1
      <4>4. Row(p, z)
        BY <4>2, <4>3 DEF Row
      <4>5. QED
        BY <3>3, <4>1, <4>3, <4>4
    <3>5. ASSUME NEW status \in {"SKIPPED", "FETCHED"}, Row(p, [source[p] EXCEPT !.status = status, !.current = TRUE])
          PROVE  SourceOK' /\ \A q \in Pages : \/ source'[q] = source[q]
                                               \/ source'[q].status \in {"SKIPPED", "FETCHED"} /\ source'[q].chunks = source[q].chunks
      <4> DEFINE new == [source[p] EXCEPT !.status = status, !.current = TRUE]
      <4>1. new \in SourceRow /\ new.status = status /\ new.chunks = source[p].chunks
        BY <3>1 DEF SourceRow, Statuses
      <4>2. Row(p, new)
        BY <3>5
      <4> HIDE DEF new
      <4>3. PICK z \in SourceRow : z = new
        BY <4>1
      <4>4. Row(p, z)
        BY <4>2, <4>3 DEF Row
      <4>5. QED
        BY <3>3, <4>1, <4>3, <4>4
    <3>6. QED
      BY <1>2, <1>6, <3>2, <3>4, <3>5 DEF Fetch
  <2>4. \A q \in Pages : \/ source'[q].status = source[q].status /\ source'[q].chunks = source[q].chunks
                         \/ /\ source'[q].status # "none"
                            /\ source'[q].chunks # "none" \/ (source'[q].chunks = source[q].chunks /\ source'[q].status \notin Ready)
    BY <2>3 DEF Ready
  <2>5. QED
    BY <1>3, <1>4, <2>1, <2>2, <2>3, <2>4, JobFacts, WorkKept
<1>7. QED
  BY <1>5, <1>6

\* The chunks and the status that goes with them are written at once.
LEMMA StoreKept == ASSUME KbInv, NEW t \in Tasks, StoreScanned(t) \/ StoreIndexed(t) PROVE KbInv'
<1>1. TaskOK /\ SourceOK /\ QueueOK /\ EmbedOK /\ task[t] \in TaskRow /\ t[2] \in Pages /\ crashes' = crashes
  BY TaskFacts DEF KbInv, KbShape, StoreScanned, StoreIndexed, Stores
<1>2. PICK p \in Pages : p = t[2]
  BY <1>1
<1>3. PICK new \in SourceRow : Stores(t, new) /\ new.status # "none" /\ new.chunks # "none"
  <2>1. source[p] \in SourceRow
    BY <1>1 DEF SourceOK
  <2>2. CASE StoreScanned(t)
    <3> DEFINE new == [source[p] EXCEPT !.status = "SCANNED", !.chunks = "plain"]
    <3>1. new \in SourceRow /\ new.status # "none" /\ new.chunks # "none"
      BY <2>1 DEF SourceRow, Statuses
    <3>2. Stores(t, new)
      BY <1>2, <2>2 DEF StoreScanned
    <3> HIDE DEF new
    <3>3. PICK z \in SourceRow : z = new
      BY <3>1
    <3>4. Stores(t, z)
      BY <3>2, <3>3 DEF Stores, Row
    <3>5. QED
      BY <3>1, <3>3, <3>4
  <2>3. CASE StoreIndexed(t)
    <3> DEFINE new == [source[p] EXCEPT !.status = "INDEXED", !.chunks = "embedded", !.indexed = TRUE]
    <3>1. new \in SourceRow /\ new.status # "none" /\ new.chunks # "none"
      BY <2>1 DEF SourceRow, Statuses
    <3>2. Stores(t, new)
      BY <1>2, <2>3 DEF StoreIndexed
    <3> HIDE DEF new
    <3>3. PICK z \in SourceRow : z = new
      BY <3>1
    <3>4. Stores(t, z)
      BY <3>2, <3>3 DEF Stores, Row
    <3>5. QED
      BY <3>1, <3>3, <3>4
  <2>4. QED
    BY <2>2, <2>3
<1>4. UNCHANGED <<events, state, quoted, worker, handler, crashes, faults>>
  <2>1. UNCHANGED <<state, quoted, worker, handler, crashes, faults>>
    BY <1>3 DEF Stores
  <2>2. QED
    BY <1>3, <2>1 DEF Stores
<1>5. faults' \in 0..MaxFaults
  BY <1>4 DEF KbInv, KbShape, OtherOK
<1>6. CASE task[t].row = "gone"
  <2>1. Throws(t) /\ UNCHANGED <<source, embed>>
    BY <1>3, <1>6 DEF Stores
  <2>2. TaskOK' /\ QueueOK' /\ \A i \in Jobs : Waits(i) => Waits(i)'
    BY <1>1, <2>1, ThrowsKeeps
  <2>3. SourceOK' /\ EmbedOK'
    BY <1>1, <2>1 DEF SourceOK, EmbedOK
  <2>4. QED
    BY <1>4, <1>5, <2>1, <2>2, <2>3, JobFacts, WorkKept
<1>7. CASE task[t].row # "gone"
  <2>1. Row(p, new) /\ embed' = [embed EXCEPT !.held = @ /\ p \notin embed.page] /\ Returns(t, TRUE)
    BY <1>2, <1>3, <1>7 DEF Stores
  <2>2. TaskOK' /\ queue' = queue
    BY <1>1, <2>1, ReturnsKeeps
  <2>3. QueueOK' /\ \A i \in Jobs : Waits(i) => Waits(i)'
    BY <1>1, <2>2 DEF QueueOK, RetryLimit, Waits
  <2>4. SourceOK' /\ source'[p] = new /\ \A q \in Pages \ {p} : source'[q] = source[q]
    BY <1>1, <2>1, RowSets
  <2>5. /\ EmbedOK' /\ embed'.pc = embed.pc /\ embed'.tries = embed.tries /\ embed'.page = embed.page
        /\ embed'.todo = embed.todo /\ embed'.gone = embed.gone
    <3> DEFINE held == embed.held /\ p \notin embed.page
    <3>1. embed' = [embed EXCEPT !.held = held] /\ held \in BOOLEAN
      BY <1>1, <2>1 DEF EmbedOK, EmbedRow
    <3> HIDE DEF held
    <3>2. QED
      BY <1>1, <3>1 DEF EmbedOK, EmbedRow
  <2>6. \A q \in Pages : \/ source'[q].status = source[q].status /\ source'[q].chunks = source[q].chunks
                         \/ source'[q].status # "none" /\ source'[q].chunks # "none"
    BY <1>3, <2>4
  <2>7. QED
    BY <1>4, <1>5, <2>2, <2>3, <2>4, <2>5, <2>6, JobFacts, WorkKept
<1>8. QED
  BY <1>6, <1>7

LEMMA StoreFailsKept == ASSUME KbInv, NEW t \in Tasks, StoreFails(t) PROVE KbInv'
<1>1. TaskOK /\ QueueOK /\ faults \in 0..MaxFaults /\ MaxFaults \in Nat
  BY BoundAssumption DEF KbInv, KbShape, OtherOK
<1>2. Throws(t) /\ UNCHANGED <<events, source, state, quoted, worker, embed, handler, crashes>> /\ faults < MaxFaults /\ faults' = faults + 1
  BY DEF StoreFails, Fault
<1>3. TaskOK' /\ QueueOK' /\ \A i \in Jobs : Waits(i) => Waits(i)'
  BY <1>1, <1>2, ThrowsKeeps
<1>4. SourceOK' /\ EmbedOK'
  BY <1>2 DEF KbInv, KbShape, SourceOK, EmbedOK
<1>5. faults' \in 0..MaxFaults /\ (faults' = 0 => faults = 0)
  BY <1>1, <1>2
<1>6. QED
  BY <1>2, <1>3, <1>4, <1>5, JobFacts, WorkKept

\* What runManualScan reads and reports.
LEMMA ManualKept == ASSUME KbInv, NEW p \in Pages, ManualStep(p) PROVE KbInv'
<1>1. PICK t \in Tasks : t = <<"manual", p>>
  BY DEF Tasks, AllWays
<1>2. TaskOK /\ SourceOK /\ StateOK /\ OtherOK /\ task[t] \in TaskRow /\ NoTask \in TaskRow
  BY TaskFacts DEF KbInv, KbShape
<1>3. Pending \in SUBSET Pages
  BY DEF Pending, Rows
<1>4. CASE ManualConfig(p)
  <2>1. PICK v \in Phases : v = phase
    BY <1>2 DEF StateOK, phase
  <2>2. [task[t] EXCEPT !.pc = "estimate", !.phase = v] \in TaskRow
    BY <1>2 DEF TaskRow, TaskSteps
  <2>3. task' = [task EXCEPT ![t] = [task[t] EXCEPT !.pc = "estimate", !.phase = v]]
    BY <1>1, <1>2, <1>4, <2>1 DEF ManualConfig, TaskOK
  <2>4. TaskOK'
    BY <1>2, <2>2, <2>3 DEF TaskOK
  <2>5. QED
    BY <1>4, <2>4, OnlyTask DEF ManualConfig
<1>5. CASE ManualEstimate(p)
  <2>1. PICK v \in SUBSET Pages : v = Pending
    BY <1>3
  <2>2. [task[t] EXCEPT !.pc = "report", !.pending = v] \in TaskRow
    BY <1>2 DEF TaskRow, TaskSteps
  <2>3. task' = [task EXCEPT ![t] = [task[t] EXCEPT !.pc = "report", !.pending = v]]
    BY <1>1, <1>2, <1>5, <2>1 DEF ManualEstimate, TaskOK
  <2>4. TaskOK'
    BY <1>2, <2>2, <2>3 DEF TaskOK
  <2>5. QED
    BY <1>5, <2>4, OnlyTask DEF ManualEstimate
<1>6. CASE ManualReport(p)
  <2>1. /\ task' = [task EXCEPT ![t] = NoTask]
        /\ UNCHANGED <<events, source, queue, worker, embed, handler, crashes, faults>>
    BY <1>1, <1>6 DEF ManualReport
  <2>2. TaskOK'
    BY <1>2, <2>1 DEF TaskOK
  <2>3. PICK pending \in SUBSET Pages : pending = task[t].pending
    BY <1>2 DEF TaskRow
  <2>4. \/ UNCHANGED <<state, quoted>>
        \/ /\ \E v \in {"FAILED", "AWAITING_CONFIRM"} : state' = [state EXCEPT !["scan"] = v]
           /\ quoted' \in {quoted, pending}
    BY <1>1, <1>6, <2>3 DEF ManualReport
  <2>5. CASE UNCHANGED <<state, quoted>>
    BY <2>1, <2>2, <2>5, OnlyTask
  <2>6. ASSUME NEW v \in {"FAILED", "AWAITING_CONFIRM"}, state' = [state EXCEPT !["scan"] = v], quoted' \in {quoted, pending}
        PROVE  KbInv'
    <3>1. StateOK' /\ state'["scan"] = v /\ state'["crawl"] = state["crawl"]
      BY <1>2, <2>6, StateWrites DEF Crawls, Phases
    <3>2. OtherOK'
      BY <1>2, <2>1, <2>6 DEF OtherOK
    <3>3. KbShape'
      BY <2>1, <2>2, <3>1, <3>2 DEF KbInv, KbShape, SourceOK, WorkerOK, EmbedOK, QueueOK, RetryLimit
    <3>4. BusyInv'
      <4>1. (\A r \in Crawls : Crawled(r) => Crawled(r)') /\ (Embedded => Embedded')
        BY <2>1 DEF Crawled, Embedded, Waits
      <4>2. QED
        BY <2>1, <3>1, <4>1, BusyStays DEF KbInv, Crawls
    <3>5. ReadyInv'
      BY <2>1 DEF KbInv, ReadyInv, PageListed, Excused
    <3>6. QED
      BY <3>3, <3>4, <3>5 DEF KbInv
  <2>7. QED
    BY <2>4, <2>5, <2>6
<1>7. QED
  BY <1>4, <1>5, <1>6 DEF ManualStep

-----------------------------------------------------------------------------
(***************************************************************************)
(* The workers of the crawls.                                              *)
(***************************************************************************)
LEMMA WorkerSet ==
  ASSUME WorkerOK, NEW q \in Crawls, NEW new \in WorkerRow, worker' = [worker EXCEPT ![q] = new]
  PROVE  WorkerOK' /\ worker'[q] = new /\ \A r \in Crawls \ {q} : worker'[r] = worker[r]
BY DEF WorkerOK

\* A step of one crawling worker: its own job goes on, or is no more shown.
LEMMA CrawlerKept ==
  ASSUME KbInv, NEW q \in Crawls, StateOK', QueueOK', TaskOK', WorkerOK', OtherOK',
         UNCHANGED <<source, embed, handler, crashes>>, faults' = 0 => faults = 0,
         \A r \in Crawls \ {q} : state'[r] = state[r] /\ worker'[r] = worker[r],
         \A i \in Workers \ {q} : Waits(i) => Waits(i)',
         state'[q] \in {"SCANNING", "EMBEDDING", "RUNNING"} => state'[q] = state[q],
         state'[q] \in {"SCANNING", "RUNNING"} /\ faults' = 0 => (Crawled(q) => Crawled(q)')
  PROVE  KbInv'
<1> USE DEF KbInv
<1>1. KbShape'
  BY DEF KbShape, SourceOK, EmbedOK
<1>2. \A r \in Crawls \ {q} : Crawled(r) => Crawled(r)'
  BY JobFacts DEF Crawled
<1>3. Embedded => Embedded'
  <2>1. q # "embed"
    BY DEF Crawls
  <2>2. QED
    BY <2>1, JobFacts DEF Embedded
<1>4. BusyInv'
  <2>1. CASE q = "scan"
    BY <1>2, <1>3, <2>1 DEF BusyInv, phase, Crawls
  <2>2. CASE q = "crawl"
    BY <1>2, <1>3, <2>2 DEF BusyInv, phase, Crawls
  <2>3. QED
    BY <2>1, <2>2 DEF Crawls
<1>5. ReadyInv'
  BY DEF ReadyInv, PageListed, Excused
<1>6. QED
  BY <1>1, <1>4, <1>5

LEMMA CrawlRows ==
  ASSUME NEW n \in 0..1
  PROVE  /\ NoWorker \in WorkerRow
         /\ [NoWorker EXCEPT !.pc = "crawl", !.tries = n] \in WorkerRow
         /\ [NoWorker EXCEPT !.pc = "crawl", !.tries = n].pc # "idle"
         /\ ~[NoWorker EXCEPT !.pc = "crawl", !.tries = n].cancelled
         /\ [NoWorker EXCEPT !.pc = "crawl", !.tries = n].tries = n
<1>1. NoWorker \in WorkerRow /\ ~NoWorker.cancelled
  BY DEF NoWorker, WorkerRow
<1>2. QED
  BY <1>1 DEF WorkerRow

LEMMA WorkerFreed ==
  ASSUME WorkerOK, NEW q \in Crawls, worker' = [worker EXCEPT ![q] = NoWorker]
  PROVE  WorkerOK' /\ \A r \in Crawls \ {q} : worker'[r] = worker[r]
<1>1. NoWorker \in WorkerRow
  BY DEF NoWorker, WorkerRow
<1>2. QED
  BY <1>1, WorkerSet

LEMMA TakeCrawlKept == ASSUME KbInv, NEW q \in Crawls, TakeCrawl(q) PROVE KbInv'
<1>1. QueueOK /\ TaskOK /\ WorkerOK /\ StateOK /\ q \in Jobs /\ q \in Workers
  BY JobFacts DEF KbInv, KbShape
<1>2. PICK k \in DOMAIN queue[q], found \in SUBSET Pages :
        /\ queue' = [queue EXCEPT ![q] = RemoveAt(@, k)]
        /\ worker' = [worker EXCEPT ![q] = [NoWorker EXCEPT !.pc = "crawl", !.tries = queue[q][k]]]
        /\ task' = [t \in Tasks |-> IF t[1] = q /\ t[2] \in found THEN [NoTask EXCEPT !.pc = "visit"] ELSE task[t]]
  BY DEF TakeCrawl
<1>3. worker[q].pc = "idle" /\ UNCHANGED <<events, source, state, quoted, embed, handler, crashes, faults>>
  BY DEF TakeCrawl
<1>4. /\ QueueOK' /\ queue[q][k] \in 0..RetryLimit(q)
      /\ \A i \in Jobs \ {q} : Waits(i) => Waits(i)'
      /\ Waits(q) => Waits(q)' \/ queue[q][k] <= crashes
  BY <1>1, <1>2, <1>3, TakeKeeps
<1>5. PICK n \in 0..1 : n = queue[q][k]
  BY <1>1, <1>4, JobFacts
<1>6. PICK new \in WorkerRow : /\ worker' = [worker EXCEPT ![q] = new]
                               /\ new.pc # "idle" /\ ~new.cancelled /\ new.tries = n
  <2>1. worker' = [worker EXCEPT ![q] = [NoWorker EXCEPT !.pc = "crawl", !.tries = n]]
    BY <1>2, <1>5
  <2>2. QED
    BY <2>1, CrawlRows
<1>7. WorkerOK' /\ worker'[q] = new /\ \A r \in Crawls \ {q} : worker'[r] = worker[r]
  BY <1>1, <1>6, WorkerSet
<1>8. TaskOK'
  <2>1. [NoTask EXCEPT !.pc = "visit"] \in TaskRow /\ \A t \in Tasks : task[t] \in TaskRow
    BY <1>1, TaskFacts DEF TaskRow, TaskSteps
  <2>2. QED
    BY <1>2, <2>1 DEF TaskOK
<1>9. Crawled(q) => Crawled(q)'
  BY <1>3, <1>4, <1>5, <1>6, <1>7 DEF Crawled
<1>10. StateOK' /\ OtherOK'
  BY <1>1, <1>3 DEF KbInv, KbShape, StateOK, OtherOK
<1>11. QED
  BY <1>1, <1>3, <1>4, <1>7, <1>8, <1>9, <1>10, JobFacts, CrawlerKept

LEMMA EndCrawlKept == ASSUME KbInv, NEW q \in Crawls, EndCrawl(q) PROVE KbInv'
<1>1. QueueOK /\ TaskOK /\ WorkerOK /\ StateOK /\ worker[q] \in WorkerRow
  BY DEF KbInv, KbShape, WorkerOK
<1>2. worker[q].pc = "crawl" /\ UNCHANGED <<events, source, quoted, queue, task, embed, handler, crashes, faults>>
  BY DEF EndCrawl
<1>3. QueueOK' /\ TaskOK' /\ OtherOK' /\ \A i \in Jobs : Waits(i) => Waits(i)'
  BY <1>1, <1>2 DEF KbInv, KbShape, QueueOK, RetryLimit, TaskOK, OtherOK, Waits
<1>4. CASE q = "scan" /\ ~worker[q].cancelled
  <2>1. PICK pending \in SUBSET Pages : pending = Pending
    BY DEF Pending, Rows
  <2>2. [worker[q] EXCEPT !.pc = "report", !.pending = pending] \in WorkerRow
    BY <1>1 DEF WorkerRow
  <2>3. state' = state /\ worker' = [worker EXCEPT ![q] = [worker[q] EXCEPT !.pc = "report", !.pending = pending]]
    <3>1. worker' = [worker EXCEPT ![q].pc = "report", ![q].pending = Pending] /\ state' = state
      BY <1>4 DEF EndCrawl
    <3>2. QED
      BY <1>1, <2>1, <3>1 DEF WorkerOK
  <2>4. PICK new \in WorkerRow : /\ worker' = [worker EXCEPT ![q] = new]
                                 /\ new.pc = "report" /\ new.cancelled = worker[q].cancelled /\ new.tries = worker[q].tries
    <3> DEFINE new == [worker[q] EXCEPT !.pc = "report", !.pending = pending]
    <3>1. new \in WorkerRow /\ new.pc = "report" /\ new.cancelled = worker[q].cancelled /\ new.tries = worker[q].tries
      BY <1>1, <2>2 DEF WorkerRow
    <3>2. worker' = [worker EXCEPT ![q] = new]
      BY <2>3
    <3> HIDE DEF new
    <3>3. PICK z \in WorkerRow : z = new
      BY <3>1
    <3>4. worker' = [worker EXCEPT ![q] = z] /\ z.pc = "report" /\ z.cancelled = worker[q].cancelled /\ z.tries = worker[q].tries
      BY <3>1, <3>2, <3>3
    <3>5. QED
      BY <3>4
  <2>5. WorkerOK' /\ worker'[q] = new /\ \A r \in Crawls \ {q} : worker'[r] = worker[r]
    BY <1>1, <2>4, WorkerSet
  <2>6. Crawled(q) => Crawled(q)'
    BY <1>2, <2>4, <2>5 DEF Crawled, Waits
  <2>7. StateOK'
    BY <1>1, <2>3 DEF StateOK
  <2>8. QED
    BY <1>2, <1>3, <2>3, <2>5, <2>6, <2>7, JobFacts, CrawlerKept
<1>5. CASE ~(q = "scan" /\ ~worker[q].cancelled)
  <2>1. worker' = [worker EXCEPT ![q] = NoWorker]
    BY <1>5 DEF EndCrawl
  <2>2. WorkerOK' /\ \A r \in Crawls \ {q} : worker'[r] = worker[r]
    BY <1>1, <2>1, WorkerFreed
  <2>3. CASE worker[q].cancelled
    <3>1. state' = state
      BY <2>3 DEF EndCrawl
    <3>2. Crawled(q) => Crawled(q)'
      BY <1>2, <2>3 DEF Crawled, Waits
    <3>3. StateOK'
      BY <1>1, <3>1 DEF StateOK
    <3>4. QED
      BY <1>2, <1>3, <2>2, <3>1, <3>2, <3>3, JobFacts, CrawlerKept
  <2>4. CASE ~worker[q].cancelled
    <3>1. q = "crawl" /\ state' = [state EXCEPT ![q] = "DONE"]
      BY <1>5, <2>4 DEF EndCrawl, Crawls
    <3>2. StateOK' /\ state'[q] = "DONE" /\ \A r \in Crawls \ {q} : state'[r] = state[r]
      BY <1>1, <3>1, StateWrites DEF CrawlPhases
    <3>3. QED
      BY <1>2, <1>3, <2>2, <3>2, JobFacts, CrawlerKept
  <2>5. QED
    BY <2>3, <2>4
<1>6. QED
  BY <1>4, <1>5

LEMMA ReportKept == ASSUME KbInv, ReportScan PROVE KbInv'
<1>1. QueueOK /\ TaskOK /\ WorkerOK /\ StateOK /\ OtherOK /\ worker["scan"] \in WorkerRow /\ "scan" \in Crawls
  BY DEF KbInv, KbShape, WorkerOK, Crawls
<1>2. worker' = [worker EXCEPT !["scan"] = NoWorker] /\ UNCHANGED <<events, source, queue, task, embed, handler, crashes, faults>>
  BY DEF ReportScan
<1>3. PICK pending \in SUBSET Pages : pending = worker["scan"].pending
  BY <1>1 DEF WorkerRow
<1>4. PICK v \in {"FAILED", "AWAITING_CONFIRM"} : state' = [state EXCEPT !["scan"] = v] /\ quoted' \in {quoted, pending}
  BY <1>3 DEF ReportScan
<1>5. StateOK' /\ state'["scan"] = v /\ \A r \in Crawls \ {"scan"} : state'[r] = state[r]
  BY <1>1, <1>4, StateWrites DEF Phases
<1>6. WorkerOK' /\ \A r \in Crawls \ {"scan"} : worker'[r] = worker[r]
  BY <1>1, <1>2, WorkerFreed
<1>7. QueueOK' /\ TaskOK' /\ OtherOK' /\ \A i \in Jobs : Waits(i) => Waits(i)'
  BY <1>1, <1>2, <1>4 DEF QueueOK, RetryLimit, TaskOK, OtherOK, Waits
<1>8. QED
  BY <1>1, <1>2, <1>5, <1>6, <1>7, JobFacts, CrawlerKept

LEMMA CrawlFailsKept == ASSUME KbInv, NEW q \in Crawls, CrawlFails(q) PROVE KbInv'
<1>1. QueueOK /\ TaskOK /\ WorkerOK /\ StateOK /\ OtherOK /\ worker[q] \in WorkerRow /\ q \in Jobs
  BY JobFacts DEF KbInv, KbShape, WorkerOK
<1>2. /\ state' = [state EXCEPT ![q] = "FAILED"] /\ queue' = Requeue(q, worker[q].tries) /\ worker' = [worker EXCEPT ![q] = NoWorker]
      /\ UNCHANGED <<events, source, quoted, task, embed, handler, crashes>> /\ faults < MaxFaults /\ faults' = faults + 1
  BY DEF CrawlFails, Fault
<1>3. PICK n \in Nat : n = worker[q].tries
  BY <1>1 DEF WorkerRow
<1>4. QueueOK' /\ \A i \in Jobs : Waits(i) => Waits(i)'
  BY <1>1, <1>2, <1>3, RequeueKeeps
<1>5. StateOK' /\ state'[q] = "FAILED" /\ \A r \in Crawls \ {q} : state'[r] = state[r]
  BY <1>1, <1>2, StateWrites DEF Phases, CrawlPhases
<1>6. WorkerOK' /\ \A r \in Crawls \ {q} : worker'[r] = worker[r]
  BY <1>1, <1>2, WorkerFreed
<1>7. faults' \in 0..MaxFaults /\ faults' # 0
  BY <1>1, <1>2, BoundAssumption DEF OtherOK
<1>8. TaskOK' /\ OtherOK'
  BY <1>1, <1>2, <1>7 DEF TaskOK, OtherOK
<1>9. QED
  BY <1>2, <1>4, <1>5, <1>6, <1>7, <1>8, JobFacts, CrawlerKept

\* One source is indexed again: its job is taken.
LEMMA TakeReindexKept == ASSUME KbInv, NEW p \in Pages, TakeReindex(p) PROVE KbInv'
<1>1. QueueOK /\ TaskOK /\ SourceOK /\ EmbedOK /\ OtherOK /\ p \in Jobs
  BY JobFacts DEF KbInv, KbShape
<1>2. PICK k \in DOMAIN queue[p] :
        /\ queue' = [queue EXCEPT ![p] = RemoveAt(@, k)]
        /\ task' = [task EXCEPT ![<<"reindex", p>>] = [NoTask EXCEPT !.pc = "upsert", !.tries = queue[p][k]]]
  BY DEF TakeReindex
<1>3. UNCHANGED <<events, source, state, quoted, worker, embed, handler, crashes, faults>>
  BY DEF TakeReindex
<1>4. /\ QueueOK' /\ queue[p][k] \in 0..RetryLimit(p)
      /\ \A i \in Jobs \ {p} : Waits(i) => Waits(i)'
  BY <1>1, <1>2, <1>3, TakeKeeps
<1>5. PICK n \in 0..3 : n = queue[p][k]
  BY <1>4, JobFacts
<1>6. PICK t \in Tasks : t = <<"reindex", p>>
  BY DEF Tasks, AllWays
<1>7. [NoTask EXCEPT !.pc = "upsert", !.tries = n] \in TaskRow
  BY <1>1, TaskFacts DEF TaskRow, TaskSteps
<1>8. task' = [task EXCEPT ![t] = [NoTask EXCEPT !.pc = "upsert", !.tries = n]]
  BY <1>2, <1>5, <1>6
<1>9. TaskOK'
  BY <1>1, <1>7, <1>8 DEF TaskOK
<1>10. SourceOK' /\ EmbedOK' /\ faults' \in 0..MaxFaults
  BY <1>1, <1>3 DEF SourceOK, EmbedOK, OtherOK
<1>11. \A i \in Workers : Waits(i) => Waits(i)'
  BY <1>4, JobFacts
<1>12. QED
  BY <1>3, <1>4, <1>9, <1>10, <1>11, WorkKept

-----------------------------------------------------------------------------
(***************************************************************************)
(* The embedding worker.                                                   *)
(***************************************************************************)
\* A step of the embedding worker: its job goes on, or is no more shown.
LEMMA EmbedderKept ==
  ASSUME KbInv, SourceOK', StateOK', QueueOK', EmbedOK', OtherOK',
         UNCHANGED <<task, worker, handler, crashes>>, faults' = 0 => faults = 0,
         state'["crawl"] = state["crawl"],
         state'["scan"] \in {"SCANNING", "EMBEDDING"} => state'["scan"] = state["scan"],
         \A i \in Workers \ {"embed"} : Waits(i) => Waits(i)',
         state'["scan"] = "EMBEDDING" /\ faults' = 0 => (Embedded => Embedded'),
         ReadyInv'
  PROVE  KbInv'
<1> USE DEF KbInv
<1>1. KbShape'
  BY DEF KbShape, TaskOK, WorkerOK
<1>2. \A r \in Crawls : Crawled(r) => Crawled(r)'
  <2>1. \A r \in Crawls : r \in Workers \ {"embed"}
    BY DEF Crawls, Workers
  <2>2. QED
    BY <2>1 DEF Crawled
<1>3. BusyInv'
  BY <1>2 DEF BusyInv, phase, Crawls
<1>4. QED
  BY <1>1, <1>3

LEMMA EmbedFacts ==
  ASSUME EmbedOK
  PROVE  /\ NoEmbed \in EmbedRow /\ NoEmbed.todo = {} /\ NoEmbed.gone = {} /\ NoEmbed.page = {} /\ NoEmbed.pc = "idle"
         /\ embed.todo \in SUBSET Pages /\ embed.gone \in SUBSET Pages /\ embed.page \in SUBSET Pages
         /\ embed.tries \in 0..1 /\ embed \in EmbedRow
<1>1. embed \in EmbedRow
  BY DEF EmbedOK
<1>2. NoEmbed \in EmbedRow /\ NoEmbed.todo = {} /\ NoEmbed.gone = {} /\ NoEmbed.page = {} /\ NoEmbed.pc = "idle"
  BY DEF NoEmbed, EmbedRow
<1>3. QED
  BY <1>1, <1>2 DEF EmbedRow

\* The worker has ended, or begins: it has no list.
LEMMA ReadyAlone ==
  ASSUME ReadyInv, UNCHANGED <<source, handler, crashes>>, embed'.todo = {}, embed'.page = {}
  PROVE  ReadyInv'
BY DEF ReadyInv, PageListed, Excused

LEMMA TakeEmbedKept == ASSUME KbInv, TakeEmbed PROVE KbInv'
<1>1. QueueOK /\ EmbedOK /\ StateOK /\ SourceOK /\ OtherOK /\ "embed" \in Jobs /\ "embed" \in Workers
  BY JobFacts DEF KbInv, KbShape
<1>2. PICK k \in DOMAIN queue["embed"] :
        /\ queue' = [queue EXCEPT !["embed"] = RemoveAt(@, k)]
        /\ embed' = [NoEmbed EXCEPT !.pc = "list", !.tries = queue["embed"][k]]
  BY DEF TakeEmbed
<1>3. embed.pc = "idle" /\ UNCHANGED <<events, source, state, quoted, task, worker, handler, crashes, faults>>
  BY DEF TakeEmbed
<1>4. /\ QueueOK' /\ queue["embed"][k] \in 0..RetryLimit("embed")
      /\ \A i \in Jobs \ {"embed"} : Waits(i) => Waits(i)'
      /\ Waits("embed") => Waits("embed")' \/ queue["embed"][k] <= crashes
  BY <1>1, <1>2, <1>3, TakeKeeps
<1>5. PICK n \in 0..1 : n = queue["embed"][k]
  BY <1>1, <1>4, JobFacts
<1>6. embed' = [NoEmbed EXCEPT !.pc = "list", !.tries = n]
  BY <1>2, <1>5
<1>7. EmbedOK' /\ embed'.pc = "list" /\ embed'.tries = n /\ embed'.todo = {} /\ embed'.page = {}
  BY <1>1, <1>6, EmbedFacts DEF EmbedOK, EmbedRow
<1>8. Embedded => Embedded'
  BY <1>3, <1>4, <1>5, <1>7 DEF Embedded
<1>9. SourceOK' /\ StateOK' /\ OtherOK'
  BY <1>1, <1>3 DEF SourceOK, StateOK, OtherOK
<1>10. ReadyInv'
  BY <1>3, <1>7, ReadyAlone DEF KbInv
<1>11. \A i \in Workers \ {"embed"} : Waits(i) => Waits(i)'
  BY <1>4, JobFacts
<1>12. QED
  BY <1>3, <1>4, <1>7, <1>8, <1>9, <1>10, <1>11, EmbedderKept

\* The worker ends, and no phase shows it at work any more.
LEMMA EmbedEnds ==
  ASSUME KbInv, embed' = NoEmbed, UNCHANGED <<events, source, quoted, task, worker, handler, crashes>>,
         faults' \in 0..MaxFaults, faults' = 0 => faults = 0, QueueOK', \A i \in Jobs : Waits(i) => Waits(i)',
         (state' = state /\ phase = "CANCELLED") \/ \E v \in {"DONE", "FAILED"} : state' = [state EXCEPT !["scan"] = v]
  PROVE  KbInv'
<1>1. SourceOK /\ StateOK /\ EmbedOK /\ OtherOK /\ ReadyInv
  BY DEF KbInv, KbShape
<1>2. /\ StateOK' /\ state'["crawl"] = state["crawl"]
      /\ state'["scan"] \notin {"SCANNING", "EMBEDDING"}
  <2>1. CASE state' = state /\ phase = "CANCELLED"
    BY <1>1, <2>1 DEF StateOK, phase
  <2>2. ASSUME NEW v \in {"DONE", "FAILED"}, state' = [state EXCEPT !["scan"] = v]
        PROVE  StateOK' /\ state'["crawl"] = state["crawl"] /\ state'["scan"] = v
    BY <1>1, <2>2, StateWrites DEF Crawls, Phases
  <2>3. QED
    BY <2>1, <2>2
<1>3. EmbedOK' /\ embed'.todo = {} /\ embed'.page = {}
  BY <1>1, EmbedFacts DEF EmbedOK
<1>4. ReadyInv'
  BY <1>1, <1>3, ReadyAlone
<1>5. SourceOK' /\ OtherOK'
  BY <1>1 DEF SourceOK, OtherOK
<1>6. QED
  BY <1>2, <1>3, <1>4, <1>5, JobFacts, EmbedderKept

LEMMA EmbedThrown ==
  ASSUME KbInv, EmbedThrows, UNCHANGED <<events, source, quoted, task, worker, handler, crashes>>,
         faults' \in 0..MaxFaults, faults' = 0 => faults = 0
  PROVE  KbInv'
<1>1. QueueOK /\ EmbedOK /\ "embed" \in Jobs
  BY JobFacts DEF KbInv, KbShape
<1>2. PICK n \in Nat : n = embed.tries
  BY <1>1, EmbedFacts
<1>3. queue' = Requeue("embed", n) /\ embed' = NoEmbed /\ state' = [state EXCEPT !["scan"] = "FAILED"]
  BY <1>2 DEF EmbedThrows
<1>4. QueueOK' /\ \A i \in Jobs : Waits(i) => Waits(i)'
  BY <1>1, <1>3, RequeueKeeps
<1>5. QED
  BY <1>3, <1>4, EmbedEnds

\* A step of the worker that changes neither its list nor its job.
LEMMA EmbedGoes ==
  ASSUME KbInv, SourceOK', EmbedOK', ReadyInv',
         UNCHANGED <<events, state, quoted, queue, task, worker, handler, crashes, faults>>,
         embed.pc # "idle" => embed'.pc # "idle", embed'.tries = embed.tries
  PROVE  KbInv'
<1>1. StateOK /\ QueueOK /\ OtherOK
  BY DEF KbInv, KbShape
<1>2. StateOK' /\ QueueOK' /\ OtherOK' /\ \A i \in Jobs : Waits(i) => Waits(i)'
  BY <1>1 DEF StateOK, QueueOK, RetryLimit, OtherOK, Waits
<1>3. Embedded => Embedded'
  BY <1>2, JobFacts DEF Embedded
<1>4. QED
  BY <1>2, <1>3, JobFacts, EmbedderKept

\* The list is made of sources that are scanned: all of them have chunks.
LEMMA ListKept == ASSUME KbInv, ListScanned PROVE KbInv'
<1>1. /\ SourceOK /\ EmbedOK /\ QueueOK /\ ReadyInv /\ faults \in 0..MaxFaults
      /\ embed.pc = "list" /\ UNCHANGED <<events, source, quoted, queue, task, worker, handler, crashes, faults>>
  BY DEF KbInv, KbShape, OtherOK, ListScanned
<1>2. CASE Rows("SCANNED") = {}
  <2>1. embed' = NoEmbed /\ state' = [state EXCEPT !["scan"] = "DONE"]
    BY <1>2 DEF ListScanned
  <2>2. QueueOK' /\ \A i \in Jobs : Waits(i) => Waits(i)'
    BY <1>1 DEF QueueOK, RetryLimit, Waits
  <2>3. QED
    BY <1>1, <2>1, <2>2, EmbedEnds
<1>3. CASE Rows("SCANNED") # {}
  <2>1. PICK todo \in SUBSET Pages : todo = Rows("SCANNED")
    BY DEF Rows
  <2>2. embed' = [embed EXCEPT !.pc = "next", !.todo = todo] /\ state' = state
    BY <1>3, <2>1 DEF ListScanned
  <2>3. /\ EmbedOK' /\ embed'.pc = "next" /\ embed'.tries = embed.tries /\ embed'.todo = todo
        /\ embed'.page = embed.page /\ embed'.gone = embed.gone
    BY <1>1, <2>2 DEF EmbedOK, EmbedRow
  <2>4. \A p \in todo : source[p].status = "SCANNED"
    BY <2>1 DEF Rows
  <2>5. PageListed'
    BY <1>1, <2>3 DEF ReadyInv, PageListed
  <2>6. \A p \in Pages : source[p].status \in Ready \/ p \in todo => source[p].chunks # "none" \/ Excused
    BY <1>1, <2>4 DEF ReadyInv, Ready
  <2>7. \A p \in todo : source[p].status # "none"
    BY <2>4
  <2>8. ReadyInv'
    BY <1>1, <2>3, <2>5, <2>6, <2>7 DEF ReadyInv, Excused
  <2>9. SourceOK'
    BY <1>1 DEF SourceOK
  <2>10. QED
    BY <1>1, <2>2, <2>3, <2>8, <2>9, EmbedGoes
<1>4. QED
  BY <1>2, <1>3

LEMMA NextSourceKept == ASSUME KbInv, NextSource PROVE KbInv'
<1>1. /\ SourceOK /\ EmbedOK /\ QueueOK /\ ReadyInv /\ faults \in 0..MaxFaults
      /\ embed.pc = "next" /\ UNCHANGED <<events, source, quoted, queue, task, worker, handler, crashes, faults>>
  BY DEF KbInv, KbShape, OtherOK, NextSource
<1>2. QueueOK' /\ \A i \in Jobs : Waits(i) => Waits(i)'
  BY <1>1 DEF QueueOK, RetryLimit, Waits
<1>3. CASE embed' = NoEmbed /\ state' = [state EXCEPT !["scan"] = "DONE"]
  BY <1>1, <1>2, <1>3, EmbedEnds
<1>4. CASE phase = "CANCELLED" /\ embed' = NoEmbed /\ UNCHANGED state
  BY <1>1, <1>2, <1>4, EmbedEnds
<1>5. ASSUME NEW p \in embed.todo \union embed.gone, embed' = [embed EXCEPT !.pc = "read", !.page = {p}], UNCHANGED state
      PROVE  KbInv'
  <2>1. {p} \in SUBSET Pages
    BY <1>1, EmbedFacts
  <2>2. /\ EmbedOK' /\ embed'.pc = "read" /\ embed'.tries = embed.tries /\ embed'.todo = embed.todo
        /\ embed'.page = {p} /\ embed'.gone = embed.gone
    BY <1>1, <1>5, <2>1 DEF EmbedOK, EmbedRow
  <2>3. PageListed'
    BY <2>2 DEF PageListed
  <2>4. ReadyInv'
    BY <1>1, <2>2, <2>3 DEF ReadyInv, Excused
  <2>5. SourceOK'
    BY <1>1 DEF SourceOK
  <2>6. QED
    BY <1>1, <1>5, <2>2, <2>4, <2>5, EmbedGoes
<1>6. QED
  BY <1>3, <1>4, <1>5 DEF NextSource

\* A page of the list is done: it had its chunks, unless they went in a wipe.
LEMMA PageDone ==
  ASSUME KbInv, NEW p \in embed.page, p \notin embed.gone,
         embed' = [embed EXCEPT !.pc = "next", !.todo = @ \ {p}, !.page = {}],
         Row(p, [source[p] EXCEPT !.status = "INDEXED", !.indexed = TRUE]),
         UNCHANGED <<events, state, quoted, queue, task, worker, handler, crashes, faults>>
  PROVE  KbInv'
<1>1. SourceOK /\ EmbedOK /\ ReadyInv /\ p \in Pages /\ p \in embed.todo /\ embed.todo \subseteq Pages
  <2>1. EmbedOK /\ SourceOK /\ ReadyInv
    BY DEF KbInv, KbShape
  <2>2. QED
    BY <2>1, EmbedFacts DEF ReadyInv, PageListed
<1>2. PICK todo \in SUBSET Pages : todo = embed.todo \ {p}
  BY <1>1
<1>3. embed' = [embed EXCEPT !.pc = "next", !.todo = todo, !.page = {}]
  BY <1>2
<1>4. /\ EmbedOK' /\ embed'.pc = "next" /\ embed'.tries = embed.tries /\ embed'.todo = todo /\ embed'.page = {}
  BY <1>1, <1>3 DEF EmbedOK, EmbedRow
<1>5. SourceOK' /\ source'[p].chunks = source[p].chunks /\ \A q \in Pages \ {p} : source'[q] = source[q]
  <2>1. source[p] \in SourceRow
    BY <1>1 DEF SourceOK
  <2> DEFINE new == [source[p] EXCEPT !.status = "INDEXED", !.indexed = TRUE]
  <2>2. new \in SourceRow /\ new.chunks = source[p].chunks /\ Row(p, new)
    BY <2>1 DEF SourceRow, Statuses
  <2> HIDE DEF new
  <2>3. PICK z \in SourceRow : z = new
    BY <2>2
  <2>4. Row(p, z)
    BY <2>2, <2>3 DEF Row
  <2>5. SourceOK' /\ source'[p] = z /\ \A q \in Pages \ {p} : source'[q] = source[q]
    BY <1>1, <2>4, RowSets
  <2>6. QED
    BY <2>2, <2>3, <2>5
<1>6. ReadyInv'
  <2>1. PageListed'
    BY <1>4 DEF PageListed
  <2>2. \A q \in Pages : source'[q].status \in Ready \/ q \in embed'.todo =>
           source'[q].chunks = source[q].chunks /\ (source[q].status \in Ready \/ q \in embed.todo)
    BY <1>1, <1>2, <1>4, <1>5
  <2>3. \A q \in embed'.todo : source'[q].status # "none"
    BY <1>1, <1>2, <1>4, <1>5 DEF ReadyInv
  <2>4. (Excused => Excused') /\ embed'.todo \subseteq embed.todo
    BY <1>2, <1>4 DEF Excused
  <2>5. QED
    BY <1>1, <2>1, <2>2, <2>3, <2>4, ReadyStays
<1>7. QED
  BY <1>4, <1>5, <1>6, EmbedGoes

LEMMA ReadChunksKept == ASSUME KbInv, ReadChunks PROVE KbInv'
<1>1. /\ SourceOK /\ EmbedOK /\ ReadyInv /\ faults \in 0..MaxFaults
  BY DEF KbInv, KbShape, OtherOK
<1>2. PICK p \in embed.page :
        /\ IF p \in embed.gone THEN EmbedThrows /\ UNCHANGED source
           ELSE /\ IF source[p].chunks = "plain"
                   THEN embed' = [embed EXCEPT !.pc = "write", !.held = TRUE] /\ UNCHANGED source
                   ELSE embed' = [embed EXCEPT !.pc = "next", !.todo = @ \ {p}, !.page = {}]
                        /\ Row(p, [source[p] EXCEPT !.status = "INDEXED", !.indexed = TRUE])
                /\ UNCHANGED <<state, queue>>
        /\ UNCHANGED <<events, quoted, task, worker, handler, crashes, faults>>
  BY DEF ReadChunks
<1>3. CASE p \in embed.gone
  BY <1>1, <1>2, <1>3, EmbedThrown
<1>4. CASE p \notin embed.gone /\ source[p].chunks = "plain"
  <2>1. embed' = [embed EXCEPT !.pc = "write", !.held = TRUE] /\ UNCHANGED <<source, state, queue>>
    BY <1>2, <1>4
  <2>2. /\ EmbedOK' /\ embed'.pc = "write" /\ embed'.tries = embed.tries /\ embed'.todo = embed.todo
        /\ embed'.page = embed.page /\ embed'.gone = embed.gone
    BY <1>1, <2>1 DEF EmbedOK, EmbedRow
  <2>3. SourceOK' /\ PageListed'
    BY <1>1, <2>1, <2>2 DEF SourceOK, PageListed, ReadyInv
  <2>4. ReadyInv'
    BY <1>1, <1>2, <2>1, <2>2, <2>3 DEF ReadyInv, Excused
  <2>5. QED
    BY <1>2, <2>1, <2>2, <2>3, <2>4, EmbedGoes
<1>5. CASE p \notin embed.gone /\ source[p].chunks # "plain"
  BY <1>2, <1>5, PageDone
<1>6. QED
  BY <1>3, <1>4, <1>5

LEMMA WriteChunksKept == ASSUME KbInv, WriteChunks PROVE KbInv'
<1>1. SourceOK /\ EmbedOK /\ ReadyInv /\ embed.page \subseteq Pages /\ embed.todo \subseteq Pages
  <2>1. SourceOK /\ EmbedOK /\ ReadyInv
    BY DEF KbInv, KbShape
  <2>2. QED
    BY <2>1, EmbedFacts
<1>2. PICK p \in Pages : /\ IF embed.held THEN Row(p, [source[p] EXCEPT !.chunks = "embedded"]) ELSE UNCHANGED source
                         /\ embed' = [embed EXCEPT !.pc = "mark", !.held = FALSE]
                         /\ UNCHANGED <<events, state, quoted, queue, task, worker, handler, crashes, faults>>
  BY <1>1 DEF WriteChunks
<1>3. /\ EmbedOK' /\ embed'.pc = "mark" /\ embed'.tries = embed.tries /\ embed'.todo = embed.todo
      /\ embed'.page = embed.page /\ embed'.gone = embed.gone
  BY <1>1, <1>2 DEF EmbedOK, EmbedRow
<1>4. SourceOK' /\ \A q \in Pages : /\ source'[q].status = source[q].status
                                    /\ source'[q].chunks # "none" \/ source'[q].chunks = source[q].chunks
  <2>1. CASE ~embed.held
    BY <1>1, <1>2, <2>1 DEF SourceOK
  <2>2. CASE embed.held
    <3>1. source[p] \in SourceRow
      BY <1>1 DEF SourceOK
    <3> DEFINE new == [source[p] EXCEPT !.chunks = "embedded"]
    <3>2. new \in SourceRow /\ new.chunks # "none" /\ new.status = source[p].status /\ Row(p, new)
      BY <1>2, <2>2, <3>1 DEF SourceRow
    <3> HIDE DEF new
    <3>3. PICK z \in SourceRow : z = new
      BY <3>2
    <3>4. Row(p, z)
      BY <3>2, <3>3 DEF Row
    <3>5. SourceOK' /\ source'[p] = z /\ \A q \in Pages \ {p} : source'[q] = source[q]
      BY <1>1, <3>4, RowSets
    <3>6. QED
      BY <3>2, <3>3, <3>5
  <2>3. QED
    BY <2>1, <2>2
<1>5. ReadyInv'
  <2>1. PageListed'
    BY <1>1, <1>3 DEF PageListed, ReadyInv
  <2>2. QED
    BY <1>1, <1>2, <1>3, <1>4, <2>1 DEF ReadyInv, Excused
<1>6. QED
  BY <1>2, <1>3, <1>4, <1>5, EmbedGoes

LEMMA EmbedFailsKept == ASSUME KbInv, EmbedFails PROVE KbInv'
<1>1. faults \in 0..MaxFaults /\ MaxFaults \in Nat
  BY BoundAssumption DEF KbInv, KbShape, OtherOK
<1>2. EmbedThrows /\ UNCHANGED <<events, source, quoted, task, worker, handler, crashes>> /\ faults < MaxFaults /\ faults' = faults + 1
  BY DEF EmbedFails, Fault
<1>3. faults' \in 0..MaxFaults /\ (faults' = 0 => faults = 0)
  BY <1>1, <1>2
<1>4. QED
  BY <1>2, <1>3, EmbedThrown

LEMMA MarkKept == ASSUME KbInv, MarkIndexed PROVE KbInv'
<1>1. faults \in 0..MaxFaults
  BY DEF KbInv, KbShape, OtherOK
<1>2. PICK p \in embed.page :
        /\ IF p \in embed.gone THEN EmbedThrows /\ UNCHANGED source
           ELSE /\ Row(p, [source[p] EXCEPT !.status = "INDEXED", !.indexed = TRUE])
                /\ embed' = [embed EXCEPT !.pc = "next", !.todo = @ \ {p}, !.page = {}]
                /\ UNCHANGED <<state, queue>>
        /\ UNCHANGED <<events, quoted, task, worker, handler, crashes, faults>>
  BY DEF MarkIndexed
<1>3. CASE p \in embed.gone
  BY <1>1, <1>2, <1>3, EmbedThrown
<1>4. CASE p \notin embed.gone
  BY <1>2, <1>4, PageDone
<1>5. QED
  BY <1>3, <1>4

\* A new version on the site leaves the chunks of the old one.
LEMMA PublishKept == ASSUME KbInv, NEW p \in Pages, Publish(p) PROVE KbInv'
<1>1. SourceOK /\ TaskOK /\ QueueOK /\ EmbedOK /\ OtherOK
  BY DEF KbInv, KbShape
<1>2. UNCHANGED <<events, state, quoted, queue, task, worker, embed, handler, crashes, faults>>
  BY DEF Publish
<1>3. source[p] \in SourceRow
  BY <1>1 DEF SourceOK
<1> DEFINE new == [source[p] EXCEPT !.current = FALSE]
<1>4. new \in SourceRow /\ new.chunks = source[p].chunks /\ new.status = source[p].status /\ Row(p, new)
  BY <1>3 DEF SourceRow, Publish
<1> HIDE DEF new
<1>5. PICK z \in SourceRow : z = new
  BY <1>4
<1>6. Row(p, z)
  BY <1>4, <1>5 DEF Row
<1>7. SourceOK' /\ source'[p] = z /\ \A q \in Pages \ {p} : source'[q] = source[q]
  BY <1>1, <1>6, RowSets
<1>8. TaskOK' /\ QueueOK' /\ EmbedOK' /\ faults' \in 0..MaxFaults /\ \A i \in Jobs : Waits(i) => Waits(i)'
  BY <1>1, <1>2 DEF TaskOK, QueueOK, RetryLimit, EmbedOK, OtherOK, Waits
<1>9. \A q \in Pages : source'[q].status = source[q].status /\ source'[q].chunks = source[q].chunks
  BY <1>4, <1>5, <1>7
<1>10. QED
  BY <1>2, <1>7, <1>8, <1>9, JobFacts, WorkKept

-----------------------------------------------------------------------------
(***************************************************************************)
(* The restart.                                                            *)
(***************************************************************************)
\* A job whose handler died waits behind the others, if it may be tried again.
LEMMA Requeued ==
  ASSUME QueueOK, NEW j \in Jobs, NEW n \in Nat
  PROVE  /\ Requeue(j, n)[j] \in Seq(Nat)
         /\ \A k \in DOMAIN Requeue(j, n)[j] : Requeue(j, n)[j][k] <= RetryLimit(j)
         /\ \A k \in DOMAIN queue[j] : k \in DOMAIN Requeue(j, n)[j] /\ Requeue(j, n)[j][k] = queue[j][k]
         /\ n < RetryLimit(j) => \E k \in DOMAIN Requeue(j, n)[j] : Requeue(j, n)[j][k] = n + 1
<1>1. queue \in [Jobs -> Seq(Nat)] /\ queue[j] \in Seq(Nat) /\ \A k \in DOMAIN queue[j] : queue[j][k] <= RetryLimit(j)
  BY DEF QueueOK
<1>2. PICK s \in Seq(Nat) : s = queue[j]
  BY <1>1
<1>3. CASE n < RetryLimit(j)
  <2> DEFINE new == Append(s, n + 1)
  <2>1. /\ new \in Seq(Nat) /\ Len(s) + 1 \in DOMAIN new /\ new[Len(s) + 1] = n + 1
        /\ \A k \in DOMAIN s : k \in DOMAIN new /\ new[k] = s[k]
        /\ \A k \in DOMAIN new : k \in DOMAIN s \/ k = Len(s) + 1
    OBVIOUS
  <2>2. Requeue(j, n)[j] = new
    BY <1>1, <1>2, <1>3 DEF Requeue
  <2> HIDE DEF new
  <2>3. n + 1 <= RetryLimit(j)
    BY <1>3 DEF RetryLimit
  <2>4. QED
    BY <1>1, <1>2, <2>1, <2>2, <2>3
<1>4. CASE ~(n < RetryLimit(j))
  <2>1. Requeue(j, n)[j] = s
    BY <1>2, <1>4 DEF Requeue
  <2>2. QED
    BY <1>1, <1>2, <1>4, <2>1
<1>5. QED
  BY <1>3, <1>4

LEMMA TriedFacts ==
  ASSUME KbShape, NEW j \in Jobs
  PROVE  /\ Active(j) => Tried(j) \in Nat
         /\ j \in Crawls /\ worker[j].pc # "idle" => Active(j) /\ Tried(j) = worker[j].tries
         /\ j = "embed" /\ embed.pc # "idle" => Active(j) /\ Tried(j) = embed.tries
<1>1. worker \in [Crawls -> WorkerRow] /\ embed \in EmbedRow /\ task \in [Tasks -> TaskRow]
  BY DEF KbShape, WorkerOK, EmbedOK, TaskOK
<1>2. CASE j \in Crawls
  <2>1. worker[j].tries \in 0..1
    BY <1>1, <1>2 DEF WorkerRow
  <2>2. j # "embed" /\ j \notin Pages
    BY <1>2, JobFacts DEF Crawls
  <2>3. Tried(j) = worker[j].tries
    BY <1>2, <2>2 DEF Tried
  <2>4. worker[j].pc # "idle" => Active(j)
    BY <1>2, <2>2 DEF Active
  <2>5. QED
    BY <2>1, <2>2, <2>3, <2>4
<1>3. CASE j = "embed"
  <2>1. embed.tries \in 0..1
    BY <1>1 DEF EmbedRow
  <2>2. j \notin Crawls /\ j \notin Pages
    BY <1>3, JobFacts DEF Crawls
  <2>3. Tried(j) = embed.tries
    BY <1>3, <2>2 DEF Tried
  <2>4. embed.pc # "idle" => Active(j)
    BY <1>3, <2>2 DEF Active
  <2>5. QED
    BY <2>1, <2>2, <2>3, <2>4
<1>4. CASE j \in Pages
  <2>1. j \notin Crawls /\ j # "embed"
    BY <1>4, JobFacts
  <2>2. task[<<"reindex", j>>] \in TaskRow
    BY <1>1, <1>4 DEF Tasks, AllWays
  <2>3. task[<<"reindex", j>>].tries \in 0..3
    BY <2>2 DEF TaskRow
  <2>4. Tried(j) = task[<<"reindex", j>>].tries
    BY <1>4, <2>1 DEF Tried
  <2>5. QED
    BY <2>1, <2>3, <2>4
<1>5. QED
  BY <1>2, <1>3, <1>4 DEF Jobs, Workers, Crawls

\* A job that died for the first time is tried once more; the jobs wait that did.
LEMMA CrashKept == ASSUME KbInv, Crash PROVE KbInv'
<1> USE DEF KbInv
<1>1. /\ crashes < MaxCrashes /\ crashes' = crashes + 1
      /\ queue' = [j \in Jobs |-> IF Active(j) THEN Requeue(j, Tried(j))[j] ELSE queue[j]]
      /\ task' = [t \in Tasks |-> NoTask] /\ worker' = [q \in Crawls |-> NoWorker] /\ embed' = NoEmbed
      /\ handler' = "idle" /\ UNCHANGED <<events, source, state, quoted, faults>>
  BY DEF Crash
<1>2. SourceOK /\ StateOK /\ QueueOK /\ TaskOK /\ WorkerOK /\ EmbedOK /\ OtherOK
  BY DEF KbShape
<1>3. crashes \in Nat /\ MaxCrashes \in Nat
  BY <1>2, BoundAssumption DEF OtherOK
<1>4. ASSUME NEW j \in Jobs
      PROVE  /\ queue'[j] \in Seq(Nat) /\ \A k \in DOMAIN queue'[j] : queue'[j][k] <= RetryLimit(j)
             /\ \A k \in DOMAIN queue[j] : k \in DOMAIN queue'[j] /\ queue'[j][k] = queue[j][k]
             /\ Active(j) /\ Tried(j) < RetryLimit(j) => \E k \in DOMAIN queue'[j] : queue'[j][k] = Tried(j) + 1
  <2>1. CASE Active(j)
    <3>1. PICK n \in Nat : n = Tried(j)
      BY <2>1, TriedFacts
    <3>2. queue'[j] = Requeue(j, n)[j]
      BY <1>1, <2>1, <3>1
    <3>3. QED
      BY <1>2, <2>1, <3>1, <3>2, Requeued
  <2>2. CASE ~Active(j)
    <3>1. queue'[j] = queue[j]
      BY <1>1, <2>2
    <3>2. QED
      BY <1>2, <2>2, <3>1 DEF QueueOK
  <2>3. QED
    BY <2>1, <2>2
<1>5. QueueOK'
  <2>1. queue' \in [Jobs -> Seq(Nat)]
    <3>1. DOMAIN queue' = Jobs /\ queue' = [j \in Jobs |-> queue'[j]]
      BY <1>1
    <3>2. QED
      BY <1>4, <3>1
  <2>2. QED
    BY <1>4, <2>1 DEF QueueOK, RetryLimit
<1>6. KbShape'
  <2>1. NoTask \in TaskRow /\ NoEmbed \in EmbedRow
    BY <1>2, TaskFacts, EmbedFacts
  <2>2. NoWorker \in WorkerRow
    BY DEF NoWorker, WorkerRow
  <2>3. SourceOK' /\ StateOK' /\ TaskOK' /\ WorkerOK' /\ EmbedOK'
    BY <1>1, <1>2, <2>1, <2>2 DEF SourceOK, StateOK, TaskOK, WorkerOK, EmbedOK
  <2>4. OtherOK'
    BY <1>1, <1>2, <1>3 DEF OtherOK
  <2>5. QED
    BY <1>5, <2>3, <2>4 DEF KbShape
<1>7. BusyInv'
  <2>1. SUFFICES ASSUME faults' = 0, crashes' <= 1
                 PROVE  /\ phase' = "SCANNING" => Crawled("scan")'
                        /\ phase' = "EMBEDDING" => Embedded'
                        /\ state'["crawl"] = "RUNNING" => Crawled("crawl")'
    BY DEF BusyInv
  <2>2. crashes = 0 /\ crashes' = 1 /\ faults = 0
    BY <1>1, <1>3, <2>1
  <2>3. ASSUME NEW j \in Jobs, Waits(j) PROVE Waits(j)'
    <3>1. PICK k \in DOMAIN queue[j] : queue[j][k] <= crashes
      BY <2>3 DEF Waits
    <3>2. queue[j][k] \in Nat
      BY <1>2 DEF QueueOK
    <3>3. k \in DOMAIN queue'[j] /\ queue'[j][k] <= crashes'
      BY <1>4, <2>2, <3>1, <3>2
    <3>4. QED
      BY <3>3 DEF Waits
  <2>4. ASSUME NEW j \in Jobs, RetryLimit(j) = 1, Active(j), Tried(j) = 0 PROVE Waits(j)'
    <3>1. PICK k \in DOMAIN queue'[j] : queue'[j][k] = 1
      BY <1>4, <2>4
    <3>2. QED
      BY <2>2, <3>1 DEF Waits
  <2>5. ASSUME NEW q \in Crawls, Crawled(q) PROVE Crawled(q)'
    <3>1. q \in Jobs /\ RetryLimit(q) = 1 /\ worker[q].tries \in 0..1
      BY <1>2, JobFacts DEF WorkerOK, WorkerRow
    <3>2. CASE Waits(q)
      BY <2>3, <3>1, <3>2 DEF Crawled
    <3>3. CASE worker[q].pc # "idle" /\ worker[q].tries <= crashes
      <4>1. Active(q) /\ Tried(q) = 0
        BY <2>2, <3>1, <3>3, TriedFacts
      <4>2. QED
        BY <2>4, <3>1, <4>1 DEF Crawled
    <3>4. QED
      BY <2>5, <3>2, <3>3 DEF Crawled
  <2>6. ASSUME Embedded PROVE Embedded'
    <3>1. "embed" \in Jobs /\ RetryLimit("embed") = 1 /\ embed.tries \in 0..1
      BY <1>2, JobFacts, EmbedFacts
    <3>2. CASE Waits("embed")
      BY <2>3, <3>1, <3>2 DEF Embedded
    <3>3. CASE embed.pc # "idle" /\ embed.tries <= crashes
      <4>1. Active("embed") /\ Tried("embed") = 0
        BY <2>2, <3>1, <3>3, TriedFacts
      <4>2. QED
        BY <2>4, <3>1, <4>1 DEF Embedded
    <3>4. QED
      BY <2>6, <3>2, <3>3 DEF Embedded
  <2>7. /\ phase = "SCANNING" => Crawled("scan")
        /\ phase = "EMBEDDING" => Embedded
        /\ state["crawl"] = "RUNNING" => Crawled("crawl")
    BY <2>2 DEF BusyInv
  <2>8. phase' = phase /\ state' = state /\ "scan" \in Crawls /\ "crawl" \in Crawls
    BY <1>1 DEF phase, Crawls
  <2>9. QED
    BY <2>5, <2>6, <2>7, <2>8
<1>8. ReadyInv'
  <2>1. embed'.todo = {} /\ embed'.page = {}
    BY <1>1, <1>2, EmbedFacts
  <2>2. Excused'
    BY <1>1, <1>3 DEF Excused
  <2>3. QED
    BY <2>1, <2>2 DEF ReadyInv, PageListed
<1>9. QED
  BY <1>6, <1>7, <1>8

-----------------------------------------------------------------------------
(***************************************************************************)
(* The page and the whole.                                                 *)
(***************************************************************************)
PageRow == [shown : Phases, polling : BOOLEAN, due : BOOLEAN, lapsed : BOOLEAN, answers : SUBSET ({"poll", "load"} \X Phases)]
PageOK  == page \in PageRow

AssistantInv == KbInv /\ PageOK

LEMMA KbStarts == KbInit => KbInv
<1> SUFFICES ASSUME KbInit PROVE KbInv
  OBVIOUS
<1>1. /\ events \in Scenarios /\ source = [p \in Pages |-> NoSource] /\ state = [q \in Crawls |-> "IDLE"] /\ quoted = {}
      /\ queue = [j \in Jobs |-> <<>>] /\ task = [t \in Tasks |-> NoTask] /\ worker = [q \in Crawls |-> NoWorker]
      /\ embed = NoEmbed /\ handler = "idle" /\ crashes = 0 /\ faults = 0
  BY DEF KbInit
<1>2. SourceOK /\ \A p \in Pages : source[p].status = "none"
  <2>1. NoSource \in SourceRow /\ NoSource.status = "none"
    BY DEF NoSource, SourceRow, Statuses
  <2>2. QED
    BY <1>1, <2>1 DEF SourceOK
<1>3. StateOK /\ state["scan"] = "IDLE" /\ state["crawl"] = "IDLE"
  BY <1>1 DEF StateOK, Phases, CrawlPhases, Crawls
<1>4. QueueOK
  <2>1. \A j \in Jobs : queue[j] = <<>>
    BY <1>1
  <2>2. queue \in [Jobs -> Seq(Nat)]
    BY <1>1
  <2>3. \A j \in Jobs : \A k \in DOMAIN queue[j] : queue[j][k] <= RetryLimit(j)
    BY <2>1
  <2>4. QED
    BY <2>2, <2>3 DEF QueueOK
<1>5. TaskOK
  <2>1. NoTask \in TaskRow
    BY DEF NoTask, TaskRow, TaskSteps, Phases
  <2>2. QED
    BY <1>1, <2>1 DEF TaskOK
<1>6. WorkerOK
  <2>1. NoWorker \in WorkerRow
    BY DEF NoWorker, WorkerRow
  <2>2. QED
    BY <1>1, <2>1 DEF WorkerOK
<1>7. EmbedOK /\ embed.todo = {} /\ embed.page = {}
  BY <1>1 DEF EmbedOK, EmbedRow, NoEmbed
<1>8. OtherOK
  BY <1>1, BoundAssumption DEF OtherOK
<1>9. BusyInv
  BY <1>3 DEF BusyInv, phase
<1>10. ReadyInv
  BY <1>2, <1>7 DEF ReadyInv, PageListed, Ready
<1>11. QED
  BY <1>2, <1>3, <1>4, <1>5, <1>6, <1>7, <1>8, <1>9, <1>10 DEF KbInv, KbShape

LEMMA KbStutters == ASSUME KbInv, UNCHANGED kb PROVE KbInv'
<1>1. UNCHANGED <<events, source, state, quoted, queue, task, worker, embed, handler, crashes, faults>>
  BY DEF kb
<1>2. TaskOK'
  BY <1>1 DEF KbInv, KbShape, TaskOK
<1>3. QED
  BY <1>1, <1>2, OnlyTask

LEMMA BackgroundKept == ASSUME KbInv, Background PROVE KbInv'
<1>1. ASSUME NEW t \in Tasks, PageStep(t) \/ StoreFails(t) PROVE KbInv'
  BY <1>1, VisitKept, UpsertKept, FetchKept, StoreKept, StoreFailsKept DEF PageStep
<1>2. ASSUME NEW p \in Pages, ManualStep(p) \/ TakeReindex(p) \/ Publish(p) PROVE KbInv'
  BY <1>2, ManualKept, TakeReindexKept, PublishKept
<1>3. ASSUME NEW q \in Crawls, CrawlStep(q) \/ CrawlFails(q) PROVE KbInv'
  BY <1>3, TakeCrawlKept, EndCrawlKept, ReportKept, CrawlFailsKept DEF CrawlStep
<1>4. CASE EmbedStep \/ EmbedFails
  BY <1>4, TakeEmbedKept, ListKept, NextSourceKept, ReadChunksKept, WriteChunksKept, MarkKept, EmbedFailsKept DEF EmbedStep
<1>5. CASE WipeSources
  BY <1>5, DeletionKept
<1>6. CASE Crash
  BY <1>6, CrashKept
<1>7. QED
  BY <1>1, <1>2, <1>3, <1>4, <1>5, <1>6 DEF Background

LEMMA AskedAgain == ASSUME PageOK, AsksAgain \/ UNCHANGED page PROVE PageOK'
<1>1. CASE UNCHANGED page
  BY <1>1 DEF PageOK
<1>2. CASE AsksAgain
  <2> DEFINE due == "page" \in events
  <2>1. due \in BOOLEAN
    OBVIOUS
  <2>2. page' = [page EXCEPT !.due = due]
    BY <1>2 DEF AsksAgain
  <2> HIDE DEF due
  <2>3. QED
    BY <2>1, <2>2 DEF PageOK, PageRow
<1>3. QED
  BY <1>1, <1>2

LEMMA PressKept == ASSUME AssistantInv, Press PROVE AssistantInv'
<1> USE DEF AssistantInv
<1>1. PageOK'
  BY AskedAgain DEF Press
<1>2. "scan" \in Crawls
  BY DEF Crawls
<1>3. ASSUME NEW p \in Pages, DeleteSource(p) \/ ReindexSource(p) \/ AddManual(p) PROVE KbInv'
  BY <1>3, DeletionKept, ReindexKept, ManualAdded
<1>4. ASSUME Start("scan") PROVE KbInv'
  BY <1>2, <1>4, StartKept
<1>5. ASSUME ConfirmEmbed \/ CancelScan \/ WipeChunks PROVE KbInv'
  BY <1>5, ConfirmKept, DeletionKept, WipeChunksKept
<1>6. QED
  BY <1>1, <1>3, <1>4, <1>5 DEF Press

\* An answer takes a phase to the page that the knowledge base has had.
LEMMA AnswersKept ==
  ASSUME AssistantInv, (\E by \in {"poll", "load"} : Serve(by)) \/ (\E answer \in page.answers : Arrive(answer)) \/ PollFails
  PROVE  AssistantInv'
<1> USE DEF AssistantInv
<1>1. page \in PageRow /\ phase \in Phases
  BY DEF PageOK, KbInv, KbShape, StateOK, phase
<1>2. KbInv'
  BY KbStutters DEF Serve, Arrive, PollFails
<1>3. ASSUME NEW by \in {"poll", "load"}, Serve(by) PROVE PageOK'
  <2>1. PICK answers \in SUBSET ({"poll", "load"} \X Phases) : answers = page.answers \union {<<by, phase>>}
    <3>1. page.answers \in SUBSET ({"poll", "load"} \X Phases) /\ <<by, phase>> \in {"poll", "load"} \X Phases
      BY <1>1 DEF PageRow
    <3>2. QED
      BY <3>1
  <2>2. PICK due \in BOOLEAN : due = (page.due /\ by = "poll")
    OBVIOUS
  <2>3. page' = [page EXCEPT !.answers = answers, !.due = due]
    BY <1>3, <2>1, <2>2 DEF Serve
  <2>4. QED
    BY <1>1, <2>3 DEF PageOK, PageRow
<1>4. ASSUME NEW answer \in page.answers, Arrive(answer) PROVE PageOK'
  <2>1. answer \in {"poll", "load"} \X Phases
    BY <1>1 DEF PageRow
  <2>2. PICK shown \in Phases : shown = answer[2]
    BY <2>1
  <2>3. PICK answers \in SUBSET ({"poll", "load"} \X Phases) : answers = page.answers \ {answer}
    BY <1>1 DEF PageRow
  <2>4. page.polling \in BOOLEAN
    BY <1>1 DEF PageRow
  <2> DEFINE polling == IF shown # page.shown THEN shown \in Busy
                        ELSE page.polling /\ (answer[1] = "poll" => shown \in Busy)
  <2>5. polling \in BOOLEAN
    <3>1. (shown \in Busy) \in BOOLEAN /\ (page.polling /\ (answer[1] = "poll" => shown \in Busy)) \in BOOLEAN
      OBVIOUS
    <3>2. QED
      BY <3>1, Zenon
  <2>6. page' = [page EXCEPT !.shown = shown, !.answers = answers, !.polling = polling]
    BY <1>4, <2>2, <2>3 DEF Arrive
  <2> HIDE DEF polling
  <2>7. QED
    BY <1>1, <2>5, <2>6 DEF PageOK, PageRow
<1>5. ASSUME PollFails PROVE PageOK'
  <2>1. page' = [page EXCEPT !.polling = FALSE, !.lapsed = TRUE]
    BY <1>5 DEF PollFails
  <2>2. QED
    BY <1>1, <2>1 DEF PageOK, PageRow
<1>6. QED
  BY <1>2, <1>3, <1>4, <1>5

LEMMA AssistantStarts == Init => AssistantInv
<1> SUFFICES ASSUME Init PROVE AssistantInv
  OBVIOUS
<1> DEFINE due == "page" \in events
<1>1. due \in BOOLEAN
  OBVIOUS
<1>2. page = [shown |-> "IDLE", polling |-> FALSE, due |-> due, answers |-> {}, lapsed |-> FALSE]
  BY DEF Init
<1> HIDE DEF due
<1>3. PageOK
  BY <1>1, <1>2 DEF PageOK, PageRow, Phases
<1>4. QED
  BY <1>3, KbStarts DEF Init, AssistantInv

LEMMA AssistantSteps == AssistantInv /\ [Next]_vars => AssistantInv'
<1> SUFFICES ASSUME AssistantInv, [Next]_vars PROVE AssistantInv'
  OBVIOUS
<1> USE DEF AssistantInv
<1>1. CASE Press
  BY <1>1, PressKept
<1>2. CASE Answered
  <2>1. KbInv'
    BY <1>2, CancelKept DEF Answered
  <2>2. PageOK'
    BY <1>2, AskedAgain DEF Answered
  <2>3. QED
    BY <2>1, <2>2
<1>3. CASE CallCrawl
  <2>1. KbInv'
    BY <1>3, StartKept, CancelKept DEF CallCrawl, Crawls
  <2>2. QED
    BY <1>3, <2>1 DEF CallCrawl, PageOK
<1>4. CASE Background /\ UNCHANGED page
  BY <1>4, BackgroundKept DEF PageOK
<1>5. CASE (\E by \in {"poll", "load"} : Serve(by)) \/ (\E answer \in page.answers : Arrive(answer)) \/ PollFails
  BY <1>5, AnswersKept
<1>6. CASE UNCHANGED vars
  BY <1>6, KbStutters DEF vars, PageOK
<1>7. QED
  BY <1>1, <1>2, <1>3, <1>4, <1>5, <1>6 DEF Next

LEMMA PromisesHold == AssistantInv => PhaseIsHonest
<1> SUFFICES ASSUME AssistantInv PROVE PhaseIsHonest
  OBVIOUS
<1>1. KbShape /\ BusyInv /\ ReadyInv
  BY DEF AssistantInv, KbInv
<1>2. \A j \in Jobs : Waits(j) => queue[j] # <<>>
  <2>1. ASSUME NEW j \in Jobs, Waits(j) PROVE queue[j] # <<>>
    <3>1. PICK k \in DOMAIN queue[j] : TRUE
      BY <2>1 DEF Waits
    <3>2. DOMAIN <<>> = {}
      OBVIOUS
    <3>3. QED
      BY <3>1, <3>2
  <2>2. QED
    BY <2>1
<1>3. BusyHasWorker
  BY <1>1, <1>2, JobFacts DEF BusyHasWorker, BusyInv, Crawled, Embedded, Crawls, Jobs, Workers
<1>4. ReadyHasChunks
  BY <1>1 DEF ReadyHasChunks, ReadyInv, Rows, Ready, Excused
<1>5. QED
  BY <1>3, <1>4 DEF PhaseIsHonest

LEMMA TypesHold == AssistantInv => TypeOK
<1> SUFFICES ASSUME AssistantInv PROVE TypeOK
  OBVIOUS
<1>1. SourceOK /\ StateOK /\ QueueOK /\ TaskOK /\ WorkerOK /\ EmbedOK /\ OtherOK /\ PageOK
  BY DEF AssistantInv, KbInv, KbShape
<1>2. ASSUME NEW j \in Jobs PROVE queue[j] \in Seq(0..RetryLimit(j))
  <2>1. PICK s \in Seq(Nat) : s = queue[j]
    BY <1>1 DEF QueueOK
  <2>2. PICK n \in Nat : n = RetryLimit(j)
    BY DEF RetryLimit
  <2>3. \A k \in DOMAIN s : s[k] <= n
    BY <1>1, <2>1, <2>2 DEF QueueOK
  <2>4. Len(s) \in Nat /\ DOMAIN s = 1..Len(s) /\ \A k \in 1..Len(s) : s[k] \in Nat
    OBVIOUS
  <2>5. s \in [1..Len(s) -> 0..n]
    <3>1. \A k \in 1..Len(s) : s[k] \in 0..n
      BY <2>3, <2>4
    <3>2. s = [k \in 1..Len(s) |-> s[k]]
      BY <2>4
    <3>3. QED
      BY <3>1, <3>2
  <2>6. s \in Seq(0..n)
    BY <2>4, <2>5
  <2>7. QED
    BY <2>1, <2>2, <2>6
<1>3. KbTypeOK
  BY <1>1, <1>2 DEF KbTypeOK, SourceOK, SourceRow, StateOK, CrawlPhases, TaskOK, TaskRow, TaskSteps, WorkerOK, WorkerRow,
                    EmbedOK, EmbedRow, OtherOK
<1>4. QED
  BY <1>1, <1>3 DEF TypeOK, PageOK, PageRow

\* While the settings page shows a scan, a crawl or an embedding, a job of it waits or is
\* at work, unless an enqueue was lost or the process died once too often; and a source
\* that is ready has chunks, unless a wipe is in progress or was cut short.
THEOREM PhaseIsBacked == Spec => []PhaseIsHonest
<1>1. Spec => []AssistantInv
  BY AssistantStarts, AssistantSteps, PTL DEF Spec
<1>2. QED
  BY <1>1, PromisesHold, PTL

\* The values the variables of the knowledge base and its page range over; in particular
\* pg-boss tries no job more often than the retryLimit of its queue allows.
THEOREM AssistantIsTyped == Spec => []TypeOK
<1>1. Spec => []AssistantInv
  BY AssistantStarts, AssistantSteps, PTL DEF Spec
<1>2. QED
  BY <1>1, TypesHold, PTL
=============================================================================
