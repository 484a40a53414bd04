---------------------------- MODULE MailSync_proofs ----------------------------
(***************************************************************************)
(* Proofs about MailSync, for any threads, pollers, provider and controls, *)
(* any retry limit and any bounds on mails and faults.                     *)
(***************************************************************************)
EXTENDS MailSync, SequenceTheorems, TLAPS

-----------------------------------------------------------------------------
(***************************************************************************)
(* The steps by their actors.                                              *)
(***************************************************************************)
PollAction(p) == PollBegin(p) \/ PollStep(p) \/ PollRecover(p) \/ PollFails(p)

IngestAction ==
  \/ \E t \in Threads : IngestStart(t)
  \/ IngestFetch \/ IngestFetchFails \/ IngestRead \/ IngestInsert \/ IngestFails

ArchiveAction ==
  ArchiveStep \/ ArchiveFetchFails \/ ArchiveProfileFails \/ ArchiveThrows \/ ArchiveErrorLost

ControlAction == Reset \/ Run \/ Resume \/ Cancel \/ StartStep \/ StartProfileFails

\* A step is taken by the provider, a poll, the worker, the archive loop, an
\* archive handler, or it is a crash.
LEMMA NextSplit ==
  Next => \/ \E t \in Threads : Arrive(t)
          \/ \E p \in Pollers : PollAction(p)
          \/ IngestAction \/ ArchiveAction \/ ControlAction \/ Crash
BY DEF Next, PollAction, IngestAction, ArchiveAction, ControlAction, WorkerStep

\* What the steps of an actor leave alone.
LEMMA Frames ==
  /\ \A t \in Threads : Arrive(t) =>
       UNCHANGED <<stored, cfg, jobs, worker, poll, loop, ctl, causes, faults>>
  /\ \A p \in Pollers : PollAction(p) => UNCHANGED <<inbox, stored, worker, loop, ctl>>
  /\ IngestAction => UNCHANGED <<inbox, cfg, poll, loop, ctl>> /\ stored \subseteq stored'
  /\ ArchiveAction => UNCHANGED <<inbox, jobs, worker, poll, ctl>> /\ stored \subseteq stored'
  /\ ControlAction => UNCHANGED <<inbox, stored, jobs, worker, poll>>
  /\ Crash => UNCHANGED <<inbox, stored, cfg>>
<1>1. \A t \in Threads : Arrive(t) =>
        UNCHANGED <<stored, cfg, jobs, worker, poll, loop, ctl, causes, faults>>
  BY DEF Arrive
<1>2. \A p \in Pollers : PollAction(p) => UNCHANGED <<inbox, stored, worker, loop, ctl>>
  BY DEF PollAction, PollStep, PollBegin, PollList, PollRecover, PollProfile, PollFails,
         PollEnqueue, PollAdvance
<1>3. IngestAction => UNCHANGED <<inbox, cfg, poll, loop, ctl>> /\ stored \subseteq stored'
  BY DEF IngestAction, IngestStart, IngestFetch, IngestFetchFails, IngestRead, IngestInsert,
         IngestFails
<1>4. ArchiveAction => UNCHANGED <<inbox, jobs, worker, poll, ctl>> /\ stored \subseteq stored'
  BY DEF ArchiveAction, ArchiveStep, ArchiveInit, ArchiveCheck, ArchiveDecide, ArchiveList,
         ArchiveFetch, ArchiveRead, ArchiveInsert, ArchiveSave, ArchiveFinish,
         ArchiveProfile, ArchiveMark, ArchiveError, ArchiveClose, ArchiveFetchFails,
         ArchiveProfileFails, ArchiveThrows, ArchiveErrorLost
<1>5. ControlAction => UNCHANGED <<inbox, stored, jobs, worker, poll>>
  BY DEF ControlAction, Reset, Run, Resume, Cancel, StartStep, StartArchive, StartProfile,
         StartMark, Launch, StartProfileFails
<1>6. Crash => UNCHANGED <<inbox, stored, cfg>>
  BY DEF Crash
<1>7. QED
  BY <1>1, <1>2, <1>3, <1>4, <1>5, <1>6

\* Blaming is all that is ever done to the causes.
LEMMA Causing == Next => UNCHANGED causes \/ \E M, why : Blame(M, why)
<1> DEFINE Goal == UNCHANGED causes \/ \E M, why : Blame(M, why)
<1>1. \A p \in Pollers : PollAction(p) => Goal
  BY DEF PollAction, PollStep, PollBegin, PollList, PollRecover, PollProfile, PollFails,
         PollEnqueue, PollAdvance
<1>2. IngestAction => Goal
  BY DEF IngestAction, IngestStart, IngestFetch, IngestFetchFails, IngestRead, IngestInsert,
         IngestFails
<1>3. ArchiveAction => Goal
  BY DEF ArchiveAction, ArchiveStep, ArchiveInit, ArchiveCheck, ArchiveDecide, ArchiveList,
         ArchiveFetch, ArchiveRead, ArchiveInsert, ArchiveSave, ArchiveFinish,
         ArchiveProfile, ArchiveMark, ArchiveError, ArchiveClose, ArchiveFetchFails,
         ArchiveProfileFails, ArchiveThrows, ArchiveErrorLost
<1>4. ControlAction \/ Crash => Goal
  BY DEF ControlAction, Reset, Run, Resume, Cancel, StartStep, StartArchive, StartProfile,
         StartMark, Launch, StartProfileFails, Crash
<1>5. QED
  BY <1>1, <1>2, <1>3, <1>4, Frames, NextSplit

-----------------------------------------------------------------------------
(***************************************************************************)
(* Types.  The mails in hand are mails of the inbox, and so are the mails  *)
(* a checkpoint counts, wherever it is on its way; the active job is the   *)
(* one the worker has.                                                     *)
(***************************************************************************)
Bounds ==
  /\ worker.got \subseteq 1..Size /\ loop.got \subseteq 1..Size
  /\ cfg.checkpoint <= Size /\ ctl.latest <= Size /\ loop.latest <= Size
  /\ \A p \in Pollers : poll[p].cp <= Size /\ poll[p].latest <= Size

JobInv ==
  /\ \A t \in Threads :
       jobs[t].state = "active" => worker.pc # "idle" /\ worker.thread = t
  /\ worker.pc # "idle" => /\ worker.thread \in Threads
                           /\ jobs[worker.thread].state = "active"

TypeInv == TypeOK /\ Bounds /\ JobInv

Configs == [status : Statuses, token : Tokens, checkpoint : {Null} \union 0..MaxMails]
Jobs    == [state : {"none", "queued", "active", "failed"}, tries : 0..MaxRetries]
Works   == [pc : {"idle", "fetch", "read", "insert"}, thread : Threads \union {NoThread},
            got : SUBSET Mails, known : SUBSET Mails]
Polls   == [pc : {"idle", "list", "profile", "enqueue"}, cp : 0..MaxMails,
            found : SUBSET Threads, latest : 0..MaxMails]
Loops   == [pc : {"off", "init", "check", "decide", "list", "fetch", "read", "insert",
                  "save", "finish", "profile", "mark", "error", "closing"},
            saw : Statuses, token : Tokens, latest : 0..MaxMails,
            thread : Threads \union {NoThread}, got : SUBSET Mails, known : SUBSET Mails]
Ctls    == [pc : {"idle", "start", "profile", "mark", "launch"}, latest : 0..MaxMails]

\* TypeOK by the names of the sets of its records.
LEMMA TypeOKParts ==
  TypeOK <=> /\ inbox \in Seq(Threads) /\ Size <= MaxMails
             /\ stored \subseteq 1..Size
             /\ cfg \in Configs
             /\ jobs \in [Threads -> Jobs]
             /\ worker \in Works
             /\ poll \in [Pollers -> Polls]
             /\ loop \in Loops
             /\ ctl \in Ctls
             /\ causes \in [Mails -> SUBSET Reasons]
             /\ faults \in 0..MaxFaults
BY DEF TypeOK, Configs, Jobs, Works, Polls, Loops, Ctls

\* The size of an inbox, and what it is made of.
LEMMA SizeFacts ==
  ASSUME TypeOK
  PROVE  /\ Size \in Nat /\ Size \in 0..MaxMails /\ 1..Size \subseteq Mails
         /\ \A i \in 1..Size : inbox[i] \in Threads
         /\ \A t : MailsOf(t) \subseteq 1..Size
         /\ \A n : After(n) \subseteq 1..Size
         /\ \A M \in SUBSET (1..Size) : ThreadsOf(M) \subseteq Threads
BY MailAssumption DEF TypeOK, Size, Mails, MailsOf, After, ThreadsOf

\* The empty values of the records have their types.
LEMMA EmptyValues ==
  /\ NoPage \in Tokens /\ NoWork \in Works /\ NoPoll \in Polls
  /\ NoLoop \in Loops /\ NoCtl \in Ctls
<1>1. 0 \in 0..MaxMails /\ {} \in SUBSET Mails /\ {} \in SUBSET Threads
  BY MailAssumption
<1>2. NoPage \in Tokens
  BY <1>1 DEF NoPage, Tokens
<1>3. NoWork \in Works /\ NoPoll \in Polls /\ NoCtl \in Ctls
  BY <1>1 DEF NoWork, Works, NoPoll, Polls, NoCtl, Ctls
<1>4. NoLoop \in Loops
  BY <1>1, <1>2 DEF NoLoop, Loops, Statuses
<1>5. QED
  BY <1>2, <1>3, <1>4

\* What blaming M for why does: causes only grow, and the mails of M that are
\* not stored have one.
LEMMA BlameFacts ==
  ASSUME TypeOK, NEW M, NEW why \in Reasons, Blame(M, why)
  PROVE  /\ causes' \in [Mails -> SUBSET Reasons]
         /\ \A i \in Mails : causes[i] # {} => causes'[i] # {}
         /\ \A i \in Mails : i \in M \ stored => causes'[i] # {}
BY DEF TypeOK, Blame

\* A failing job stays a job of its thread, not active.
LEMMA FailedFacts ==
  ASSUME NEW job \in Jobs
  PROVE  Failed(job) \in Jobs /\ Failed(job).state # "active"
BY SyncRetries DEF Failed, Jobs

\* The initial state.
LEMMA InitTypeInv == Init => TypeInv
<1> SUFFICES ASSUME Init PROVE TypeInv
  OBVIOUS
<1>1. inbox = <<>> /\ Size = 0
  BY DEF Init, Size
<1>2. inbox \in Seq(Threads) /\ Size <= MaxMails
  BY <1>1, MailAssumption
<1>3. cfg \in Configs /\ cfg.checkpoint <= Size
  BY <1>1, EmptyValues, MailAssumption DEF Init, Configs, Statuses, Null
<1>4. jobs \in [Threads -> Jobs]
  BY SyncRetries DEF Init, Jobs
<1>5. causes \in [Mails -> SUBSET Reasons] /\ faults \in 0..MaxFaults /\ stored = {}
  BY SyncFaults DEF Init
<1>6. TypeOK
  BY <1>2, <1>3, <1>4, <1>5, EmptyValues, TypeOKParts DEF Init
<1>7. Bounds
  BY <1>1, <1>3 DEF Init, Bounds, NoWork, NoLoop, NoCtl, NoPoll
<1>8. JobInv
  BY DEF Init, JobInv, NoWork
<1>9. QED
  BY <1>6, <1>7, <1>8 DEF TypeInv

\* A poll whose record is changed to one of its type.
LEMMA PollMoves ==
  ASSUME TypeOK, NEW p \in Pollers, NEW h \in Polls, poll' = [poll EXCEPT ![p] = h]
  PROVE  /\ poll' \in [Pollers -> Polls]
         /\ poll'[p] = h
         /\ \A q \in Pollers : q # p => poll'[q] = poll[q]
BY TypeOKParts

\* A mail arriving keeps the types: what counts the mails still does.
LEMMA ArriveTypeInv ==
  ASSUME TypeInv, NEW t \in Threads, Arrive(t)
  PROVE  TypeInv'
<1> USE DEF TypeInv
<1>1. inbox' \in Seq(Threads) /\ Size' = Size + 1 /\ Size' <= MaxMails
  BY MailAssumption, AppendProperties, SizeFacts DEF Arrive, Size, TypeOK
<1>2. 1..Size \subseteq (1..Size)'
  BY <1>1, SizeFacts
<1>3. TypeOK'
  <2>1. UNCHANGED <<stored, cfg, jobs, worker, poll, loop, ctl, causes, faults>>
    BY DEF Arrive
  <2>2. stored' \subseteq (1..Size)'
    BY <1>2, <2>1 DEF TypeOK
  <2>3. QED
    BY <1>1, <2>1, <2>2 DEF TypeOK
<1>4. Bounds'
  <2>1. /\ cfg.checkpoint \in {Null} \union 0..MaxMails /\ ctl.latest \in 0..MaxMails
        /\ loop.latest \in 0..MaxMails
    BY TypeOKParts DEF Configs, Ctls, Loops
  <2>2. \A p \in Pollers : poll[p].cp \in 0..MaxMails /\ poll[p].latest \in 0..MaxMails
    BY TypeOKParts DEF Polls
  <2>3. \A n \in {Null} \union 0..MaxMails : n <= Size => n <= Size'
    BY <1>1, SizeFacts, MailAssumption DEF Null
  <2>4. QED
    BY <1>2, <2>1, <2>2, <2>3 DEF Bounds, Arrive
<1>5. JobInv'
  BY DEF Arrive, JobInv
<1>6. QED
  BY <1>3, <1>4, <1>5

\* The steps of a poll keep the types.
LEMMA PollTypeInv ==
  ASSUME TypeInv, NEW p \in Pollers, PollAction(p)
  PROVE  TypeInv'
<1> USE DEF TypeInv
<1>0. /\ poll[p] \in Polls /\ Size \in 0..MaxMails /\ Size \in Nat
      /\ poll[p].cp <= Size /\ poll[p].latest <= Size
      /\ \A n : ThreadsOf(After(n)) \in SUBSET Threads
  BY TypeOKParts, SizeFacts DEF Bounds
<1>1. ASSUME NEW h \in Polls, poll' = [poll EXCEPT ![p] = h],
             h.cp <= Size, h.latest <= Size,
             UNCHANGED <<inbox, stored, cfg, jobs, worker, loop, ctl>>,
             causes' \in [Mails -> SUBSET Reasons], faults' \in 0..MaxFaults
      PROVE  TypeInv'
  <2>1. TypeOK'
    BY <1>1, PollMoves DEF TypeOK, Polls, Size
  <2>2. Bounds'
    BY <1>1, PollMoves DEF Bounds, Size
  <2>3. JobInv'
    BY <1>1 DEF JobInv
  <2>4. QED
    BY <2>1, <2>2, <2>3
<1>2. /\ causes \in [Mails -> SUBSET Reasons] /\ faults \in 0..MaxFaults
      /\ Fault => faults' \in 0..MaxFaults
  BY SyncFaults DEF TypeOK, Fault
<1>3. CASE PollBegin(p)
  <2> DEFINE h == [NoPoll EXCEPT !.pc = "list", !.cp = cfg.checkpoint]
  <2>1. cfg.checkpoint \in 0..MaxMails /\ cfg.checkpoint <= Size
    BY <1>3, TypeOKParts DEF PollBegin, Configs, Bounds
  <2>2. h \in Polls /\ h.cp <= Size /\ h.latest <= Size
    <3>1. h \in Polls
      BY <2>1, EmptyValues DEF Polls
    <3>2. h.cp = cfg.checkpoint /\ h.latest = 0
      BY DEF NoPoll
    <3>3. QED
      BY <1>0, <2>1, <3>1, <3>2
  <2>3. poll' = [poll EXCEPT ![p] = h]
    BY <1>3 DEF PollBegin
  <2> HIDE DEF h
  <2>4. QED
    BY <1>1, <1>2, <1>3, <2>2, <2>3 DEF PollBegin
<1>4. CASE PollList(p)
  <2> DEFINE h == [poll[p] EXCEPT
       !.pc     = IF Provider = "GMAIL" /\ After(poll[p].cp) = {}
                  THEN "profile" ELSE "enqueue",
       !.found  = ThreadsOf(After(poll[p].cp)),
       !.latest = Size]
  <2>1. h \in Polls /\ h.cp <= Size /\ h.latest <= Size
    <3>1. h \in Polls
      BY <1>0 DEF Polls
    <3>2. h.cp = poll[p].cp /\ h.latest = Size
      BY <1>0 DEF Polls
    <3>3. QED
      BY <1>0, <3>1, <3>2
  <2>2. poll' = [poll EXCEPT ![p] = h]
    BY <1>4 DEF PollList
  <2> HIDE DEF h
  <2>3. QED
    BY <1>1, <1>2, <1>4, <2>1, <2>2 DEF PollList
<1>5. CASE PollRecover(p)
  <2>1. PICK old \in poll[p].cp..Size :
          /\ poll' = [poll EXCEPT ![p] = [@ EXCEPT !.pc = "profile", !.latest = Size,
                                                  !.found = ThreadsOf(After(old))]]
          /\ Blame(After(poll[p].cp) \ After(old), "aged")
    BY <1>5 DEF PollRecover
  <2> DEFINE h == [poll[p] EXCEPT !.pc = "profile", !.latest = Size,
                                  !.found = ThreadsOf(After(old))]
  <2>2. h \in Polls /\ h.cp <= Size /\ h.latest <= Size
    <3>1. h \in Polls
      BY <1>0 DEF Polls
    <3>2. h.cp = poll[p].cp /\ h.latest = Size
      BY <1>0 DEF Polls
    <3>3. QED
      BY <1>0, <3>1, <3>2
  <2>3. causes' \in [Mails -> SUBSET Reasons]
    BY <2>1, BlameFacts DEF Reasons
  <2>4. poll' = [poll EXCEPT ![p] = h]
    BY <2>1
  <2> HIDE DEF h
  <2>5. QED
    BY <1>1, <1>2, <1>5, <2>2, <2>3, <2>4 DEF PollRecover
<1>6. CASE PollProfile(p)
  <2> DEFINE h == [poll[p] EXCEPT !.pc = "enqueue", !.latest = Size]
  <2>1. h \in Polls /\ h.cp <= Size /\ h.latest <= Size
    <3>1. h \in Polls
      BY <1>0 DEF Polls
    <3>2. h.cp = poll[p].cp /\ h.latest = Size
      BY <1>0 DEF Polls
    <3>3. QED
      BY <1>0, <3>1, <3>2
  <2>2. causes' \in [Mails -> SUBSET Reasons]
    BY <1>6, BlameFacts DEF PollProfile, Reasons
  <2>3. poll' = [poll EXCEPT ![p] = h]
    BY <1>6 DEF PollProfile
  <2> HIDE DEF h
  <2>4. QED
    BY <1>1, <1>2, <1>6, <2>1, <2>2, <2>3 DEF PollProfile
<1>7. CASE PollFails(p)
  <2>1. NoPoll \in Polls /\ NoPoll.cp <= Size /\ NoPoll.latest <= Size
    BY <1>0, EmptyValues DEF NoPoll
  <2>2. QED
    BY <1>1, <1>2, <1>7, <2>1 DEF PollFails
<1>8. CASE PollEnqueue(p)
  <2>1. PICK t \in poll[p].found :
          /\ poll' = [poll EXCEPT ![p].found = @ \ {t}]
          /\ jobs' = IF Live(t) THEN jobs
                     ELSE [jobs EXCEPT ![t] = [state |-> "queued", tries |-> 0]]
          /\ Blame(IF Live(t) THEN Missed(t) ELSE {}, "collapsed")
    BY <1>8 DEF PollEnqueue
  <2> DEFINE h == [poll[p] EXCEPT !.found = poll[p].found \ {t}]
  <2>2. h \in Polls /\ h.cp = poll[p].cp /\ h.latest = poll[p].latest
    BY <1>0 DEF Polls
  <2>3. poll' = [poll EXCEPT ![p] = h]
    BY <2>1
  <2>4. t \in Threads
    BY <1>0 DEF Polls
  <2>5. jobs' \in [Threads -> Jobs]
    BY <2>1, <2>4, TypeOKParts, SyncRetries DEF Jobs
  <2>6. causes' \in [Mails -> SUBSET Reasons]
    BY <2>1, BlameFacts DEF Reasons
  <2>7. UNCHANGED <<inbox, stored, cfg, worker, loop, ctl, faults>>
    BY <1>8 DEF PollEnqueue
  <2> HIDE DEF h
  <2>8. TypeOK'
    <3>1. poll' \in [Pollers -> Polls]
      BY <2>2, <2>3, PollMoves
    <3>2. Size' = Size
      BY <2>7 DEF Size
    <3>3. QED
      BY <2>5, <2>6, <2>7, <3>1, <3>2 DEF TypeOK, Polls, Jobs
  <2>9. Bounds'
    BY <1>0, <2>2, <2>3, <2>7, PollMoves DEF Bounds, Size
  <2>10. JobInv'
    BY <2>1, <2>7, TypeOKParts DEF JobInv, Live
  <2>11. QED
    BY <2>8, <2>9, <2>10
<1>9. CASE PollAdvance(p)
  <2> DEFINE c == [cfg EXCEPT !.checkpoint = poll[p].latest]
  <2>1. c \in Configs /\ c.checkpoint <= Size
    BY <1>0, TypeOKParts DEF Configs, Polls
  <2>2. NoPoll \in Polls /\ NoPoll.cp <= Size /\ NoPoll.latest <= Size
    BY <1>0, EmptyValues DEF NoPoll
  <2>3. cfg' = c /\ poll' = [poll EXCEPT ![p] = NoPoll]
    BY <1>9 DEF PollAdvance
  <2>4. UNCHANGED <<inbox, stored, jobs, worker, loop, ctl, causes, faults>>
    BY <1>9 DEF PollAdvance
  <2> HIDE DEF c
  <2>5. TypeOK'
    BY <2>1, <2>2, <2>3, <2>4, PollMoves DEF TypeOK, Polls, Configs, Size
  <2>6. Bounds'
    BY <2>1, <2>2, <2>3, <2>4, PollMoves DEF Bounds, Size
  <2>7. JobInv'
    BY <2>4 DEF JobInv
  <2>8. QED
    BY <2>5, <2>6, <2>7
<1>10. QED
  BY <1>3, <1>4, <1>5, <1>6, <1>7, <1>8, <1>9 DEF PollAction, PollStep

\* What a step of the worker, the loop or a handler has to keep.
LEMMA ActorTypeInv ==
  ASSUME TypeInv, UNCHANGED <<inbox, poll>>,
         stored' \subseteq 1..Size,
         cfg' \in Configs, cfg'.checkpoint <= Size,
         jobs' \in [Threads -> Jobs],
         worker' \in Works, worker'.got \subseteq 1..Size,
         loop' \in Loops, loop'.got \subseteq 1..Size, loop'.latest <= Size,
         ctl' \in Ctls, ctl'.latest <= Size,
         causes' \in [Mails -> SUBSET Reasons],
         faults' \in 0..MaxFaults
  PROVE  TypeOK' /\ Bounds'
<1>1. Size' = Size /\ (1..Size)' = 1..Size
  BY DEF Size
<1>2. TypeOK'
  BY <1>1 DEF TypeInv, TypeOK, Configs, Jobs, Works, Loops, Ctls
<1>3. Bounds'
  BY <1>1 DEF TypeInv, Bounds
<1>4. QED
  BY <1>2, <1>3

\* The present values, as an actor that leaves them alone cites them.
LEMMA ActorValues ==
  ASSUME TypeInv
  PROVE  /\ stored \subseteq 1..Size
         /\ cfg \in Configs /\ cfg.checkpoint <= Size
         /\ jobs \in [Threads -> Jobs]
         /\ worker \in Works /\ worker.got \subseteq 1..Size
         /\ loop \in Loops /\ loop.got \subseteq 1..Size /\ loop.latest <= Size
         /\ ctl \in Ctls /\ ctl.latest <= Size
         /\ causes \in [Mails -> SUBSET Reasons]
         /\ faults \in 0..MaxFaults
         /\ Fault => faults' \in 0..MaxFaults
BY TypeOKParts, SyncFaults DEF TypeInv, Bounds, Fault

\* The worker without a job has nothing in hand.
LEMMA IdleWork ==
  ASSUME TypeInv
  PROVE  NoWork \in Works /\ NoWork.got \subseteq 1..Size /\ NoWork.pc = "idle"
BY EmptyValues DEF NoWork

\* The steps of the worker keep the types.
LEMMA IngestTypeInv == ASSUME TypeInv, IngestAction PROVE TypeInv'
<1> USE ActorValues, ActorTypeInv
<1>0. Size \in Nat /\ Size \in 0..MaxMails /\ (1..Size) \subseteq Mails
  BY SizeFacts DEF TypeInv
<1>1. ASSUME NEW t \in Threads, IngestStart(t) PROVE TypeInv'
  <2> DEFINE w == [NoWork EXCEPT !.pc = "fetch", !.thread = t]
             job == [jobs[t] EXCEPT !.state = "active"]
  <2>1. w \in Works /\ w.got = {} /\ w.pc = "fetch" /\ w.thread = t
    BY IdleWork DEF NoWork, Works
  <2>2. job \in Jobs /\ job.state = "active"
    BY DEF Jobs
  <2>3. worker' = w /\ jobs' = [jobs EXCEPT ![t] = job] /\ worker.pc = "idle"
        /\ UNCHANGED <<inbox, stored, cfg, poll, loop, ctl, causes, faults>>
    BY <1>1 DEF IngestStart
  <2> HIDE DEF w, job
  <2>4. jobs' \in [Threads -> Jobs]
    BY <2>2, <2>3
  <2>5. TypeOK' /\ Bounds'
    BY <2>1, <2>3, <2>4
  <2>6. JobInv'
    BY <2>1, <2>2, <2>3 DEF JobInv, TypeInv
  <2>7. QED
    BY <2>5, <2>6 DEF TypeInv
<1>2. CASE IngestFetch \/ IngestRead
  <2>1. worker' \in Works /\ worker'.got \subseteq 1..Size
    <3>1. MailsOf(worker.thread) \subseteq 1..Size
      BY SizeFacts DEF TypeInv
    <3>2. QED
      BY <1>0, <1>2, <3>1 DEF IngestFetch, IngestRead, Works
  <2>2. worker.pc # "idle" /\ worker'.pc # "idle" /\ worker'.thread = worker.thread
    BY <1>2 DEF IngestFetch, IngestRead, Works
  <2>3. UNCHANGED <<inbox, stored, cfg, jobs, poll, loop, ctl, causes, faults>>
    BY <1>2 DEF IngestFetch, IngestRead
  <2>4. TypeOK' /\ Bounds'
    BY <2>1, <2>3
  <2>5. JobInv'
    BY <2>2, <2>3 DEF JobInv, TypeInv
  <2>6. QED
    BY <2>4, <2>5 DEF TypeInv
<1>3. CASE IngestFetchFails \/ IngestInsert \/ IngestFails
  <2>1. /\ worker.pc # "idle" /\ worker' = NoWork
        /\ UNCHANGED <<inbox, cfg, poll, loop, ctl>>
    BY <1>3 DEF IngestFetchFails, IngestInsert, IngestFails
  <2>2. worker.thread \in Threads
    BY <2>1 DEF TypeInv, JobInv
  <2>3. PICK job \in Jobs : job.state # "active" /\ jobs' = [jobs EXCEPT ![worker.thread] = job]
    <3>1. [state |-> "none", tries |-> 0] \in Jobs
      BY SyncRetries DEF Jobs
    <3>2. Failed(jobs[worker.thread]) \in Jobs /\ Failed(jobs[worker.thread]).state # "active"
      BY <2>2, FailedFacts
    <3>3. QED
      BY <1>3, <3>1, <3>2 DEF IngestFetchFails, IngestInsert, IngestFails
  <2>4. jobs' \in [Threads -> Jobs]
    BY <2>3
  <2>5. stored' \subseteq 1..Size
    BY <1>3 DEF IngestFetchFails, IngestInsert, IngestFails
  <2>6. causes' \in [Mails -> SUBSET Reasons]
    BY <1>3, BlameFacts DEF IngestFetchFails, IngestInsert, IngestFails, Reasons, TypeInv
  <2>7. faults' \in 0..MaxFaults
    BY <1>3 DEF IngestFetchFails, IngestInsert, IngestFails
  <2>8. TypeOK' /\ Bounds'
    BY <2>1, <2>4, <2>5, <2>6, <2>7, IdleWork
  <2>9. JobInv'
    BY <2>1, <2>2, <2>3, IdleWork DEF JobInv, TypeInv
  <2>10. QED
    BY <2>8, <2>9 DEF TypeInv
<1>4. QED
  BY <1>1, <1>2, <1>3 DEF IngestAction

\* The steps of the archive loop keep the types.
LEMMA ArchiveTypeInv == ASSUME TypeInv, ArchiveAction PROVE TypeInv'
<1>0. /\ Size \in Nat /\ Size \in 0..MaxMails /\ (1..Size) \subseteq Mails
      /\ MailsOf(loop.thread) \subseteq 1..Size
      /\ ThreadsOf(1..Size) \subseteq Threads
      /\ NoPage \in Tokens
  BY SizeFacts, EmptyValues DEF TypeInv
<1>1. /\ cfg \in Configs /\ cfg.checkpoint <= Size
      /\ loop \in Loops /\ loop.got \subseteq 1..Size /\ loop.latest <= Size
      /\ stored \subseteq 1..Size /\ causes \in [Mails -> SUBSET Reasons]
  BY ActorValues
\* It is enough to keep the row, the loop, the rows of Message and the causes.
<1>2. ASSUME UNCHANGED <<inbox, jobs, worker, poll, ctl>>,
             stored' \subseteq 1..Size,
             cfg' \in Configs, cfg'.checkpoint <= Size,
             loop' \in Loops, loop'.got \subseteq 1..Size, loop'.latest <= Size,
             causes' \in [Mails -> SUBSET Reasons], faults' \in 0..MaxFaults
      PROVE  TypeInv'
  <2>1. TypeOK' /\ Bounds'
    BY <1>2, ActorTypeInv, ActorValues
  <2>2. JobInv'
    BY <1>2 DEF TypeInv, JobInv
  <2>3. QED
    BY <2>1, <2>2 DEF TypeInv
<1>3. ASSUME NEW pc \in {"off", "init", "check", "decide", "list", "fetch", "read", "insert",
                         "save", "finish", "profile", "mark", "error", "closing"}
      PROVE  LET h == [NoLoop EXCEPT !.pc = pc]
             IN h \in Loops /\ h.got \subseteq 1..Size /\ h.latest <= Size
  BY <1>0, EmptyValues DEF Loops, NoLoop
<1>4. NoLoop \in Loops /\ NoLoop.got \subseteq 1..Size /\ NoLoop.latest <= Size
  BY <1>0, EmptyValues DEF NoLoop
<1>5. Fault => faults' \in 0..MaxFaults
  BY ActorValues
<1>6. Listing \in Tokens /\ \A t : ListingAfter(t) \in Tokens
  <2>1. Listing \in Tokens
    BY <1>0, <1>1 DEF Listing, Tokens, Loops
  <2>2. QED
    BY <2>1 DEF ListingAfter, Tokens
<1>7. CASE ArchiveInit \/ ArchiveCheck \/ ArchiveDecide
  <2>1. loop' \in Loops /\ loop'.got \subseteq 1..Size /\ loop'.latest <= Size
    <3>1. CASE ArchiveInit
      BY <1>1, <3>1 DEF ArchiveInit, Loops, Configs
    <3>2. CASE ArchiveCheck
      BY <1>1, <3>2 DEF ArchiveCheck, Loops, Configs
    <3>3. CASE ArchiveDecide
      BY <1>1, <1>4, <3>3 DEF ArchiveDecide, Loops, Statuses
    <3>4. QED
      BY <1>7, <3>1, <3>2, <3>3
  <2>2. QED
    BY <1>1, <1>2, <1>7, <2>1, ActorValues DEF ArchiveInit, ArchiveCheck, ArchiveDecide
<1>8. CASE ArchiveList
  <2>1. loop' \in Loops /\ loop'.got \subseteq 1..Size /\ loop'.latest <= Size
    <3>1. CASE Listing.rest = {}
      BY <1>1, <1>6, <1>8, <3>1 DEF ArchiveList, Loops
    <3>2. CASE Listing.rest # {}
      <4>1. PICK t \in Listing.rest :
              loop' = [loop EXCEPT !.pc = "fetch", !.thread = t, !.token = ListingAfter(t)]
        BY <1>8, <3>2 DEF ArchiveList
      <4>2. t \in Threads /\ ListingAfter(t) \in Tokens
        BY <1>6 DEF Tokens
      <4>3. QED
        BY <1>1, <4>1, <4>2 DEF Loops
    <3>3. QED
      BY <3>1, <3>2
  <2>2. QED
    BY <1>1, <1>2, <1>8, <2>1, ActorValues DEF ArchiveList
<1>9. CASE ArchiveFetch \/ ArchiveRead
  <2>1. loop' \in Loops /\ loop'.got \subseteq 1..Size /\ loop'.latest <= Size
    <3>1. CASE ArchiveFetch
      BY <1>0, <1>1, <3>1 DEF ArchiveFetch, Loops
    <3>2. CASE ArchiveRead
      BY <1>0, <1>1, <3>2 DEF ArchiveRead, Loops
    <3>3. QED
      BY <1>9, <3>1, <3>2
  <2>2. QED
    BY <1>1, <1>2, <1>9, <2>1, ActorValues DEF ArchiveFetch, ArchiveRead
<1>10. CASE ArchiveFetchFails
  <2>1. loop' \in Loops /\ loop'.got \subseteq 1..Size /\ loop'.latest <= Size
    BY <1>1, <1>10 DEF ArchiveFetchFails, Loops
  <2>2. causes' \in [Mails -> SUBSET Reasons]
    BY <1>10, BlameFacts DEF ArchiveFetchFails, Reasons, TypeInv
  <2>3. QED
    BY <1>1, <1>2, <1>5, <1>10, <2>1, <2>2 DEF ArchiveFetchFails
<1>11. CASE ArchiveInsert
  <2>1. loop' \in Loops /\ loop'.got \subseteq 1..Size /\ loop'.latest <= Size
    BY <1>1, <1>3, <1>11 DEF ArchiveInsert, Loops
  <2>2. stored' \subseteq 1..Size
    BY <1>1, <1>11 DEF ArchiveInsert
  <2>3. QED
    BY <1>1, <1>2, <1>11, <2>1, <2>2, ActorValues DEF ArchiveInsert
<1>12. CASE ArchiveSave
  <2>1. loop' \in Loops /\ loop'.got \subseteq 1..Size /\ loop'.latest <= Size
    BY <1>1, <1>12 DEF ArchiveSave, Loops, NoLoop
  <2>2. cfg' \in Configs /\ cfg'.checkpoint <= Size
    BY <1>0, <1>1, <1>12 DEF ArchiveSave, Configs, Loops, Statuses
  <2>3. QED
    BY <1>1, <1>2, <1>12, <2>1, <2>2, ActorValues DEF ArchiveSave
<1>13. CASE ArchiveFinish \/ ArchiveError
  <2>1. loop' \in Loops /\ loop'.got \subseteq 1..Size /\ loop'.latest <= Size
    BY <1>3, <1>13 DEF ArchiveFinish, ArchiveError
  <2>2. cfg' \in Configs /\ cfg'.checkpoint <= Size
    BY <1>0, <1>1, <1>13 DEF ArchiveFinish, ArchiveError, Configs, Statuses
  <2>3. QED
    BY <1>1, <1>2, <1>13, <2>1, <2>2, ActorValues DEF ArchiveFinish, ArchiveError
<1>14. CASE ArchiveProfile \/ ArchiveProfileFails
  <2>1. loop' \in Loops /\ loop'.got \subseteq 1..Size /\ loop'.latest <= Size
    <3>1. loop' = [loop EXCEPT !.pc = "mark", !.latest = Size]
          \/ loop' = [loop EXCEPT !.pc = "closing"]
      BY <1>14 DEF ArchiveProfile, ArchiveProfileFails
    <3>2. CASE loop' = [loop EXCEPT !.pc = "mark", !.latest = Size]
      <4>1. loop' \in Loops
        BY <1>0, <1>1, <3>2 DEF Loops
      <4>2. loop'.got = loop.got /\ loop'.latest = Size
        BY <1>1, <3>2 DEF Loops
      <4>3. QED
        BY <1>0, <1>1, <4>1, <4>2
    <3>3. CASE loop' = [loop EXCEPT !.pc = "closing"]
      BY <1>1, <3>3 DEF Loops
    <3>4. QED
      BY <3>1, <3>2, <3>3
  <2>2. QED
    BY <1>1, <1>2, <1>5, <1>14, <2>1, ActorValues DEF ArchiveProfile, ArchiveProfileFails
<1>15. CASE ArchiveMark
  <2>1. loop' \in Loops /\ loop'.got \subseteq 1..Size /\ loop'.latest <= Size
    BY <1>3, <1>15 DEF ArchiveMark
  <2>2. cfg' \in Configs /\ cfg'.checkpoint <= Size
    BY <1>1, <1>15 DEF ArchiveMark, Configs, Loops
  <2>3. causes' \in [Mails -> SUBSET Reasons]
    BY <1>15, BlameFacts DEF ArchiveMark, Reasons, TypeInv
  <2>4. QED
    BY <1>1, <1>2, <1>15, <2>1, <2>2, <2>3, ActorValues DEF ArchiveMark
<1>16. CASE ArchiveThrows \/ ArchiveErrorLost \/ ArchiveClose
  <2>1. loop' \in Loops /\ loop'.got \subseteq 1..Size /\ loop'.latest <= Size
    BY <1>3, <1>4, <1>16 DEF ArchiveThrows, ArchiveErrorLost, ArchiveClose
  <2>2. QED
    BY <1>1, <1>2, <1>5, <1>16, <2>1, ActorValues
       DEF ArchiveThrows, ArchiveErrorLost, ArchiveClose
<1>17. QED
  BY <1>7, <1>8, <1>9, <1>10, <1>11, <1>12, <1>13, <1>14, <1>15, <1>16
     DEF ArchiveAction, ArchiveStep

\* The steps of the handlers keep the types.
LEMMA ControlTypeInv == ASSUME TypeInv, ControlAction PROVE TypeInv'
<1>0. Size \in Nat /\ Size \in 0..MaxMails /\ NoPage \in Tokens
  BY SizeFacts, EmptyValues DEF TypeInv
<1>1. /\ cfg \in Configs /\ cfg.checkpoint <= Size
      /\ loop \in Loops /\ loop.got \subseteq 1..Size /\ loop.latest <= Size
      /\ ctl \in Ctls /\ ctl.latest <= Size
      /\ causes \in [Mails -> SUBSET Reasons]
  BY ActorValues
\* It is enough to keep the row, the handler, the loop and the causes.
<1>2. ASSUME UNCHANGED <<inbox, stored, jobs, worker, poll>>,
             cfg' \in Configs, cfg'.checkpoint <= Size,
             ctl' \in Ctls, ctl'.latest <= Size,
             loop' \in Loops, loop'.got \subseteq 1..Size, loop'.latest <= Size,
             causes' \in [Mails -> SUBSET Reasons], faults' \in 0..MaxFaults
      PROVE  TypeInv'
  <2>1. TypeOK' /\ Bounds'
    BY <1>2, ActorTypeInv, ActorValues
  <2>2. JobInv'
    BY <1>2 DEF TypeInv, JobInv
  <2>3. QED
    BY <2>1, <2>2 DEF TypeInv
<1>3. CASE Reset \/ Run \/ Resume \/ Cancel \/ StartArchive
  <2>1. cfg' \in Configs /\ cfg'.checkpoint <= Size
    <3>1. Null \in {Null} \union 0..MaxMails /\ Null <= Size
      BY <1>0 DEF Null
    <3>2. CASE Reset
      BY <1>0, <3>1, <3>2 DEF Reset, Configs, Statuses
    <3>3. CASE Run \/ Resume \/ Cancel \/ StartArchive
      BY <1>0, <1>1, <3>3 DEF Run, Resume, Cancel, StartArchive, Configs, Statuses
    <3>4. QED
      BY <1>3, <3>2, <3>3
  <2>2. ctl' \in Ctls /\ ctl'.latest <= Size
    BY <1>1, <1>3 DEF Reset, Run, Resume, Cancel, StartArchive, Ctls
  <2>3. UNCHANGED <<inbox, stored, jobs, worker, poll, loop, causes, faults>>
    BY <1>3 DEF Reset, Run, Resume, Cancel, StartArchive
  <2>4. QED
    BY <1>1, <1>2, <2>1, <2>2, <2>3, ActorValues
<1>4. CASE StartProfile \/ StartProfileFails
  <2>1. ctl' \in Ctls /\ ctl'.latest <= Size
    BY <1>0, <1>1, <1>4 DEF StartProfile, StartProfileFails, Ctls
  <2>2. QED
    BY <1>1, <1>2, <1>4, <2>1, ActorValues DEF StartProfile, StartProfileFails
<1>5. CASE StartMark
  <2>1. ctl' \in Ctls /\ ctl'.latest <= Size
    BY <1>0, <1>5, EmptyValues DEF StartMark, NoCtl, Ctls
  <2>2. cfg' \in Configs /\ cfg'.checkpoint <= Size
    BY <1>1, <1>5 DEF StartMark, Configs, Ctls
  <2>3. causes' \in [Mails -> SUBSET Reasons]
    BY <1>5, BlameFacts DEF StartMark, Reasons, TypeInv
  <2>4. QED
    BY <1>1, <1>2, <1>5, <2>1, <2>2, <2>3, ActorValues DEF StartMark
<1>6. CASE Launch
  <2>1. loop' \in Loops /\ loop'.got \subseteq 1..Size /\ loop'.latest <= Size
    BY <1>0, <1>1, <1>6, EmptyValues DEF Launch, NoLoop, Loops
  <2>2. ctl' \in Ctls /\ ctl'.latest <= Size
    BY <1>0, <1>6, EmptyValues DEF Launch, NoCtl
  <2>3. QED
    BY <1>1, <1>2, <1>6, <2>1, <2>2, ActorValues DEF Launch
<1>7. QED
  BY <1>3, <1>4, <1>5, <1>6 DEF ControlAction, StartStep

\* A restart keeps the types.
LEMMA CrashTypeInv == ASSUME TypeInv, Crash PROVE TypeInv'
<1>0. Size \in Nat /\ Size \in 0..MaxMails /\ stored \subseteq 1..Size
  BY SizeFacts, ActorValues DEF TypeInv
<1>1. NoLoop \in Loops /\ [NoLoop EXCEPT !.pc = "init"] \in Loops
  BY EmptyValues DEF NoLoop, Loops
<1>2. loop' \in Loops /\ loop'.got \subseteq 1..Size /\ loop'.latest <= Size
  BY <1>0, <1>1 DEF Crash, NoLoop
<1>3. ctl' \in Ctls /\ ctl'.latest <= Size
  BY <1>0, EmptyValues DEF Crash, NoCtl
<1>4. worker' = NoWork /\ worker' \in Works /\ worker'.got \subseteq 1..Size
  BY IdleWork DEF Crash
<1>5. poll' \in [Pollers -> Polls] /\ \A p \in Pollers : poll'[p] = NoPoll
  BY EmptyValues DEF Crash
<1>6. /\ jobs' \in [Threads -> Jobs] /\ causes' \in [Mails -> SUBSET Reasons]
      /\ \A t \in Threads : jobs'[t].state # "active"
  <2>1. CASE worker.pc = "idle"
    BY <2>1, ActorValues DEF Crash, TypeInv, JobInv
  <2>2. CASE worker.pc # "idle"
    <3>1. worker.thread \in Threads
      BY <2>2 DEF TypeInv, JobInv
    <3>2. PICK job \in Jobs : job.state # "active" /\ jobs' = [jobs EXCEPT ![worker.thread] = job]
      BY <2>2, <3>1, FailedFacts, ActorValues DEF Crash
    <3>3. causes' \in [Mails -> SUBSET Reasons]
      BY <2>2, BlameFacts DEF Crash, Reasons, TypeInv
    <3>4. \A t \in Threads : t # worker.thread => jobs[t].state # "active"
      BY DEF TypeInv, JobInv
    <3>5. QED
      BY <3>1, <3>2, <3>3, <3>4, ActorValues
  <2>3. QED
    BY <2>1, <2>2
<1>7. cfg \in Configs /\ cfg.checkpoint <= Size /\ faults' \in 0..MaxFaults
      /\ UNCHANGED <<inbox, stored, cfg>>
  BY ActorValues DEF Crash
<1>8. Size' = Size
  BY <1>7 DEF Size
<1>9. TypeOK'
  BY <1>0, <1>2, <1>3, <1>4, <1>5, <1>6, <1>7, <1>8
     DEF TypeInv, TypeOK, Configs, Jobs, Works, Polls, Loops, Ctls
<1>10. Bounds'
  BY <1>0, <1>2, <1>3, <1>4, <1>5, <1>7, <1>8 DEF Bounds, NoPoll
<1>11. JobInv'
  BY <1>4, <1>6, IdleWork DEF JobInv
<1>12. QED
  BY <1>9, <1>10, <1>11 DEF TypeInv

\* Every step keeps the types.
LEMMA NextTypeInv == ASSUME TypeInv, [Next]_vars PROVE TypeInv'
<1>1. CASE Next
  BY <1>1, NextSplit, ArriveTypeInv, PollTypeInv, IngestTypeInv, ArchiveTypeInv,
     ControlTypeInv, CrashTypeInv
<1>2. CASE UNCHANGED vars
  BY <1>2 DEF vars, TypeInv, TypeOK, Bounds, JobInv, Size
<1>3. QED
  BY <1>1, <1>2

\* Every reachable state is well typed, counts no mail that is not there, and
\* has the worker's job, and no other, active.
THEOREM TypeInvariant == Spec => []TypeInv
<1>1. Init => TypeInv
  BY InitTypeInv
<1>2. TypeInv /\ [Next]_vars => TypeInv'
  BY NextTypeInv
<1>3. QED
  BY <1>1, <1>2, PTL DEF Spec

\* Every reachable state is well typed.
THEOREM TypeCorrect == Spec => []TypeOK
<1>1. TypeInv => TypeOK
  BY DEF TypeInv
<1>2. QED
  BY <1>1, TypeInvariant, PTL

-----------------------------------------------------------------------------
(***************************************************************************)
(* No mail is lost without a cause.  A mail is accounted for when it is    *)
(* stored, will be, or has a cause, and stays so whatever happens; a poll  *)
(* accounts for, or still has to queue, every mail its next checkpoint     *)
(* counts.                                                                 *)
(***************************************************************************)
Accounted(i) == i \in stored \/ WillStore(i) \/ causes[i] # {}

\* The mails up to n are accounted for, or of a thread of F.
Covered(n, F) == \A i \in 1..Size : i <= n => Accounted(i) \/ inbox[i] \in F

PollInv ==
  \A p \in Pollers :
    /\ poll[p].pc = "list" => Covered(poll[p].cp, {})
    /\ poll[p].pc \in {"profile", "enqueue"} => Covered(poll[p].latest, poll[p].found)

CoverInv == TypeInv /\ Covered(cfg.checkpoint, {}) /\ PollInv

\* Blaming keeps the causes there are, and adds one to the mails not stored.
LEMMA Blames ==
  ASSUME NEW M, NEW why, Blame(M, why)
  PROVE  /\ \A i \in Mails : causes[i] # {} => causes'[i] # {}
         /\ \A i \in Mails : i \in M \ stored => causes'[i] # {}
BY DEF Blame

\* Stored mails stay stored, and causes stay.
LEMMA NothingForgotten ==
  ASSUME Next
  PROVE  /\ stored \subseteq stored'
         /\ \A i \in Mails : causes[i] # {} => causes'[i] # {}
<1>1. stored \subseteq stored'
  BY Frames, NextSplit
<1>2. \A i \in Mails : causes[i] # {} => causes'[i] # {}
  BY Causing, Blames
<1>3. QED
  BY <1>1, <1>2

\* The mails of the inbox stay where they are.
LEMMA InboxGrows ==
  ASSUME TypeInv, Next
  PROVE  /\ \A i \in 1..Size : i \in (1..Size)' /\ inbox'[i] = inbox[i]
         /\ (~ \E t \in Threads : Arrive(t)) => (1..Size)' = 1..Size
<1>1. ASSUME NEW t \in Threads, Arrive(t)
      PROVE  \A i \in 1..Size : i \in (1..Size)' /\ inbox'[i] = inbox[i]
  BY <1>1, AppendProperties, SizeFacts DEF Arrive, Size, TypeInv, TypeOK
<1>2. ASSUME ~ \E t \in Threads : Arrive(t) PROVE UNCHANGED inbox
  BY <1>2, Frames, NextSplit
<1>3. QED
  BY <1>1, <1>2 DEF Size

\* A mail that a job of its thread will store is accounted for by every step of
\* that job: it is stored, queued again, or blamed.
LEMMA JobKeeps ==
  ASSUME TypeInv, NEW i \in 1..Size, WillStore(i), IngestAction \/ Crash
  PROVE  Accounted(i)'
<1> DEFINE t == inbox[i]
<1>0. t \in Threads /\ i \in Mails /\ i \in MailsOf(t) /\ UNCHANGED inbox
  BY SizeFacts, Frames DEF TypeInv, MailsOf
<1>1. /\ jobs \in [Threads -> Jobs]
      /\ worker.pc # "idle" => worker.thread \in Threads /\ jobs[worker.thread].state = "active"
      /\ jobs[t].state = "queued" \/ (/\ jobs[t].state = "active" /\ worker.thread = t
                                      /\ worker.pc # "idle"
                                      /\ worker.pc = "fetch" \/ i \in worker.got)
  BY <1>0, ActorValues DEF TypeInv, JobInv, WillStore
\* The job fails: it is queued again, or its mails are blamed.
<1>2. ASSUME worker.pc # "idle", worker.thread = t,
             jobs' = [jobs EXCEPT ![t] = Failed(jobs[t])], Blame(Dead(t), "dead"),
             UNCHANGED stored
      PROVE  Accounted(i)'
  <2>1. CASE jobs[t].tries < MaxRetries
    BY <1>0, <1>1, <1>2, <2>1 DEF Accounted, WillStore, Failed
  <2>2. CASE ~(jobs[t].tries < MaxRetries)
    <3>1. i \in Dead(t)
      BY <1>0, <2>2 DEF Dead
    <3>2. QED
      BY <1>0, <1>2, <3>1, Blames DEF Accounted
  <2>3. QED
    BY <2>1, <2>2
\* The job of another thread ends: this one's is queued still.
<1>3. ASSUME worker.pc # "idle", worker.thread # t, NEW job,
             jobs' = [jobs EXCEPT ![worker.thread] = job]
      PROVE  Accounted(i)'
  BY <1>0, <1>1, <1>3 DEF Accounted, WillStore
<1>4. ASSUME NEW s \in Threads, IngestStart(s) PROVE Accounted(i)'
  <2>1. jobs[t].state = "queued"
    BY <1>1, <1>4 DEF IngestStart
  <2>2. CASE s = t
    <3>1. worker'.pc = "fetch" /\ worker'.thread = t /\ jobs'[t].state = "active"
      BY <1>0, <1>1, <1>4, <2>2 DEF IngestStart, NoWork, Jobs
    <3>2. QED
      BY <1>0, <3>1 DEF Accounted, WillStore
  <2>3. CASE s # t
    BY <1>0, <1>1, <1>4, <2>1, <2>3 DEF IngestStart, Accounted, WillStore
  <2>4. QED
    BY <2>2, <2>3
<1>5. CASE IngestFetch
  <2>1. worker'.thread = worker.thread /\ worker'.got = MailsOf(worker.thread)
        /\ UNCHANGED jobs
    BY <1>5, ActorValues DEF IngestFetch, Works
  <2>2. QED
    BY <1>0, <1>1, <2>1 DEF Accounted, WillStore
<1>6. CASE IngestRead
  <2>1. worker'.thread = worker.thread /\ worker'.got = worker.got /\ worker.pc # "fetch"
        /\ UNCHANGED jobs
    BY <1>6, ActorValues DEF IngestRead, Works
  <2>2. QED
    BY <1>0, <1>1, <2>1 DEF Accounted, WillStore
<1>7. CASE IngestFetchFails
  <2>1. CASE worker.thread = t
    BY <1>0, <1>7, <2>1, Blames DEF IngestFetchFails, Accounted
  <2>2. QED
    BY <1>3, <1>7, <2>1 DEF IngestFetchFails
<1>8. CASE IngestInsert
  <2>1. CASE worker.thread = t
    BY <1>1, <1>8, <2>1 DEF IngestInsert, Accounted
  <2>2. QED
    BY <1>3, <1>8, <2>1 DEF IngestInsert
<1>9. CASE IngestFails
  <2>1. CASE worker.thread = t
    BY <1>2, <1>9, <2>1 DEF IngestFails
  <2>2. QED
    BY <1>3, <1>9, <2>1 DEF IngestFails
<1>10. CASE Crash
  <2>1. CASE worker.pc = "idle"
    BY <1>0, <1>1, <1>10, <2>1 DEF Crash, Accounted, WillStore
  <2>2. CASE worker.pc # "idle" /\ worker.thread = t
    BY <1>2, <1>10, <2>2 DEF Crash
  <2>3. QED
    BY <1>3, <1>10, <2>1, <2>2 DEF Crash
<1>11. QED
  BY <1>4, <1>5, <1>6, <1>7, <1>8, <1>9, <1>10 DEF IngestAction

\* A poll only ever queues jobs.
LEMMA PollKeeps ==
  ASSUME TypeInv, NEW p \in Pollers, PollAction(p), NEW i \in 1..Size, WillStore(i)
  PROVE  WillStore(i)'
<1>0. UNCHANGED <<inbox, worker>>
  BY Frames
<1>1. CASE UNCHANGED jobs
  BY <1>0, <1>1 DEF WillStore
<1>2. CASE PollEnqueue(p)
  <2>1. PICK t \in poll[p].found :
          jobs' = IF Live(t) THEN jobs
                  ELSE [jobs EXCEPT ![t] = [state |-> "queued", tries |-> 0]]
    BY <1>2 DEF PollEnqueue
  <2>2. inbox[i] \in Threads
    BY SizeFacts DEF TypeInv
  <2>3. QED
    BY <1>0, <2>1, <2>2, ActorValues DEF WillStore, Live
<1>3. QED
  BY <1>1, <1>2 DEF PollAction, PollStep, PollBegin, PollList, PollRecover, PollProfile,
                    PollFails, PollAdvance

\* A mail that is accounted for stays so.
LEMMA AccountedStays ==
  ASSUME TypeInv, Next, NEW i \in 1..Size, Accounted(i)
  PROVE  Accounted(i)'
<1>1. CASE i \in stored \/ causes[i] # {}
  <2>1. i \in Mails
    BY SizeFacts DEF TypeInv
  <2>2. QED
    BY <1>1, <2>1, NothingForgotten DEF Accounted
<1>2. CASE WillStore(i)
  <2>1. CASE \E p \in Pollers : PollAction(p)
    BY <1>2, <2>1, PollKeeps DEF Accounted
  <2>2. CASE IngestAction \/ Crash
    BY <1>2, <2>2, JobKeeps
  <2>3. CASE ArchiveAction \/ ControlAction \/ \E t \in Threads : Arrive(t)
    <3>1. UNCHANGED <<jobs, worker>>
      BY <2>3, Frames
    <3>2. QED
      BY <1>2, <3>1, InboxGrows DEF WillStore, Accounted
  <2>4. QED
    BY <2>1, <2>2, <2>3, NextSplit
<1>3. QED
  BY <1>1, <1>2 DEF Accounted

\* What is covered stays covered.
LEMMA CoveredStays ==
  ASSUME TypeInv, Next, NEW n \in Int, n <= Size, NEW F, Covered(n, F)
  PROVE  \A i \in (1..Size)' : i <= n => Accounted(i)' \/ inbox'[i] \in F
<1> TAKE i \in (1..Size)'
<1> HAVE i <= n
<1>1. i \in 1..Size
  BY SizeFacts DEF TypeInv, Size
<1>2. QED
  BY <1>1, AccountedStays, InboxGrows DEF Covered

\* A checkpoint that is kept, or cleared, passes over no new mail.
LEMMA CheckpointStays ==
  ASSUME CoverInv, Next, cfg'.checkpoint \in {cfg.checkpoint, Null}
  PROVE  Covered(cfg.checkpoint, {})'
<1>1. cfg.checkpoint \in Int /\ cfg.checkpoint <= Size
  BY ActorValues, MailAssumption DEF CoverInv, Configs, Null
<1>2. CASE cfg'.checkpoint = cfg.checkpoint
  <2>1. \A i \in (1..Size)' : i <= cfg.checkpoint => Accounted(i)' \/ inbox'[i] \in {}
    BY <1>1, CoveredStays DEF CoverInv
  <2>2. QED
    BY <1>2, <2>1 DEF Covered
<1>3. CASE cfg'.checkpoint = Null
  <2>1. \A i \in (1..Size)' : ~(i <= Null)
    BY DEF Null
  <2>2. QED
    BY <1>3, <2>1 DEF Covered
<1>4. QED
  BY <1>2, <1>3

\* What a poll has found, or has still to queue.
PollCovers(q) ==
  /\ poll[q].pc = "list" => Covered(poll[q].cp, {})
  /\ poll[q].pc \in {"profile", "enqueue"} => Covered(poll[q].latest, poll[q].found)

\* A poll that does not move, or is over, keeps it.
LEMMA PollStays ==
  ASSUME CoverInv, Next, NEW q \in Pollers, poll'[q] \in {poll[q], NoPoll}
  PROVE  PollCovers(q)'
<1>1. /\ poll[q].cp \in Int /\ poll[q].cp <= Size
      /\ poll[q].latest \in Int /\ poll[q].latest <= Size
  BY TypeOKParts, MailAssumption DEF CoverInv, TypeInv, Bounds, Polls
<1>2. CASE poll'[q] = poll[q]
  <2>1. poll[q].pc = "list" =>
          \A i \in (1..Size)' : i <= poll[q].cp => Accounted(i)' \/ inbox'[i] \in {}
    BY <1>1, CoveredStays DEF CoverInv, PollInv
  <2>2. poll[q].pc \in {"profile", "enqueue"} =>
          \A i \in (1..Size)' : i <= poll[q].latest => Accounted(i)' \/ inbox'[i] \in poll[q].found
    BY <1>1, CoveredStays DEF CoverInv, PollInv
  <2>3. QED
    BY <1>2, <2>1, <2>2 DEF PollCovers, Covered
<1>3. CASE poll'[q] = NoPoll
  BY <1>3 DEF PollCovers, NoPoll
<1>4. QED
  BY <1>2, <1>3

\* The steps of a poll.
LEMMA PollCoverInv ==
  ASSUME CoverInv, NEW p \in Pollers, PollAction(p), Next
  PROVE  Covered(cfg.checkpoint, {})' /\ PollInv'
<1>0. /\ poll[p] \in Polls /\ poll[p].found \subseteq Threads
      /\ Size \in Nat /\ Size' = Size /\ UNCHANGED inbox
      /\ poll[p].cp \in Nat /\ poll[p].cp <= Size
      /\ poll[p].latest \in Nat /\ poll[p].latest <= Size
      /\ 1..Size \subseteq Mails
  <2>1. UNCHANGED inbox
    BY Frames
  <2>2. QED
    BY <2>1, TypeOKParts, SizeFacts DEF CoverInv, TypeInv, Bounds, Polls, Size
\* What the poll has to cover, the step's listing aside.
<1>1. poll[p].pc = "list" =>
        \A i \in 1..Size : i <= poll[p].cp => Accounted(i)'
  BY AccountedStays DEF CoverInv, PollInv, Covered
<1>2. poll[p].pc \in {"profile", "enqueue"} =>
        \A i \in 1..Size : i <= poll[p].latest => Accounted(i)' \/ inbox[i] \in poll[p].found
  BY AccountedStays DEF CoverInv, PollInv, Covered
<1>3. ASSUME PollCovers(p)', NEW h, poll' = [poll EXCEPT ![p] = h]
      PROVE  PollInv'
  <2>1. \A q \in Pollers : q # p => poll'[q] = poll[q]
    BY <1>3, TypeOKParts DEF CoverInv, TypeInv
  <2>2. \A q \in Pollers : PollCovers(q)'
    BY <1>3, <2>1, PollStays
  <2>3. QED
    BY <2>2 DEF PollInv, PollCovers
<1>4. \A h : poll' = [poll EXCEPT ![p] = h] => poll'[p] = h
  BY TypeOKParts DEF CoverInv, TypeInv
<1>5. CASE PollBegin(p)
  <2>1. UNCHANGED cfg /\ poll' = [poll EXCEPT ![p] = [NoPoll EXCEPT !.pc = "list", !.cp = cfg.checkpoint]]
    BY <1>5 DEF PollBegin
  <2>2. poll'[p].pc = "list" /\ poll'[p].cp = cfg.checkpoint
    BY <1>4, <2>1 DEF NoPoll
  <2>3. Covered(cfg.checkpoint, {})'
    BY <2>1, CheckpointStays
  <2>4. PollCovers(p)'
    BY <2>1, <2>2, <2>3 DEF PollCovers, Covered
  <2>5. QED
    BY <1>3, <2>1, <2>3, <2>4
<1>6. CASE PollList(p)
  <2> DEFINE h == [poll[p] EXCEPT
       !.pc     = IF Provider = "GMAIL" /\ After(poll[p].cp) = {}
                  THEN "profile" ELSE "enqueue",
       !.found  = ThreadsOf(After(poll[p].cp)),
       !.latest = Size]
  <2>1. poll[p].pc = "list" /\ poll' = [poll EXCEPT ![p] = h] /\ UNCHANGED cfg
    BY <1>6 DEF PollList
  <2>2. h.pc # "list" /\ h.found = ThreadsOf(After(poll[p].cp)) /\ h.latest = Size
    BY <1>0 DEF Polls
  <2> HIDE DEF h
  <2>3. poll'[p] = h
    BY <1>4, <2>1
  <2>4. \A i \in 1..Size : Accounted(i)' \/ inbox[i] \in h.found
    BY <1>0, <1>1, <2>1, <2>2 DEF ThreadsOf, After
  <2>5. PollCovers(p)'
    BY <1>0, <2>2, <2>3, <2>4 DEF PollCovers, Covered
  <2>6. QED
    BY <1>3, <2>1, <2>5, CheckpointStays
<1>7. CASE PollRecover(p)
  <2>1. PICK old \in poll[p].cp..Size :
          /\ poll' = [poll EXCEPT ![p] = [@ EXCEPT !.pc = "profile", !.latest = Size,
                                                  !.found = ThreadsOf(After(old))]]
          /\ Blame(After(poll[p].cp) \ After(old), "aged")
    BY <1>7 DEF PollRecover
  <2> DEFINE h == [poll[p] EXCEPT !.pc = "profile", !.latest = Size,
                                  !.found = ThreadsOf(After(old))]
  <2>2. poll' = [poll EXCEPT ![p] = h]
    BY <2>1
  <2>3. h.pc # "list" /\ h.found = ThreadsOf(After(old)) /\ h.latest = Size
    BY <1>0 DEF Polls
  <2> HIDE DEF h
  <2>4. poll[p].pc = "list" /\ UNCHANGED <<cfg, stored>>
    BY <1>7 DEF PollRecover
  <2>5. ASSUME NEW i \in 1..Size PROVE Accounted(i)' \/ inbox[i] \in h.found
    <3>1. CASE i <= poll[p].cp
      BY <1>1, <2>4, <3>1
    <3>2. CASE i > poll[p].cp /\ i <= old
      <4>1. i \in After(poll[p].cp) \ After(old)
        BY <3>2 DEF After
      <4>2. i \in stored' \/ causes'[i] # {}
        BY <1>0, <2>1, <2>4, <4>1, Blames
      <4>3. QED
        BY <4>2 DEF Accounted
    <3>3. CASE i > old
      BY <2>3, <3>3 DEF ThreadsOf, After
    <3>4. QED
      BY <1>0, <3>1, <3>2, <3>3
  <2>6. PollCovers(p)'
    BY <1>0, <1>4, <2>2, <2>3, <2>5 DEF PollCovers, Covered
  <2>7. QED
    BY <1>3, <2>2, <2>4, <2>6, CheckpointStays
<1>8. CASE PollProfile(p)
  <2> DEFINE h == [poll[p] EXCEPT !.pc = "enqueue", !.latest = Size]
             gap == {i \in After(poll[p].latest) : inbox[i] \notin poll[p].found}
  <2>1. /\ poll[p].pc = "profile" /\ poll' = [poll EXCEPT ![p] = h]
        /\ Blame(gap, "gap") /\ UNCHANGED <<cfg, stored>>
    BY <1>8 DEF PollProfile
  <2>2. h.pc # "list" /\ h.found = poll[p].found /\ h.latest = Size
    BY <1>0 DEF Polls
  <2> HIDE DEF h
  <2>3. ASSUME NEW i \in 1..Size PROVE Accounted(i)' \/ inbox[i] \in h.found
    <3>1. CASE i <= poll[p].latest
      BY <1>2, <2>1, <2>2, <3>1
    <3>2. CASE i > poll[p].latest /\ inbox[i] \notin poll[p].found
      <4>1. i \in gap
        BY <3>2 DEF After
      <4>2. i \in stored' \/ causes'[i] # {}
        BY <1>0, <2>1, <4>1, Blames
      <4>3. QED
        BY <4>2 DEF Accounted
    <3>3. QED
      BY <1>0, <2>2, <3>1, <3>2
  <2>4. PollCovers(p)'
    BY <1>0, <1>4, <2>1, <2>2, <2>3 DEF PollCovers, Covered
  <2>5. QED
    BY <1>3, <2>1, <2>4, CheckpointStays
<1>9. CASE PollFails(p)
  <2>1. poll' = [poll EXCEPT ![p] = NoPoll] /\ UNCHANGED cfg
    BY <1>9 DEF PollFails
  <2>2. PollCovers(p)'
    BY <1>4, <2>1, PollStays
  <2>3. QED
    BY <1>3, <2>1, <2>2, CheckpointStays
<1>10. CASE PollEnqueue(p)
  <2>1. PICK t \in poll[p].found :
          /\ poll' = [poll EXCEPT ![p].found = @ \ {t}]
          /\ jobs' = IF Live(t) THEN jobs
                     ELSE [jobs EXCEPT ![t] = [state |-> "queued", tries |-> 0]]
          /\ Blame(IF Live(t) THEN Missed(t) ELSE {}, "collapsed")
    BY <1>10 DEF PollEnqueue
  <2> DEFINE h == [poll[p] EXCEPT !.found = poll[p].found \ {t}]
  <2>2. poll' = [poll EXCEPT ![p] = h]
    BY <2>1
  <2>3. h.pc = "enqueue" /\ h.found = poll[p].found \ {t} /\ h.latest = poll[p].latest
    BY <1>0, <1>10 DEF Polls, PollEnqueue
  <2> HIDE DEF h
  <2>4. poll[p].pc = "enqueue" /\ UNCHANGED <<cfg, stored, worker, inbox>> /\ t \in Threads
    BY <1>0, <1>10, <2>1 DEF PollEnqueue
  \* The mails of the thread just queued.
  <2>5. ASSUME NEW i \in 1..Size, inbox[i] = t PROVE Accounted(i)'
    <3>1. CASE ~Live(t)
      <4>1. jobs'[t].state = "queued"
        BY <2>1, <2>4, <3>1, ActorValues DEF CoverInv
      <4>2. QED
        BY <2>4, <2>5, <4>1 DEF Accounted, WillStore
    <3>2. CASE jobs[t].state = "queued"
      <4>1. UNCHANGED jobs
        BY <2>1, <3>2 DEF Live
      <4>2. QED
        BY <2>4, <2>5, <3>2, <4>1 DEF Accounted, WillStore
    <3>3. CASE jobs[t].state = "active"
      <4>1. worker.thread = t /\ UNCHANGED jobs /\ Live(t)
        BY <2>1, <2>4, <3>3 DEF CoverInv, TypeInv, JobInv, Live
      <4>2. CASE worker.pc = "fetch" \/ i \in worker.got
        BY <2>4, <2>5, <3>3, <4>1, <4>2 DEF Accounted, WillStore
      <4>3. CASE worker.pc # "fetch" /\ i \notin worker.got
        <5>1. i \in Missed(t)
          BY <2>5, <3>3, <4>3 DEF Missed, MailsOf
        <5>2. i \in stored' \/ causes'[i] # {}
          BY <1>0, <2>1, <2>4, <4>1, <5>1, Blames
        <5>3. QED
          BY <5>2 DEF Accounted
      <4>4. QED
        BY <4>2, <4>3
    <3>4. QED
      BY <3>1, <3>2, <3>3 DEF Live
  <2>6. \A i \in 1..Size : i <= h.latest => Accounted(i)' \/ inbox[i] \in h.found
    BY <1>2, <2>3, <2>4, <2>5
  <2>7. PollCovers(p)'
    BY <1>0, <1>4, <2>2, <2>3, <2>6 DEF PollCovers, Covered
  <2>8. QED
    BY <1>3, <2>2, <2>4, <2>7, CheckpointStays
<1>11. CASE PollAdvance(p)
  <2>1. /\ poll[p].pc = "enqueue" /\ poll[p].found = {}
        /\ cfg' = [cfg EXCEPT !.checkpoint = poll[p].latest]
        /\ poll' = [poll EXCEPT ![p] = NoPoll]
    BY <1>11 DEF PollAdvance
  <2>2. cfg'.checkpoint = poll[p].latest
    BY <2>1, ActorValues DEF CoverInv, Configs
  <2>3. Covered(cfg.checkpoint, {})'
    BY <1>0, <1>2, <2>1, <2>2 DEF Covered
  <2>4. PollCovers(p)'
    BY <1>4, <2>1, PollStays
  <2>5. QED
    BY <1>3, <2>1, <2>3, <2>4
<1>12. QED
  BY <1>5, <1>6, <1>7, <1>8, <1>9, <1>10, <1>11 DEF PollAction, PollStep

\* The steps of the provider, the worker and a restart touch no checkpoint; the
\* archive and its handlers write one only over mails they leave to the archive.
LEMMA OtherCoverInv ==
  ASSUME CoverInv, Next,
         \/ \E t \in Threads : Arrive(t)
         \/ IngestAction \/ ArchiveAction \/ ControlAction \/ Crash
  PROVE  Covered(cfg.checkpoint, {})' /\ PollInv'
<1>1. \A q \in Pollers : poll'[q] \in {poll[q], NoPoll}
  <2>1. CASE Crash
    BY <2>1 DEF Crash
  <2>2. CASE ~Crash
    BY <2>2, Frames
  <2>3. QED
    BY <2>1, <2>2
<1>2. PollInv'
  BY <1>1, PollStays DEF PollInv, PollCovers
\* The two writes of a checkpoint blame the mails they pass over.
<1>3. ASSUME NEW n \in 0..MaxMails, NEW why, cfg'.checkpoint = n, Blame(1..n, why),
             UNCHANGED <<inbox, stored>>
      PROVE  Covered(cfg.checkpoint, {})'
  <2>1. \A i \in 1..Size : i <= n => i \in stored' \/ causes'[i] # {}
    BY <1>3, Blames, SizeFacts DEF CoverInv, TypeInv
  <2>2. QED
    BY <1>3, <2>1 DEF Covered, Accounted, Size
<1>4. cfg \in Configs /\ loop.latest \in 0..MaxMails /\ ctl.latest \in 0..MaxMails
  BY ActorValues DEF CoverInv, Loops, Ctls
<1>5. CASE ArchiveMark
  <2>1. cfg'.checkpoint = loop.latest
    BY <1>4, <1>5 DEF ArchiveMark, Configs
  <2>2. QED
    BY <1>2, <1>3, <1>4, <1>5, <2>1 DEF ArchiveMark
<1>6. CASE StartMark
  <2>1. cfg'.checkpoint = ctl.latest
    BY <1>4, <1>6 DEF StartMark, Configs
  <2>2. QED
    BY <1>2, <1>3, <1>4, <1>6, <2>1 DEF StartMark
<1>7. CASE ~ArchiveMark /\ ~StartMark
  <2>1. cfg'.checkpoint \in {cfg.checkpoint, Null}
    <3>1. CASE (\E t \in Threads : Arrive(t)) \/ IngestAction \/ Crash
      BY <3>1, Frames
    <3>2. CASE ArchiveAction
      BY <1>4, <1>7, <3>2
         DEF Configs, ArchiveAction, ArchiveStep, ArchiveInit, ArchiveCheck, ArchiveDecide,
             ArchiveList, ArchiveFetch, ArchiveRead, ArchiveInsert, ArchiveSave,
             ArchiveFinish, ArchiveProfile, ArchiveError, ArchiveClose,
             ArchiveFetchFails, ArchiveProfileFails, ArchiveThrows, ArchiveErrorLost
    <3>3. CASE ControlAction
      <4>1. CASE Reset
        BY <4>1 DEF Reset
      <4>2. CASE Run \/ StartProfile \/ Launch \/ StartProfileFails
        BY <4>2 DEF Run, StartProfile, Launch, StartProfileFails
      <4>3. CASE Resume \/ Cancel \/ StartArchive
        BY <1>4, <4>3 DEF Configs, Resume, Cancel, StartArchive
      <4>4. QED
        BY <1>7, <3>3, <4>1, <4>2, <4>3 DEF ControlAction, StartStep
    <3>4. QED
      BY <3>1, <3>2, <3>3
  <2>2. QED
    BY <1>2, <2>1, CheckpointStays
<1>8. QED
  BY <1>5, <1>6, <1>7

\* Every reachable state accounts for the mails its checkpoints pass over.
THEOREM Coverage == Spec => []CoverInv
<1>1. Init => CoverInv
  <2>1. SUFFICES ASSUME Init PROVE CoverInv
    OBVIOUS
  <2>2. 1..Size = {}
    <3>1. Size = 0
      BY <2>1 DEF Init, Size
    <3>2. QED
      BY <3>1
  <2>3. QED
    BY <2>1, <2>2, InitTypeInv DEF CoverInv, Covered, PollInv
<1>2. CoverInv /\ [Next]_vars => CoverInv'
  <2> SUFFICES ASSUME CoverInv, [Next]_vars PROVE CoverInv'
    OBVIOUS
  <2>1. TypeInv'
    BY NextTypeInv DEF CoverInv
  <2>2. CASE Next
    BY <2>1, <2>2, NextSplit, PollCoverInv, OtherCoverInv DEF CoverInv
  <2>3. CASE UNCHANGED vars
    BY <2>1, <2>3 DEF CoverInv, vars, Covered, Accounted, WillStore, PollInv, Size
  <2>4. QED
    BY <2>2, <2>3
<1>3. QED
  BY <1>1, <1>2, PTL DEF Spec

\* A checkpoint passes over a mail only when it is stored, will be, or has a cause.
THEOREM NoLossWithoutCause == Spec => []LossHasCause
<1>1. CoverInv => LossHasCause
  BY DEF CoverInv, Covered, Accounted, LossHasCause
<1>2. QED
  BY <1>1, Coverage, PTL

-----------------------------------------------------------------------------
(***************************************************************************)
(* DONE means imported.  Every token, the saved one and the one in the     *)
(* loop's hands, has only mails behind it that are stored or could not be  *)
(* fetched; the mails of the page in hand are among the fetched ones.      *)
(***************************************************************************)
Imported(i) == i \in stored \/ "fetch" \in causes[i]

\* The mails the listing of token began with are imported, but for the threads
\* still to be listed and those of F.
Behind(token, F) ==
  \A i \in 1..token.upto : inbox[i] \in token.rest \union F \/ Imported(i)

LoopInv ==
  /\ loop.token.upto <= Size
  /\ loop.pc \in {"check", "decide", "list", "save", "finish"} => Behind(loop.token, {})
  /\ loop.pc \in {"fetch", "read", "insert"} => Behind(loop.token, {loop.thread})
  /\ loop.pc \in {"read", "insert"} =>
       \A i \in 1..loop.token.upto : inbox[i] = loop.thread => i \in loop.got
  /\ loop.pc = "finish" => loop.token.rest = {}

ImportInv ==
  /\ TypeInv
  /\ cfg.token.upto <= Size /\ Behind(cfg.token, {})
  /\ LoopInv

\* Blaming only adds reasons.
LEMMA BlameAdds ==
  ASSUME TypeOK, NEW M, NEW why, Blame(M, why)
  PROVE  /\ \A i \in Mails : causes[i] \subseteq causes'[i]
         /\ \A i \in Mails : i \in M \ stored => why \in causes'[i]
BY DEF Blame

\* A mail that is imported stays so.
LEMMA ImportedStays ==
  ASSUME TypeInv, Next, NEW i \in 1..Size, Imported(i)
  PROVE  Imported(i)'
<1>1. \A j \in Mails : causes[j] \subseteq causes'[j]
  BY Causing, BlameAdds DEF TypeInv
<1>2. i \in Mails /\ stored \subseteq stored'
  BY SizeFacts, NothingForgotten DEF TypeInv
<1>3. QED
  BY <1>1, <1>2 DEF Imported

\* What is behind a token stays behind it.
LEMMA BehindStays ==
  ASSUME TypeInv, Next, NEW token \in Tokens, token.upto <= Size, NEW F, Behind(token, F)
  PROVE  /\ token.upto <= Size'
         /\ \A i \in 1..token.upto : i \in 1..Size /\ inbox'[i] = inbox[i]
         /\ \A i \in 1..token.upto : inbox'[i] \in token.rest \union F \/ Imported(i)'
<1>1. token.upto \in Nat /\ Size \in Nat /\ Size' \in Nat
  <2>1. Size' \in Nat
    BY NextTypeInv, SizeFacts, MailAssumption DEF TypeInv, TypeOK, Size
  <2>2. QED
    BY <2>1, SizeFacts DEF TypeInv, Tokens
<1>2. \A i \in 1..token.upto : i \in 1..Size
  BY <1>1
<1>3. \A i \in 1..Size : i <= Size' /\ inbox'[i] = inbox[i]
  BY InboxGrows
<1>4. token.upto <= Size'
  BY <1>1, <1>2, <1>3
<1>5. ASSUME NEW i \in 1..token.upto
      PROVE  inbox'[i] \in token.rest \union F \/ Imported(i)'
  BY <1>2, <1>3, ImportedStays DEF Behind
<1>6. QED
  BY <1>2, <1>3, <1>4, <1>5

\* The page token of the row that is kept, or cleared.
LEMMA SavedStays ==
  ASSUME ImportInv, Next, cfg'.token \in {cfg.token, NoPage}
  PROVE  (cfg.token.upto <= Size /\ Behind(cfg.token, {}))'
<1>1. cfg.token \in Tokens /\ Size' \in Nat
  BY NextTypeInv, ActorValues, SizeFacts DEF ImportInv, Configs, TypeInv, TypeOK, Size
<1>2. CASE cfg'.token = cfg.token
  <2>1. /\ cfg.token.upto <= Size'
        /\ \A i \in 1..cfg.token.upto :
             inbox'[i] \in cfg.token.rest \union {} \/ Imported(i)'
    BY <1>1, BehindStays DEF ImportInv
  <2>2. QED
    BY <1>2, <2>1 DEF Behind
<1>3. CASE cfg'.token = NoPage
  <2>1. NoPage.upto = 0 /\ 1..0 = {}
    BY DEF NoPage
  <2>2. QED
    BY <1>1, <1>3, <2>1 DEF Behind
<1>4. QED
  BY <1>2, <1>3

\* A loop that does not move, or starts anew.
LEMMA LoopStays ==
  ASSUME ImportInv, Next,
         \/ UNCHANGED loop
         \/ /\ loop'.pc \in {"off", "init", "profile", "mark", "error", "closing"}
            /\ loop'.token = NoPage
  PROVE  LoopInv'
<1>1. loop.token \in Tokens /\ Size' \in Nat
  BY NextTypeInv, ActorValues, SizeFacts DEF ImportInv, Loops, TypeInv, TypeOK, Size
<1>2. CASE UNCHANGED loop
  <2>1. \A F : Behind(loop.token, F) =>
          /\ loop.token.upto <= Size'
          /\ \A i \in 1..loop.token.upto :
               inbox'[i] \in loop.token.rest \union F \/ Imported(i)'
    BY <1>1, BehindStays DEF ImportInv, LoopInv
  <2>2. loop.token.upto <= Size' /\ \A i \in 1..loop.token.upto : inbox'[i] = inbox[i]
    <3>1. Behind(loop.token, Threads)
      BY <1>1, SizeFacts DEF ImportInv, LoopInv, TypeInv, Behind, Tokens
    <3>2. QED
      BY <1>1, <3>1, BehindStays DEF ImportInv, LoopInv
  <2>3. /\ loop.pc \in {"check", "decide", "list", "save", "finish"} => Behind(loop.token, {})'
        /\ loop.pc \in {"fetch", "read", "insert"} => Behind(loop.token, {loop.thread})'
    BY <1>2, <2>1 DEF ImportInv, LoopInv, Behind
  <2>4. QED
    BY <1>2, <2>2, <2>3 DEF ImportInv, LoopInv
<1>3. CASE /\ loop'.pc \in {"off", "init", "profile", "mark", "error", "closing"}
           /\ loop'.token = NoPage
  BY <1>1, <1>3 DEF LoopInv, NoPage
<1>4. QED
  BY <1>2, <1>3

\* The loop leaves the page in hand, its token and thread as they are.
LEMMA PageStays ==
  ASSUME ImportInv, Next, UNCHANGED inbox, NEW F, Behind(loop.token, F), loop'.token = loop.token
  PROVE  /\ (loop.token.upto <= Size)'
         /\ \A i \in 1..loop'.token.upto : inbox'[i] \in loop'.token.rest \union F \/ Imported(i)'
<1>1. loop.token \in Tokens
  BY ActorValues DEF ImportInv, Loops
<1>2. QED
  BY <1>1, BehindStays DEF ImportInv, LoopInv

\* Everything but the archive loop, which only adds mails and causes.
LEMMA OtherImportInv ==
  ASSUME ImportInv, Next,
         \/ \E t \in Threads : Arrive(t)
         \/ \E p \in Pollers : PollAction(p)
         \/ IngestAction \/ ControlAction \/ Crash
  PROVE  (cfg.token.upto <= Size /\ Behind(cfg.token, {}))' /\ LoopInv'
<1>0. cfg \in Configs
  BY ActorValues DEF ImportInv
<1>1. CASE (\E t \in Threads : Arrive(t)) \/ \E p \in Pollers : PollAction(p)
  <2>1. UNCHANGED loop /\ cfg'.token = cfg.token
    <3>1. CASE \E p \in Pollers : PollAdvance(p)
      BY <1>0, <3>1 DEF PollAdvance, Configs
    <3>2. CASE ~ \E p \in Pollers : PollAdvance(p)
      BY <1>1, <3>2, Frames DEF PollAction, PollStep, PollBegin, PollList, PollRecover,
                                PollProfile, PollFails, PollEnqueue
    <3>3. QED
      BY <1>1, <3>1, <3>2, Frames
  <2>2. QED
    BY <2>1, SavedStays, LoopStays
<1>2. CASE IngestAction
  <2>1. UNCHANGED <<loop, cfg>>
    BY <1>2, Frames
  <2>2. QED
    BY <2>1, SavedStays, LoopStays
<1>3. CASE ControlAction
  <2>1. cfg'.token \in {cfg.token, NoPage}
    <3>1. CASE Reset
      BY <3>1 DEF Reset
    <3>2. CASE Run \/ StartProfile \/ Launch \/ StartProfileFails
      BY <3>2 DEF Run, StartProfile, Launch, StartProfileFails
    <3>3. CASE Resume \/ Cancel \/ StartArchive \/ StartMark
      BY <1>0, <3>3 DEF Configs, Resume, Cancel, StartArchive, StartMark
    <3>4. QED
      BY <1>3, <3>1, <3>2, <3>3 DEF ControlAction, StartStep
  <2>2. UNCHANGED loop \/ loop' = [NoLoop EXCEPT !.pc = "init"]
    BY <1>3 DEF ControlAction, Reset, Run, Resume, Cancel, StartStep, StartArchive,
                StartProfile, StartMark, Launch, StartProfileFails
  <2>3. QED
    BY <2>1, <2>2, SavedStays, LoopStays DEF NoLoop
<1>4. CASE Crash
  <2>1. loop' \in {NoLoop, [NoLoop EXCEPT !.pc = "init"]} /\ UNCHANGED cfg
    BY <1>4 DEF Crash
  <2>2. QED
    BY <2>1, SavedStays, LoopStays DEF NoLoop
<1>5. QED
  BY <1>1, <1>2, <1>3, <1>4

\* The steps of the archive loop.
LEMMA ArchiveImportInv ==
  ASSUME ImportInv, Next, ArchiveAction
  PROVE  (cfg.token.upto <= Size /\ Behind(cfg.token, {}))' /\ LoopInv'
<1>0. /\ cfg \in Configs /\ loop \in Loops /\ cfg.token \in Tokens /\ loop.token \in Tokens
      /\ Size \in Nat /\ Size' = Size /\ (1..Size) \subseteq Mails /\ UNCHANGED inbox
      /\ \A i \in 1..Size : inbox[i] \in Threads
  <2>1. UNCHANGED inbox
    BY Frames
  <2>2. QED
    BY <2>1, ActorValues, SizeFacts DEF ImportInv, TypeInv, Configs, Loops, Size
<1>1. ASSUME UNCHANGED cfg PROVE (cfg.token.upto <= Size /\ Behind(cfg.token, {}))'
  BY <1>1, SavedStays
<1>2. CASE ArchiveInit
  <2>1. loop'.pc = "check" /\ loop'.token = cfg.token /\ UNCHANGED cfg
    BY <1>0, <1>2 DEF ArchiveInit, Loops
  <2>2. QED
    BY <1>1, <2>1 DEF LoopInv, Behind
<1>3. CASE ArchiveCheck \/ ArchiveDecide
  <2>1. loop' = NoLoop \/ (loop'.pc \in {"decide", "list"} /\ loop'.token = loop.token)
    BY <1>0, <1>3 DEF ArchiveCheck, ArchiveDecide, Loops
  <2>2. UNCHANGED cfg /\ Behind(loop.token, {})
    BY <1>3 DEF ArchiveCheck, ArchiveDecide, ImportInv, LoopInv, At
  <2>3. CASE loop' = NoLoop
    BY <1>1, <2>2, <2>3, LoopStays DEF NoLoop
  <2>4. CASE loop'.pc \in {"decide", "list"} /\ loop'.token = loop.token
    <3>1. /\ (loop.token.upto <= Size)'
          /\ \A i \in 1..loop'.token.upto : inbox'[i] \in loop'.token.rest \union {} \/ Imported(i)'
      BY <1>0, <2>2, <2>4, PageStays
    <3>2. QED
      BY <1>1, <2>2, <2>4, <3>1 DEF LoopInv, Behind
  <2>5. QED
    BY <2>1, <2>3, <2>4
\* The listing, new or continued, has behind it what its token had.
<1>4. CASE ArchiveList
  <2>1. Listing \in Tokens /\ Listing.upto <= Size /\ Behind(Listing, {})
    <3>1. CASE loop.token.rest = {}
      <4>1. Listing = [rest |-> ThreadsOf(1..Size), upto |-> Size]
        BY <3>1 DEF Listing
      <4>2. Listing \in Tokens
        BY <4>1, SizeFacts DEF Tokens, ImportInv, TypeInv
      <4>3. QED
        BY <1>0, <4>1, <4>2 DEF Behind, ThreadsOf
    <3>2. CASE loop.token.rest # {}
      BY <1>0, <1>4, <3>2 DEF Listing, ArchiveList, At, ImportInv, LoopInv
    <3>3. QED
      BY <3>1, <3>2
  <2>2. \A i \in 1..Listing.upto : inbox'[i] \in Listing.rest \union {} \/ Imported(i)'
    BY <2>1, BehindStays DEF ImportInv
  <2>3. CASE Listing.rest = {}
    <3>1. loop'.pc = "finish" /\ loop'.token = Listing
      BY <1>0, <1>4, <2>3 DEF ArchiveList, Loops
    <3>2. QED
      BY <1>0, <1>1, <1>4, <2>1, <2>2, <2>3, <3>1 DEF ArchiveList, LoopInv, Behind
  <2>4. CASE Listing.rest # {}
    <3>1. PICK t \in Listing.rest :
            loop' = [loop EXCEPT !.pc = "fetch", !.thread = t, !.token = ListingAfter(t)]
      BY <1>4, <2>4 DEF ArchiveList
    <3>2. loop'.pc = "fetch" /\ loop'.thread = t /\ loop'.token = ListingAfter(t)
      BY <1>0, <3>1 DEF Loops
    <3>3. ListingAfter(t).rest = Listing.rest \ {t} /\ ListingAfter(t).upto = Listing.upto
      BY <2>1 DEF ListingAfter, Tokens
    <3>4. \A i \in 1..Listing.upto :
            inbox'[i] \in ListingAfter(t).rest \union {t} \/ Imported(i)'
      BY <2>2, <3>3
    <3>5. QED
      BY <1>0, <1>1, <1>4, <2>1, <3>2, <3>3, <3>4 DEF ArchiveList, LoopInv, Behind
  <2>5. QED
    BY <2>3, <2>4
<1>5. CASE ArchiveFetch \/ ArchiveRead
  <2>1. /\ loop'.pc \in {"read", "insert"} /\ loop'.token = loop.token
        /\ loop'.thread = loop.thread /\ UNCHANGED cfg
    BY <1>0, <1>5 DEF ArchiveFetch, ArchiveRead, Loops
  <2>2. Behind(loop.token, {loop.thread}) /\ loop.token.upto <= Size
    BY <1>5 DEF ArchiveFetch, ArchiveRead, ImportInv, LoopInv, At
  <2>3. \A i \in 1..loop.token.upto : inbox[i] = loop.thread => i \in loop'.got
    <3>1. CASE ArchiveFetch
      <4>1. loop'.got = MailsOf(loop.thread)
        BY <1>0, <3>1 DEF ArchiveFetch, Loops
      <4>2. QED
        BY <1>0, <2>2, <4>1 DEF MailsOf, Tokens
    <3>2. CASE ArchiveRead
      <4>1. loop'.got = loop.got /\ loop.pc = "read"
        BY <1>0, <3>2 DEF ArchiveRead, Loops, At
      <4>2. QED
        BY <4>1 DEF ImportInv, LoopInv
    <3>3. QED
      BY <1>5, <3>1, <3>2
  <2>4. /\ (loop.token.upto <= Size)'
        /\ \A i \in 1..loop'.token.upto :
             inbox'[i] \in loop'.token.rest \union {loop.thread} \/ Imported(i)'
    BY <1>0, <2>1, <2>2, PageStays
  <2>5. QED
    BY <1>0, <1>1, <2>1, <2>3, <2>4 DEF LoopInv, Behind
\* The page is done: its mails are stored, or blamed.
<1>6. ASSUME loop.pc \in {"fetch", "read", "insert"}, UNCHANGED cfg,
             loop'.pc = "save", loop'.token = loop.token,
             \A i \in 1..loop.token.upto : inbox[i] = loop.thread => Imported(i)'
      PROVE  (cfg.token.upto <= Size /\ Behind(cfg.token, {}))' /\ LoopInv'
  <2>1. Behind(loop.token, {loop.thread})
    BY <1>6 DEF ImportInv, LoopInv
  <2>2. /\ (loop.token.upto <= Size)'
        /\ \A i \in 1..loop'.token.upto :
             inbox'[i] \in loop'.token.rest \union {loop.thread} \/ Imported(i)'
    BY <1>0, <1>6, <2>1, PageStays
  <2>3. \A i \in 1..loop'.token.upto : inbox'[i] \in loop'.token.rest \union {} \/ Imported(i)'
    BY <1>0, <1>6, <2>2
  <2>4. QED
    BY <1>1, <1>6, <2>2, <2>3 DEF LoopInv, Behind
<1>7. CASE ArchiveFetchFails
  <2>1. /\ loop.pc = "fetch" /\ loop'.pc = "save" /\ loop'.token = loop.token
        /\ Blame(MailsOf(loop.thread), "fetch") /\ UNCHANGED <<cfg, stored>>
    BY <1>0, <1>7 DEF ArchiveFetchFails, Loops, At
  <2>2. ASSUME NEW i \in 1..loop.token.upto, inbox[i] = loop.thread PROVE Imported(i)'
    <3>1. i \in 1..Size /\ i \in MailsOf(loop.thread)
      BY <1>0, <2>2 DEF ImportInv, LoopInv, MailsOf, Tokens
    <3>2. i \in stored' \/ "fetch" \in causes'[i]
      BY <1>0, <2>1, <3>1, BlameAdds DEF ImportInv, TypeInv
    <3>3. QED
      BY <3>2 DEF Imported
  <2>3. QED
    BY <1>6, <2>1, <2>2
<1>8. CASE ArchiveInsert
  <2>1. loop.pc = "insert" /\ UNCHANGED cfg
    BY <1>8 DEF ArchiveInsert, At
  <2>2. CASE Conflict(loop)
    <3>1. loop' = [NoLoop EXCEPT !.pc = "error"]
      BY <1>8, <2>2 DEF ArchiveInsert
    <3>2. QED
      BY <1>1, <2>1, <3>1, LoopStays DEF NoLoop
  <2>3. CASE ~Conflict(loop)
    <3>1. loop'.pc = "save" /\ loop'.token = loop.token /\ stored' = stored \union loop.got
      BY <1>0, <1>8, <2>3 DEF ArchiveInsert, Loops
    <3>2. \A i \in 1..loop.token.upto : inbox[i] = loop.thread => Imported(i)'
      BY <2>1, <3>1 DEF ImportInv, LoopInv, Imported
    <3>3. QED
      BY <1>6, <2>1, <3>1, <3>2
  <2>4. QED
    BY <2>2, <2>3
<1>9. CASE ArchiveSave
  <2>1. /\ loop.pc = "save" /\ loop'.token = loop.token /\ loop'.pc \in {"finish", "check"}
        /\ loop'.pc = "finish" => loop.token.rest = {}
        /\ cfg'.token \in {NoPage, loop.token}
    BY <1>0, <1>9 DEF ArchiveSave, At, Loops, Configs
  <2>2. /\ (loop.token.upto <= Size)'
        /\ \A i \in 1..loop'.token.upto : inbox'[i] \in loop'.token.rest \union {} \/ Imported(i)'
    <3>1. Behind(loop.token, {})
      BY <2>1 DEF ImportInv, LoopInv
    <3>2. QED
      BY <1>0, <2>1, <3>1, PageStays
  <2>3. LoopInv'
    BY <2>1, <2>2 DEF LoopInv, Behind
  <2>4. CASE cfg'.token = NoPage
    BY <2>3, <2>4, SavedStays
  <2>5. CASE cfg'.token = loop.token
    BY <2>1, <2>2, <2>3, <2>5 DEF Behind
  <2>6. QED
    BY <2>1, <2>4, <2>5
<1>10. CASE ArchiveFinish \/ ArchiveMark \/ ArchiveError
  <2>1. cfg'.token \in {cfg.token, NoPage}
    BY <1>0, <1>10 DEF ArchiveFinish, ArchiveMark, ArchiveError, Configs
  <2>2. loop'.pc \in {"profile", "closing"} /\ loop'.token = NoPage
    BY <1>10 DEF ArchiveFinish, ArchiveMark, ArchiveError, NoLoop
  <2>3. QED
    BY <2>1, <2>2, SavedStays, LoopStays
\* The steps at the end of the loop: the token is gone already.
<1>11. CASE \/ ArchiveProfile \/ ArchiveProfileFails
            \/ ArchiveThrows \/ ArchiveErrorLost \/ ArchiveClose
  <2>1. UNCHANGED cfg
    BY <1>11 DEF ArchiveProfile, ArchiveProfileFails, ArchiveThrows, ArchiveErrorLost, ArchiveClose
  <2>2. CASE ArchiveThrows \/ ArchiveErrorLost \/ ArchiveClose
    <3>1. loop'.pc \in {"off", "error", "closing"} /\ loop'.token = NoPage
      BY <2>2 DEF ArchiveThrows, ArchiveErrorLost, ArchiveClose, NoLoop
    <3>2. QED
      BY <1>1, <2>1, <3>1, LoopStays
  <2>3. CASE ArchiveProfile \/ ArchiveProfileFails
    <3>1. loop'.pc \in {"mark", "closing"} /\ loop'.token = loop.token
      BY <1>0, <2>3 DEF ArchiveProfile, ArchiveProfileFails, Loops
    <3>2. loop'.token.upto <= Size'
      BY <1>0, <3>1 DEF ImportInv, LoopInv
    <3>3. LoopInv'
      BY <3>1, <3>2 DEF LoopInv
    <3>4. QED
      BY <1>1, <2>1, <3>3
  <2>4. QED
    BY <1>11, <2>2, <2>3
<1>12. QED
  BY <1>2, <1>3, <1>4, <1>5, <1>7, <1>8, <1>9, <1>10, <1>11 DEF ArchiveAction, ArchiveStep

\* Every reachable state has the mails behind its tokens imported.
THEOREM Importing == Spec => []ImportInv
<1>1. Init => ImportInv
  <2>1. SUFFICES ASSUME Init PROVE ImportInv
    OBVIOUS
  <2>2. Size = 0 /\ cfg.token = NoPage /\ loop.token = NoPage /\ loop.pc = "off"
    BY <2>1 DEF Init, Size, NoLoop
  <2>3. NoPage.upto = 0 /\ 1..0 = {}
    BY DEF NoPage
  <2>4. QED
    BY <2>1, <2>2, <2>3, InitTypeInv DEF ImportInv, LoopInv, Behind
<1>2. ImportInv /\ [Next]_vars => ImportInv'
  <2> SUFFICES ASSUME ImportInv, [Next]_vars PROVE ImportInv'
    OBVIOUS
  <2>1. TypeInv'
    BY NextTypeInv DEF ImportInv
  <2>2. CASE Next
    BY <2>1, <2>2, NextSplit, OtherImportInv, ArchiveImportInv DEF ImportInv
  <2>3. CASE UNCHANGED vars
    BY <2>1, <2>3 DEF ImportInv, vars, LoopInv, Behind, Imported, Size
  <2>4. QED
    BY <2>2, <2>3
<1>3. QED
  BY <1>1, <1>2, PTL DEF Spec

\* An archive that reports DONE has imported the inbox its listing began with.
THEOREM DoneImports == Spec => DoneMeansImported
<1> DEFINE Complete == \A i \in 1..loop.token.upto : i \in stored \/ "fetch" \in causes[i]
<1>1. ImportInv => (ArchiveFinish => Complete)
  <2> SUFFICES ASSUME ImportInv, ArchiveFinish PROVE Complete
    OBVIOUS
  <2>1. loop.pc = "finish"
    BY DEF ArchiveFinish, At
  <2>2. QED
    BY <2>1 DEF ImportInv, LoopInv, Behind, Imported
<1>2. ImportInv => [ArchiveFinish => Complete]_vars
  BY <1>1
<1>3. QED
  BY <1>2, Importing, PTL DEF DoneMeansImported


-----------------------------------------------------------------------------
(***************************************************************************)
(* Nobody is lost: how an archive comes to be RUNNING with nobody at it.   *)
(***************************************************************************)

\* Whether the row is abandoned depends on its status, the handler and the loop alone.
LEMMA AbandonedStays ==
  ASSUME cfg'.status = cfg.status, ctl' = ctl, loop' = loop
  PROVE  Abandoned' = Abandoned
BY DEF Abandoned, Leaving, At

\* The polls, the worker and the provider neither write the status nor touch the
\* loop and the handlers.
LEMMA PollsAbandonNothing ==
  ASSUME TypeInv, NEW p \in Pollers, PollAction(p)
  PROVE  Abandoned' = Abandoned
<1>1. cfg \in Configs
  BY TypeOKParts DEF TypeInv
<1>2. cfg'.status = cfg.status
  BY <1>1 DEF PollAction, PollStep, PollBegin, PollList, PollRecover, PollProfile, PollFails,
     PollEnqueue, PollAdvance, Configs
<1> QED
  BY <1>2, Frames, AbandonedStays

\* A step of the loop leaves with the row at RUNNING only if it was leaving before,
\* or could not write FAILED.
LEMMA LoopAbandonsNothing ==
  ASSUME TypeInv, ArchiveAction, ~ArchiveErrorLost, Abandoned'
  PROVE  Abandoned
<1>1. cfg \in Configs /\ loop \in Loops
  BY TypeOKParts DEF TypeInv
<1>2. ctl' = ctl /\ ctl.pc = "idle" /\ cfg'.status = "RUNNING" /\ Leaving'
  BY Frames DEF Abandoned
<1> SUFFICES cfg.status = "RUNNING" /\ Leaving
  BY <1>2 DEF Abandoned
<1>3. CASE ArchiveInit \/ ArchiveList \/ ArchiveFetch \/ ArchiveRead \/ ArchiveFetchFails \/ ArchiveThrows
  <2>1. loop'.pc \in {"check", "finish", "fetch", "read", "insert", "save", "error"}
    BY <1>1, <1>3 DEF ArchiveInit, ArchiveList, ArchiveFetch, ArchiveRead, ArchiveFetchFails, ArchiveThrows,
       Loops, NoLoop
  <2> QED
    BY <1>2, <2>1 DEF Leaving, At
<1>4. CASE ArchiveCheck
  <2>1. cfg' = cfg /\ loop'.pc = "decide" /\ loop'.saw = cfg.status
    BY <1>1, <1>4 DEF ArchiveCheck, Loops
  <2> QED
    BY <1>2, <2>1 DEF Leaving, At
<1>5. CASE ArchiveDecide
  <2>1. loop.saw \in {"CANCELLED", "IDLE"} \/ loop'.pc = "list"
    BY <1>1, <1>5 DEF ArchiveDecide, Loops
  <2>2. cfg' = cfg /\ At("decide")
    BY <1>5 DEF ArchiveDecide
  <2> QED
    BY <1>2, <2>1, <2>2 DEF Leaving, At
<1>6. CASE ArchiveInsert
  <2>1. loop'.pc \in {"error", "save"}
    BY <1>1, <1>6 DEF ArchiveInsert, Loops, NoLoop
  <2> QED
    BY <1>2, <2>1 DEF Leaving, At
<1>7. CASE ArchiveSave
  <2>1. loop'.pc \in {"finish", "check"}
    BY <1>1, <1>7 DEF ArchiveSave, Loops
  <2> QED
    BY <1>2, <2>1 DEF Leaving, At
<1>8. CASE ArchiveFinish \/ ArchiveError
  <2>1. cfg'.status \in {"DONE", "FAILED"}
    BY <1>1, <1>8 DEF ArchiveFinish, ArchiveError, Configs
  <2> QED
    BY <1>2, <2>1
<1>9. CASE ArchiveProfile \/ ArchiveProfileFails \/ ArchiveMark \/ ArchiveClose
  <2>1. loop.pc \in {"profile", "mark", "closing"}
    BY <1>9 DEF ArchiveProfile, ArchiveProfileFails, ArchiveMark, ArchiveClose, At
  <2>2. cfg'.status = cfg.status
    BY <1>1, <1>9 DEF ArchiveProfile, ArchiveProfileFails, ArchiveMark, ArchiveClose, Configs
  <2> QED
    BY <1>2, <2>1, <2>2 DEF Leaving
<1> QED
  BY <1>3, <1>4, <1>5, <1>6, <1>7, <1>8, <1>9 DEF ArchiveAction, ArchiveStep

\* A handler of an agent abandons a row only when it launches nothing because the
\* old loop is still on its way out.
LEMMA HandlersAbandonNothing ==
  ASSUME TypeInv, ControlAction, ~(Launch /\ Leaving /\ ~At("off")), Abandoned'
  PROVE  Abandoned
<1>1. cfg \in Configs /\ ctl \in Ctls
  BY TypeOKParts DEF TypeInv
<1>2. ctl'.pc = "idle" /\ cfg'.status = "RUNNING" /\ Leaving'
  BY DEF Abandoned
<1>3. CASE Reset \/ Run \/ Resume \/ StartArchive \/ StartProfile \/ StartProfileFails \/ StartMark
  <2>1. ctl'.pc \in {"start", "launch", "profile", "mark"}
    BY <1>1, <1>3 DEF Reset, Run, Resume, StartArchive, StartProfile, StartProfileFails, StartMark, Ctls, NoCtl
  <2> QED
    BY <1>2, <2>1
<1>4. CASE Cancel
  <2>1. cfg'.status = "CANCELLED"
    BY <1>1, <1>4 DEF Cancel, Configs
  <2> QED
    BY <1>2, <2>1
<1>5. CASE Launch
  <2>1. CASE At("off")
    <3>1. loop'.pc = "init"
      BY <1>5, <2>1 DEF Launch, NoLoop
    <3> QED
      BY <1>2, <3>1 DEF Leaving, At
  <2>2. CASE ~At("off")
    <3>1. loop' = loop
      BY <1>5, <2>2 DEF Launch
    <3>2. Leaving' = Leaving
      BY <3>1 DEF Leaving, At
    <3> QED
      BY <1>2, <1>5, <2>2, <3>2
  <2> QED
    BY <2>1, <2>2
<1> QED
  BY <1>3, <1>4, <1>5 DEF ControlAction, StartStep

\* A row at RUNNING is abandoned by a resume, a run or a resync that met the old
\* loop on its way out ("if (this.backgroundRunning) return"), or by a FAILED that
\* could not be written: by no crash, cancel or poll at any moment.
THEOREM LoopIsNotLost == Spec => LoopLostHasCause
<1> DEFINE Lost == (Launch /\ Leaving /\ ~At("off")) \/ ArchiveErrorLost
<1>1. ASSUME TypeInv, Next, Abandoned', ~Abandoned
      PROVE  Lost
  <2>1. ASSUME NEW t \in Threads, Arrive(t) PROVE Lost
    BY <1>1, <2>1, Frames, AbandonedStays
  <2>2. ASSUME NEW p \in Pollers, PollAction(p) PROVE Lost
    BY <1>1, <2>2, PollsAbandonNothing
  <2>3. CASE IngestAction
    BY <1>1, <2>3, Frames, AbandonedStays
  <2>4. CASE ArchiveAction
    BY <1>1, <2>4, LoopAbandonsNothing
  <2>5. CASE ControlAction
    BY <1>1, <2>5, HandlersAbandonNothing
  <2>6. CASE Crash
    <3>1. cfg' = cfg /\ cfg.status = "RUNNING"
      BY <1>1, <2>6, Frames DEF Abandoned
    <3>2. loop'.pc = "init"
      BY <2>6, <3>1 DEF Crash, NoLoop
    <3> QED
      BY <1>1, <3>2 DEF Abandoned, Leaving, At
  <2> QED
    BY <1>1, <2>1, <2>2, <2>3, <2>4, <2>5, <2>6, NextSplit
<1>2. TypeInv /\ [Next]_vars => [~Abandoned /\ Abandoned' => Lost]_vars
  BY <1>1
<1> QED
  BY <1>2, TypeInvariant, PTL DEF Spec, LoopLostHasCause
=============================================================================
