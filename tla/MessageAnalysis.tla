--------------------------- MODULE MessageAnalysis ---------------------------
(***************************************************************************)
(* The analysis of what customers write.  Whoever stores a message asks    *)
(* for its analysis if the ticket was a real one when he read it; the      *)
(* conversion of a conversation asks for all that was stored before; a     *)
(* worker has the model judge one message at a time and may raise the      *)
(* priority, which agents choose meanwhile.                                *)
(***************************************************************************)
EXTENDS TicketJobs

CONSTANTS
  Msgs,            \* messages of the customer on one ticket
  Newest,          \* the last of a thread of mails that is ingested at once
  Agents,
  AnalyzeRetries,  \* retryLimit of ai:analyze-message
  MaxChoices       \* bound: priorities that agents choose

ASSUME AnalysisAssumption == Newest \in Msgs /\ AnalyzeRetries \in Nat /\ MaxChoices \in Nat

VARIABLES
  desk,       \* isTicket and priority of the ticket, and what agents chose
  msg,        \* the messages, and the handlers that store them
  convert,    \* conversions in flight
  toAnalyse,  \* jobs of ai:analyze-message that wait
  analyser    \* its worker

analysisVars == <<desk, msg, convert, toAnalyse, analyser>>

Priorities == {"NORMAL", "HIGH", "URGENT"}

\* excuses: history, why nobody will analyse it.
NoMsg == [at |-> "none", saw |-> FALSE, analysed |-> FALSE, signals |-> 0, excuses |-> {}]
NoAnalysis == [step |-> "idle", job |-> NoJob, priority |-> "NORMAL"]

AnalysisInit ==
  /\ desk = [isTicket |-> "conversation" \notin story, priority |-> "NORMAL", chosen |-> "none", crossed |-> FALSE, choices |-> 0]
  /\ msg = [m \in Msgs |-> NoMsg]
  /\ convert = [a \in Agents |-> "idle"]
  /\ toAnalyse = EmptyBag
  /\ analyser = NoAnalysis

Stored(m) == msg[m].at \in {"stored", "left"}
Pending == {m \in Msgs : Stored(m) /\ ~msg[m].analysed}
Excused(ms, why) == [m \in Msgs |-> IF m \in ms THEN [msg[m] EXCEPT !.excuses = @ \union {why}] ELSE msg[m]]

-----------------------------------------------------------------------------
(***************************************************************************)
(* Messages arrive, by the portal or by a mail: the handler reads the      *)
(* ticket, stores, and asks for the analysis.                              *)
(***************************************************************************)
Handled(m) == "analysis" \in story /\ ("thread" \in story => m = Newest)
StoredWith(m) == IF "thread" \in story THEN Msgs ELSE {m}

Reads(m) ==
  /\ Handled(m) /\ msg[m].at = "none"
  /\ msg' = [msg EXCEPT ![m].at = "read", ![m].saw = desk.isTicket]
  /\ UNCHANGED <<desk, convert, toAnalyse, analyser, jobVars>>

\* A conversation that became a ticket after it was read, and whose conversion has
\* already looked for messages, will not be looked at again.  Of a thread that is
\* ingested at once the newest message alone is handed over.
Missed(m, n) ==
  (IF ~msg[m].saw /\ desk.isTicket /\ \A a \in Agents : convert[a] # "turned" THEN {"stale"} ELSE {})
  \union (IF msg[m].saw /\ n # m THEN {"older"} ELSE {})

Stores(m) ==
  /\ msg[m].at = "read"
  /\ msg' = [n \in Msgs |-> IF n \in StoredWith(m)
                            THEN [msg[n] EXCEPT !.at = IF n = m THEN "stored" ELSE "left", !.excuses = Missed(m, n)]
                            ELSE msg[n]]
  /\ UNCHANGED <<desk, convert, toAnalyse, analyser, jobVars>>

Announces(m) ==
  /\ msg[m].at = "stored"
  /\ msg' = [msg EXCEPT ![m].at = "left"]
  /\ toAnalyse' = IF msg[m].saw THEN toAnalyse (+) One(Job(m)) ELSE toAnalyse
  /\ UNCHANGED <<desk, convert, analyser, jobVars>>

AnnounceFails(m) ==
  /\ msg[m].at = "stored" /\ msg[m].saw /\ Fault
  /\ msg' = [msg EXCEPT ![m].at = "left", ![m].excuses = @ \union {"lost"}]
  /\ UNCHANGED <<desk, convert, toAnalyse, analyser, off>>

-----------------------------------------------------------------------------
(***************************************************************************)
(* Agents convert the conversation and choose a priority.                  *)
(***************************************************************************)
StartsConvert(a) ==
  /\ "analysis" \in story /\ convert[a] = "idle" /\ ~desk.isTicket
  /\ convert' = [convert EXCEPT ![a] = "read"]
  /\ UNCHANGED <<desk, msg, toAnalyse, analyser, jobVars>>

Converts(a) ==
  /\ convert[a] = "read"
  /\ convert' = [convert EXCEPT ![a] = "turned"]
  /\ desk' = [desk EXCEPT !.isTicket = TRUE]
  /\ UNCHANGED <<msg, toAnalyse, analyser, jobVars>>

\* All messages that were not analysed are handed over; one that cannot be is lost.
Backfills(a) ==
  /\ convert[a] = "turned"
  /\ convert' = [convert EXCEPT ![a] = "done"]
  /\ \E lost \in {{}} \union {{m} : m \in Pending} :
       /\ IF lost = {} THEN UNCHANGED faults ELSE Fault
       /\ toAnalyse' = toAnalyse (+) SetToBag({Job(m) : m \in Pending \ lost})
       /\ msg' = Excused(lost, "lost")
  /\ UNCHANGED <<desk, analyser, off>>

\* crossed: history, the analysis at work has read the priority before.
Chooses(p) ==
  /\ "choice" \in story /\ desk.choices < MaxChoices
  /\ desk' = [desk EXCEPT !.priority = p, !.chosen = p, !.choices = @ + 1,
                          !.crossed = analyser.step \in {"asked", "judged"} /\ analyser.priority = "NORMAL"]
  /\ UNCHANGED <<msg, convert, toAnalyse, analyser, jobVars>>

-----------------------------------------------------------------------------
(***************************************************************************)
(* The worker.                                                             *)
(***************************************************************************)
\* A mutant: only the feature is looked at, not what was analysed before.
LooksAgain(j) ==
  /\ analyser.step = "idle" /\ BagIn(j, toAnalyse)
  /\ toAnalyse' = toAnalyse (-) One(j)
  /\ IF "aiAnalysis" \in off
     THEN msg' = Excused({j.of}, "off") /\ UNCHANGED analyser
     ELSE analyser' = [step |-> "asked", job |-> j, priority |-> desk.priority] /\ UNCHANGED msg
  /\ UNCHANGED <<desk, convert, jobVars>>

\* It reads the message together with the ticket, and asks the model.
Looks(j) ==
  /\ analyser.step = "idle" /\ BagIn(j, toAnalyse)
  /\ toAnalyse' = toAnalyse (-) One(j)
  /\ CASE "aiAnalysis" \in off -> msg' = Excused({j.of}, "off") /\ UNCHANGED analyser
       [] "aiAnalysis" \notin off /\ (msg[j.of].analysed \/ ~desk.isTicket) -> UNCHANGED <<msg, analyser>>
       [] OTHER -> analyser' = [step |-> "asked", job |-> j, priority |-> desk.priority] /\ UNCHANGED msg
  /\ UNCHANGED <<desk, convert, jobVars>>

Judges ==
  /\ analyser.step = "asked"
  /\ analyser' = [analyser EXCEPT !.step = "judged"]
  /\ UNCHANGED <<desk, msg, convert, toAnalyse, jobVars>>

\* One transaction.  A customer who may leave is a signal, and raises the priority if
\* it was normal when it was read.
Records(leaves) ==
  /\ analyser.step = "judged"
  /\ analyser' = [analyser EXCEPT !.step = "recorded"]
  /\ msg' = [msg EXCEPT ![analyser.job.of].analysed = TRUE, ![analyser.job.of].signals = IF leaves THEN @ + 1 ELSE @]
  /\ desk' = IF leaves /\ analyser.priority = "NORMAL" THEN [desk EXCEPT !.priority = "HIGH"] ELSE desk
  /\ UNCHANGED <<convert, toAnalyse, jobVars>>

Completes ==
  /\ analyser.step = "recorded"
  /\ analyser' = NoAnalysis
  /\ UNCHANGED <<desk, msg, convert, toAnalyse, jobVars>>

\* What was thrown is worth another attempt, or the job ends as if it were done.
GivesUp(again) == IF again /\ analyser.job.tries < AnalyzeRetries THEN {} ELSE {analyser.job.of}

AttemptFails(again) ==
  /\ analyser.step \in {"asked", "judged"} /\ Fault
  /\ analyser' = NoAnalysis
  /\ toAnalyse' = IF again THEN Retried(toAnalyse, analyser.job, AnalyzeRetries) ELSE toAnalyse
  /\ msg' = Excused(GivesUp(again), "gaveUp")
  /\ UNCHANGED <<desk, convert, off>>

\* The process dies: a job in hand expires, whoever was to ask for an analysis cannot.
AnalysisDies ==
  LET silent == {m \in Msgs : msg[m].at = "stored" /\ msg[m].saw}
                \union (IF \E a \in Agents : convert[a] = "turned" THEN Pending ELSE {})
      spent == IF analyser.step = "idle" THEN {} ELSE GivesUp(TRUE)
  IN /\ msg' = [m \in Msgs |->
          [msg[m] EXCEPT !.at = CASE @ = "read" -> "none" [] @ = "stored" -> "left" [] OTHER -> @,
                         !.excuses = @ \union (IF m \in silent THEN {"died"} ELSE {})
                                       \union (IF m \in spent /\ ~msg[m].analysed THEN {"gaveUp"} ELSE {})]]
     /\ convert' = [a \in Agents |-> CASE convert[a] = "read" -> "idle" [] convert[a] = "turned" -> "done" [] OTHER -> convert[a]]
     /\ toAnalyse' = IF analyser.step = "idle" THEN toAnalyse ELSE Retried(toAnalyse, analyser.job, AnalyzeRetries)
     /\ analyser' = NoAnalysis
     /\ UNCHANGED desk

Works == (\E j \in BagToSet(toAnalyse) : Looks(j)) \/ Judges \/ (\E leaves \in BOOLEAN : Records(leaves)) \/ Completes

AnalysisNext ==
  \/ \E m \in Msgs : Reads(m) \/ Stores(m) \/ Announces(m) \/ AnnounceFails(m)
  \/ \E a \in Agents : StartsConvert(a) \/ Converts(a) \/ Backfills(a)
  \/ \E p \in Priorities : Chooses(p)
  \/ Works
  \/ \E again \in BOOLEAN : AttemptFails(again)

\* Handlers that have begun go on, and the worker fetches and finishes its jobs.
AnalysisFair ==
  /\ \A m \in Msgs : WF_analysisVars(Stores(m)) /\ WF_analysisVars(Announces(m))
  /\ \A a \in Agents : WF_analysisVars(Converts(a)) /\ WF_analysisVars(Backfills(a))
  /\ WF_analysisVars(Works)

-----------------------------------------------------------------------------
AnalysisTypeOK ==
  /\ desk \in [isTicket : BOOLEAN, priority : Priorities, chosen : Priorities \union {"none"}, crossed : BOOLEAN, choices : Nat]
  /\ msg \in [Msgs -> [at : {"none", "read", "stored", "left"}, saw : BOOLEAN, analysed : BOOLEAN, signals : Nat,
                       excuses : SUBSET {"stale", "older", "lost", "off", "gaveUp", "died"}]]
  /\ convert \in [Agents -> {"idle", "read", "turned", "done"}]
  /\ About(toAnalyse, Msgs)
  /\ analyser \in [step : {"idle", "asked", "judged", "recorded"}, job : [of : Msgs \union {"none"}, tries : Nat], priority : Priorities]
  /\ analyser.step # "idle" => analyser.job.of \in Msgs

\* A message is analysed at most once, and only on a real ticket, however often its
\* analysis was asked for, retried or broken off; a signal belongs to an analysis.
AnalysedOnce == \A m \in Msgs : msg[m].signals <= 1 /\ (msg[m].signals = 1 => msg[m].analysed) /\ (msg[m].analysed => desk.isTicket)

\* What an agent chose stands, unless he chose the normal priority, or chose while an
\* analysis was at work that had read the priority before.
ChoiceStands == desk.chosen \notin {"none", "NORMAL"} /\ desk.priority # desk.chosen => desk.crossed

\* analyze-message.worker and its callers: the analysis is never repeated and never
\* outvotes an agent but by the race that it cannot see.
AnalysisHonest == AnalysedOnce /\ ChoiceStands

\* Every message of a customer on a real ticket is analysed, unless one of the named
\* excuses holds: an ingestion or a reply that read a conversation, an older mail of
\* its thread, a lost or dead call, a suppressed feature, a job given up.
AnalysisSettles == \A m \in Msgs : Stored(m) /\ desk.isTicket ~> msg[m].analysed \/ msg[m].excuses # {}
=============================================================================
