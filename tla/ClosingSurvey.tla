---------------------------- MODULE ClosingSurvey ----------------------------
(***************************************************************************)
(* What follows the resolution of a ticket: a worker files it under a      *)
(* topic and keeps the topics' counters, another mails the customer a      *)
(* survey, once, and the form behind its link records a rating.            *)
(***************************************************************************)
EXTENDS TicketJobs, Integers, FiniteSets

CONSTANTS
  Tickets,          \* real tickets
  Topics,
  NoTopic,
  Closers,          \* agents' handlers that resolve
  Forms,            \* submissions of the rating form
  Stars,            \* ratings
  ClassifyRetries,  \* retryLimit of ai:classify-ticket
  SurveyRetries,    \* retryLimit of ai:request-csat
  MaxResolves       \* bound: resolutions

ASSUME SurveyAssumption ==
  /\ IsFiniteSet(Tickets) /\ NoTopic \notin Topics /\ Stars \subseteq Nat \ {0}
  /\ ClassifyRetries \in Nat /\ SurveyRetries \in Nat /\ MaxResolves \in Nat

VARIABLES
  status,      \* of each ticket
  topicId,     \* of each ticket
  ticketCount, \* of each topic
  survey,      \* of each ticket: the marker, the mails, the rating
  closer,      \* PATCHes in flight
  toClassify,  \* jobs of ai:classify-ticket that wait
  toSurvey,    \* jobs of ai:request-csat that wait
  classifier,  \* the two workers
  surveyor,
  form,        \* submissions in flight
  resolves

topicVars == <<topicId, ticketCount>>
closerVars == <<status, closer, resolves>>
workVars == <<toClassify, toSurvey, classifier, surveyor>>
closingVars == <<topicVars, closerVars, workVars, survey, form>>

\* History: unmarked, attempts that ended between the mail and the marker; accepted,
\* submissions that were recorded; together, two were checked at once; excuses, why no
\* survey may have been sent.
NoSurvey == [marker |-> FALSE, mails |-> 0, stars |-> 0, unmarked |-> 0, accepted |-> 0, together |-> FALSE, excuses |-> {}]
NoClassify == [step |-> "idle", job |-> NoJob, previous |-> NoTopic, topic |-> NoTopic]
NoClose == [step |-> "idle", of |-> "none", saw |-> "OPEN"]
NoForm == [step |-> "closed", of |-> "none", stars |-> 0]
Idle == [step |-> "idle", job |-> NoJob]

ClosingInit ==
  /\ status = [t \in Tickets |-> "OPEN"] /\ topicId = [t \in Tickets |-> NoTopic]
  /\ ticketCount = [k \in Topics |-> 0] /\ survey = [t \in Tickets |-> NoSurvey]
  /\ closer = [c \in Closers |-> NoClose] /\ form = [f \in Forms |-> NoForm]
  /\ toClassify = EmptyBag /\ toSurvey = EmptyBag /\ classifier = NoClassify /\ surveyor = Idle
  /\ resolves = 0

Excuse(ts, why) == [t \in Tickets |-> IF t \in ts THEN [survey[t] EXCEPT !.excuses = @ \union {why}] ELSE survey[t]]

-----------------------------------------------------------------------------
(***************************************************************************)
(* PATCH with the status RESOLVED, and the customer's reply to it.         *)
(***************************************************************************)
ReadsToClose(c, t) ==
  /\ "closing" \in story /\ closer[c].step = "idle" /\ resolves < MaxResolves
  /\ "single" \in story => t = CHOOSE u \in Tickets : TRUE
  /\ resolves' = resolves + 1
  /\ closer' = [closer EXCEPT ![c] = [step |-> "read", of |-> t, saw |-> status[t]]]
  /\ UNCHANGED <<status, topicVars, workVars, survey, form, jobVars>>

Resolves(c) ==
  /\ closer[c].step = "read"
  /\ status' = [status EXCEPT ![closer[c].of] = "RESOLVED"]
  /\ closer' = [closer EXCEPT ![c] = IF closer[c].saw = "RESOLVED" THEN NoClose ELSE [@ EXCEPT !.step = "resolved"]]
  /\ UNCHANGED <<resolves, topicVars, workVars, survey, form, jobVars>>

\* Both jobs are handed over without waiting; one that cannot be is lost.
Enqueues(c) ==
  /\ closer[c].step = "resolved"
  /\ closer' = [closer EXCEPT ![c] = NoClose]
  /\ \E lost \in {"none", "classify", "survey"} :
       /\ IF lost = "none" THEN UNCHANGED faults ELSE Fault
       /\ toClassify' = IF lost = "classify" THEN toClassify ELSE toClassify (+) One(Job(closer[c].of))
       /\ toSurvey' = IF lost = "survey" THEN toSurvey ELSE toSurvey (+) One(Job(closer[c].of))
       /\ survey' = IF lost = "survey" THEN Excuse({closer[c].of}, "lost") ELSE survey
  /\ UNCHANGED <<status, resolves, topicVars, classifier, surveyor, form, off>>

Reopens(t) ==
  /\ status[t] = "RESOLVED"
  /\ status' = [status EXCEPT ![t] = "OPEN"]
  /\ UNCHANGED <<closer, resolves, topicVars, workVars, survey, form, jobVars>>

-----------------------------------------------------------------------------
(***************************************************************************)
(* The worker that classifies.                                             *)
(***************************************************************************)
ReadsTopic(j) ==
  /\ classifier.step = "idle" /\ BagIn(j, toClassify)
  /\ toClassify' = toClassify (-) One(j)
  /\ classifier' = IF "aiAnalysis" \in off THEN classifier
                   ELSE [step |-> "asked", job |-> j, previous |-> topicId[j.of], topic |-> NoTopic]
  /\ UNCHANGED <<toSurvey, surveyor, topicVars, closerVars, survey, form, jobVars>>

Names(k) ==
  /\ classifier.step = "asked"
  /\ classifier' = [classifier EXCEPT !.step = "named", !.topic = k]
  /\ UNCHANGED <<toClassify, toSurvey, surveyor, topicVars, closerVars, survey, form, jobVars>>

\* A mutant: every classification counts.
CountedAlways(previous, k) == [ticketCount EXCEPT ![k] = @ + 1]

\* The counters move only when the topic changes.
Counted(previous, k) ==
  IF previous = k THEN ticketCount
  ELSE [x \in Topics |-> CASE x = k -> ticketCount[x] + 1 [] x = previous -> ticketCount[x] - 1 [] OTHER -> ticketCount[x]]

Files ==
  /\ classifier.step = "named"
  /\ classifier' = [classifier EXCEPT !.step = "filed"]
  /\ topicId' = [topicId EXCEPT ![classifier.job.of] = classifier.topic]
  /\ ticketCount' = Counted(classifier.previous, classifier.topic)
  /\ UNCHANGED <<toClassify, toSurvey, surveyor, closerVars, survey, form, jobVars>>

EndsFiling ==
  /\ classifier.step = "filed"
  /\ classifier' = NoClassify
  /\ UNCHANGED <<toClassify, toSurvey, surveyor, topicVars, closerVars, survey, form, jobVars>>

FilingFails(again) ==
  /\ classifier.step \in {"asked", "named"} /\ Fault
  /\ classifier' = NoClassify
  /\ toClassify' = IF again THEN Retried(toClassify, classifier.job, ClassifyRetries) ELSE toClassify
  /\ UNCHANGED <<toSurvey, surveyor, topicVars, closerVars, survey, form, off>>

-----------------------------------------------------------------------------
(***************************************************************************)
(* The worker that mails the survey.                                       *)
(***************************************************************************)
Sends(step, marks) ==
  /\ surveyor' = [surveyor EXCEPT !.step = step]
  /\ survey' = marks
  /\ UNCHANGED <<toClassify, toSurvey, classifier, topicVars, closerVars, form>>

\* A mutant: the marker is not looked for.
ChecksNothing(j) ==
  /\ surveyor.step = "idle" /\ BagIn(j, toSurvey)
  /\ toSurvey' = toSurvey (-) One(j)
  /\ surveyor' = [step |-> "checked", job |-> j]
  /\ UNCHANGED <<toClassify, classifier, survey, topicVars, closerVars, form, jobVars>>

\* The status of the ticket is not looked at again.
Checks(j) ==
  /\ surveyor.step = "idle" /\ BagIn(j, toSurvey)
  /\ toSurvey' = toSurvey (-) One(j)
  /\ CASE survey[j.of].marker -> UNCHANGED <<surveyor, survey>>
       [] ~survey[j.of].marker /\ "csatSurvey" \in off -> survey' = Excuse({j.of}, "off") /\ UNCHANGED surveyor
       [] OTHER -> surveyor' = [step |-> "checked", job |-> j] /\ UNCHANGED survey
  /\ UNCHANGED <<toClassify, classifier, topicVars, closerVars, form, jobVars>>

Mails ==
  /\ surveyor.step = "checked"
  /\ Sends("mailed", [survey EXCEPT ![surveyor.job.of].mails = @ + 1])
  /\ UNCHANGED jobVars

\* sendRaw logs its errors and returns.
MailSwallowed ==
  /\ surveyor.step = "checked" /\ Fault
  /\ Sends("mailed", Excuse({surveyor.job.of}, "swallowed"))
  /\ UNCHANGED off

Marks ==
  /\ surveyor.step = "mailed"
  /\ Sends("marked", [survey EXCEPT ![surveyor.job.of].marker = TRUE])
  /\ UNCHANGED jobVars

EndsSurvey ==
  /\ surveyor.step = "marked"
  /\ Sends("idle", survey)
  /\ UNCHANGED jobVars

\* What a broken attempt leaves: a mail without its marker, or no attempt any more.
Broken ==
  [t \in Tickets |->
     IF surveyor.step = "idle" \/ surveyor.job.of # t THEN survey[t]
     ELSE [survey[t] EXCEPT !.unmarked = IF surveyor.step = "mailed" THEN @ + 1 ELSE @,
                            !.excuses = IF surveyor.job.tries < SurveyRetries THEN @ ELSE @ \union {"gaveUp"}]]

\* Any error is worth another attempt.
SurveyFails ==
  /\ surveyor.step \in {"checked", "mailed"} /\ Fault
  /\ toSurvey' = Retried(toSurvey, surveyor.job, SurveyRetries)
  /\ survey' = Broken
  /\ surveyor' = Idle
  /\ UNCHANGED <<toClassify, classifier, topicVars, closerVars, form, off>>

-----------------------------------------------------------------------------
(***************************************************************************)
(* The rating: whoever has the link posts, and may post again.             *)
(***************************************************************************)
Posts(f, t, n) ==
  /\ "rate" \in story /\ form[f].step = "closed" /\ survey[t].mails > 0
  /\ form' = [form EXCEPT ![f] = [step |-> "posted", of |-> t, stars |-> n]]
  /\ UNCHANGED <<topicVars, closerVars, workVars, survey, jobVars>>

Together(f) == \E g \in Forms \ {f} : form[g].step = "accepted" /\ form[g].of = form[f].of

Accepts(f) ==
  /\ form[f].step = "posted"
  /\ IF survey[form[f].of].stars = 0
     THEN /\ form' = [form EXCEPT ![f].step = "accepted"]
          /\ survey' = [survey EXCEPT ![form[f].of].together = @ \/ Together(f)]
     ELSE form' = [form EXCEPT ![f].step = "done"] /\ UNCHANGED survey
  /\ UNCHANGED <<topicVars, closerVars, workVars, jobVars>>

Rates(f) ==
  /\ form[f].step = "accepted"
  /\ form' = [form EXCEPT ![f].step = "done"]
  /\ survey' = [survey EXCEPT ![form[f].of].stars = form[f].stars, ![form[f].of].accepted = @ + 1]
  /\ UNCHANGED <<topicVars, closerVars, workVars, jobVars>>

-----------------------------------------------------------------------------
\* The process dies.  Jobs in hand expire; a resolution that was written has no jobs.
ClosingDies ==
  LET silent == {closer[c].of : c \in {d \in Closers : closer[d].step = "resolved"}}
  IN /\ survey' = [t \in Tickets |-> IF t \in silent THEN [Broken[t] EXCEPT !.excuses = @ \union {"died"}] ELSE Broken[t]]
     /\ closer' = [c \in Closers |-> NoClose]
     /\ form' = [f \in Forms |-> IF form[f].step = "done" THEN form[f] ELSE NoForm]
     /\ toClassify' = IF classifier.step = "idle" THEN toClassify ELSE Retried(toClassify, classifier.job, ClassifyRetries)
     /\ toSurvey' = IF surveyor.step = "idle" THEN toSurvey ELSE Retried(toSurvey, surveyor.job, SurveyRetries)
     /\ classifier' = NoClassify /\ surveyor' = Idle
     /\ UNCHANGED <<status, resolves, topicVars>>

Classifies == (\E j \in BagToSet(toClassify) : ReadsTopic(j)) \/ (\E k \in Topics : Names(k)) \/ Files \/ EndsFiling
Surveys == (\E j \in BagToSet(toSurvey) : Checks(j)) \/ Mails \/ Marks \/ EndsSurvey

ClosingNext ==
  \/ \E c \in Closers : (\E t \in Tickets : ReadsToClose(c, t)) \/ Resolves(c) \/ Enqueues(c)
  \/ \E t \in Tickets : Reopens(t)
  \/ Classifies
  \/ \E again \in BOOLEAN : FilingFails(again)
  \/ Surveys
  \/ MailSwallowed
  \/ SurveyFails
  \/ \E f \in Forms : (\E t \in Tickets, n \in Stars : Posts(f, t, n)) \/ Accepts(f) \/ Rates(f)

ClosingFair ==
  /\ \A c \in Closers : WF_closingVars(Resolves(c)) /\ WF_closingVars(Enqueues(c))
  /\ WF_closingVars(Surveys)

-----------------------------------------------------------------------------
ClosingTypeOK ==
  /\ status \in [Tickets -> {"OPEN", "RESOLVED"}]
  /\ topicId \in [Tickets -> Topics \union {NoTopic}] /\ ticketCount \in [Topics -> Int]
  /\ survey \in [Tickets -> [marker : BOOLEAN, mails : Nat, stars : Nat, unmarked : Nat, accepted : Nat, together : BOOLEAN,
                            excuses : SUBSET {"lost", "off", "swallowed", "gaveUp", "died"}]]
  /\ closer \in [Closers -> [step : {"idle", "read", "resolved"}, of : Tickets \union {"none"}, saw : {"OPEN", "RESOLVED"}]]
  /\ \A c \in Closers : closer[c].step # "idle" => closer[c].of \in Tickets
  /\ About(toClassify, Tickets) /\ About(toSurvey, Tickets)
  /\ classifier \in [step : {"idle", "asked", "named", "filed"}, job : [of : Tickets \union {"none"}, tries : Nat],
                     previous : Topics \union {NoTopic}, topic : Topics \union {NoTopic}]
  /\ classifier.step # "idle" => classifier.job.of \in Tickets
  /\ classifier.step \in {"named", "filed"} => classifier.topic \in Topics
  /\ surveyor \in [step : {"idle", "checked", "mailed", "marked"}, job : [of : Tickets \union {"none"}, tries : Nat]]
  /\ surveyor.step # "idle" => surveyor.job.of \in Tickets
  /\ form \in [Forms -> [step : {"closed", "posted", "accepted", "done"}, of : Tickets \union {"none"}, stars : Stars \union {0}]]
  /\ \A f \in Forms : form[f].step # "closed" => form[f].of \in Tickets
  /\ resolves \in 0..MaxResolves

\* A topic's counter, which the charts are sorted by, is the number of tickets filed
\* under it, however often a ticket is resolved, classified again, retried or broken off.
CountersMatch == \A k \in Topics : ticketCount[k] = Cardinality({t \in Tickets : topicId[t] = k})

\* The survey of a ticket that has a marker was mailed or its mail was swallowed; it is
\* mailed once, and once more for each attempt that ended between the mail and the
\* marker; one rating is recorded, unless two submissions were checked at once.
SurveyHonest ==
  \A t \in Tickets :
    /\ survey[t].marker => survey[t].mails > 0 \/ "swallowed" \in survey[t].excuses
    /\ survey[t].mails <= 1 + survey[t].unmarked
    /\ survey[t].accepted > 1 => survey[t].together

\* A resolved ticket gets its survey, unless the job was lost or given up, or the
\* survey was suppressed: request-csat.worker with its delay and its retries.
SurveySettles == \A t \in Tickets : status[t] = "RESOLVED" ~> survey[t].marker \/ survey[t].excuses # {}
=============================================================================
