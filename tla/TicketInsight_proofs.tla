------------------------ MODULE TicketInsight_proofs ------------------------
(***************************************************************************)
(* Proofs about TicketInsight: types, the single analysis and the choice   *)
(* of the agents, the counters of the topics, the single survey and the    *)
(* rating.                                                                 *)
(***************************************************************************)
EXTENDS TicketInsight, TLAPS, FiniteSetTheorems

\* The message in the worker's hand is not analysed yet; a signal belongs to an
\* analysis; a priority read as normal has not been chosen otherwise, but crossed.
AnalysisInv ==
  /\ analyser.step \in {"asked", "judged"} => ~msg[analyser.job.of].analysed /\ desk.isTicket
  /\ \A m \in Msgs : ~msg[m].analysed => msg[m].signals = 0
  /\ analyser.step \in {"asked", "judged"} /\ analyser.priority = "NORMAL" /\ desk.chosen \notin {"none", "NORMAL"} => desk.crossed

\* Nobody else moves the topic of the ticket in the worker's hand.
TopicInv == classifier.step \in {"asked", "named"} => classifier.previous = topicId[classifier.job.of]

\* Without a marker every mail is one of an attempt that ended too early, but that of
\* the attempt at work.
SurveyInv ==
  /\ surveyor.step \in {"checked", "mailed"} => ~survey[surveyor.job.of].marker
  /\ surveyor.step = "mailed" => survey[surveyor.job.of].mails > 0 \/ "swallowed" \in survey[surveyor.job.of].excuses
  /\ \A t \in Tickets :
       ~survey[t].marker /\ ~(surveyor.step = "mailed" /\ surveyor.job.of = t) => survey[t].mails <= survey[t].unmarked

\* Unless two were checked at once, one submission for a ticket is accepted, and none
\* once a rating is recorded.
RatingInv ==
  \A t \in Tickets :
    /\ survey[t].stars = 0 <=> survey[t].accepted = 0
    /\ ~survey[t].together =>
         \A f, g \in Forms : form[f].step = "accepted" /\ form[g].step = "accepted" /\ form[f].of = t /\ form[g].of = t => f = g
    /\ survey[t].accepted > 0 /\ ~survey[t].together => \A f \in Forms : form[f].step = "accepted" => form[f].of # t

-----------------------------------------------------------------------------
\* Lemmas about bags of jobs.
LEMMA PlusDomain ==
  ASSUME NEW A, NEW B
  PROVE  DOMAIN (A (+) B) = DOMAIN A \cup DOMAIN B
BY DEF (+)

LEMMA MinusDomain ==
  ASSUME NEW A, NEW B
  PROVE  DOMAIN (A (-) B) \subseteq DOMAIN A
BY DEF (-)

LEMMA AboutEmpty ==
  ASSUME NEW S
  PROVE  About(EmptyBag, S)
BY DEF About, BagToSet, EmptyBag, SetToBag

LEMMA AboutAdded ==
  ASSUME NEW S, NEW A, NEW J, About(A, S), J \subseteq [of : S, tries : Nat]
  PROVE  About(A (+) SetToBag(J), S)
<1>1. DOMAIN (A (+) SetToBag(J)) = DOMAIN A \cup DOMAIN SetToBag(J)
  BY PlusDomain
<1>2. DOMAIN SetToBag(J) = J
  BY DEF SetToBag
<1>3. DOMAIN A \subseteq [of : S, tries : Nat]
  BY DEF About, BagToSet
<1>4. BagToSet(A (+) SetToBag(J)) = DOMAIN (A (+) SetToBag(J))
  BY DEF BagToSet
<1>5. DOMAIN (A (+) SetToBag(J)) \subseteq [of : S, tries : Nat]
  BY <1>1, <1>2, <1>3
<1> QED
  BY <1>4, <1>5 DEF About

LEMMA AboutRemoved ==
  ASSUME NEW S, NEW A, NEW B, About(A, S)
  PROVE  About(A (-) B, S)
BY MinusDomain DEF About, BagToSet

LEMMA AboutJob ==
  ASSUME NEW S, NEW x \in S
  PROVE  {Job(x)} \subseteq [of : S, tries : Nat]
BY DEF Job

LEMMA AboutRetried ==
  ASSUME NEW S, NEW A, NEW j \in [of : S, tries : Nat], NEW limit, About(A, S)
  PROVE  About(Retried(A, j, limit), S)
<1>1. [of |-> j.of, tries |-> j.tries + 1] \in [of : S, tries : Nat]
  OBVIOUS
<1>2. {[of |-> j.of, tries |-> j.tries + 1]} \subseteq [of : S, tries : Nat]
  BY <1>1
<1>3. About(A (+) SetToBag({[of |-> j.of, tries |-> j.tries + 1]}), S)
  BY <1>2, AboutAdded
<1> QED
  BY <1>3 DEF Retried, One

\* What one job more, or one less, leaves.
LEMMA AboutOne ==
  ASSUME NEW S, NEW A, NEW x \in S, About(A, S)
  PROVE  About(A (+) One(Job(x)), S)
BY AboutAdded, AboutJob DEF One

LEMMA AboutTaken ==
  ASSUME NEW S, NEW A, NEW j, About(A, S), BagIn(j, A)
  PROVE  /\ About(A (-) One(j), S)
         /\ j \in [of : S, tries : Nat]
BY AboutRemoved DEF About, BagIn

-----------------------------------------------------------------------------
\* The types of one message, of the ticket and of the worker.
AMessage == [at : {"none", "read", "stored", "left"}, saw : BOOLEAN, analysed : BOOLEAN, signals : Nat,
             excuses : SUBSET {"stale", "older", "lost", "off", "gaveUp", "died"}]
ADesk == [isTicket : BOOLEAN, priority : Priorities, chosen : Priorities \union {"none"}, crossed : BOOLEAN, choices : Nat]
AnAnalyser == [step : {"idle", "asked", "judged", "recorded"}, job : [of : Msgs \union {"none"}, tries : Nat], priority : Priorities]

LEMMA AnalysisTypes ==
  AnalysisTypeOK <=> /\ desk \in ADesk
                     /\ msg \in [Msgs -> AMessage]
                     /\ convert \in [Agents -> {"idle", "read", "turned", "done"}]
                     /\ About(toAnalyse, Msgs)
                     /\ analyser \in AnAnalyser
                     /\ analyser.step # "idle" => analyser.job.of \in Msgs
BY DEF AnalysisTypeOK, ADesk, AMessage, AnAnalyser

LEMMA NoAnalysisTyped == NoAnalysis \in AnAnalyser /\ NoAnalysis.step = "idle"
BY DEF NoAnalysis, NoJob, AnAnalyser, Priorities

LEMMA ExcusedTyped ==
  ASSUME NEW ms, NEW why \in {"stale", "older", "lost", "off", "gaveUp", "died"}, msg \in [Msgs -> AMessage]
  PROVE  Excused(ms, why) \in [Msgs -> AMessage]
<1>1. ASSUME NEW m \in Msgs
      PROVE  [msg[m] EXCEPT !.excuses = @ \union {why}] \in AMessage
  BY DEF AMessage
<1> QED
  BY <1>1 DEF Excused

LEMMA RecordedTyped ==
  ASSUME NEW x \in AMessage, NEW n \in Nat
  PROVE  [x EXCEPT !.analysed = TRUE, !.signals = n] \in AMessage
BY DEF AMessage

LEMMA ChosenTyped ==
  ASSUME NEW d \in ADesk, NEW p \in Priorities, NEW late \in BOOLEAN
  PROVE  [d EXCEPT !.priority = p, !.chosen = p, !.choices = @ + 1, !.crossed = late] \in ADesk
<1>1. [d EXCEPT !.priority = p] \in ADesk /\ [d EXCEPT !.priority = p].choices = d.choices
  BY DEF ADesk
<1>2. ASSUME NEW e \in ADesk
      PROVE  [e EXCEPT !.chosen = p] \in ADesk /\ [e EXCEPT !.chosen = p].choices = e.choices
  BY DEF ADesk
<1>3. ASSUME NEW e \in ADesk
      PROVE  [e EXCEPT !.choices = @ + 1] \in ADesk
  BY DEF ADesk
<1>4. ASSUME NEW e \in ADesk
      PROVE  [e EXCEPT !.crossed = late] \in ADesk
  BY DEF ADesk
<1> QED
  BY <1>1, <1>2, <1>3, <1>4

LEMMA ReadTyped ==
  ASSUME NEW x \in AMessage, NEW b \in BOOLEAN
  PROVE  [x EXCEPT !.at = "read", !.saw = b] \in AMessage
BY DEF AMessage

LEMMA StoredTyped ==
  ASSUME NEW x \in AMessage, NEW at \in {"stored", "left"}, NEW e \in SUBSET {"stale", "older"}
  PROVE  [x EXCEPT !.at = at, !.excuses = e] \in AMessage
BY DEF AMessage

\* A step of the analysis keeps the types of the analysis.
LEMMA AnalysisTyped ==
  ASSUME AnalysisTypeOK, AnalysisNext
  PROVE  AnalysisTypeOK'
<1>t. /\ desk \in ADesk
      /\ msg \in [Msgs -> AMessage]
      /\ convert \in [Agents -> {"idle", "read", "turned", "done"}]
      /\ About(toAnalyse, Msgs)
      /\ analyser \in AnAnalyser
      /\ analyser.step # "idle" => analyser.job.of \in Msgs
  BY AnalysisTypes
<1> SUFFICES /\ desk' \in ADesk
             /\ msg' \in [Msgs -> AMessage]
             /\ convert' \in [Agents -> {"idle", "read", "turned", "done"}]
             /\ About(toAnalyse', Msgs)
             /\ analyser' \in AnAnalyser
             /\ analyser'.step # "idle" => analyser'.job.of \in Msgs
  BY DEF AnalysisTypeOK, ADesk, AMessage, AnAnalyser
<1> DEFINE Typed == /\ desk' \in ADesk
                    /\ msg' \in [Msgs -> AMessage]
                    /\ convert' \in [Agents -> {"idle", "read", "turned", "done"}]
                    /\ About(toAnalyse', Msgs)
                    /\ analyser' \in AnAnalyser
                    /\ analyser'.step # "idle" => analyser'.job.of \in Msgs
<1>1. ASSUME NEW m \in Msgs, Reads(m) PROVE Typed
  <2>1. [msg[m] EXCEPT !.at = "read", !.saw = desk.isTicket] \in AMessage
    <3>1. desk.isTicket \in BOOLEAN /\ msg[m] \in AMessage
      BY <1>t DEF ADesk
    <3> QED BY <3>1, ReadTyped
  <2>2. msg' \in [Msgs -> AMessage]
    BY <1>t, <1>1, <2>1 DEF Reads
  <2> QED BY <1>t, <1>1, <2>2 DEF Reads
<1>2. ASSUME NEW m \in Msgs, Stores(m) PROVE Typed
  <2>1. ASSUME NEW n \in Msgs, NEW at \in {"stored", "left"}
        PROVE  [msg[n] EXCEPT !.at = at, !.excuses = Missed(m, n)] \in AMessage
    <3>1. Missed(m, n) \in SUBSET {"stale", "older"}
      BY DEF Missed
    <3>2. msg[n] \in AMessage
      BY <1>t
    <3> QED BY <3>1, <3>2, StoredTyped
  <2>2. ASSUME NEW n \in Msgs
        PROVE  msg'[n] \in AMessage
    BY <1>2, <1>t, <2>1 DEF Stores
  <2>3. msg' \in [Msgs -> AMessage]
    BY <1>2, <2>2 DEF Stores
  <2> QED BY <1>t, <1>2, <2>3 DEF Stores
<1>3. ASSUME NEW m \in Msgs, Announces(m) PROVE Typed
  <2>1. About(toAnalyse', Msgs)
    BY <1>t, <1>3, AboutOne DEF Announces
  <2>2. [msg[m] EXCEPT !.at = "left"] \in AMessage
    BY <1>t DEF AMessage
  <2>3. msg' \in [Msgs -> AMessage]
    BY <1>3, <1>t, <2>2 DEF Announces
  <2> QED BY <1>t, <1>3, <2>1, <2>3 DEF Announces
<1>4. ASSUME NEW m \in Msgs, AnnounceFails(m) PROVE Typed
  <2>1. [msg[m] EXCEPT !.at = "left", !.excuses = @ \union {"lost"}] \in AMessage
    BY <1>t DEF AMessage
  <2>2. msg' \in [Msgs -> AMessage]
    BY <1>4, <1>t, <2>1 DEF AnnounceFails
  <2> QED BY <1>t, <1>4, <2>2 DEF AnnounceFails
<1>5. ASSUME NEW a \in Agents, StartsConvert(a) PROVE Typed
  BY <1>t, <1>5 DEF StartsConvert
<1>6. ASSUME NEW a \in Agents, Converts(a) PROVE Typed
  <2>1. desk' \in ADesk
    BY <1>t, <1>6 DEF Converts, ADesk
  <2> QED BY <1>t, <1>6, <2>1 DEF Converts
<1>7. ASSUME NEW a \in Agents, Backfills(a) PROVE Typed
  <2>1. PICK lost \in SUBSET Msgs :
          /\ toAnalyse' = toAnalyse (+) SetToBag({Job(m) : m \in Pending \ lost})
          /\ msg' = Excused(lost, "lost")
    BY <1>7 DEF Backfills, Pending
  <2>2. {Job(m) : m \in Pending \ lost} \subseteq [of : Msgs, tries : Nat]
    BY DEF Job, Pending
  <2>3. About(toAnalyse', Msgs)
    BY <1>t, <2>1, <2>2, AboutAdded
  <2>4. msg' \in [Msgs -> AMessage]
    BY <1>t, <2>1, ExcusedTyped
  <2> QED BY <1>t, <1>7, <2>3, <2>4 DEF Backfills
<1>8. ASSUME NEW p \in Priorities, Chooses(p) PROVE Typed
  <2> DEFINE late == analyser.step \in {"asked", "judged"} /\ analyser.priority = "NORMAL"
  <2>1. desk' = [desk EXCEPT !.priority = p, !.chosen = p, !.choices = @ + 1, !.crossed = late]
    BY <1>8 DEF Chooses
  <2>2. late \in BOOLEAN
    OBVIOUS
  <2> HIDE DEF late
  <2>3. desk' \in ADesk
    BY <1>t, <2>1, <2>2, ChosenTyped
  <2> QED BY <1>t, <1>8, <2>3 DEF Chooses
<1>9. ASSUME NEW j \in BagToSet(toAnalyse), Looks(j) PROVE Typed
  <2>1. About(toAnalyse', Msgs) /\ j \in [of : Msgs, tries : Nat]
    BY <1>t, <1>9, AboutTaken DEF Looks
  <2>2. [step |-> "asked", job |-> j, priority |-> desk.priority] \in AnAnalyser
    BY <1>t, <2>1 DEF AnAnalyser, ADesk
  <2>3. Excused({j.of}, "off") \in [Msgs -> AMessage]
    BY <1>t, ExcusedTyped
  <2> QED BY <1>t, <1>9, <2>1, <2>2, <2>3 DEF Looks
<1>10. ASSUME Judges PROVE Typed
  BY <1>t, <1>10 DEF Judges, AnAnalyser
<1>11. ASSUME NEW leaves \in BOOLEAN, Records(leaves) PROVE Typed
  <2> DEFINE at == analyser.job.of
             n == IF leaves THEN msg[at].signals + 1 ELSE msg[at].signals
  <2>1. at \in Msgs
    BY <1>t, <1>11 DEF Records
  <2>2. n \in Nat
    BY <1>t, <2>1 DEF AMessage
  <2>3. msg' = [msg EXCEPT ![at] = [@ EXCEPT !.analysed = TRUE, !.signals = n]]
    BY <1>t, <1>11, <2>1 DEF Records, AMessage
  <2>4. msg' \in [Msgs -> AMessage]
    BY <1>t, <2>1, <2>2, <2>3, RecordedTyped
  <2>5. desk' \in ADesk
    BY <1>t, <1>11 DEF Records, ADesk, Priorities
  <2>6. analyser' \in AnAnalyser /\ analyser'.job = analyser.job
    BY <1>t, <1>11 DEF Records, AnAnalyser
  <2> QED BY <1>t, <1>11, <2>1, <2>4, <2>5, <2>6 DEF Records
<1>12. ASSUME Completes PROVE Typed
  BY <1>t, <1>12, NoAnalysisTyped DEF Completes
<1>13. ASSUME NEW again \in BOOLEAN, AttemptFails(again) PROVE Typed
  <2>1. analyser.job \in [of : Msgs, tries : Nat]
    BY <1>t, <1>13 DEF AttemptFails, AnAnalyser
  <2>2. About(toAnalyse', Msgs)
    BY <1>t, <1>13, <2>1, AboutRetried DEF AttemptFails
  <2>3. msg' \in [Msgs -> AMessage]
    BY <1>t, <1>13, ExcusedTyped DEF AttemptFails
  <2> QED BY <1>t, <1>13, <2>2, <2>3, NoAnalysisTyped DEF AttemptFails
<1> QED
  BY <1>1, <1>2, <1>3, <1>4, <1>5, <1>6, <1>7, <1>8, <1>9, <1>10, <1>11, <1>12, <1>13 DEF AnalysisNext, Works

\* A death keeps them too.
LEMMA AnalysisDiesTyped ==
  ASSUME AnalysisTypeOK, AnalysisDies
  PROVE  AnalysisTypeOK'
<1>t. /\ desk \in ADesk
      /\ msg \in [Msgs -> AMessage]
      /\ convert \in [Agents -> {"idle", "read", "turned", "done"}]
      /\ About(toAnalyse, Msgs)
      /\ analyser \in AnAnalyser
      /\ analyser.step # "idle" => analyser.job.of \in Msgs
  BY AnalysisTypes
<1>1. ASSUME NEW x \in AMessage, NEW at \in {"none", "read", "stored", "left"}, NEW more \in SUBSET {"died"}, NEW spent \in SUBSET {"gaveUp"}
      PROVE  [x EXCEPT !.at = at, !.excuses = @ \union more \union spent] \in AMessage
  BY DEF AMessage
<1>2. ASSUME NEW m \in Msgs
      PROVE  msg'[m] \in AMessage
  <2> DEFINE silent == {n \in Msgs : msg[n].at = "stored" /\ msg[n].saw}
                       \union (IF \E a \in Agents : convert[a] = "turned" THEN Pending ELSE {})
             spent == IF analyser.step = "idle" THEN {} ELSE GivesUp(TRUE)
             at == CASE msg[m].at = "read" -> "none" [] msg[m].at = "stored" -> "left" [] OTHER -> msg[m].at
             late == IF m \in silent THEN {"died"} ELSE {}
             tired == IF m \in spent /\ ~msg[m].analysed THEN {"gaveUp"} ELSE {}
  <2>1. msg'[m] = [msg[m] EXCEPT !.at = at, !.excuses = @ \union late \union tired]
    BY <1>t DEF AnalysisDies
  <2>2. at \in {"none", "read", "stored", "left"}
    BY <1>t DEF AMessage
  <2>3. late \in SUBSET {"died"} /\ tired \in SUBSET {"gaveUp"}
    OBVIOUS
  <2> HIDE DEF at, late, tired
  <2>4. [msg[m] EXCEPT !.at = at, !.excuses = @ \union late \union tired] \in AMessage
    <3>1. msg[m] \in AMessage
      BY <1>t
    <3> QED BY <1>1, <2>2, <2>3, <3>1
  <2> QED BY <2>1, <2>4
<1>3. msg' \in [Msgs -> AMessage]
  BY <1>2 DEF AnalysisDies
<1>4. About(toAnalyse', Msgs)
  <2>1. CASE analyser.step = "idle"
    BY <1>t, <2>1 DEF AnalysisDies
  <2>2. CASE analyser.step # "idle"
    <3>1. analyser.job \in [of : Msgs, tries : Nat]
      BY <1>t, <2>2 DEF AnAnalyser
    <3> QED BY <1>t, <2>2, <3>1, AboutRetried DEF AnalysisDies
  <2> QED BY <2>1, <2>2
<1>5. convert' \in [Agents -> {"idle", "read", "turned", "done"}]
  BY <1>t DEF AnalysisDies
<1>6. desk' \in ADesk /\ analyser' \in AnAnalyser /\ (analyser'.step # "idle" => analyser'.job.of \in Msgs)
  BY <1>t, NoAnalysisTyped DEF AnalysisDies
<1> QED
  BY <1>3, <1>4, <1>5, <1>6 DEF AnalysisTypeOK, ADesk, AMessage, AnAnalyser
-----------------------------------------------------------------------------
\* The types of a survey, of the handlers and of the workers that follow a resolution.
ASurvey == [marker : BOOLEAN, mails : Nat, stars : Nat, unmarked : Nat, accepted : Nat, together : BOOLEAN,
            excuses : SUBSET {"lost", "off", "swallowed", "gaveUp", "died"}]
ACloser == [step : {"idle", "read", "resolved"}, of : Tickets \union {"none"}, saw : {"OPEN", "RESOLVED"}]
AClassifier == [step : {"idle", "asked", "named", "filed"}, job : [of : Tickets \union {"none"}, tries : Nat],
                previous : Topics \union {NoTopic}, topic : Topics \union {NoTopic}]
ASurveyor == [step : {"idle", "checked", "mailed", "marked"}, job : [of : Tickets \union {"none"}, tries : Nat]]
AForm == [step : {"closed", "posted", "accepted", "done"}, of : Tickets \union {"none"}, stars : Stars \union {0}]

ClosersTyped ==
  /\ status \in [Tickets -> {"OPEN", "RESOLVED"}]
  /\ closer \in [Closers -> ACloser]
  /\ \A c \in Closers : closer[c].step # "idle" => closer[c].of \in Tickets
  /\ resolves \in 0..MaxResolves

TopicsTyped ==
  /\ topicId \in [Tickets -> Topics \union {NoTopic}]
  /\ ticketCount \in [Topics -> Int]

ClassifierTyped ==
  /\ classifier \in AClassifier
  /\ classifier.step # "idle" => classifier.job.of \in Tickets
  /\ classifier.step \in {"named", "filed"} => classifier.topic \in Topics

SurveyorTyped ==
  /\ surveyor \in ASurveyor
  /\ surveyor.step # "idle" => surveyor.job.of \in Tickets

FormsTyped ==
  /\ form \in [Forms -> AForm]
  /\ \A f \in Forms : form[f].step # "closed" => form[f].of \in Tickets

LEMMA ClosingTypes ==
  ClosingTypeOK <=> /\ ClosersTyped
                    /\ TopicsTyped
                    /\ survey \in [Tickets -> ASurvey]
                    /\ About(toClassify, Tickets)
                    /\ About(toSurvey, Tickets)
                    /\ ClassifierTyped
                    /\ SurveyorTyped
                    /\ FormsTyped
BY DEF ClosingTypeOK, ClosersTyped, TopicsTyped, ClassifierTyped, SurveyorTyped, FormsTyped,
       ASurvey, ACloser, AClassifier, ASurveyor, AForm

LEMMA ClosingIdle ==
  /\ NoClose \in ACloser /\ NoClose.step = "idle"
  /\ NoClassify \in AClassifier /\ NoClassify.step = "idle"
  /\ Idle \in ASurveyor /\ Idle.step = "idle"
  /\ NoForm \in AForm /\ NoForm.step = "closed"
BY DEF NoClose, NoClassify, Idle, NoForm, NoJob, ACloser, AClassifier, ASurveyor, AForm

LEMMA ExcuseTyped ==
  ASSUME NEW ts, NEW why \in {"lost", "off", "swallowed", "gaveUp", "died"}, survey \in [Tickets -> ASurvey]
  PROVE  Excuse(ts, why) \in [Tickets -> ASurvey]
<1>1. ASSUME NEW x \in ASurvey
      PROVE  [x EXCEPT !.excuses = @ \union {why}] \in ASurvey
  BY DEF ASurvey
<1> QED
  BY <1>1 DEF Excuse

LEMMA BrokenTyped ==
  ASSUME survey \in [Tickets -> ASurvey]
  PROVE  Broken \in [Tickets -> ASurvey]
<1>1. ASSUME NEW x \in ASurvey, NEW n \in Nat
      PROVE  [x EXCEPT !.unmarked = n] \in ASurvey /\ [x EXCEPT !.unmarked = n].excuses = x.excuses
  BY DEF ASurvey
<1>2. ASSUME NEW x \in ASurvey, NEW e \in {x.excuses, x.excuses \union {"gaveUp"}}
      PROVE  [x EXCEPT !.excuses = e] \in ASurvey
  BY DEF ASurvey
<1>3. ASSUME NEW t \in Tickets
      PROVE  Broken[t] \in ASurvey
  <2> DEFINE n == IF surveyor.step = "mailed" THEN survey[t].unmarked + 1 ELSE survey[t].unmarked
             e == IF surveyor.job.tries < SurveyRetries THEN survey[t].excuses ELSE survey[t].excuses \union {"gaveUp"}
  <2>1. n \in Nat /\ e \in {survey[t].excuses, survey[t].excuses \union {"gaveUp"}} /\ survey[t] \in ASurvey
    BY DEF ASurvey
  <2>2. Broken[t] = survey[t] \/ Broken[t] = [survey[t] EXCEPT !.unmarked = n, !.excuses = e]
    BY DEF Broken
  <2> HIDE DEF n, e
  <2>3. [survey[t] EXCEPT !.unmarked = n, !.excuses = e] \in ASurvey
    BY <1>1, <1>2, <2>1
  <2> QED BY <2>1, <2>2, <2>3
<1> QED
  BY <1>3 DEF Broken

LEMMA CountedTyped ==
  ASSUME TopicsTyped, NEW previous, NEW k \in Topics
  PROVE  Counted(previous, k) \in [Topics -> Int]
BY DEF TopicsTyped, Counted

LEMMA MarkedTyped ==
  ASSUME NEW x \in ASurvey, NEW n \in Nat, NEW b \in BOOLEAN
  PROVE  /\ [x EXCEPT !.mails = n] \in ASurvey
         /\ [x EXCEPT !.marker = TRUE] \in ASurvey
         /\ [x EXCEPT !.together = b] \in ASurvey
         /\ [x EXCEPT !.stars = n] \in ASurvey /\ [x EXCEPT !.stars = n].accepted = x.accepted
         /\ [x EXCEPT !.accepted = n] \in ASurvey
BY DEF ASurvey

\* A step of what follows a resolution keeps its types.
LEMMA ClosingTyped ==
  ASSUME ClosingTypeOK, ClosingNext
  PROVE  ClosingTypeOK'
<1>t. /\ ClosersTyped /\ TopicsTyped
      /\ survey \in [Tickets -> ASurvey]
      /\ About(toClassify, Tickets) /\ About(toSurvey, Tickets)
      /\ ClassifierTyped /\ SurveyorTyped /\ FormsTyped
  BY ClosingTypes
<1> DEFINE Typed == /\ ClosersTyped' /\ TopicsTyped'
                    /\ survey' \in [Tickets -> ASurvey]
                    /\ About(toClassify', Tickets) /\ About(toSurvey', Tickets)
                    /\ ClassifierTyped' /\ SurveyorTyped' /\ FormsTyped'
<1>s. SUFFICES Typed
  BY DEF ClosingTypeOK, ClosersTyped, TopicsTyped, ClassifierTyped, SurveyorTyped, FormsTyped,
         ASurvey, ACloser, AClassifier, ASurveyor, AForm
<1>a. UNCHANGED topicVars => TopicsTyped'
  BY <1>t DEF topicVars, TopicsTyped
<1>b. UNCHANGED closerVars => ClosersTyped'
  BY <1>t DEF closerVars, ClosersTyped
<1>c. UNCHANGED classifier => ClassifierTyped'
  BY <1>t DEF ClassifierTyped
<1>d. UNCHANGED surveyor => SurveyorTyped'
  BY <1>t DEF SurveyorTyped
<1>e. UNCHANGED form => FormsTyped'
  BY <1>t DEF FormsTyped
<1>1. ASSUME NEW c \in Closers, NEW t \in Tickets, ReadsToClose(c, t) PROVE Typed
  <2>1. ClosersTyped'
    BY <1>t, <1>1, SurveyAssumption DEF ReadsToClose, ClosersTyped, ACloser
  <2> QED BY <1>t, <1>1, <2>1, <1>a, <1>c, <1>d, <1>e DEF ReadsToClose, workVars
<1>2. ASSUME NEW c \in Closers, Resolves(c) PROVE Typed
  <2>1. closer' \in [Closers -> ACloser]
    BY <1>t, <1>2, ClosingIdle DEF Resolves, ClosersTyped, ACloser
  <2>2. closer[c].of \in Tickets
    BY <1>t, <1>2 DEF Resolves, ClosersTyped
  <2>3. ClosersTyped'
    BY <1>t, <1>2, <2>1, <2>2, ClosingIdle DEF Resolves, ClosersTyped, ACloser
  <2> QED BY <1>t, <1>2, <2>3, <1>a, <1>c, <1>d, <1>e DEF Resolves, workVars
<1>3. ASSUME NEW c \in Closers, Enqueues(c) PROVE Typed
  <2>1. closer[c].of \in Tickets
    BY <1>t, <1>3 DEF Enqueues, ClosersTyped
  <2>2. ClosersTyped'
    BY <1>t, <1>3, ClosingIdle DEF Enqueues, ClosersTyped
  <2>3. About(toClassify', Tickets) /\ About(toSurvey', Tickets)
    BY <1>t, <1>3, <2>1, AboutOne DEF Enqueues
  <2>4. survey' \in [Tickets -> ASurvey]
    BY <1>t, <1>3, ExcuseTyped DEF Enqueues
  <2> QED BY <1>t, <1>3, <2>2, <2>3, <2>4, <1>a, <1>c, <1>d, <1>e DEF Enqueues
<1>4. ASSUME NEW t \in Tickets, Reopens(t) PROVE Typed
  <2>1. ClosersTyped'
    BY <1>t, <1>4 DEF Reopens, ClosersTyped
  <2> QED BY <1>t, <1>4, <2>1, <1>a, <1>c, <1>d, <1>e DEF Reopens, workVars
<1>5. ASSUME NEW j \in BagToSet(toClassify), ReadsTopic(j) PROVE Typed
  <2>1. About(toClassify', Tickets) /\ j \in [of : Tickets, tries : Nat]
    BY <1>t, <1>5, AboutTaken DEF ReadsTopic
  <2>2. topicId[j.of] \in Topics \union {NoTopic}
    BY <1>t, <2>1 DEF TopicsTyped
  <2>3. ClassifierTyped'
    BY <1>t, <1>5, <2>1, <2>2 DEF ReadsTopic, ClassifierTyped, AClassifier
  <2> QED BY <1>t, <1>5, <2>1, <2>3, <1>a, <1>b, <1>d, <1>e DEF ReadsTopic
<1>6. ASSUME NEW k \in Topics, Names(k) PROVE Typed
  <2>1. ClassifierTyped'
    BY <1>t, <1>6 DEF Names, ClassifierTyped, AClassifier
  <2> QED BY <1>t, <1>6, <2>1, <1>a, <1>b, <1>d, <1>e DEF Names
<1>7. ASSUME Files PROVE Typed
  <2>1. ClassifierTyped'
    BY <1>t, <1>7 DEF Files, ClassifierTyped, AClassifier
  <2>2. TopicsTyped'
    BY <1>t, <1>7, CountedTyped DEF Files, ClassifierTyped, TopicsTyped
  <2> QED BY <1>t, <1>7, <2>1, <2>2, <1>b, <1>d, <1>e DEF Files
<1>8. ASSUME EndsFiling PROVE Typed
  <2>1. ClassifierTyped'
    BY <1>8, ClosingIdle DEF EndsFiling, ClassifierTyped
  <2> QED BY <1>t, <1>8, <2>1, <1>a, <1>b, <1>d, <1>e DEF EndsFiling
<1>9. ASSUME NEW again \in BOOLEAN, FilingFails(again) PROVE Typed
  <2>1. classifier.job \in [of : Tickets, tries : Nat]
    BY <1>t, <1>9 DEF FilingFails, ClassifierTyped, AClassifier
  <2>2. About(toClassify', Tickets)
    BY <1>t, <1>9, <2>1, AboutRetried DEF FilingFails
  <2>3. ClassifierTyped'
    BY <1>9, ClosingIdle DEF FilingFails, ClassifierTyped
  <2> QED BY <1>t, <1>9, <2>2, <2>3, <1>a, <1>b, <1>d, <1>e DEF FilingFails
<1>10. ASSUME NEW j \in BagToSet(toSurvey), Checks(j) PROVE Typed
  <2>1. About(toSurvey', Tickets) /\ j \in [of : Tickets, tries : Nat]
    BY <1>t, <1>10, AboutTaken DEF Checks
  <2>2. SurveyorTyped'
    BY <1>t, <1>10, <2>1 DEF Checks, SurveyorTyped, ASurveyor
  <2>3. survey' \in [Tickets -> ASurvey]
    BY <1>t, <1>10, ExcuseTyped DEF Checks
  <2> QED BY <1>t, <1>10, <2>1, <2>2, <2>3, <1>a, <1>b, <1>c, <1>e DEF Checks
<1>11. ASSUME Mails PROVE Typed
  <2>1. surveyor.job.of \in Tickets
    BY <1>t, <1>11 DEF Mails, SurveyorTyped
  <2>2. [survey[surveyor.job.of] EXCEPT !.mails = @ + 1] \in ASurvey
    <3>1. survey[surveyor.job.of] \in ASurvey /\ survey[surveyor.job.of].mails + 1 \in Nat
      BY <1>t, <2>1 DEF ASurvey
    <3> QED BY <3>1, MarkedTyped
  <2>3. survey' \in [Tickets -> ASurvey]
    BY <1>t, <1>11, <2>1, <2>2 DEF Mails, Sends
  <2>4. SurveyorTyped'
    BY <1>t, <1>11 DEF Mails, Sends, SurveyorTyped, ASurveyor
  <2> QED BY <1>t, <1>11, <2>3, <2>4, <1>a, <1>b, <1>c, <1>e DEF Mails, Sends
<1>12. ASSUME MailSwallowed PROVE Typed
  <2>1. survey' \in [Tickets -> ASurvey]
    BY <1>t, <1>12, ExcuseTyped DEF MailSwallowed, Sends
  <2>2. SurveyorTyped'
    BY <1>t, <1>12 DEF MailSwallowed, Sends, SurveyorTyped, ASurveyor
  <2> QED BY <1>t, <1>12, <2>1, <2>2, <1>a, <1>b, <1>c, <1>e DEF MailSwallowed, Sends
<1>13. ASSUME Marks PROVE Typed
  <2>1. surveyor.job.of \in Tickets
    BY <1>t, <1>13 DEF Marks, SurveyorTyped
  <2>2. survey' \in [Tickets -> ASurvey]
    BY <1>t, <1>13, <2>1, MarkedTyped DEF Marks, Sends
  <2>3. SurveyorTyped'
    BY <1>t, <1>13 DEF Marks, Sends, SurveyorTyped, ASurveyor
  <2> QED BY <1>t, <1>13, <2>2, <2>3, <1>a, <1>b, <1>c, <1>e DEF Marks, Sends
<1>14. ASSUME EndsSurvey PROVE Typed
  <2>1. SurveyorTyped'
    BY <1>t, <1>14 DEF EndsSurvey, Sends, SurveyorTyped, ASurveyor
  <2> QED BY <1>t, <1>14, <2>1, <1>a, <1>b, <1>c, <1>e DEF EndsSurvey, Sends
<1>15. ASSUME SurveyFails PROVE Typed
  <2>1. surveyor.job \in [of : Tickets, tries : Nat]
    BY <1>t, <1>15 DEF SurveyFails, SurveyorTyped, ASurveyor
  <2>2. About(toSurvey', Tickets)
    BY <1>t, <1>15, <2>1, AboutRetried DEF SurveyFails
  <2>3. SurveyorTyped'
    BY <1>15, ClosingIdle DEF SurveyFails, SurveyorTyped
  <2> QED BY <1>t, <1>15, <2>2, <2>3, <1>a, <1>b, <1>c, <1>e, BrokenTyped DEF SurveyFails
<1>16. ASSUME NEW f \in Forms, NEW t \in Tickets, NEW n \in Stars, Posts(f, t, n) PROVE Typed
  <2>1. FormsTyped'
    BY <1>t, <1>16 DEF Posts, FormsTyped, AForm
  <2> QED BY <1>t, <1>16, <2>1, <1>a, <1>b, <1>c, <1>d DEF Posts, workVars
<1>17. ASSUME NEW f \in Forms, Accepts(f) PROVE Typed
  <2>1. FormsTyped'
    BY <1>t, <1>17 DEF Accepts, FormsTyped, AForm
  <2>2. survey' \in [Tickets -> ASurvey]
    <3>1. CASE UNCHANGED survey
      BY <1>t, <3>1
    <3>2. CASE survey' = [survey EXCEPT ![form[f].of].together = @ \/ Together(f)]
      <4> DEFINE b == survey[form[f].of].together \/ Together(f)
      <4>1. b \in BOOLEAN /\ form[f].of \in Tickets /\ survey[form[f].of] \in ASurvey
        BY <1>t, <1>17 DEF Accepts, FormsTyped
      <4> HIDE DEF b
      <4>2. [survey[form[f].of] EXCEPT !.together = b] \in ASurvey
        BY <4>1, MarkedTyped
      <4>3. survey' = [survey EXCEPT ![form[f].of] = [@ EXCEPT !.together = b]]
        BY <3>2 DEF b
      <4> QED BY <1>t, <4>1, <4>2, <4>3
    <3> QED BY <1>17, <3>1, <3>2 DEF Accepts
  <2> QED BY <1>t, <1>17, <2>1, <2>2, <1>a, <1>b, <1>c, <1>d DEF Accepts, workVars
<1>18. ASSUME NEW f \in Forms, Rates(f) PROVE Typed
  <2>1. FormsTyped'
    BY <1>t, <1>18 DEF Rates, FormsTyped, AForm
  <2>2. form[f].of \in Tickets /\ form[f].stars \in Nat
    BY <1>t, <1>18, SurveyAssumption DEF Rates, FormsTyped, AForm
  <2>3. [survey[form[f].of] EXCEPT !.stars = form[f].stars, !.accepted = @ + 1] \in ASurvey
    <3>1. survey[form[f].of] \in ASurvey /\ survey[form[f].of].accepted + 1 \in Nat
      BY <1>t, <2>2 DEF ASurvey
    <3> QED BY <2>2, <3>1, MarkedTyped
  <2>4. survey' \in [Tickets -> ASurvey]
    BY <1>t, <1>18, <2>2, <2>3 DEF Rates
  <2> QED BY <1>t, <1>18, <2>1, <2>4, <1>a, <1>b, <1>c, <1>d DEF Rates, workVars
<1> QED
  BY <1>1, <1>2, <1>3, <1>4, <1>5, <1>6, <1>7, <1>8, <1>9, <1>10, <1>11, <1>12, <1>13, <1>14, <1>15, <1>16, <1>17, <1>18
     DEF ClosingNext, Classifies, Surveys

LEMMA ClosingDiesTyped ==
  ASSUME ClosingTypeOK, ClosingDies
  PROVE  ClosingTypeOK'
<1>t. /\ ClosersTyped /\ TopicsTyped
      /\ survey \in [Tickets -> ASurvey]
      /\ About(toClassify, Tickets) /\ About(toSurvey, Tickets)
      /\ ClassifierTyped /\ SurveyorTyped /\ FormsTyped
  BY ClosingTypes
<1>1. ClosersTyped' /\ TopicsTyped' /\ ClassifierTyped' /\ SurveyorTyped' /\ FormsTyped'
  <2>1. ClosersTyped'
    BY <1>t, ClosingIdle DEF ClosingDies, ClosersTyped
  <2>2. TopicsTyped'
    BY <1>t DEF ClosingDies, TopicsTyped, topicVars
  <2>3. ClassifierTyped'
    BY ClosingIdle DEF ClosingDies, ClassifierTyped
  <2>4. SurveyorTyped'
    BY ClosingIdle DEF ClosingDies, SurveyorTyped
  <2>5. FormsTyped'
    BY <1>t, ClosingIdle DEF ClosingDies, FormsTyped
  <2> QED BY <2>1, <2>2, <2>3, <2>4, <2>5
<1>2. About(toClassify', Tickets)
  <2>1. CASE classifier.step = "idle"
    BY <1>t, <2>1 DEF ClosingDies
  <2>2. CASE classifier.step # "idle"
    <3>1. classifier.job \in [of : Tickets, tries : Nat]
      BY <1>t, <2>2 DEF ClassifierTyped, AClassifier
    <3> QED BY <1>t, <2>2, <3>1, AboutRetried DEF ClosingDies
  <2> QED BY <2>1, <2>2
<1>3. About(toSurvey', Tickets)
  <2>1. CASE surveyor.step = "idle"
    BY <1>t, <2>1 DEF ClosingDies
  <2>2. CASE surveyor.step # "idle"
    <3>1. surveyor.job \in [of : Tickets, tries : Nat]
      BY <1>t, <2>2 DEF SurveyorTyped, ASurveyor
    <3> QED BY <1>t, <2>2, <3>1, AboutRetried DEF ClosingDies
  <2> QED BY <2>1, <2>2
<1>4. survey' \in [Tickets -> ASurvey]
  <2>1. ASSUME NEW x \in ASurvey
        PROVE  [x EXCEPT !.excuses = @ \union {"died"}] \in ASurvey
    BY DEF ASurvey
  <2> QED BY <1>t, <2>1, BrokenTyped DEF ClosingDies
<1> QED
  BY <1>1, <1>2, <1>3, <1>4
     DEF ClosingTypeOK, ClosersTyped, TopicsTyped, ClassifierTyped, SurveyorTyped, FormsTyped,
         ASurvey, ACloser, AClassifier, ASurveyor, AForm

InsightTypeOK == AnalysisTypeOK /\ ClosingTypeOK

LEMMA TypesStart ==
  ASSUME InsightInit
  PROVE  InsightTypeOK
<1>1. AnalysisTypeOK
  BY AboutEmpty DEF InsightInit, AnalysisInit, AnalysisTypeOK, NoMsg, NoAnalysis, NoJob, Priorities
<1>2. survey \in [Tickets -> ASurvey]
  BY DEF InsightInit, ClosingInit, NoSurvey, ASurvey
<1>3. ClosersTyped /\ TopicsTyped /\ ClassifierTyped /\ SurveyorTyped /\ FormsTyped
  BY ClosingIdle, SurveyAssumption
     DEF InsightInit, ClosingInit, ClosersTyped, TopicsTyped, ClassifierTyped, SurveyorTyped, FormsTyped
<1>4. About(toClassify, Tickets) /\ About(toSurvey, Tickets)
  BY AboutEmpty DEF InsightInit, ClosingInit
<1> QED
  BY <1>1, <1>2, <1>3, <1>4, ClosingTypes DEF InsightTypeOK

LEMMA AnalysisSame ==
  ASSUME UNCHANGED analysisVars
  PROVE  (AnalysisTypeOK <=> AnalysisTypeOK') 
BY DEF analysisVars, AnalysisTypeOK, About

LEMMA ClosingSame ==
  ASSUME UNCHANGED closingVars
  PROVE  (ClosingTypeOK <=> ClosingTypeOK')
BY DEF closingVars, topicVars, closerVars, workVars, ClosingTypeOK, About

LEMMA TypesKept ==
  ASSUME InsightTypeOK, [InsightNext]_insightVars
  PROVE  InsightTypeOK'
<1>1. CASE AnalysisNext /\ UNCHANGED closingVars
  BY <1>1, AnalysisTyped, ClosingSame DEF InsightTypeOK
<1>2. CASE ClosingNext /\ UNCHANGED analysisVars
  BY <1>2, ClosingTyped, AnalysisSame DEF InsightTypeOK
<1>3. CASE UNCHANGED <<analysisVars, closingVars>>
  BY <1>3, AnalysisSame, ClosingSame DEF InsightTypeOK
<1>4. CASE Dies
  BY <1>4, AnalysisDiesTyped, ClosingDiesTyped DEF InsightTypeOK, Dies
<1> QED
  BY <1>1, <1>2, <1>3, <1>4 DEF InsightNext, insightVars

\* Every variable of the two parts has its type: jobs that wait are about messages and
\* tickets, workers and handlers at work hold one.
THEOREM InsightTyped == InsightSpec => []InsightTypeOK
<1>1. InsightInit => InsightTypeOK
  BY TypesStart
<1>2. InsightTypeOK /\ [InsightNext]_insightVars => InsightTypeOK'
  BY TypesKept
<1> QED
  BY <1>1, <1>2, PTL DEF InsightSpec

-----------------------------------------------------------------------------
(***************************************************************************)
(* The analysis.                                                           *)
(***************************************************************************)
\* Nothing was judged, and the worker went on with the same message or let go of it.
Unjudged == \A m \in Msgs : msg'[m].analysed = msg[m].analysed /\ msg'[m].signals = msg[m].signals
SameWork == analyser' = analyser \/ analyser'.step \notin {"asked", "judged"}
SameChoice == desk'.priority = desk.priority /\ desk'.chosen = desk.chosen /\ desk'.crossed = desk.crossed /\ (desk.isTicket => desk'.isTicket)

LEMMA UnjudgedKept ==
  ASSUME AnalysisTypeOK, AnalysisInv, AnalysisHonest, Unjudged, SameWork, SameChoice
  PROVE  AnalysisInv' /\ AnalysisHonest'
<1>1. analyser.step \in {"asked", "judged"} => analyser.job.of \in Msgs
  BY DEF AnalysisTypeOK
<1>2. AnalysisInv'
  BY <1>1 DEF AnalysisInv, Unjudged, SameWork, SameChoice
<1>3. AnalysedOnce'
  BY DEF AnalysisHonest, AnalysedOnce, Unjudged, SameChoice
<1>4. ChoiceStands'
  BY DEF AnalysisHonest, ChoiceStands, SameChoice
<1> QED
  BY <1>2, <1>3, <1>4 DEF AnalysisHonest

LEMMA ExcusedUnjudged ==
  ASSUME NEW ms, NEW why, AnalysisTypeOK, msg' = Excused(ms, why)
  PROVE  Unjudged
<1>1. ASSUME NEW m \in Msgs
      PROVE  msg[m] \in AMessage
  BY AnalysisTypes
<1> QED
  BY <1>1 DEF Excused, Unjudged, AMessage

LEMMA AnalysisKept ==
  ASSUME AnalysisTypeOK, AnalysisInv, AnalysisHonest, AnalysisNext
  PROVE  AnalysisInv' /\ AnalysisHonest'
<1>t. /\ desk \in ADesk
      /\ msg \in [Msgs -> AMessage]
      /\ About(toAnalyse, Msgs)
      /\ analyser \in AnAnalyser
      /\ analyser.step # "idle" => analyser.job.of \in Msgs
  BY AnalysisTypes
<1> DEFINE Kept == AnalysisInv' /\ AnalysisHonest'
<1>s. UNCHANGED desk => SameChoice
  BY DEF SameChoice
<1>w. UNCHANGED analyser => SameWork
  BY DEF SameWork
<1>u. UNCHANGED msg => Unjudged
  BY DEF Unjudged
<1>n. analyser' = NoAnalysis => SameWork
  BY DEF SameWork, NoAnalysis
<1>1. ASSUME NEW m \in Msgs, Reads(m) PROVE Kept
  <2>1. Unjudged
    BY <1>t, <1>1 DEF Reads, Unjudged, AMessage
  <2> QED BY <1>1, <2>1, <1>s, <1>w, UnjudgedKept DEF Reads
<1>2. ASSUME NEW m \in Msgs, Stores(m) PROVE Kept
  <2>1. Unjudged
    BY <1>t, <1>2 DEF Stores, Unjudged, AMessage
  <2> QED BY <1>2, <2>1, <1>s, <1>w, UnjudgedKept DEF Stores
<1>3. ASSUME NEW m \in Msgs, Announces(m) PROVE Kept
  <2>1. Unjudged
    BY <1>t, <1>3 DEF Announces, Unjudged, AMessage
  <2> QED BY <1>3, <2>1, <1>s, <1>w, UnjudgedKept DEF Announces
<1>4. ASSUME NEW m \in Msgs, AnnounceFails(m) PROVE Kept
  <2>1. Unjudged
    BY <1>t, <1>4 DEF AnnounceFails, Unjudged, AMessage
  <2> QED BY <1>4, <2>1, <1>s, <1>w, UnjudgedKept DEF AnnounceFails
<1>5. ASSUME NEW a \in Agents, StartsConvert(a) PROVE Kept
  BY <1>5, <1>s, <1>w, <1>u, UnjudgedKept DEF StartsConvert
<1>6. ASSUME NEW a \in Agents, Converts(a) PROVE Kept
  <2>1. SameChoice
    BY <1>t, <1>6 DEF Converts, SameChoice, ADesk
  <2> QED BY <1>6, <2>1, <1>w, <1>u, UnjudgedKept DEF Converts
<1>7. ASSUME NEW a \in Agents, Backfills(a) PROVE Kept
  <2>1. Unjudged
    BY <1>7, ExcusedUnjudged DEF Backfills
  <2> QED BY <1>7, <2>1, <1>s, <1>w, UnjudgedKept DEF Backfills
<1>8. ASSUME NEW p \in Priorities, Chooses(p) PROVE Kept
  <2>1. desk'.isTicket = desk.isTicket /\ desk'.priority = p /\ desk'.chosen = p
    BY <1>t, <1>8 DEF Chooses, ADesk
  <2>2. analyser.step \in {"asked", "judged"} /\ analyser.priority = "NORMAL" => desk'.crossed
    BY <1>t, <1>8 DEF Chooses, ADesk
  <2>3. AnalysisInv'
    BY <1>8, <2>1, <2>2 DEF Chooses, AnalysisInv
  <2>4. AnalysisHonest'
    BY <1>8, <2>1 DEF Chooses, AnalysisHonest, AnalysedOnce, ChoiceStands
  <2> QED BY <2>3, <2>4
<1>9. ASSUME NEW j \in BagToSet(toAnalyse), Looks(j) PROVE Kept
  <2>1. CASE analyser' = [step |-> "asked", job |-> j, priority |-> desk.priority] /\ UNCHANGED msg
             /\ "aiAnalysis" \notin off /\ ~(msg[j.of].analysed \/ ~desk.isTicket)
    <3>1. AnalysisInv'
      BY <1>9, <2>1 DEF Looks, AnalysisInv, AnalysisHonest, ChoiceStands
    <3>2. AnalysisHonest'
      BY <1>9, <2>1 DEF Looks, AnalysisHonest, AnalysedOnce, ChoiceStands
    <3> QED BY <3>1, <3>2
  <2>2. CASE msg' = Excused({j.of}, "off") /\ UNCHANGED analyser
    <3>1. Unjudged
      BY <2>2, ExcusedUnjudged
    <3> QED BY <1>9, <2>2, <3>1, <1>s, <1>w, UnjudgedKept DEF Looks
  <2>3. CASE UNCHANGED <<msg, analyser>>
    BY <1>9, <2>3, <1>s, <1>w, <1>u, UnjudgedKept DEF Looks
  <2> QED BY <1>9, <2>1, <2>2, <2>3 DEF Looks
<1>10. ASSUME Judges PROVE Kept
  <2>1. analyser'.job = analyser.job /\ analyser'.priority = analyser.priority /\ analyser.step = "asked"
    BY <1>t, <1>10 DEF Judges, AnAnalyser
  <2>2. AnalysisInv'
    BY <1>10, <2>1 DEF Judges, AnalysisInv
  <2>3. AnalysisHonest'
    BY <1>10 DEF Judges, AnalysisHonest, AnalysedOnce, ChoiceStands
  <2> QED BY <2>2, <2>3
<1>11. ASSUME NEW leaves \in BOOLEAN, Records(leaves) PROVE Kept
  <2> DEFINE at == analyser.job.of
  <2>1. at \in Msgs /\ ~msg[at].analysed /\ msg[at].signals = 0 /\ desk.isTicket
    BY <1>t, <1>11 DEF Records, AnalysisInv
  <2>2. /\ msg'[at].analysed /\ msg'[at].signals \in {0, 1}
        /\ \A m \in Msgs \ {at} : msg'[m] = msg[m]
    BY <1>t, <1>11, <2>1 DEF Records, AMessage
  <2>3. desk'.isTicket /\ desk'.chosen = desk.chosen /\ desk'.crossed = desk.crossed
    BY <1>t, <1>11, <2>1 DEF Records, ADesk
  <2>4. desk'.priority = desk.priority \/ analyser.priority = "NORMAL"
    BY <1>t, <1>11 DEF Records, ADesk
  <2>5. analyser'.step = "recorded"
    BY <1>t, <1>11 DEF Records, AnAnalyser
  <2>6. AnalysisInv'
    BY <2>2, <2>5 DEF AnalysisInv
  <2>7. AnalysedOnce'
    <3>1. ASSUME NEW m \in Msgs
          PROVE  msg'[m].signals <= 1 /\ (msg'[m].signals = 1 => msg'[m].analysed)
      <4>1. CASE m = at
        BY <2>2, <4>1
      <4>2. CASE m # at
        BY <2>2, <4>2 DEF AnalysisHonest, AnalysedOnce
      <4> QED BY <4>1, <4>2
    <3> QED BY <3>1, <2>3 DEF AnalysedOnce
  <2>8. ChoiceStands'
    BY <1>11, <2>3, <2>4 DEF Records, AnalysisInv, AnalysisHonest, ChoiceStands
  <2> QED BY <2>6, <2>7, <2>8 DEF AnalysisHonest
<1>12. ASSUME Completes PROVE Kept
  BY <1>12, <1>s, <1>n, <1>u, UnjudgedKept DEF Completes
<1>13. ASSUME NEW again \in BOOLEAN, AttemptFails(again) PROVE Kept
  <2>1. Unjudged
    BY <1>13, ExcusedUnjudged DEF AttemptFails
  <2> QED BY <1>13, <2>1, <1>s, <1>n, UnjudgedKept DEF AttemptFails
<1> QED
  BY <1>1, <1>2, <1>3, <1>4, <1>5, <1>6, <1>7, <1>8, <1>9, <1>10, <1>11, <1>12, <1>13 DEF AnalysisNext, Works

LEMMA AnalysisDiesKept ==
  ASSUME AnalysisTypeOK, AnalysisInv, AnalysisHonest, AnalysisDies
  PROVE  AnalysisInv' /\ AnalysisHonest'
<1>1. ASSUME NEW m \in Msgs
      PROVE  msg[m] \in AMessage
  BY AnalysisTypes
<1>2. Unjudged
  BY <1>1 DEF AnalysisDies, Unjudged, AMessage
<1>3. SameWork /\ SameChoice
  BY DEF AnalysisDies, SameWork, SameChoice, NoAnalysis
<1> QED
  BY <1>2, <1>3, UnjudgedKept

\* analyze-message.worker: a message is analysed at most once and on a real ticket only,
\* and an agent's choice of a priority is outvoted only by an analysis that had read the
\* priority before he chose.
THEOREM AnalysisIsHonest == InsightSpec => []AnalysisHonest
<1> DEFINE IInv == AnalysisTypeOK /\ AnalysisInv /\ AnalysisHonest
<1>1. InsightInit => IInv
  <2> SUFFICES ASSUME InsightInit PROVE IInv
    OBVIOUS
  <2>1. AnalysisTypeOK
    BY TypesStart DEF InsightTypeOK
  <2>2. AnalysisInv /\ AnalysisHonest
    BY DEF InsightInit, AnalysisInit, AnalysisInv, AnalysisHonest, AnalysedOnce, ChoiceStands, NoMsg, NoAnalysis
  <2> QED BY <2>1, <2>2
<1>2. IInv /\ [InsightNext]_insightVars => IInv'
  <2> SUFFICES ASSUME IInv, [InsightNext]_insightVars PROVE IInv'
    OBVIOUS
  <2>1. CASE AnalysisNext
    BY <2>1, AnalysisTyped, AnalysisKept
  <2>2. CASE UNCHANGED analysisVars
    <3>1. Unjudged /\ SameWork /\ SameChoice
      BY <2>2 DEF analysisVars, Unjudged, SameWork, SameChoice
    <3> QED BY <2>2, <3>1, AnalysisSame, UnjudgedKept
  <2>3. CASE AnalysisDies
    BY <2>3, AnalysisDiesTyped, AnalysisDiesKept
  <2> QED BY <2>1, <2>2, <2>3 DEF InsightNext, insightVars, Dies
<1>3. IInv => AnalysisHonest
  OBVIOUS
<1> QED
  BY <1>1, <1>2, <1>3, PTL DEF InsightSpec

-----------------------------------------------------------------------------
(***************************************************************************)
(* The counters of the topics.                                             *)
(***************************************************************************)
FiledUnder(k) == {t \in Tickets : topicId[t] = k}

LEMMA TopicsUntouched ==
  ASSUME TopicInv, CountersMatch, UNCHANGED topicVars,
         UNCHANGED classifier \/ classifier'.step \notin {"asked", "named"}
  PROVE  TopicInv' /\ CountersMatch'
BY DEF TopicInv, CountersMatch, topicVars

LEMMA FilesCounts ==
  ASSUME ClosingTypeOK, TopicInv, CountersMatch, Files
  PROVE  CountersMatch'
<1> DEFINE t == classifier.job.of
           k == classifier.topic
           was == topicId[t]
<1>1. /\ t \in Tickets /\ k \in Topics /\ classifier.previous = was
      /\ topicId \in [Tickets -> Topics \union {NoTopic}] /\ ticketCount \in [Topics -> Int]
  BY ClosingTypes DEF ClassifierTyped, TopicsTyped, Files, TopicInv
<1>2. topicId' = [topicId EXCEPT ![t] = k] /\ ticketCount' = Counted(was, k)
  BY <1>1 DEF Files
<1> HIDE DEF t, k, was
<1>3. ASSUME NEW x \in Topics
      PROVE  IsFiniteSet(FiledUnder(x)) /\ Cardinality(FiledUnder(x)) \in Nat /\ ticketCount[x] = Cardinality(FiledUnder(x))
  <2>1. FiledUnder(x) \subseteq Tickets
    BY DEF FiledUnder
  <2>2. IsFiniteSet(FiledUnder(x))
    BY <2>1, SurveyAssumption, FS_Subset
  <2> QED BY <2>2, FS_CardinalityType DEF CountersMatch, FiledUnder
<1>4. was = topicId[t]
  BY DEF was
<1>5. ASSUME NEW x \in Topics
      PROVE  ticketCount'[x] = Cardinality(FiledUnder(x)')
  <2>1. CASE was = k \/ (x # k /\ x # was)
    <3>1. FiledUnder(x)' = FiledUnder(x)
      BY <1>1, <1>2, <1>4, <2>1 DEF FiledUnder
    <3>2. ticketCount'[x] = ticketCount[x]
      BY <1>2, <2>1 DEF Counted
    <3> QED BY <1>3, <3>1, <3>2
  <2>2. CASE was # k /\ x = k
    <3>1. FiledUnder(x)' = FiledUnder(x) \union {t} /\ t \notin FiledUnder(x)
      BY <1>1, <1>2, <1>4, <2>2 DEF FiledUnder
    <3>2. ticketCount'[x] = ticketCount[x] + 1
      BY <1>2, <2>2 DEF Counted
    <3> QED BY <1>3, <3>1, <3>2, FS_AddElement
  <2>3. CASE was # k /\ x = was
    <3>1. FiledUnder(x)' = FiledUnder(x) \ {t} /\ t \in FiledUnder(x)
      BY <1>1, <1>2, <1>4, <2>3 DEF FiledUnder
    <3>2. ticketCount'[x] = ticketCount[x] - 1
      BY <1>2, <2>3 DEF Counted
    <3> QED BY <1>3, <3>1, <3>2, FS_RemoveElement
  <2> QED BY <2>1, <2>2, <2>3
<1> QED
  BY <1>5 DEF CountersMatch, FiledUnder

LEMMA TopicsKept ==
  ASSUME ClosingTypeOK, TopicInv, CountersMatch, ClosingNext
  PROVE  TopicInv' /\ CountersMatch'
<1> DEFINE Quiet == UNCHANGED <<topicVars, classifier>>
<1>q. Quiet => TopicInv' /\ CountersMatch'
  BY TopicsUntouched
<1>1. ASSUME NEW c \in Closers, (\E t \in Tickets : ReadsToClose(c, t)) \/ Resolves(c) \/ Enqueues(c)
      PROVE  Quiet
  BY <1>1 DEF ReadsToClose, Resolves, Enqueues, workVars
<1>2. ASSUME NEW t \in Tickets, Reopens(t) PROVE Quiet
  BY <1>2 DEF Reopens, workVars
<1>3. ASSUME NEW j \in BagToSet(toClassify), ReadsTopic(j) PROVE TopicInv' /\ CountersMatch'
  BY <1>3 DEF ReadsTopic, TopicInv, CountersMatch, topicVars
<1>4. ASSUME NEW k \in Topics, Names(k) PROVE TopicInv' /\ CountersMatch'
  <2>1. classifier'.job = classifier.job /\ classifier'.previous = classifier.previous
    BY <1>4, ClosingTypes DEF Names, ClassifierTyped, AClassifier
  <2> QED BY <1>4, <2>1 DEF Names, TopicInv, CountersMatch, topicVars
<1>5. ASSUME Files PROVE TopicInv' /\ CountersMatch'
  <2>1. classifier'.step = "filed"
    BY <1>5, ClosingTypes DEF Files, ClassifierTyped, AClassifier
  <2> QED BY <1>5, <2>1, FilesCounts DEF TopicInv
<1>6. ASSUME EndsFiling PROVE TopicInv' /\ CountersMatch'
  BY <1>6, TopicsUntouched, ClosingIdle DEF EndsFiling
<1>7. ASSUME NEW again \in BOOLEAN, FilingFails(again) PROVE TopicInv' /\ CountersMatch'
  BY <1>7, TopicsUntouched, ClosingIdle DEF FilingFails
<1>8. ASSUME Surveys \/ MailSwallowed \/ SurveyFails PROVE Quiet
  BY <1>8 DEF Surveys, MailSwallowed, SurveyFails, Checks, Mails, Marks, EndsSurvey, Sends
<1>9. ASSUME NEW f \in Forms, (\E t \in Tickets, n \in Stars : Posts(f, t, n)) \/ Accepts(f) \/ Rates(f)
      PROVE  Quiet
  BY <1>9 DEF Posts, Accepts, Rates, workVars
<1> QED
  BY <1>q, <1>1, <1>2, <1>3, <1>4, <1>5, <1>6, <1>7, <1>8, <1>9 DEF ClosingNext, Classifies

\* classify-ticket.worker: the counter of a topic is the number of tickets filed under
\* it, for any number of tickets and topics.
THEOREM CountersAreRight == InsightSpec => []CountersMatch
<1> DEFINE IInv == ClosingTypeOK /\ TopicInv /\ CountersMatch
<1>1. InsightInit => IInv
  <2> SUFFICES ASSUME InsightInit PROVE IInv
    OBVIOUS
  <2>1. ClosingTypeOK
    BY TypesStart DEF InsightTypeOK
  <2>2. TopicInv
    BY ClosingIdle DEF InsightInit, ClosingInit, TopicInv
  <2>3. CountersMatch
    <3> SUFFICES ASSUME NEW k \in Topics PROVE ticketCount[k] = Cardinality({t \in Tickets : topicId[t] = k})
      BY DEF CountersMatch
    <3>1. {t \in Tickets : topicId[t] = k} = {}
      BY SurveyAssumption DEF InsightInit, ClosingInit
    <3>2. ticketCount[k] = 0
      BY DEF InsightInit, ClosingInit
    <3> QED BY <3>1, <3>2, FS_EmptySet
  <2> QED BY <2>1, <2>2, <2>3
<1>2. IInv /\ [InsightNext]_insightVars => IInv'
  <2> SUFFICES ASSUME IInv, [InsightNext]_insightVars PROVE IInv'
    OBVIOUS
  <2>1. CASE ClosingNext
    BY <2>1, ClosingTyped, TopicsKept
  <2>2. CASE UNCHANGED closingVars
    <3>1. UNCHANGED <<topicVars, classifier>>
      BY <2>2 DEF closingVars, workVars
    <3> QED BY <2>2, <3>1, ClosingSame, TopicsUntouched
  <2>3. CASE ClosingDies
    <3>1. UNCHANGED topicVars /\ classifier'.step = "idle"
      BY <2>3, ClosingIdle DEF ClosingDies
    <3> QED BY <2>3, <3>1, ClosingDiesTyped, TopicsUntouched
  <2> QED BY <2>1, <2>2, <2>3 DEF InsightNext, insightVars, Dies
<1>3. IInv => CountersMatch
  OBVIOUS
<1> QED
  BY <1>1, <1>2, <1>3, PTL DEF InsightSpec

-----------------------------------------------------------------------------
(***************************************************************************)
(* The survey and the rating.                                              *)
(***************************************************************************)
MailedOnce ==
  \A t \in Tickets :
    /\ survey[t].marker => survey[t].mails > 0 \/ "swallowed" \in survey[t].excuses
    /\ survey[t].mails <= 1 + survey[t].unmarked

RatedOnce == \A t \in Tickets : survey[t].accepted > 1 => survey[t].together

\* A submission carries a rating.
FormStars == \A f \in Forms : form[f].step \in {"posted", "accepted"} => form[f].stars \in Stars

LEMMA HonestParts == SurveyHonest <=> MailedOnce /\ RatedOnce
BY DEF SurveyHonest, MailedOnce, RatedOnce

MailInv == SurveyInv /\ MailedOnce
RateInv == RatingInv /\ RatedOnce /\ FormStars

\* What a step that does not mail, or does not rate, leaves alone.
SameMails ==
  \A t \in Tickets :
    /\ survey'[t].marker = survey[t].marker /\ survey'[t].mails = survey[t].mails
    /\ survey'[t].unmarked = survey[t].unmarked /\ survey[t].excuses \subseteq survey'[t].excuses

SameRates ==
  \A t \in Tickets :
    /\ survey'[t].stars = survey[t].stars /\ survey'[t].accepted = survey[t].accepted
    /\ survey'[t].together = survey[t].together

LEMMA MailsUntouched ==
  ASSUME ClosingTypeOK, MailInv, SameMails, UNCHANGED surveyor
  PROVE  MailInv'
<1>1. surveyor.step # "idle" => surveyor.job.of \in Tickets
  BY ClosingTypes DEF SurveyorTyped
<1>2. SurveyInv'
  BY <1>1 DEF MailInv, SurveyInv, SameMails
<1>3. MailedOnce'
  BY DEF MailInv, MailedOnce, SameMails
<1> QED
  BY <1>2, <1>3 DEF MailInv

LEMMA RatesUntouched ==
  ASSUME RateInv, SameRates, UNCHANGED form
  PROVE  RateInv'
BY DEF RateInv, RatingInv, RatedOnce, FormStars, SameRates

LEMMA SurveySame ==
  ASSUME UNCHANGED survey
  PROVE  SameMails /\ SameRates
BY DEF SameMails, SameRates

LEMMA ExcuseSame ==
  ASSUME ClosingTypeOK, NEW ts, NEW why, survey' = Excuse(ts, why)
  PROVE  SameMails /\ SameRates
<1>1. ASSUME NEW t \in Tickets
      PROVE  survey[t] \in ASurvey
  BY ClosingTypes
<1> QED
  BY <1>1 DEF Excuse, SameMails, SameRates, ASurvey

\* An attempt that ends early leaves at most a mail without its marker.
BrokenOff ==
  \A t \in Tickets :
    /\ survey'[t].marker = survey[t].marker /\ survey'[t].mails = survey[t].mails
    /\ survey[t].excuses \subseteq survey'[t].excuses
    /\ survey'[t].unmarked = IF surveyor.step = "mailed" /\ surveyor.job.of = t THEN survey[t].unmarked + 1 ELSE survey[t].unmarked

LEMMA BrokenFacts ==
  ASSUME ClosingTypeOK, NEW t \in Tickets
  PROVE  /\ Broken[t].marker = survey[t].marker /\ Broken[t].mails = survey[t].mails
         /\ survey[t].excuses \subseteq Broken[t].excuses
         /\ Broken[t].unmarked = IF surveyor.step = "mailed" /\ surveyor.job.of = t THEN survey[t].unmarked + 1 ELSE survey[t].unmarked
         /\ Broken[t].stars = survey[t].stars /\ Broken[t].accepted = survey[t].accepted /\ Broken[t].together = survey[t].together
<1>1. survey[t] \in ASurvey
  BY ClosingTypes
<1>2. CASE surveyor.step = "idle" \/ surveyor.job.of # t
  BY <1>2 DEF Broken
<1>3. CASE ~(surveyor.step = "idle" \/ surveyor.job.of # t)
  BY <1>1, <1>3 DEF Broken, ASurvey
<1> QED
  BY <1>2, <1>3

LEMMA BrokenOffKept ==
  ASSUME ClosingTypeOK, MailInv, BrokenOff, surveyor' = Idle
  PROVE  MailInv'
<1>1. ASSUME NEW t \in Tickets
      PROVE  /\ survey[t].mails \in Nat /\ survey[t].unmarked \in Nat
             /\ survey'[t].mails <= 1 + survey'[t].unmarked
             /\ ~survey[t].marker => survey'[t].mails <= survey'[t].unmarked
  <2>1. survey[t].mails \in Nat /\ survey[t].unmarked \in Nat
    BY ClosingTypes DEF ASurvey
  <2>2. survey[t].mails <= 1 + survey[t].unmarked
    BY DEF MailInv, MailedOnce
  <2>3. CASE surveyor.step = "mailed" /\ surveyor.job.of = t
    BY <2>1, <2>2, <2>3 DEF BrokenOff
  <2>4. CASE ~(surveyor.step = "mailed" /\ surveyor.job.of = t)
    <3>1. ~survey[t].marker => survey[t].mails <= survey[t].unmarked
      BY <2>4 DEF MailInv, SurveyInv
    <3>2. survey'[t].unmarked = survey[t].unmarked /\ survey'[t].mails = survey[t].mails
      BY <2>4 DEF BrokenOff
    <3> QED BY <2>1, <2>2, <3>1, <3>2
  <2> QED BY <2>1, <2>3, <2>4
<1>2. SurveyInv'
  BY <1>1, ClosingIdle DEF SurveyInv, BrokenOff
<1>3. MailedOnce'
  BY <1>1 DEF MailInv, MailedOnce, BrokenOff
<1> QED
  BY <1>2, <1>3 DEF MailInv

LEMMA SurveyKept ==
  ASSUME ClosingTypeOK, MailInv, RateInv, ClosingNext
  PROVE  MailInv' /\ RateInv'
<1> DEFINE Kept == MailInv' /\ RateInv'
<1>t. /\ survey \in [Tickets -> ASurvey] /\ surveyor \in ASurveyor /\ form \in [Forms -> AForm]
      /\ surveyor.step # "idle" => surveyor.job.of \in Tickets
      /\ \A f \in Forms : form[f].step # "closed" => form[f].of \in Tickets
  BY ClosingTypes DEF SurveyorTyped, FormsTyped
<1>m. SameMails /\ UNCHANGED surveyor => MailInv'
  BY MailsUntouched
<1>r. SameRates /\ UNCHANGED form => RateInv'
  BY RatesUntouched
<1>q. UNCHANGED <<survey, surveyor, form>> => Kept
  BY <1>m, <1>r, SurveySame
<1>1. ASSUME NEW c \in Closers, (\E t \in Tickets : ReadsToClose(c, t)) \/ Resolves(c) PROVE Kept
  BY <1>1, <1>q DEF ReadsToClose, Resolves, workVars
<1>2. ASSUME NEW c \in Closers, Enqueues(c) PROVE Kept
  <2>1. SameMails /\ SameRates
    BY <1>2, SurveySame, ExcuseSame DEF Enqueues
  <2> QED BY <1>2, <2>1, <1>m, <1>r DEF Enqueues
<1>3. ASSUME NEW t \in Tickets, Reopens(t) PROVE Kept
  BY <1>3, <1>q DEF Reopens, workVars
<1>4. ASSUME Classifies PROVE Kept
  BY <1>4, <1>q DEF Classifies, ReadsTopic, Names, Files, EndsFiling
<1>5. ASSUME NEW again \in BOOLEAN, FilingFails(again) PROVE Kept
  BY <1>5, <1>q DEF FilingFails
<1>6. ASSUME NEW j \in BagToSet(toSurvey), Checks(j) PROVE Kept
  <2>2. CASE surveyor' = [step |-> "checked", job |-> j] /\ UNCHANGED survey /\ ~survey[j.of].marker
    <3>1. surveyor.step = "idle" /\ surveyor'.step = "checked"
      BY <1>6, <2>2 DEF Checks
    <3>2. MailInv'
      BY <2>2, <3>1 DEF MailInv, SurveyInv, MailedOnce
    <3> QED BY <1>6, <2>2, <3>2, <1>r, SurveySame DEF Checks
  <2>3. CASE UNCHANGED surveyor
    <3>1. SameMails /\ SameRates
      BY <1>6, <2>3, SurveySame, ExcuseSame DEF Checks
    <3> QED BY <1>6, <2>3, <3>1, <1>m, <1>r DEF Checks
  <2> QED BY <1>6, <2>2, <2>3 DEF Checks
<1>7. ASSUME Mails PROVE Kept
  <2> DEFINE at == surveyor.job.of
  <2>1. /\ at \in Tickets /\ surveyor.step = "checked" /\ UNCHANGED form
        /\ surveyor'.step = "mailed" /\ surveyor'.job = surveyor.job
    BY <1>t, <1>7 DEF Mails, Sends, ASurveyor
  <2>2. /\ survey' = [survey EXCEPT ![at].mails = @ + 1]
        /\ survey[at] \in ASurvey
    BY <1>t, <1>7, <2>1 DEF Mails, Sends
  <2> HIDE DEF at
  <2>3. /\ survey'[at].mails = survey[at].mails + 1 /\ survey'[at].marker = survey[at].marker
        /\ survey'[at].unmarked = survey[at].unmarked
        /\ survey[at].mails \in Nat /\ survey[at].unmarked \in Nat
        /\ \A t \in Tickets \ {at} : survey'[t] = survey[t]
    BY <1>t, <2>1, <2>2 DEF ASurvey
  <2>4. SameRates
    BY <1>t, <2>1, <2>2 DEF SameRates, ASurvey
  <2>5. ~survey[at].marker /\ survey[at].mails <= survey[at].unmarked
    BY <2>1 DEF MailInv, SurveyInv, at
  <2>6. MailedOnce'
    <3> SUFFICES ASSUME NEW t \in Tickets
                 PROVE  /\ survey'[t].marker => survey'[t].mails > 0 \/ "swallowed" \in survey'[t].excuses
                        /\ survey'[t].mails <= 1 + survey'[t].unmarked
      BY DEF MailedOnce
    <3>1. CASE t = at
      BY <2>3, <2>5, <3>1
    <3>2. CASE t # at
      BY <2>3, <3>2 DEF MailInv, MailedOnce
    <3> QED BY <3>1, <3>2
  <2>7. SurveyInv'
    <3>1. surveyor'.job.of = at
      BY <2>1 DEF at
    <3>2. ~survey'[at].marker /\ survey'[at].mails > 0
      BY <2>3, <2>5
    <3>3. ASSUME NEW t \in Tickets, t # at, ~survey'[t].marker
          PROVE  survey'[t].mails <= survey'[t].unmarked
      BY <2>1, <2>3, <3>3 DEF MailInv, SurveyInv
    <3> QED BY <2>1, <3>1, <3>2, <3>3 DEF SurveyInv
  <2> QED BY <2>1, <2>4, <2>6, <2>7, <1>r DEF MailInv
<1>8. ASSUME MailSwallowed PROVE Kept
  <2> DEFINE at == surveyor.job.of
  <2>1. /\ at \in Tickets /\ surveyor.step = "checked" /\ UNCHANGED form
        /\ surveyor'.step = "mailed" /\ surveyor'.job = surveyor.job
        /\ survey' = Excuse({at}, "swallowed")
    BY <1>t, <1>8 DEF MailSwallowed, Sends, ASurveyor
  <2>2. SameMails /\ SameRates
    BY <2>1, ExcuseSame
  <2>3. "swallowed" \in survey'[at].excuses
    BY <1>t, <2>1 DEF Excuse, ASurvey
  <2>4. SurveyInv'
    BY <2>1, <2>2, <2>3 DEF MailInv, SurveyInv, SameMails
  <2>5. MailedOnce'
    BY <2>2 DEF MailInv, MailedOnce, SameMails
  <2> QED BY <2>1, <2>2, <2>4, <2>5, <1>r DEF MailInv
<1>9. ASSUME Marks PROVE Kept
  <2> DEFINE at == surveyor.job.of
  <2>1. /\ at \in Tickets /\ surveyor.step = "mailed" /\ surveyor'.step = "marked" /\ UNCHANGED form
        /\ survey' = [survey EXCEPT ![at].marker = TRUE]
    BY <1>t, <1>9 DEF Marks, Sends, ASurveyor
  <2>2. /\ survey'[at].marker
        /\ \A t \in Tickets : /\ t # at => survey'[t].marker = survey[t].marker
                              /\ survey'[t].mails = survey[t].mails
                              /\ survey'[t].unmarked = survey[t].unmarked /\ survey'[t].excuses = survey[t].excuses
    <3>1. survey[at] \in ASurvey /\ survey'[at] = [survey[at] EXCEPT !.marker = TRUE]
      BY <1>t, <2>1
    <3>2. /\ survey'[at].marker /\ survey'[at].mails = survey[at].mails
          /\ survey'[at].unmarked = survey[at].unmarked /\ survey'[at].excuses = survey[at].excuses
      BY <3>1 DEF ASurvey
    <3>3. \A t \in Tickets \ {at} : survey'[t] = survey[t]
      BY <1>t, <2>1
    <3> QED BY <3>2, <3>3
  <2>3. SameRates
    BY <1>t, <2>1 DEF SameRates, ASurvey
  <2>4. SurveyInv'
    BY <2>1, <2>2 DEF MailInv, SurveyInv
  <2>5. MailedOnce'
    BY <2>1, <2>2 DEF MailInv, MailedOnce, SurveyInv
  <2> QED BY <2>1, <2>3, <2>4, <2>5, <1>r DEF MailInv
<1>10. ASSUME EndsSurvey PROVE Kept
  <2>1. surveyor.step = "marked" /\ surveyor'.step = "idle" /\ UNCHANGED <<survey, form>>
    BY <1>t, <1>10 DEF EndsSurvey, Sends, ASurveyor
  <2>2. MailInv'
    BY <2>1 DEF MailInv, SurveyInv, MailedOnce
  <2> QED BY <2>1, <2>2, <1>r, SurveySame
<1>11. ASSUME SurveyFails PROVE Kept
  <2>1. BrokenOff /\ SameRates
    BY <1>11, BrokenFacts DEF SurveyFails, BrokenOff, SameRates
  <2> QED BY <1>11, <2>1, <1>r, BrokenOffKept DEF SurveyFails
<1>12. ASSUME NEW f \in Forms, NEW t \in Tickets, NEW n \in Stars, Posts(f, t, n) PROVE Kept
  <2>1. UNCHANGED <<survey, surveyor>>
    BY <1>12 DEF Posts, workVars
  <2>2. form'[f].step = "posted" /\ form'[f].stars = n /\ \A g \in Forms \ {f} : form'[g] = form[g]
    BY <1>t, <1>12 DEF Posts
  <2>3. RateInv'
    BY <2>1, <2>2 DEF RateInv, RatingInv, RatedOnce, FormStars
  <2> QED BY <2>1, <2>3, <1>m, SurveySame
<1>13. ASSUME NEW f \in Forms, Accepts(f) PROVE Kept
  <2>1. UNCHANGED surveyor /\ form[f].step = "posted" /\ form[f].of \in Tickets
    BY <1>t, <1>13 DEF Accepts, workVars
  <2>2. CASE form' = [form EXCEPT ![f].step = "done"] /\ UNCHANGED survey
    <3>1. form'[f].step = "done" /\ \A g \in Forms \ {f} : form'[g] = form[g]
      BY <1>t, <2>2 DEF AForm
    <3>2. RateInv'
      BY <2>2, <3>1 DEF RateInv, RatingInv, RatedOnce, FormStars
    <3> QED BY <2>1, <2>2, <3>2, <1>m, SurveySame
  <2>3. CASE /\ survey[form[f].of].stars = 0
             /\ form' = [form EXCEPT ![f].step = "accepted"]
             /\ survey' = [survey EXCEPT ![form[f].of].together = @ \/ Together(f)]
    <3> DEFINE at == form[f].of
    <3>1. /\ form'[f].step = "accepted" /\ form'[f].of = at /\ form'[f].stars = form[f].stars
          /\ \A g \in Forms \ {f} : form'[g] = form[g]
      BY <1>t, <2>3 DEF AForm
    <3>2. /\ \A t \in Tickets \ {at} : survey'[t] = survey[t]
          /\ survey'[at].stars = 0 /\ survey'[at].accepted = survey[at].accepted
          /\ survey'[at].together <=> survey[at].together \/ Together(f)
      BY <1>t, <2>1, <2>3 DEF ASurvey
    <3>3. SameMails
      BY <1>t, <2>1, <2>3 DEF SameMails, ASurvey
    <3>4. survey[at].accepted = 0
      BY <2>1, <2>3 DEF RateInv, RatingInv
    <3>5. \A g \in Forms \ {f} : form[g].step = "accepted" /\ form[g].of = at => survey'[at].together
      BY <3>2 DEF Together
    <3>6. RatingInv'
      <4> SUFFICES ASSUME NEW t \in Tickets
                   PROVE  /\ survey'[t].stars = 0 <=> survey'[t].accepted = 0
                          /\ ~survey'[t].together =>
                               \A g, h \in Forms : form'[g].step = "accepted" /\ form'[h].step = "accepted" /\ form'[g].of = t /\ form'[h].of = t => g = h
                          /\ survey'[t].accepted > 0 /\ ~survey'[t].together => \A g \in Forms : form'[g].step = "accepted" => form'[g].of # t
        BY DEF RatingInv
      <4>1. CASE t = at
        BY <3>1, <3>2, <3>4, <3>5, <4>1 DEF RateInv, RatingInv
      <4>2. CASE t # at
        BY <3>1, <3>2, <4>2 DEF RateInv, RatingInv
      <4> QED BY <4>1, <4>2
    <3>7. RatedOnce' /\ FormStars'
      BY <2>1, <3>1, <3>2, <3>4 DEF RateInv, RatedOnce, FormStars
    <3> QED BY <2>1, <3>3, <3>6, <3>7, <1>m DEF RateInv
  <2> QED BY <1>13, <2>2, <2>3 DEF Accepts
<1>14. ASSUME NEW f \in Forms, Rates(f) PROVE Kept
  <2> DEFINE at == form[f].of
  <2>1. UNCHANGED surveyor /\ form[f].step = "accepted" /\ at \in Tickets /\ form[f].stars \in Stars
    BY <1>t, <1>14 DEF Rates, workVars, RateInv, FormStars
  <2>2. form'[f].step = "done" /\ \A g \in Forms \ {f} : form'[g] = form[g]
    BY <1>t, <1>14 DEF Rates, AForm
  <2>3. /\ \A t \in Tickets \ {at} : survey'[t] = survey[t]
        /\ survey'[at].stars = form[f].stars /\ survey'[at].accepted = survey[at].accepted + 1
        /\ survey'[at].together = survey[at].together /\ survey[at].accepted \in Nat
    BY <1>t, <1>14, <2>1 DEF Rates, ASurvey
  <2>4. SameMails
    BY <1>t, <1>14, <2>1 DEF Rates, SameMails, ASurvey
  <2>5. survey'[at].stars # 0 /\ survey'[at].accepted # 0
    BY <2>1, <2>3, SurveyAssumption
  <2>6. survey[at].together \/ survey[at].accepted = 0
    BY <2>1, <2>3 DEF RateInv, RatingInv
  <2>7. RatedOnce' /\ FormStars'
    BY <2>1, <2>2, <2>3, <2>6 DEF RateInv, RatedOnce, FormStars
  <2>8. RatingInv'
    <3> SUFFICES ASSUME NEW t \in Tickets
                 PROVE  /\ survey'[t].stars = 0 <=> survey'[t].accepted = 0
                        /\ ~survey'[t].together =>
                             \A g, h \in Forms : form'[g].step = "accepted" /\ form'[h].step = "accepted" /\ form'[g].of = t /\ form'[h].of = t => g = h
                        /\ survey'[t].accepted > 0 /\ ~survey'[t].together => \A g \in Forms : form'[g].step = "accepted" => form'[g].of # t
      BY DEF RatingInv
    <3>1. CASE t = at
      BY <2>1, <2>2, <2>3, <2>5, <3>1 DEF RateInv, RatingInv
    <3>2. CASE t # at
      BY <2>2, <2>3, <3>2 DEF RateInv, RatingInv
    <3> QED BY <3>1, <3>2
  <2> QED BY <2>1, <2>4, <2>7, <2>8, <1>m DEF RateInv
<1> QED
  BY <1>1, <1>2, <1>3, <1>4, <1>5, <1>6, <1>7, <1>8, <1>9, <1>10, <1>11, <1>12, <1>13, <1>14 DEF ClosingNext, Surveys

LEMMA SurveyDiesKept ==
  ASSUME ClosingTypeOK, MailInv, RateInv, ClosingDies
  PROVE  MailInv' /\ RateInv'
<1>1. ASSUME NEW t \in Tickets
      PROVE  /\ survey'[t].marker = Broken[t].marker /\ survey'[t].mails = Broken[t].mails
             /\ survey'[t].unmarked = Broken[t].unmarked /\ Broken[t].excuses \subseteq survey'[t].excuses
             /\ survey'[t].stars = Broken[t].stars /\ survey'[t].accepted = Broken[t].accepted
             /\ survey'[t].together = Broken[t].together
  <2>1. Broken[t] \in ASurvey
    BY ClosingTypes, BrokenTyped
  <2> QED BY <2>1 DEF ClosingDies, ASurvey
<1>2. BrokenOff /\ SameRates
  BY <1>1, BrokenFacts DEF BrokenOff, SameRates
<1>3. MailInv'
  BY <1>2, BrokenOffKept DEF ClosingDies
<1>4. \A f \in Forms : form'[f].step \notin {"posted", "accepted"}
  BY ClosingIdle DEF ClosingDies
<1>5. RateInv'
  BY <1>2, <1>4 DEF RateInv, RatingInv, RatedOnce, FormStars, SameRates
<1> QED
  BY <1>3, <1>5

\* request-csat.worker and rating.controller: a ticket's marker means a mail or a
\* swallowed one, every mail but one is of an attempt that died before its marker, and a
\* second rating needs two submissions that were checked at once.
THEOREM SurveyIsHonest == InsightSpec => []SurveyHonest
<1> DEFINE IInv == ClosingTypeOK /\ MailInv /\ RateInv
<1>1. InsightInit => IInv
  <2> SUFFICES ASSUME InsightInit PROVE IInv
    OBVIOUS
  <2>1. ClosingTypeOK
    BY TypesStart DEF InsightTypeOK
  <2>2. \A t \in Tickets : survey[t] = NoSurvey
    BY DEF InsightInit, ClosingInit
  <2>3. MailInv
    BY <2>2, ClosingIdle DEF InsightInit, ClosingInit, MailInv, SurveyInv, MailedOnce, NoSurvey
  <2>4. RateInv
    BY <2>2, ClosingIdle DEF InsightInit, ClosingInit, RateInv, RatingInv, RatedOnce, FormStars, NoSurvey
  <2> QED BY <2>1, <2>3, <2>4
<1>2. IInv /\ [InsightNext]_insightVars => IInv'
  <2> SUFFICES ASSUME IInv, [InsightNext]_insightVars PROVE IInv'
    OBVIOUS
  <2>1. CASE ClosingNext
    BY <2>1, ClosingTyped, SurveyKept
  <2>2. CASE UNCHANGED closingVars
    <3>1. UNCHANGED <<survey, surveyor, form>>
      BY <2>2 DEF closingVars, workVars
    <3> QED BY <2>2, <3>1, ClosingSame, SurveySame, MailsUntouched, RatesUntouched
  <2>3. CASE ClosingDies
    BY <2>3, ClosingDiesTyped, SurveyDiesKept
  <2> QED BY <2>1, <2>2, <2>3 DEF InsightNext, insightVars, Dies
<1>3. IInv => SurveyHonest
  BY HonestParts DEF MailInv, RateInv
<1> QED
  BY <1>1, <1>2, <1>3, PTL DEF InsightSpec
====
