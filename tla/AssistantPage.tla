---------------------------- MODULE AssistantPage ----------------------------
(***************************************************************************)
(* The settings page of the AI assistant on top of KnowledgeBase: the      *)
(* administrator presses the buttons of the phase the page shows, which    *)
(* is the phase the server had when it answered last.                      *)
(*                                                                         *)
(* While the phase shown is SCANNING or EMBEDDING an interval asks for the *)
(* status; every request asks once more when it has been answered.  The    *)
(* answers arrive in any order.  In the scenarios without "page" the       *)
(* administrator sees the phase as it is.                                  *)
(***************************************************************************)
EXTENDS KnowledgeBase

CONSTANT MaxAnswers  \* bound: answers to status requests on their way

ASSUME AnswerAssumption == MaxAnswers \in Nat

VARIABLE page  \* kbStatus, the interval, the status requests, and whether a poll has failed

vars == <<kb, page>>

Init ==
  /\ KbInit
  /\ page = [shown |-> "IDLE", polling |-> FALSE, due |-> "page" \in events, answers |-> {}, lapsed |-> FALSE]

Busy == {"SCANNING", "EMBEDDING"}
AsksAgain == page' = [page EXCEPT !.due = "page" \in events]
Shown == IF "page" \in events THEN page.shown ELSE phase

\* startScan, confirmEmbed, cancelScan, clearIndex and addManualPage load the
\* status when the request is answered, the last one a moment later.
Press ==
  \/ /\ Offers(Shown, "scan") /\ Start("scan") /\ AsksAgain
  \/ /\ Offers(Shown, "embed") /\ ConfirmEmbed /\ AsksAgain
  \/ /\ Offers(Shown, "cancel") /\ CancelScan /\ UNCHANGED page
  \/ WipeChunks /\ UNCHANGED page
  \/ \E p \in Pages :
       \/ (DeleteSource(p) \/ ReindexSource(p)) /\ UNCHANGED page
       \/ AddManual(p) /\ AsksAgain

Answered == (CancelScanPhase \/ WipeConfig) /\ AsksAgain

\* The older crawl has no button any more.
CallCrawl == (Start("crawl") \/ CancelCrawl) /\ UNCHANGED page

\* The server answers a status request, of the interval or of a handler.
Serve(by) ==
  /\ Cardinality(page.answers) < MaxAnswers
  /\ IF by = "poll" THEN page.polling ELSE page.due
  /\ page' = [page EXCEPT !.answers = @ \union {<<by, phase>>},
                         !.due = @ /\ by = "poll"]
  /\ UNCHANGED kb

\* Mutant: a new phase does not set the interval up again.
ArriveOnce(answer) ==
  LET shown == answer[2]
  IN /\ page' = [page EXCEPT !.shown = shown, !.answers = @ \ {answer},
                            !.polling = @ /\ (answer[1] = "poll" => shown \in Busy)]
     /\ UNCHANGED kb

\* An answer arrives.  A phase that differs sets the interval up again, or ends
\* it; a poll that finds the work done ends it in any case.
Arrive(answer) ==
  LET shown == answer[2]
  IN /\ page' = [page EXCEPT !.shown = shown, !.answers = @ \ {answer},
                            !.polling = IF shown # page.shown THEN shown \in Busy
                                        ELSE @ /\ (answer[1] = "poll" => shown \in Busy)]
     /\ UNCHANGED kb

\* A poll fails: its answer is null, which is neither SCANNING nor EMBEDDING, and
\* the interval ends.
PollFails ==
  /\ "lapse" \in events /\ page.polling
  /\ page' = [page EXCEPT !.polling = FALSE, !.lapsed = TRUE]
  /\ UNCHANGED kb

Next ==
  \/ Press \/ Answered \/ CallCrawl
  \/ Background /\ UNCHANGED page
  \/ \E by \in {"poll", "load"} : Serve(by)
  \/ \E answer \in page.answers : Arrive(answer)
  \/ PollFails

\* The event loop runs the handlers and workers, pg-boss hands out jobs, the
\* browser asks and hears; nobody has to press a button.
Spec ==
  /\ Init /\ [][Next]_vars
  /\ WF_vars(EmbedStep /\ UNCHANGED page) /\ WF_vars(Answered)
  /\ \A q \in Crawls : WF_vars(CrawlStep(q) /\ UNCHANGED page)
  /\ \A t \in Tasks : WF_vars(PageStep(t) /\ UNCHANGED page)
  /\ WF_vars(\E by \in {"poll", "load"} : Serve(by))
  /\ \A a \in {"poll", "load"} \X Phases : WF_vars(a \in page.answers /\ Arrive(a))

-----------------------------------------------------------------------------
(***************************************************************************)
(* Properties.                                                             *)
(***************************************************************************)
TypeOK ==
  /\ KbTypeOK
  /\ page \in [shown : Phases, polling : BOOLEAN, due : BOOLEAN, lapsed : BOOLEAN,
               answers : SUBSET ({"poll", "load"} \X Phases)]

\* A scan and an embedding come to an end, restarts, cancels and further requests
\* notwithstanding, when no enqueue is lost.
BusyEnds ==
  /\ phase = "SCANNING" ~> phase # "SCANNING" \/ faults > 0
  /\ phase = "EMBEDDING" ~> phase # "EMBEDDING" \/ faults > 0

\* A page that shows work sees it end, unless one of its polls has failed: then it
\* may show it for ever.
PageCatchesUp ==
  page.shown \in Busy ~> (page.shown \notin Busy \/ page.lapsed \/ phase \in Busy)

\* Work on the knowledge base ends, and its settings page sees it end.
AssistantSettles == BusyEnds /\ PageCatchesUp
=============================================================================
