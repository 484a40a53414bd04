------------------------ MODULE TicketLifecycle_proofs ------------------------
(***************************************************************************)
(* Proofs about TicketLifecycle and, at the end, TicketHeard, for any sets *)
(* of requests, agents and calls and any number of crashes and retries.    *)
(***************************************************************************)
EXTENDS TicketHeard, TLAPS, FiniteSetTheorems

\* A reply moves a ticket to IN_PROGRESS or WAITING, or leaves its status alone.
LEMMA ReplyMoveRange ==
  ASSUME NEW from \in Statuses, NEW role \in Roles
  PROVE  /\ ReplyMove(from, role) \in Statuses
         /\ ReplyMove(from, role) # from
              => ReplyMove(from, role) \in {"IN_PROGRESS", "WAITING"}
BY DEF ReplyMove, Statuses, Lifecycle, Triage, Reopenable, Roles

\* What a reply transition may touch in the row.
LEMMA TransitionFrame ==
  ASSUME NEW t \in Rows, NEW from \in Statuses, NEW role \in Roles
  PROVE  LET u == ApplyReplyTransition(t, from, role)
         IN /\ u \in Rows
            /\ u.status \in {t.status, "IN_PROGRESS", "WAITING"}
            /\ u.isTicket = t.isTicket
            /\ u.assignee = t.assignee
            /\ u.resolvedBy = t.resolvedBy
<1> DEFINE to == ReplyMove(from, role)
           n  == IF Reopens(from, role) THEN t.reopens + 1 ELSE t.reopens
<1>1. to \in Statuses /\ (to # from => to \in {"IN_PROGRESS", "WAITING"})
  BY ReplyMoveRange
<1>2. n \in Nat
  BY DEF Rows
<1> HIDE DEF to, n
<1>3. CASE to = from
  BY <1>3 DEF ApplyReplyTransition, to
<1>4. CASE to # from
  <2>1. ApplyReplyTransition(t, from, role) = [t EXCEPT !.status = to, !.reopens = n]
    BY <1>4 DEF ApplyReplyTransition, to, n
  <2>2. QED
    BY <1>1, <1>2, <1>4, <2>1 DEF Rows
<1>5. QED
  BY <1>3, <1>4

\* The authors of a batch are agents and customers.
LEMMA BatchMembers ==
  ASSUME NEW batch \in Batches
  PROVE  batch[1] \in Roles /\ (Len(batch) # 1 => batch[2] \in Roles)
BY DEF Batches

\* The loop over a batch touches no more of the row than one transition does.
LEMMA TransitionAllFrame ==
  ASSUME NEW t \in Rows, NEW from \in Statuses, NEW batch \in Batches
  PROVE  LET u == TransitionAll(t, from, batch)
         IN /\ u \in Rows
            /\ u.status \in {t.status, "IN_PROGRESS", "WAITING"}
            /\ u.isTicket = t.isTicket
            /\ u.assignee = t.assignee
            /\ u.resolvedBy = t.resolvedBy
<1> DEFINE first == ApplyReplyTransition(t, from, batch[1])
           carried == ReplyMove(from, batch[1])
<1>1. /\ first \in Rows
      /\ first.status \in {t.status, "IN_PROGRESS", "WAITING"}
      /\ first.isTicket = t.isTicket
      /\ first.assignee = t.assignee
      /\ first.resolvedBy = t.resolvedBy
  BY BatchMembers, TransitionFrame
<1>2. carried \in Statuses
  BY BatchMembers, ReplyMoveRange
<1> HIDE DEF first, carried
<1>3. CASE Len(batch) = 1
  BY <1>1, <1>3 DEF TransitionAll, first
<1>4. CASE Len(batch) # 1
  <2> DEFINE second == ApplyReplyTransition(first, carried, batch[2])
  <2>1. TransitionAll(t, from, batch) = second
    BY <1>4 DEF TransitionAll, first, carried
  <2>2. /\ second \in Rows
        /\ second.status \in {first.status, "IN_PROGRESS", "WAITING"}
        /\ second.isTicket = first.isTicket
        /\ second.assignee = first.assignee
        /\ second.resolvedBy = first.resolvedBy
    BY <1>1, <1>2, <1>4, BatchMembers, TransitionFrame
  <2> HIDE DEF second
  <2>3. QED
    BY <1>1, <2>1, <2>2
<1>5. QED
  BY <1>3, <1>4

\* What an escalation may touch: an unassigned row's status and assignee.
LEMMA EscalateFrame ==
  ASSUME NEW t \in Rows, NEW agent \in Agents \union {None}
  PROVE  LET u == EscalateToHuman(t, agent)
         IN /\ u \in Rows
            /\ u.status \in {t.status, "OPEN"}
            /\ u.isTicket = t.isTicket
            /\ u.resolvedBy = t.resolvedBy
            /\ t.assignee # None => u = t
BY DEF EscalateToHuman, Rows, Statuses, Lifecycle

\* The fields of a call, by its operation.
LEMMA CallFields ==
  ASSUME NEW c \in AllCalls
  PROVE  /\ c.op = "patch" => /\ c.status \in Lifecycle \union {"keep"}
                              /\ c.assignee \in Agents \union {None, "keep"}
         /\ c.op = "mail" => c.batch \in Batches /\ c.live \in BOOLEAN
BY DEF AllCalls

-----------------------------------------------------------------------------
(***************************************************************************)
(* Type correctness.                                                       *)
(***************************************************************************)

\* Init establishes the types of all variables.
LEMMA InitTypeOK == Init => TypeOK
<1> SUFFICES ASSUME Init PROVE TypeOK
  OBVIOUS
<1>1. ticket \in Rows
  <2>1. "ABSENT" \in Statuses
    BY DEF Statuses
  <2>2. QED
    BY <2>1 DEF Init, Rows
<1>2. req \in [Requests -> Handlers]
  <2>1. NoCall \in AllCalls
    BY DEF NoCall, AllCalls
  <2>2. NoSnap \in Snapshots
    BY DEF NoSnap, Snapshots, Statuses
  <2>3. QED
    BY <2>1, <2>2 DEF Init, Handlers
<1>3. job \in [Requests -> Jobs]
  BY RetryAssumption DEF Init, Jobs
<1>4. bot \in [pc : {"idle", "ask", "wait", "mail", "escalate", "audit"},
              answered : BOOLEAN]
  BY DEF Init, Idle
<1>5. faults \in 0..MaxFaults
  BY FaultAssumption DEF Init
<1>6. answers \in Nat /\ interactions \in Nat
  BY DEF Init
<1>7. /\ stored \in SUBSET Requests
      /\ resolveJobs \in SUBSET Requests
      /\ didAnswer \in BOOLEAN
  BY DEF Init
<1>8. QED
  BY <1>1, <1>2, <1>3, <1>4, <1>5, <1>6, <1>7 DEF TypeOK

Steps == {"idle", "read", "checked", "written", "activate", "escalate", "retry", "done"}

\* A handler that goes on to its next step with what it has read is a handler.
LEMMA HandlerMoves ==
  ASSUME TypeOK, NEW r \in Requests, NEW pc \in Steps, NEW snap \in Snapshots,
         req' = [req EXCEPT ![r].pc = pc, ![r].snap = snap]
  PROVE  req' \in [Requests -> Handlers]
<1>1. req[r] \in Handlers
  BY DEF TypeOK
<1>2. [req[r] EXCEPT !.pc = pc, !.snap = snap] \in Handlers
  BY <1>1 DEF Handlers, Steps
<1>3. req' = [req EXCEPT ![r] = [req[r] EXCEPT !.pc = pc, !.snap = snap]]
  OBVIOUS
<1>4. QED
  BY <1>2, <1>3 DEF TypeOK

\* The steps of HTTP handlers keep the types.
LEMMA HttpTypeOK ==
  ASSUME TypeOK, NEW r \in Requests,
         \/ CreateTicket(r) \/ CheckBotAnswer(r) \/ StoreReply(r) \/ PatchTicket(r)
         \/ ConvertTicket(r) \/ ActivateTicket(r) \/ ActivationLost(r)
         \/ DiscardTicket(r) \/ Escalate(r) \/ \E c \in Calls : Begin(r, c)
  PROVE  TypeOK'
<1> USE DEF TypeOK, rowVars, botVars
<1>1. CASE CreateTicket(r)
  <2>1. ticket' \in Rows
    BY <1>1 DEF CreateTicket, Rows, Statuses, Lifecycle
  <2>2. req' \in [Requests -> Handlers]
    BY <1>1 DEF CreateTicket, Handlers, Snapshots, NoSnap, Statuses, AllCalls
  <2>3. QED
    BY <1>1, <2>1, <2>2 DEF CreateTicket
<1>2. CASE CheckBotAnswer(r)
  <2>1. [req[r].snap EXCEPT !.auto = didAnswer] \in Snapshots
    BY DEF Handlers, Snapshots
  <2>2. req' \in [Requests -> Handlers]
    BY <1>2, <2>1, HandlerMoves DEF CheckBotAnswer, Steps
  <2>3. QED
    BY <1>2, <2>2 DEF CheckBotAnswer
<1>3. CASE StoreReply(r)
  <2>1. ticket' \in Rows
    BY <1>3, TransitionFrame DEF StoreReply, Handlers, Snapshots, Roles
  <2>2. req' \in [Requests -> Handlers]
    BY <1>3 DEF StoreReply, Goto, Handlers
  <2>3. QED
    BY <1>3, <2>1, <2>2 DEF StoreReply
<1>4. CASE PatchTicket(r)
  <2>1. ticket' \in Rows
    BY <1>4, CallFields DEF PatchTicket, Handlers, Rows, Statuses
  <2>2. req' \in [Requests -> Handlers]
    BY <1>4 DEF PatchTicket, Goto, Handlers
  <2>3. QED
    BY <1>4, <2>1, <2>2 DEF PatchTicket
<1>5. CASE ConvertTicket(r)
  <2>1. ticket' \in Rows
    <3>1. [ticket EXCEPT !.isTicket = TRUE, !.status = "OPEN", !.dismissed = FALSE] \in Rows
      BY DEF Rows, Statuses, Lifecycle
    <3>2. QED
      BY <1>5, <3>1 DEF ConvertTicket
  <2>2. req' \in [Requests -> Handlers]
    BY <1>5 DEF ConvertTicket, Goto, Handlers
  <2>3. QED
    BY <1>5, <2>1, <2>2 DEF ConvertTicket
<1>6. CASE ActivateTicket(r)
  BY <1>6 DEF ActivateTicket, Goto, Handlers, Jobs
<1>7. CASE ActivationLost(r)
  BY <1>7, FaultAssumption DEF ActivationLost, Goto, Handlers
<1>8. CASE DiscardTicket(r)
  BY <1>8 DEF DiscardTicket, Goto, Handlers, Rows, Statuses, Triage
<1>9. CASE Escalate(r)
  BY <1>9, EscalateFrame DEF Escalate, Goto, Handlers
<1>10. CASE \E c \in Calls : Begin(r, c)
  BY <1>10, CallAssumption DEF Begin, Snapshot, Handlers, Snapshots, Rows
<1>11. QED
  BY <1>1, <1>2, <1>3, <1>4, <1>5, <1>6, <1>7, <1>8, <1>9, <1>10

\* The steps of an ingestion keep the types.
LEMMA IngestTypeOK ==
  ASSUME TypeOK, NEW r \in Requests,
         \/ IngestNewThread(r) \/ IngestReply(r) \/ IngestRecheck(r)
         \/ IngestMessage(r) \/ IngestNothing(r) \/ AfterIngest(r) \/ RetryIngest(r)
  PROVE  TypeOK'
<1> USE DEF TypeOK, rowVars, botVars
<1>1. CASE IngestNewThread(r)
  BY <1>1 DEF IngestNewThread, Goto, Handlers, Rows, Statuses, Triage
<1>2. CASE IngestReply(r)
  <2>1. ticket' \in Rows
    BY <1>2, TransitionAllFrame, CallFields DEF IngestReply, IsMail, Handlers, Snapshots
  <2>2. req' \in [Requests -> Handlers]
    BY <1>2 DEF IngestReply, Goto, Handlers
  <2>3. QED
    BY <1>2, <2>1, <2>2 DEF IngestReply
<1>3. CASE IngestRecheck(r)
  <2>1. ticket.status \in Statuses
    BY DEF Rows
  <2>2. [req[r].snap EXCEPT !.status = ticket.status] \in Snapshots
    BY <2>1 DEF Handlers, Snapshots
  <2>3. req' \in [Requests -> Handlers]
    BY <1>3, <2>2, HandlerMoves DEF IngestRecheck, Steps
  <2>4. QED
    BY <1>3, <2>3 DEF IngestRecheck
<1>4. CASE IngestMessage(r)
  BY <1>4 DEF IngestMessage, Goto, Handlers, Rows, Statuses, Triage
<1>5. CASE IngestNothing(r)
  BY <1>5 DEF IngestNothing, Goto, Handlers
<1>6. CASE AfterIngest(r)
  BY <1>6 DEF AfterIngest, Goto, Handlers
<1>7. CASE RetryIngest(r)
  <2>1. Snapshot \in Snapshots
    BY DEF Snapshot, Snapshots, Rows
  <2>2. req' \in [Requests -> Handlers]
    BY <1>7, <2>1, HandlerMoves DEF RetryIngest, Steps
  <2>3. QED
    BY <1>7, <2>2 DEF RetryIngest
<1>8. QED
  BY <1>1, <1>2, <1>3, <1>4, <1>5, <1>6, <1>7

\* The steps of the bot worker keep the types.
LEMMA BotTypeOK == ASSUME TypeOK, BotStep PROVE TypeOK'
<1> USE DEF TypeOK, rowVars
<1>1. CASE BotGateFails \/ BotMail \/ BotGiveUp
  BY <1>1 DEF BotGateFails, BotMail, BotGiveUp, SetBot
<1>9. CASE BotPost
  BY <1>9 DEF BotPost
<1>2. CASE BotWait
  BY <1>2 DEF BotWait, SetBot, Rows, Statuses, Lifecycle
<1>3. CASE BotEscalate
  BY <1>3, EscalateFrame DEF BotEscalate, SetBot
<1>4. ASSUME NEW r \in Requests, BotSuppressed(r) \/ BotSkip(r)
      PROVE  TypeOK'
  BY <1>4 DEF BotSuppressed, BotSkip, Finish, Jobs
<1>7. ASSUME NEW r \in Requests, BotStart(r)
      PROVE  TypeOK'
  BY <1>7 DEF BotStart, Finish, Jobs
<1>5. ASSUME NEW r \in Requests, BotRetry(r)
      PROVE  TypeOK'
  BY <1>5, RetryAssumption DEF BotRetry, Idle, Jobs
<1>6. ASSUME NEW r \in Requests, BotAudit(r)
      PROVE  TypeOK'
  BY <1>6 DEF BotAudit, Finish, Idle, Jobs
<1>8. QED
  BY <1>9, <1>1, <1>2, <1>3, <1>4, <1>5, <1>6, <1>7 DEF BotStep

\* A crash keeps the types: it only resets handlers and gives jobs back.
LEMMA CrashTypeOK == ASSUME TypeOK, Crash PROVE TypeOK'
<1> USE DEF TypeOK, rowVars
<1>1. req' \in [Requests -> Handlers]
  BY DEF Crash, Handlers
<1>2. job' \in [Requests -> Jobs]
  BY RetryAssumption DEF Crash, Jobs
<1>3. bot' \in [pc : {"idle", "ask", "wait", "mail", "escalate", "audit"},
               answered : BOOLEAN]
  BY DEF Crash, Idle
<1>4. faults' \in 0..MaxFaults
  BY FaultAssumption DEF Crash
<1>5. QED
  BY <1>1, <1>2, <1>3, <1>4 DEF Crash

\* The variables of a ticket's lifecycle always have their types.
THEOREM TypeCorrect == Spec => []TypeOK
<1>1. TypeOK /\ [Next]_vars => TypeOK'
  <2> SUFFICES ASSUME TypeOK, [Next]_vars PROVE TypeOK'
    OBVIOUS
  <2>1. CASE UNCHANGED vars
    BY <2>1 DEF vars, TypeOK
  <2>2. CASE BotStep
    BY <2>2, BotTypeOK
  <2>3. CASE Crash
    BY <2>3, CrashTypeOK
  <2>4. ASSUME NEW r \in Requests,
               \/ CreateTicket(r) \/ HandlerStep(r) \/ ActivationLost(r)
               \/ \E c \in Calls : Begin(r, c)
        PROVE  TypeOK'
    BY <2>4, HttpTypeOK, IngestTypeOK DEF HandlerStep
  <2>5. QED
    BY <2>1, <2>2, <2>3, <2>4 DEF Next
<1>2. QED
  BY InitTypeOK, <1>1, PTL DEF Spec

-----------------------------------------------------------------------------
(***************************************************************************)
(* What no step of the system undoes: a row stays, a ticket stays a        *)
(* ticket, and a first resolution is never cleared.                        *)
(***************************************************************************)
Grows(t, u) ==
  /\ t.status # "ABSENT" => u.status # "ABSENT"
  /\ t.isTicket => u.isTicket
  /\ t.resolvedBy # None => u.resolvedBy # None

\* The handler of a request, whichever step it takes.
RequestStep(r) ==
  \/ CreateTicket(r) \/ HandlerStep(r) \/ ActivationLost(r)
  \/ \E c \in Calls : Begin(r, c)

\* A step of the system is one of a request, of the bot, or a crash.
LEMMA NextSplit ==
  Next <=> (\E r \in Requests : RequestStep(r)) \/ BotStep \/ Crash
BY DEF Next, RequestStep

\* No step deletes the row, turns a ticket back or clears its first resolution.
LEMMA RowGrows == ASSUME TypeOK, [Next]_vars PROVE Grows(ticket, ticket')
<1> USE DEF Grows
<1>1. CASE UNCHANGED vars
  BY <1>1 DEF vars
<1>2. CASE Crash
  BY <1>2 DEF Crash, rowVars
<1>3. CASE BotStep
  <2>1. CASE BotWait
    BY <2>1 DEF BotWait, TypeOK, Rows
  <2>2. CASE BotEscalate
    BY <2>2, EscalateFrame DEF BotEscalate, TypeOK
  <2>3. CASE ~BotWait /\ ~BotEscalate
    BY <1>3, <2>3 DEF BotStep, BotGateFails, BotPost, BotMail, BotGiveUp, BotSuppressed,
       BotSkip, BotStart, BotRetry, BotAudit, rowVars
  <2>4. QED
    BY <2>1, <2>2, <2>3
<1>4. ASSUME NEW r \in Requests, RequestStep(r) PROVE Grows(ticket, ticket')
  <2>1. CASE CreateTicket(r) \/ ConvertTicket(r) \/ DiscardTicket(r)
    BY <2>1 DEF CreateTicket, ConvertTicket, DiscardTicket, TypeOK, Rows
  <2>2. CASE StoreReply(r)
    <3>1. /\ ticket'.status \in {ticket.status, "IN_PROGRESS", "WAITING"}
          /\ ticket'.isTicket = ticket.isTicket
          /\ ticket'.resolvedBy = ticket.resolvedBy
      BY <2>2, TransitionFrame DEF StoreReply, TypeOK, Handlers, Snapshots, Roles
    <3>2. QED
      BY <3>1
  <2>3. CASE PatchTicket(r)
    BY <2>3, CallFields, NoneAssumption DEF PatchTicket, TypeOK, Handlers, Rows, Lifecycle
  <2>4. CASE Escalate(r)
    BY <2>4, EscalateFrame DEF Escalate, TypeOK
  <2>5. CASE IngestReply(r)
    BY <2>5, TransitionAllFrame, CallFields
       DEF IngestReply, IsMail, TypeOK, Handlers, Snapshots
  <2>6. CASE IngestNewThread(r) \/ IngestMessage(r)
    BY <2>6 DEF IngestNewThread, IngestMessage, TypeOK, Rows
  <2>7. CASE UNCHANGED ticket
    BY <2>7
  <2>8. QED
    BY <1>4, <2>1, <2>2, <2>3, <2>4, <2>5, <2>6, <2>7
       DEF RequestStep, HandlerStep, Begin, CheckBotAnswer, ActivateTicket,
           ActivationLost, IngestRecheck, IngestNothing, AfterIngest, RetryIngest, rowVars
<1>5. QED
  BY <1>1, <1>2, <1>3, <1>4, NextSplit

-----------------------------------------------------------------------------
(***************************************************************************)
(* A resolved ticket has a first resolution.  PATCH decides on the row it  *)
(* had read, so the invariant speaks of the snapshots too: whoever read a  *)
(* resolved or a stamped row knows that the row is stamped for good.       *)
(***************************************************************************)
StampInv ==
  /\ ResolvedIsStamped
  /\ \A r \in Requests :
       req[r].snap.status = "RESOLVED" \/ req[r].snap.resolvedBy # None
         => ticket.resolvedBy # None

\* Every step keeps the stamp, and what the snapshots know of it.
LEMMA StampStep == ASSUME TypeOK, StampInv, [Next]_vars PROVE StampInv'
<1> USE DEF StampInv, ResolvedIsStamped
<1>6. ticket.resolvedBy # None => ticket'.resolvedBy # None
  BY RowGrows DEF Grows
<1>1. CASE UNCHANGED vars
  BY <1>1 DEF vars
<1>2. CASE Crash
  <2>1. \A r \in Requests : req'[r].snap = req[r].snap
    BY <1>2 DEF Crash, TypeOK, Handlers
  <2>2. QED
    BY <1>2, <2>1 DEF Crash, rowVars
<1>3. CASE BotStep
  <2>1. req' = req
    BY <1>3 DEF BotStep, BotGateFails, BotPost, BotWait, BotMail, BotGiveUp, BotEscalate,
       BotSuppressed, BotSkip, BotStart, BotRetry, BotAudit
  <2>2. ticket'.status = "RESOLVED" => ticket.status = "RESOLVED"
    <3>1. CASE BotWait
      BY <3>1 DEF BotWait, TypeOK, Rows
    <3>2. CASE BotEscalate
      BY <3>2, EscalateFrame DEF BotEscalate, TypeOK
    <3>3. CASE ~BotWait /\ ~BotEscalate
      BY <1>3, <3>3 DEF BotStep, BotGateFails, BotPost, BotMail, BotGiveUp,
         BotSuppressed, BotSkip, BotStart, BotRetry, BotAudit, rowVars
    <3>4. QED
      BY <3>1, <3>2, <3>3
  <2>3. QED
    BY <1>6, <2>1, <2>2
<1>4. ASSUME NEW r \in Requests, RequestStep(r) PROVE StampInv'
  <2>1. \A q \in Requests : \/ req'[q].snap = req[q].snap
                            \/ req'[q].snap = NoSnap
                            \/ req'[q].snap = Snapshot
                            \/ /\ req'[q].snap.resolvedBy = req[q].snap.resolvedBy
                               /\ req'[q].snap.status \in {req[q].snap.status, ticket.status}
    BY <1>4 DEF RequestStep, HandlerStep, CreateTicket, Begin, CheckBotAnswer, StoreReply,
       PatchTicket, ConvertTicket, ActivateTicket, ActivationLost, DiscardTicket, Escalate,
       IngestNewThread, IngestReply, IngestRecheck, IngestMessage, IngestNothing,
       AfterIngest, RetryIngest, Goto, TypeOK, Handlers, Snapshots
  <2>2. \A q \in Requests :
          req'[q].snap.status = "RESOLVED" \/ req'[q].snap.resolvedBy # None
            => ticket'.resolvedBy # None
    BY <1>6, <2>1 DEF NoSnap, Snapshot
  <2>3. ticket'.status = "RESOLVED" => ticket'.resolvedBy # None
    <3>1. CASE CreateTicket(r) \/ ConvertTicket(r) \/ DiscardTicket(r)
      BY <1>6, <3>1 DEF CreateTicket, ConvertTicket, DiscardTicket, TypeOK, Rows
    <3>2. CASE StoreReply(r)
      BY <1>6, <3>2, TransitionFrame DEF StoreReply, TypeOK, Handlers, Snapshots, Roles
    <3>3. CASE PatchTicket(r)
      BY <1>6, <3>3, NoneAssumption DEF PatchTicket, TypeOK, Handlers, Rows
    <3>4. CASE Escalate(r)
      BY <1>6, <3>4, EscalateFrame DEF Escalate, TypeOK
    <3>5. CASE IngestReply(r)
      BY <1>6, <3>5, TransitionAllFrame, CallFields
         DEF IngestReply, IsMail, TypeOK, Handlers, Snapshots
    <3>6. CASE IngestNewThread(r) \/ IngestMessage(r)
      BY <1>6, <3>6 DEF IngestNewThread, IngestMessage, TypeOK, Rows
    <3>7. CASE UNCHANGED ticket
      BY <3>7
    <3>8. QED
      BY <1>4, <3>1, <3>2, <3>3, <3>4, <3>5, <3>6, <3>7
         DEF RequestStep, HandlerStep, Begin, CheckBotAnswer, ActivateTicket,
             ActivationLost, IngestRecheck, IngestNothing, AfterIngest, RetryIngest, rowVars
  <2>4. QED
    BY <2>2, <2>3
<1>5. QED
  BY <1>1, <1>2, <1>3, <1>4, NextSplit

\* A resolved ticket has a first resolution (the PATCH handler of update).
THEOREM ResolvedStamped == Spec => []ResolvedIsStamped
<1>1. Init => StampInv
  BY DEF Init, StampInv, ResolvedIsStamped, NoSnap
<1>2. TypeOK /\ StampInv /\ [Next]_vars => StampInv'
  BY StampStep
<1>3. StampInv => ResolvedIsStamped
  BY DEF StampInv
<1>4. QED
  BY <1>1, <1>2, <1>3, TypeCorrect, PTL DEF Spec

-----------------------------------------------------------------------------
(***************************************************************************)
(* The bot's verdict.  While the worker is busy there is no verdict yet    *)
(* and one job is active; so an attempt that is cut short leaves a job     *)
(* that has been tried again, and without one an answer is followed by its *)
(* verdict before the worker can start on the ticket again.                *)
(***************************************************************************)
Untried == \A r \in Requests : job[r].tries = 0

JobsAfterActivation ==   \* a request queues its job with its last step
  \A r \in Requests : req[r].pc # "done" => job[r].state = "none"

BotInv ==
  /\ JobsAfterActivation
  /\ interactions \in {0, 1}
  /\ bot.pc # "idle" => interactions = 0 /\ \E r \in Requests : Active(r)
  /\ Untried => /\ answers \in {0, 1}
                /\ answers = 1 => \/ interactions = 1
                                  \/ bot.pc \in {"wait", "mail", "escalate", "audit"}

\* Every step keeps the invariant of the bot.
LEMMA BotInvStep == ASSUME TypeOK, BotInv, [Next]_vars PROVE BotInv'
<1> USE DEF BotInv, Untried, Active, JobsAfterActivation
<1>1. CASE UNCHANGED vars
  BY <1>1 DEF vars
<1>2. CASE Crash
  <2>1. bot'.pc = "idle" /\ answers' = answers /\ interactions' = interactions
    BY <1>2 DEF Crash, Idle
  <2>5. JobsAfterActivation'
    BY <1>2 DEF Crash, TypeOK, Handlers, Jobs
  <2>2. CASE \E r \in Requests : Active(r)
    <3>1. PICK r \in Requests : Active(r)
      BY <2>2
    <3>2. job'[r].tries # 0
      BY <1>2, <3>1, RetryAssumption DEF Crash, TypeOK, Jobs
    <3>3. QED
      BY <2>1, <2>5, <3>2
  <2>3. CASE ~\E r \in Requests : Active(r)
    <3>1. job' = job
      BY <1>2, <2>3 DEF Crash, TypeOK
    <3>2. QED
      BY <2>1, <2>3, <2>5, <3>1
  <2>4. QED
    BY <2>2, <2>3
<1>3. CASE BotGateFails \/ BotWait \/ BotMail \/ BotGiveUp \/ BotEscalate
  <2>1. /\ UNCHANGED <<req, job, answers, interactions>>
        /\ bot.pc # "idle" /\ bot'.pc # "idle"
        /\ bot'.pc \in {"wait", "mail", "escalate", "audit"}
    BY <1>3 DEF BotGateFails, BotWait, BotMail, BotGiveUp, BotEscalate, SetBot, TypeOK
  <2>2. QED
    BY <2>1
<1>4. CASE BotPost
  <2>1. /\ UNCHANGED <<req, job, interactions>> /\ answers' = answers + 1
        /\ bot.pc = "ask" /\ bot'.pc = "wait"
    BY <1>4 DEF BotPost
  <2>2. Untried => answers = 0
    BY <2>1
  <2>3. QED
    BY <2>1, <2>2
<1>5. ASSUME NEW r \in Requests, BotSuppressed(r) \/ BotSkip(r)
      PROVE  BotInv'
  <2>1. /\ UNCHANGED <<req, bot, answers, interactions>>
        /\ bot.pc = "idle"
        /\ \A q \in Requests : /\ job'[q].tries = job[q].tries
                               /\ job[q].state = "none" => job'[q].state = "none"
    BY <1>5 DEF BotSuppressed, BotSkip, Finish, TypeOK, Jobs
  <2>2. QED
    BY <2>1
<1>6. ASSUME NEW r \in Requests, BotStart(r)
      PROVE  BotInv'
  <2>1. /\ UNCHANGED <<req, answers, interactions>> /\ interactions = 0
        /\ bot.pc = "idle" /\ bot'.pc = "ask"
        /\ \A q \in Requests : /\ job'[q].tries = job[q].tries
                               /\ job[q].state = "none" => job'[q].state = "none"
        /\ job'[r].state = "active"
    BY <1>6 DEF BotStart, Finish, TypeOK, Jobs
  <2>2. QED
    BY <2>1
<1>7. ASSUME NEW r \in Requests, BotRetry(r)
      PROVE  BotInv'
  <2>1. /\ UNCHANGED <<req, answers, interactions>>
        /\ bot'.pc = "idle" /\ job'[r].tries # 0
        /\ \A q \in Requests : job[q].state = "none" => job'[q].state = "none"
    BY <1>7 DEF BotRetry, Idle, TypeOK, Jobs
  <2>2. QED
    BY <2>1
<1>8. ASSUME NEW r \in Requests, BotAudit(r)
      PROVE  BotInv'
  <2>1. /\ bot.pc = "audit" /\ UNCHANGED <<req, answers>>
        /\ interactions' = interactions + 1 /\ bot'.pc = "idle"
        /\ \A q \in Requests : /\ job'[q].tries = job[q].tries
                               /\ job[q].state = "none" => job'[q].state = "none"
    BY <1>8 DEF BotAudit, Finish, Idle, TypeOK, Jobs
  <2>2. QED
    BY <2>1
<1>9. ASSUME NEW r \in Requests, RequestStep(r) PROVE BotInv'
  <2>1. /\ UNCHANGED <<bot, answers, interactions>>
        /\ \A q \in Requests : job'[q].tries = job[q].tries
    BY <1>9 DEF RequestStep, HandlerStep, CreateTicket, Begin, CheckBotAnswer, StoreReply,
       PatchTicket, ConvertTicket, ActivateTicket, ActivationLost, DiscardTicket, Escalate,
       IngestNewThread, IngestReply, IngestRecheck, IngestMessage, IngestNothing,
       AfterIngest, RetryIngest, botVars, TypeOK, Jobs
  <2>2. \A q \in Requests : /\ req'[q].pc # "done" => req[q].pc # "done"
                            /\ \/ job'[q] = job[q]
                               \/ req[q].pc # "done" /\ req'[q].pc = "done"
    <3>1. CASE ActivateTicket(r)
      <4>1. \A q \in Requests : req'[q].pc = IF q = r THEN "done" ELSE req[q].pc
        BY <3>1 DEF ActivateTicket, Goto, TypeOK, Handlers
      <4>2. \A q \in Requests : q # r => job'[q] = job[q]
        BY <3>1 DEF ActivateTicket, TypeOK
      <4>3. req[r].pc # "done"
        BY <3>1 DEF ActivateTicket
      <4>4. QED
        BY <4>1, <4>2, <4>3
    <3>2. CASE ~ActivateTicket(r)
      <4>1. job' = job
        BY <1>9, <3>2 DEF RequestStep, HandlerStep, CreateTicket, Begin, CheckBotAnswer,
           StoreReply, PatchTicket, ConvertTicket, ActivationLost, DiscardTicket, Escalate,
           IngestNewThread, IngestReply, IngestRecheck, IngestMessage, IngestNothing,
           AfterIngest, RetryIngest, botVars
      <4>2. req[r].pc # "done"
        BY <1>9 DEF RequestStep, HandlerStep, CreateTicket, Begin, CheckBotAnswer,
           StoreReply, PatchTicket, ConvertTicket, ActivateTicket, ActivationLost,
           DiscardTicket, Escalate, IngestNewThread, IngestReply, IngestRecheck,
           IngestMessage, IngestNothing, AfterIngest, RetryIngest
      <4>3. \A q \in Requests : q # r => req'[q] = req[q]
        BY <1>9 DEF RequestStep, HandlerStep, CreateTicket, Begin, CheckBotAnswer,
           StoreReply, PatchTicket, ConvertTicket, ActivateTicket, ActivationLost,
           DiscardTicket, Escalate, IngestNewThread, IngestReply, IngestRecheck,
           IngestMessage, IngestNothing, AfterIngest, RetryIngest, Goto, TypeOK
      <4>4. QED
        BY <4>1, <4>2, <4>3
    <3>3. QED
      BY <3>1, <3>2
  <2>3. JobsAfterActivation'
    BY <2>2
  <2>4. \A q \in Requests : Active(q) => job'[q] = job[q]
    BY <2>2
  <2>5. QED
    BY <2>1, <2>3, <2>4
<1>10. QED
  BY <1>1, <1>2, <1>3, <1>4, <1>5, <1>6, <1>7, <1>8, <1>9, NextSplit DEF BotStep

\* The bot and its jobs keep BotInv in every behaviour.
LEMMA BotInvariant == Spec => []BotInv
<1>1. Init => BotInv
  BY DEF Init, BotInv, Idle, JobsAfterActivation, Untried
<1>2. TypeOK /\ BotInv /\ [Next]_vars => BotInv'
  BY BotInvStep
<1>3. QED
  BY <1>1, <1>2, TypeCorrect, PTL DEF Spec

\* One verdict per ticket, whatever is raced, retried or cut short.
THEOREM OneVerdictEver == Spec => []OneVerdict
<1>1. BotInv => OneVerdict
  BY DEF BotInv, OneVerdict
<1>2. QED
  BY <1>1, BotInvariant, PTL

\* A second bot answer is the work of a retry, never of a second activation.
THEOREM AnswerTwiceNeedsRetry == Spec => []SecondAnswerNeedsRetry
<1>1. TypeOK /\ BotInv => SecondAnswerNeedsRetry
  BY DEF TypeOK, Jobs, BotInv, Untried, SecondAnswerNeedsRetry
<1>2. QED
  BY <1>1, BotInvariant, TypeCorrect, PTL

-----------------------------------------------------------------------------
(***************************************************************************)
(* Ownership: the conditional update of escalateToHuman never touches a    *)
(* row that has an assignee.                                               *)
(***************************************************************************)
\* An assignee, once set, is changed by no handler but PATCH.
LEMMA OnlyPatchReassigns ==
  ASSUME TypeOK, Next, ticket.assignee # None, ticket'.assignee # ticket.assignee
  PROVE  \E r \in Requests : PatchTicket(r)
<1>1. CASE Crash
  BY <1>1 DEF Crash, rowVars
<1>2. CASE BotStep
  BY <1>2, EscalateFrame DEF BotStep, BotGateFails, BotPost, BotWait, BotMail, BotGiveUp,
     BotEscalate, BotSuppressed, BotSkip, BotStart, BotRetry, BotAudit, rowVars, TypeOK, Rows
<1>3. ASSUME NEW r \in Requests, RequestStep(r), ~PatchTicket(r)
      PROVE  ticket'.assignee = ticket.assignee
  <2>1. CASE CreateTicket(r) \/ ConvertTicket(r) \/ DiscardTicket(r)
    BY <2>1 DEF CreateTicket, ConvertTicket, DiscardTicket, TypeOK, Rows
  <2>2. CASE StoreReply(r)
    BY <2>2, TransitionFrame DEF StoreReply, TypeOK, Handlers, Snapshots, Roles
  <2>3. CASE Escalate(r)
    BY <2>3, EscalateFrame DEF Escalate, TypeOK
  <2>4. CASE IngestReply(r)
    BY <2>4, TransitionAllFrame, CallFields
       DEF IngestReply, IsMail, TypeOK, Handlers, Snapshots
  <2>5. CASE IngestNewThread(r) \/ IngestMessage(r)
    BY <2>5 DEF IngestNewThread, IngestMessage, TypeOK, Rows
  <2>6. CASE UNCHANGED ticket
    BY <2>6
  <2>7. QED
    BY <1>3, <2>1, <2>2, <2>3, <2>4, <2>5, <2>6
       DEF RequestStep, HandlerStep, Begin, CheckBotAnswer, ActivateTicket,
           ActivationLost, IngestRecheck, IngestNothing, AfterIngest, RetryIngest, rowVars
<1>4. QED
  BY <1>1, <1>2, <1>3, NextSplit

\* An escalation leaves an assigned ticket exactly as it is.
THEOREM OwnerKept == Spec => EscalationKeepsOwner
<1> DEFINE Kept ==
      ticket.assignee # None =>
        /\ BotEscalate => ticket' = ticket
        /\ \A r \in Requests : Escalate(r) => ticket' = ticket
        /\ ticket'.assignee # ticket.assignee => \E r \in Requests : PatchTicket(r)
<1>1. TypeOK /\ [Next]_vars => [Kept]_vars
  <2> SUFFICES ASSUME TypeOK, Next, ticket.assignee # None
               PROVE  Kept
    BY DEF Kept
  <2>1. BotEscalate => ticket' = ticket
    BY EscalateFrame DEF BotEscalate, TypeOK
  <2>2. \A r \in Requests : Escalate(r) => ticket' = ticket
    BY EscalateFrame DEF Escalate, TypeOK
  <2>3. QED
    BY <2>1, <2>2, OnlyPatchReassigns
<1>2. QED
  BY <1>1, TypeCorrect, PTL DEF Spec, EscalationKeepsOwner
-----------------------------------------------------------------------------
(***************************************************************************)
(* Refinement of TicketPromise.  A verdict is given only on a ticket: the  *)
(* bot's jobs are queued by requests that have made the row a ticket, and  *)
(* no handler, however stale its snapshot, takes that back.                *)
(***************************************************************************)
IsTicketRow == ticket.status # "ABSENT" /\ ticket.isTicket

StageInv ==
  \A r \in Requests :
    /\ req[r].call.op = "patch" => ticket.status # "ABSENT"
    /\ req[r].pc = "activate" => IsTicketRow
    /\ job[r].state # "none" => IsTicketRow

\* Every step keeps jobs and activations on rows that are tickets.
LEMMA StageInvStep == ASSUME TypeOK, StageInv, [Next]_vars PROVE StageInv'
<1> USE DEF StageInv, IsTicketRow
<1>1. /\ ticket.status # "ABSENT" => ticket'.status # "ABSENT"
      /\ IsTicketRow => IsTicketRow'
  BY RowGrows DEF Grows
<1>2. CASE UNCHANGED vars
  BY <1>2 DEF vars
<1>3. CASE Crash
  <2>1. \A q \in Requests : /\ req'[q].call = req[q].call
                            /\ req'[q].pc = "activate" => req[q].pc = "activate"
                            /\ job[q].state = "none" => job'[q].state = "none"
    BY <1>3 DEF Crash, TypeOK, Handlers, Jobs, Active, IsMail
  <2>2. QED
    BY <1>1, <2>1
<1>4. CASE BotStep
  <2>1. req' = req
    BY <1>4 DEF BotStep, BotGateFails, BotPost, BotWait, BotMail, BotGiveUp,
       BotEscalate, BotSuppressed, BotSkip, BotStart, BotRetry, BotAudit
  <2>2. \A q \in Requests : job[q].state = "none" => job'[q].state = "none"
    BY <1>4 DEF BotStep, BotGateFails, BotPost, BotWait, BotMail, BotGiveUp, BotEscalate,
       BotSuppressed, BotSkip, BotStart, BotRetry, BotAudit, Finish, Active, TypeOK, Jobs
  <2>3. QED
    BY <1>1, <2>1, <2>2
<1>5. ASSUME NEW r \in Requests, RequestStep(r) PROVE StageInv'
  <2>1. CASE CreateTicket(r)
    <3>1. IsTicketRow'
      BY <2>1 DEF CreateTicket, TypeOK, Rows
    <3>2. QED
      BY <3>1
  <2>2. CASE ConvertTicket(r)
    <3>1. /\ job' = job
          /\ \A q \in Requests : req'[q].call = req[q].call
          /\ \A q \in Requests : q # r => req'[q].pc = req[q].pc
      BY <2>2 DEF ConvertTicket, Goto, botVars, TypeOK, Handlers
    <3>2. CASE req[r].snap.isTicket
      <4>1. req' = [req EXCEPT ![r].pc = "done"]
        BY <2>2, <3>2 DEF ConvertTicket, Goto
      <4>2. req[r] \in Handlers /\ req'[r] = [req[r] EXCEPT !.pc = "done"]
        BY <4>1 DEF TypeOK
      <4>3. req'[r].pc = "done"
        BY <4>2 DEF Handlers
      <4>4. QED
        BY <1>1, <3>1, <4>3
    <3>3. CASE ~req[r].snap.isTicket
      <4>1. ticket'.status = "OPEN" /\ ticket'.isTicket
        BY <2>2, <3>3 DEF ConvertTicket, TypeOK, Rows
      <4>2. QED
        BY <1>1, <3>1, <4>1
    <3>4. QED
      BY <3>2, <3>3
  <2>3. CASE ActivateTicket(r)
    <3>1. /\ \A q \in Requests : q # r => job'[q] = job[q]
          /\ \A q \in Requests : req'[q].call = req[q].call
          /\ \A q \in Requests : req'[q].pc = "activate" => req[q].pc = "activate"
      BY <2>3 DEF ActivateTicket, Goto, TypeOK, Handlers
    <3>2. IsTicketRow
      BY <2>3 DEF ActivateTicket
    <3>3. QED
      BY <1>1, <3>1, <3>2
  <2>4. ASSUME NEW c \in Calls, Begin(r, c) PROVE StageInv'
    <3>1. /\ job' = job /\ req'[r].pc = "read" /\ req'[r].call = c
          /\ \A q \in Requests : q # r => req'[q] = req[q]
      BY <2>4 DEF Begin, botVars, TypeOK
    <3>2. c.op = "patch" => ticket.status # "ABSENT"
      BY <2>4 DEF Begin
    <3>3. QED
      BY <1>1, <3>1, <3>2
  <2>5. CASE ~CreateTicket(r) /\ ~ConvertTicket(r) /\ ~ActivateTicket(r)
             /\ ~\E c \in Calls : Begin(r, c)
    <3>1. job' = job
      BY <1>5, <2>5 DEF RequestStep, HandlerStep, CheckBotAnswer, StoreReply, PatchTicket,
         ActivationLost, DiscardTicket, Escalate, IngestNewThread, IngestReply,
         IngestRecheck, IngestMessage, IngestNothing, AfterIngest, RetryIngest, botVars
    <3>2. \A q \in Requests : q # r => req'[q] = req[q]
      BY <1>5, <2>5 DEF RequestStep, HandlerStep, CheckBotAnswer, StoreReply, PatchTicket,
         ActivationLost, DiscardTicket, Escalate, IngestNewThread, IngestReply,
         IngestRecheck, IngestMessage, IngestNothing, AfterIngest, RetryIngest, Goto, TypeOK
    <3>3. req'[r].call = req[r].call /\ req'[r].pc # "activate"
      BY <1>5, <2>5 DEF RequestStep, HandlerStep, CheckBotAnswer, StoreReply, PatchTicket,
         ActivationLost, DiscardTicket, Escalate, IngestNewThread, IngestReply,
         IngestRecheck, IngestMessage, IngestNothing, AfterIngest, RetryIngest, Goto,
         TypeOK, Handlers
    <3>4. QED
      BY <1>1, <3>1, <3>2, <3>3
  <2>6. QED
    BY <1>5, <2>1, <2>2, <2>3, <2>4, <2>5 DEF RequestStep
<1>6. QED
  BY <1>2, <1>3, <1>4, <1>5, NextSplit

\* Only a PATCH stamps the first resolution, and it does so on an existing row.
LEMMA OnlyPatchStamps ==
  ASSUME TypeOK, Next, ticket.resolvedBy = None, ticket'.resolvedBy # None
  PROVE  \E r \in Requests : PatchTicket(r)
<1>1. CASE Crash
  BY <1>1 DEF Crash, rowVars
<1>2. CASE BotStep
  <2>1. CASE BotWait
    BY <2>1 DEF BotWait, TypeOK, Rows
  <2>2. CASE BotEscalate
    BY <2>2, EscalateFrame DEF BotEscalate, TypeOK
  <2>3. CASE ~BotWait /\ ~BotEscalate
    BY <1>2, <2>3 DEF BotStep, BotGateFails, BotPost, BotMail, BotGiveUp, BotSuppressed,
       BotSkip, BotStart, BotRetry, BotAudit, rowVars
  <2>4. QED
    BY <2>1, <2>2, <2>3
<1>3. ASSUME NEW r \in Requests, RequestStep(r), ~PatchTicket(r)
      PROVE  ticket'.resolvedBy = ticket.resolvedBy
  <2>1. CASE CreateTicket(r) \/ ConvertTicket(r) \/ DiscardTicket(r)
    BY <2>1 DEF CreateTicket, ConvertTicket, DiscardTicket, TypeOK, Rows
  <2>2. CASE StoreReply(r)
    BY <2>2, TransitionFrame DEF StoreReply, TypeOK, Handlers, Snapshots, Roles
  <2>3. CASE Escalate(r)
    BY <2>3, EscalateFrame DEF Escalate, TypeOK
  <2>4. CASE IngestReply(r)
    BY <2>4, TransitionAllFrame, CallFields
       DEF IngestReply, IsMail, TypeOK, Handlers, Snapshots
  <2>5. CASE IngestNewThread(r) \/ IngestMessage(r)
    BY <2>5 DEF IngestNewThread, IngestMessage, TypeOK, Rows
  <2>6. CASE UNCHANGED ticket
    BY <2>6
  <2>7. QED
    BY <1>3, <2>1, <2>2, <2>3, <2>4, <2>5, <2>6
       DEF RequestStep, HandlerStep, Begin, CheckBotAnswer, ActivateTicket,
           ActivationLost, IngestRecheck, IngestNothing, AfterIngest, RetryIngest, rowVars
<1>4. QED
  BY <1>1, <1>2, <1>3, NextSplit

\* Every step of the lifecycle is a step of the promise, or changes nothing of it.
LEMMA PromiseStep ==
  ASSUME TypeOK, BotInv, StageInv, [Next]_vars
  PROVE  [Promise!Next]_(Promise!vars)
<1> DEFINE stage    == IF ticket.status = "ABSENT" THEN "absent"
                       ELSE IF ticket.isTicket THEN "ticket" ELSE "conversation"
           resolved == ticket.resolvedBy # None
<1> USE DEF Promise!vars, Promise!Next
<1>1. CASE UNCHANGED vars
  BY <1>1 DEF vars
<1>2. ASSUME NEW r \in Requests, BotAudit(r) PROVE Promise!Judge
  <2>1. IsTicketRow /\ interactions = 0
    BY <1>2 DEF BotAudit, BotInv, StageInv, Active
  <2>2. ticket' = ticket /\ interactions' = 1 /\ didAnswer' \in BOOLEAN
    BY <1>2, <2>1 DEF BotAudit, rowVars, TypeOK
  <2>3. QED
    BY <2>1, <2>2 DEF Promise!Judge, IsTicketRow
<1>3. CASE Next /\ ~\E r \in Requests : BotAudit(r)
  <2>1. interactions' = interactions /\ didAnswer' = didAnswer
    BY <1>3 DEF Next, Crash, BotStep, BotGateFails, BotPost, BotWait, BotMail, BotGiveUp,
       BotEscalate, BotSuppressed, BotSkip, BotStart, BotRetry, HandlerStep, CreateTicket,
       Begin, CheckBotAnswer, StoreReply, PatchTicket, ConvertTicket, ActivateTicket,
       ActivationLost, DiscardTicket, Escalate, IngestNewThread, IngestReply,
       IngestRecheck, IngestMessage, IngestNothing, AfterIngest, RetryIngest, botVars
  <2>2. Grows(ticket, ticket')
    BY RowGrows
  <2>3. ASSUME NEW r \in Requests, PatchTicket(r)
        PROVE  Promise!Resolve \/ UNCHANGED Promise!vars
    <3>1. ticket.status # "ABSENT" /\ ticket'.status # "ABSENT"
      BY <2>2, <2>3 DEF PatchTicket, StageInv, Grows
    <3>2. ticket'.isTicket = ticket.isTicket
      BY <2>3 DEF PatchTicket, TypeOK, Rows
    <3>3. resolved => resolved'
      BY <2>2 DEF Grows
    <3>4. stage # "absent" /\ stage' = stage
      BY <3>1, <3>2
    <3>5. CASE resolved'
      BY <2>1, <3>4, <3>5 DEF Promise!Resolve
    <3>6. CASE ~resolved'
      BY <2>1, <3>3, <3>4, <3>6
    <3>7. QED
      BY <3>5, <3>6
  <2>4. CASE ~\E r \in Requests : PatchTicket(r)
    <3>1. resolved' = resolved
      BY <1>3, <2>2, <2>4, OnlyPatchStamps DEF Grows
    <3>2. CASE stage = "absent" /\ stage' # "absent"
      BY <2>1, <3>1, <3>2 DEF Promise!Open
    <3>3. CASE stage = "conversation" /\ stage' = "ticket"
      BY <2>1, <3>1, <3>3 DEF Promise!Convert
    <3>4. CASE stage' = stage
      BY <2>1, <3>1, <3>4
    <3>5. stage' = stage \/ stage = "absent" \/ (stage = "conversation" /\ stage' = "ticket")
      BY <2>2 DEF Grows, TypeOK, Rows
    <3>6. QED
      BY <3>2, <3>3, <3>4, <3>5
  <2>5. QED
    BY <2>3, <2>4
<1>4. QED
  BY <1>1, <1>2, <1>3

\* The lifecycle keeps TicketPromise: a ticket is never a conversation again, one
\* verdict is given on tickets only and stands, a resolution is never forgotten.
THEOREM PromiseKept == Spec => ImplementsPromise
<1>1. Init => Promise!Init
  BY DEF Init, Promise!Init
<1>2. Init => StageInv
  BY DEF Init, StageInv, NoCall
<1>3. TypeOK /\ StageInv /\ [Next]_vars => StageInv'
  BY StageInvStep
<1>4. TypeOK /\ BotInv /\ StageInv /\ [Next]_vars => [Promise!Next]_(Promise!vars)
  BY PromiseStep
<1>5. QED
  BY <1>1, <1>2, <1>3, <1>4, TypeCorrect, BotInvariant, PTL
     DEF Spec, ImplementsPromise, Promise!Spec

-----------------------------------------------------------------------------
(***************************************************************************)
(* A reopening is the work of a customer's message.  A request may run     *)
(* again after a crash, and its snapshot may show a ticket that was        *)
(* reopened meanwhile; but it moves the status only while its messages are *)
(* not stored, and stores them in the same transaction; and only an        *)
(* ingestion is ever taken up again.                                       *)
(***************************************************************************)
ReopenInv ==
  /\ IsFiniteSet(stored)
  /\ ReopensAreReplies
  /\ \A r \in Requests :
       /\ r \in stored => req[r].pc # "idle"
       /\ req[r].pc = "retry" => IsMail(r)
       /\ req[r].call.op \in Replies /\ req[r].pc \in {"read", "checked"}
            => r \notin stored

\* One reply reopens a ticket at most once, and only a customer's does.
LEMMA TransitionReopens ==
  ASSUME NEW t \in Rows, NEW from \in Statuses, NEW role \in Roles
  PROVE  LET u == ApplyReplyTransition(t, from, role)
         IN u.reopens = IF Reopens(from, role) THEN t.reopens + 1 ELSE t.reopens
<1> DEFINE to == ReplyMove(from, role)
           n  == IF Reopens(from, role) THEN t.reopens + 1 ELSE t.reopens
<1>1. CASE to = from
  <2>1. ~Reopens(from, role)
    BY <1>1 DEF ReplyMove, Reopens, Reopenable
  <2>2. QED
    BY <1>1, <2>1 DEF ApplyReplyTransition
<1>2. CASE to # from
  <2> HIDE DEF to, n
  <2>1. ApplyReplyTransition(t, from, role) = [t EXCEPT !.status = to, !.reopens = n]
    BY <1>2 DEF ApplyReplyTransition, to, n
  <2>2. ApplyReplyTransition(t, from, role).reopens = n
    BY <2>1 DEF Rows
  <2>3. QED
    BY <2>2 DEF n
<1>3. QED
  BY <1>1, <1>2

\* A batch reopens a ticket at most once: the loop carries the moved status.
LEMMA BatchReopens ==
  ASSUME NEW t \in Rows, NEW from \in Statuses, NEW batch \in Batches
  PROVE  LET u == TransitionAll(t, from, batch)
         IN \/ u.reopens = t.reopens
            \/ u.reopens = t.reopens + 1 /\ FromCustomer(batch)
<1> DEFINE first   == ApplyReplyTransition(t, from, batch[1])
           carried == ReplyMove(from, batch[1])
<1>1. /\ first \in Rows
      /\ first.reopens = IF Reopens(from, batch[1]) THEN t.reopens + 1 ELSE t.reopens
  BY BatchMembers, TransitionFrame, TransitionReopens
<1>2. /\ carried \in Statuses
      /\ Reopens(from, batch[1]) => carried \notin Reopenable
  BY BatchMembers, ReplyMoveRange DEF ReplyMove, Reopens, Reopenable
<1>3. \A i \in DOMAIN batch : batch[i] = "customer" => FromCustomer(batch)
  BY DEF FromCustomer
<1>4. 1 \in DOMAIN batch /\ (Len(batch) # 1 => 2 \in DOMAIN batch)
  BY DEF Batches
<1> HIDE DEF first, carried
<1>5. CASE Len(batch) = 1
  BY <1>1, <1>3, <1>4, <1>5 DEF TransitionAll, first, Reopens
<1>6. CASE Len(batch) # 1
  <2> DEFINE second == ApplyReplyTransition(first, carried, batch[2])
  <2>1. TransitionAll(t, from, batch) = second
    BY <1>6 DEF TransitionAll, first, carried
  <2>2. second.reopens = IF Reopens(carried, batch[2]) THEN first.reopens + 1 ELSE first.reopens
    BY <1>1, <1>2, <1>6, BatchMembers, TransitionReopens
  <2>3. Reopens(from, batch[1]) => ~Reopens(carried, batch[2])
    BY <1>2 DEF Reopens
  <2> HIDE DEF second
  <2>4. QED
    BY <1>1, <1>3, <1>4, <1>6, <2>1, <2>2, <2>3 DEF Reopens
<1>7. QED
  BY <1>5, <1>6

\* What every step of a request does to the handlers: only its own moves, a call
\* is chosen once, and a handler is never idle again.
LEMMA RequestFrame ==
  ASSUME TypeOK, NEW r \in Requests, RequestStep(r)
  PROVE  /\ \A q \in Requests : q # r => req'[q] = req[q]
         /\ req[r].pc # "idle" => req'[r].call = req[r].call
         /\ req'[r].pc # "idle"
<1>1. \A q \in Requests : q # r => req'[q] = req[q]
  BY DEF RequestStep, HandlerStep, CreateTicket, Begin, CheckBotAnswer, StoreReply,
     PatchTicket, ConvertTicket, ActivateTicket, ActivationLost, DiscardTicket, Escalate,
     IngestNewThread, IngestReply, IngestRecheck, IngestMessage, IngestNothing,
     AfterIngest, RetryIngest, Goto, TypeOK
<1>2. CASE CreateTicket(r) \/ \E c \in Calls : Begin(r, c)
  BY <1>1, <1>2 DEF CreateTicket, Begin, TypeOK
<1>3. CASE HandlerStep(r) \/ ActivationLost(r)
  BY <1>1, <1>3 DEF HandlerStep, CheckBotAnswer, StoreReply,
     PatchTicket, ConvertTicket, ActivateTicket, ActivationLost, DiscardTicket, Escalate,
     IngestNewThread, IngestReply, IngestRecheck, IngestMessage, IngestNothing,
     AfterIngest, RetryIngest, Goto, TypeOK, Handlers
<1>4. QED
  BY <1>1, <1>2, <1>3 DEF RequestStep

\* The requests counted are stored ones whose calls stand: none is lost.
LEMMA RepliesAreKept ==
  ASSUME stored \subseteq stored',
         \A q \in stored : req'[q].call = req[q].call
  PROVE  CustomerRequests \subseteq CustomerRequests'
BY DEF CustomerRequests, IsMail

\* The count of a ticket's reopenings stands while its row's does.
LEMMA QuietReopens ==
  ASSUME IsFiniteSet(stored), ReopensAreReplies, ticket.reopens \in Nat,
         IsFiniteSet(stored'), stored \subseteq stored',
         \A q \in stored : req'[q].call = req[q].call,
         ticket'.reopens = ticket.reopens
  PROVE  ReopensAreReplies'
<1>1. CustomerRequests \subseteq CustomerRequests'
  BY RepliesAreKept
<1>2. CustomerRequests' \subseteq stored'
  BY DEF CustomerRequests
<1>3. IsFiniteSet(CustomerRequests')
  BY <1>2, FS_Subset
<1>4. IsFiniteSet(CustomerRequests) /\ Cardinality(CustomerRequests) <= Cardinality(CustomerRequests')
  BY <1>1, <1>3, FS_Subset
<1>5. Cardinality(CustomerRequests) \in Nat /\ Cardinality(CustomerRequests') \in Nat
  BY <1>3, <1>4, FS_CardinalityType
<1>6. QED
  BY <1>4, <1>5 DEF ReopensAreReplies

\* A step that stores a customer's new message may count one reopening more.
LEMMA OneReopening ==
  ASSUME IsFiniteSet(stored), ReopensAreReplies, ticket.reopens \in Nat,
         NEW r, r \notin stored, stored' = stored \union {r},
         \A q \in stored : req'[q].call = req[q].call,
         r \in CustomerRequests',
         ticket'.reopens = ticket.reopens + 1
  PROVE  ReopensAreReplies'
<1>1. CustomerRequests \union {r} \subseteq CustomerRequests'
  BY RepliesAreKept
<1>2. CustomerRequests' \subseteq stored' /\ CustomerRequests \subseteq stored
  BY DEF CustomerRequests
<1>3. IsFiniteSet(stored')
  BY FS_AddElement
<1>4. IsFiniteSet(CustomerRequests')
  BY <1>2, <1>3, FS_Subset
<1>5. IsFiniteSet(CustomerRequests) /\ r \notin CustomerRequests
  BY <1>2, FS_Subset
<1>6. Cardinality(CustomerRequests \union {r}) = Cardinality(CustomerRequests) + 1
  BY <1>5, FS_AddElement
<1>7. Cardinality(CustomerRequests \union {r}) <= Cardinality(CustomerRequests')
  BY <1>1, <1>4, FS_Subset
<1>8. Cardinality(CustomerRequests) \in Nat /\ Cardinality(CustomerRequests') \in Nat
  BY <1>4, <1>5, FS_CardinalityType
<1>9. QED
  BY <1>6, <1>7, <1>8 DEF ReopensAreReplies


\* The steps that write Message rows are the four below; the others leave the
\* stored requests and the count of reopenings alone.
LEMMA QuietRequests ==
  ASSUME TypeOK, NEW r \in Requests, RequestStep(r),
         ~CreateTicket(r), ~StoreReply(r), ~IngestReply(r)
  PROVE  /\ stored' \in {stored, stored \union {r}}
         /\ ticket'.reopens = ticket.reopens
<1>1. CASE PatchTicket(r) \/ ConvertTicket(r) \/ DiscardTicket(r)
  BY <1>1 DEF PatchTicket, ConvertTicket, DiscardTicket, TypeOK, Rows
<1>2. CASE Escalate(r)
  <2>1. PICK agent \in Agents \union {None} : ticket' = EscalateToHuman(ticket, agent)
    BY <1>2 DEF Escalate
  <2>2. ticket'.reopens = ticket.reopens
    BY <2>1 DEF EscalateToHuman, TypeOK, Rows
  <2>3. QED
    BY <1>2, <2>2 DEF Escalate
<1>3. CASE IngestNewThread(r) \/ IngestMessage(r)
  BY <1>3 DEF IngestNewThread, IngestMessage, TypeOK, Rows
<1>4. CASE UNCHANGED <<ticket, stored>>
  BY <1>4
<1>5. QED
  BY <1>1, <1>2, <1>3, <1>4
     DEF RequestStep, HandlerStep, Begin, CheckBotAnswer, ActivateTicket,
         ActivationLost, IngestRecheck, IngestNothing, AfterIngest, RetryIngest, rowVars

\* A reply of MessagesService reopens the ticket with a message it stores itself.
LEMMA StoreReplyReopens ==
  ASSUME TypeOK, ReopenInv, NEW r \in Requests, StoreReply(r)
  PROVE  ReopensAreReplies'
<1> DEFINE s    == req[r].snap
           role == IF req[r].call.op = "agentReply" THEN "agent" ELSE "customer"
<1>1. r \notin stored /\ stored' = stored \union {r}
  BY DEF StoreReply, ReopenInv
<1>2. \A q \in Requests : req'[q].call = req[q].call
  BY DEF StoreReply, Goto, TypeOK, Handlers
<1>3. IsFiniteSet(stored) /\ IsFiniteSet(stored') /\ ReopensAreReplies
  BY <1>1, FS_AddElement DEF ReopenInv
<1>4. ticket.reopens \in Nat /\ stored \subseteq Requests
  BY DEF TypeOK, Rows
<1>5. CASE ticket'.reopens = ticket.reopens
  BY <1>1, <1>2, <1>3, <1>4, <1>5, QuietReopens
<1>6. CASE ticket'.reopens # ticket.reopens
  <2>1. /\ req[r].call.op # "internalNote" /\ req[r].call.op \in Replies
        /\ ticket' = ApplyReplyTransition(ticket, s.status, role)
    BY <1>6 DEF StoreReply
  <2>2. ticket'.reopens = IF Reopens(s.status, role) THEN ticket.reopens + 1 ELSE ticket.reopens
    BY <2>1, TransitionReopens DEF TypeOK, Handlers, Snapshots, Roles
  <2>3. ticket'.reopens = ticket.reopens + 1 /\ req[r].call.op = "customerReply"
    BY <1>6, <2>1, <2>2 DEF Reopens, Replies
  <2>4. r \in CustomerRequests'
    BY <1>1, <1>2, <2>3 DEF CustomerRequests
  <2>5. QED
    BY <1>1, <1>2, <1>3, <1>4, <2>3, <2>4, OneReopening
<1>7. QED
  BY <1>5, <1>6

\* A batch of a thread reopens it at most once, with messages it stores itself.
LEMMA IngestReplyReopens ==
  ASSUME TypeOK, ReopenInv, NEW r \in Requests, IngestReply(r)
  PROVE  ReopensAreReplies'
<1> DEFINE batch == req[r].call.batch
<1>1. r \notin stored /\ stored' = stored \union {r} /\ IsMail(r)
  BY DEF IngestReply
<1>2. \A q \in Requests : req'[q].call = req[q].call
  BY DEF IngestReply, Goto, TypeOK, Handlers
<1>3. IsFiniteSet(stored) /\ IsFiniteSet(stored') /\ ReopensAreReplies
  BY <1>1, FS_AddElement DEF ReopenInv
<1>4. ticket.reopens \in Nat /\ stored \subseteq Requests
  BY DEF TypeOK, Rows
<1>5. \/ ticket'.reopens = ticket.reopens
      \/ ticket'.reopens = ticket.reopens + 1 /\ FromCustomer(batch)
  <2>1. ticket \in Rows /\ req[r].snap.status \in Statuses /\ batch \in Batches
    BY <1>1, CallFields DEF IsMail, TypeOK, Handlers, Snapshots
  <2>2. ticket' = TransitionAll(ticket, req[r].snap.status, batch)
    BY DEF IngestReply
  <2>3. QED
    BY <2>1, <2>2, BatchReopens
<1>6. CASE ticket'.reopens = ticket.reopens
  BY <1>1, <1>2, <1>3, <1>4, <1>6, QuietReopens
<1>7. CASE ticket'.reopens = ticket.reopens + 1 /\ FromCustomer(batch)
  <2>1. r \in CustomerRequests'
    BY <1>1, <1>2, <1>7 DEF CustomerRequests, IsMail
  <2>2. QED
    BY <1>1, <1>2, <1>3, <1>4, <1>7, <2>1, OneReopening
<1>8. QED
  BY <1>5, <1>6, <1>7

\* Every step keeps the count of reopenings covered by stored replies.
LEMMA ReopenStep == ASSUME TypeOK, ReopenInv, [Next]_vars PROVE ReopenInv'
<1>1. IsFiniteSet(stored) /\ ReopensAreReplies /\ ticket.reopens \in Nat /\ stored \subseteq Requests
  BY DEF ReopenInv, TypeOK, Rows
<1>2. CASE UNCHANGED vars
  BY <1>2 DEF vars, ReopenInv, ReopensAreReplies, CustomerRequests, IsMail
<1>3. CASE Crash \/ BotStep
  <2>1. /\ stored' = stored
        /\ \A q \in Requests : /\ req'[q].call = req[q].call
                               /\ req'[q].pc = "idle" => req[q].pc = "idle"
                               /\ req'[q].pc \in {"read", "checked"} => req'[q].pc = req[q].pc
                               /\ req'[q].pc = "retry" => req[q].pc = "retry" \/ IsMail(q)
    <3>1. CASE Crash
      BY <3>1 DEF Crash, rowVars, TypeOK, Handlers
    <3>2. CASE BotStep
      BY <3>2 DEF BotStep, BotGateFails, BotPost, BotWait, BotMail, BotGiveUp, BotEscalate,
         BotSuppressed, BotSkip, BotStart, BotRetry, BotAudit, rowVars
    <3>3. QED
      BY <1>3, <3>1, <3>2
  <2>2. ticket'.reopens = ticket.reopens
    <3>1. CASE BotWait
      BY <3>1 DEF BotWait, TypeOK, Rows
    <3>2. CASE BotEscalate
      BY <3>2 DEF BotEscalate, EscalateToHuman, TypeOK, Rows
    <3>3. CASE ~BotWait /\ ~BotEscalate
      BY <1>3, <3>3 DEF Crash, BotStep, BotGateFails, BotPost, BotMail, BotGiveUp,
         BotSuppressed, BotSkip, BotStart, BotRetry, BotAudit, rowVars
    <3>4. QED
      BY <3>1, <3>2, <3>3
  <2>3. ReopensAreReplies'
    BY <1>1, <2>1, <2>2, QuietReopens
  <2>4. QED
    BY <1>1, <2>1, <2>3 DEF ReopenInv, IsMail
<1>4. ASSUME NEW r \in Requests, RequestStep(r) PROVE ReopenInv'
  <2>1. /\ \A q \in Requests : q # r => req'[q] = req[q]
        /\ req[r].pc # "idle" => req'[r].call = req[r].call
        /\ req'[r].pc # "idle"
    BY <1>4, RequestFrame
  <2>2. \A q \in stored : req'[q].call = req[q].call
    BY <1>1, <2>1 DEF ReopenInv
  <2>3. /\ stored' \in {stored, stored \union {r}}
        /\ ReopensAreReplies'
    <3>1. CASE StoreReply(r)
      BY <3>1, StoreReplyReopens DEF StoreReply
    <3>2. CASE IngestReply(r)
      BY <3>2, IngestReplyReopens DEF IngestReply
    <3>3. CASE ~StoreReply(r) /\ ~IngestReply(r)
      <4>1. stored' \in {stored, stored \union {r}} /\ ticket'.reopens = ticket.reopens
        <5>1. CASE CreateTicket(r)
          BY <5>1 DEF CreateTicket, TypeOK, Rows
        <5>2. CASE ~CreateTicket(r)
          BY <1>4, <3>3, <5>2, QuietRequests
        <5>3. QED
          BY <5>1, <5>2
      <4>2. IsFiniteSet(stored') /\ stored \subseteq stored'
        BY <1>1, <4>1, FS_AddElement
      <4>3. QED
        BY <1>1, <2>2, <4>1, <4>2, QuietReopens
    <3>4. QED
      BY <3>1, <3>2, <3>3
  <2>4. IsFiniteSet(stored')
    BY <1>1, <2>3, FS_AddElement
  <2>5. ASSUME NEW q \in Requests
        PROVE  /\ q \in stored' => req'[q].pc # "idle"
               /\ req'[q].pc = "retry" => req'[q].call.op = "mail"
               /\ req'[q].call.op \in Replies /\ req'[q].pc \in {"read", "checked"}
                    => q \notin stored'
    <3>1. CASE q # r
      BY <2>1, <2>3, <3>1 DEF ReopenInv, IsMail
    <3>2. CASE q = r
      <4>1. ASSUME req'[r].call.op \in Replies, req'[r].pc \in {"read", "checked"}
            PROVE  r \notin stored'
        <5>1. CASE \E c \in Calls : Begin(r, c)
          BY <1>1, <5>1 DEF Begin, rowVars, ReopenInv
        <5>2. CASE CheckBotAnswer(r)
          BY <5>2 DEF CheckBotAnswer, NeedsBotCheck, Replies, rowVars, ReopenInv
        <5>3. CASE IngestRecheck(r) \/ RetryIngest(r)
          <6>1. IsMail(r) /\ req[r].pc # "idle"
            BY <5>3 DEF IngestRecheck, RetryIngest, ReopenInv
          <6>2. req'[r].call.op = "mail"
            BY <2>1, <6>1 DEF IsMail
          <6>3. QED
            BY <4>1, <6>2 DEF Replies
        <5>4. CASE ~CheckBotAnswer(r) /\ ~IngestRecheck(r) /\ ~RetryIngest(r)
                   /\ ~\E c \in Calls : Begin(r, c)
          <6>1. req'[r].pc \notin {"read", "checked"}
            BY <1>4, <5>4 DEF RequestStep, HandlerStep, CreateTicket, StoreReply,
               PatchTicket, ConvertTicket, ActivateTicket, ActivationLost, DiscardTicket,
               Escalate, IngestNewThread, IngestReply, IngestMessage,
               IngestNothing, AfterIngest, Goto, TypeOK, Handlers
          <6>2. QED
            BY <4>1, <6>1
        <5>5. QED
          BY <5>1, <5>2, <5>3, <5>4
      <4>2. ASSUME req'[r].pc = "retry" PROVE req'[r].call.op = "mail"
        <5>1. IngestNewThread(r)
          BY <1>4, <4>2 DEF RequestStep, HandlerStep, CreateTicket, Begin, CheckBotAnswer,
             StoreReply, PatchTicket, ConvertTicket, ActivateTicket, ActivationLost,
             DiscardTicket, Escalate, IngestReply, IngestRecheck, IngestMessage,
             IngestNothing, AfterIngest, RetryIngest, Goto, TypeOK, Handlers
        <5>2. QED
          BY <2>1, <5>1 DEF IngestNewThread, IsMail
      <4>3. QED
        BY <2>1, <3>2, <4>1, <4>2
    <3>3. QED
      BY <3>1, <3>2
  <2>6. QED
    BY <2>3, <2>4, <2>5 DEF ReopenInv, IsMail
<1>5. QED
  BY <1>2, <1>3, <1>4, NextSplit

\* A customer's message reopens a ticket at most once, also when its thread is
\* ingested again after a crash (dedup by externalMessageId in thread ingestion).
THEOREM ReopensCounted == Spec => []ReopensAreReplies
<1>1. Init => ReopenInv
  <2> SUFFICES ASSUME Init PROVE ReopenInv
    OBVIOUS
  <2>1. stored = {} /\ ticket.reopens = 0 /\ CustomerRequests = {}
    BY DEF Init, CustomerRequests
  <2>2. QED
    BY <2>1, FS_EmptySet DEF Init, ReopenInv, ReopensAreReplies, NoCall, Replies
<1>2. TypeOK /\ ReopenInv /\ [Next]_vars => ReopenInv'
  BY ReopenStep
<1>3. ReopenInv => ReopensAreReplies
  BY DEF ReopenInv
<1>4. QED
  BY <1>1, <1>2, <1>3, TypeCorrect, PTL DEF Spec

-----------------------------------------------------------------------------
(***************************************************************************)
(* The watched lifecycle is the lifecycle.                                 *)
(***************************************************************************)

\* What is proved of the lifecycle holds while it is watched.
LEMMA HeardImplementsSpec == HeardSpec => Spec
<1>1. HeardInit => Init
  BY DEF HeardInit
<1>2. [HeardNext]_heardVars => [Next]_vars
  BY DEF HeardNext, heardVars
<1>3. QED
  BY <1>1, <1>2, PTL DEF HeardSpec, Spec

-----------------------------------------------------------------------------
(***************************************************************************)
(* What a customer's message does to the status it was written with.       *)
(***************************************************************************)

\* A customer's reply moves every status that is hidden from agents, but for the
\* one of a dismissed conversation.
LEMMA ReplyMovesHidden ==
  ASSUME NEW from \in Statuses, from \notin {"ABSENT", "DISMISSED"}
  PROVE  ReplyMove(from, "customer") \in Attended
BY DEF ReplyMove, Statuses, Lifecycle, Triage, Reopenable, Attended

\* The row after a transition has the status the transition asks for, if it was
\* computed from the row's own.
LEMMA FreshTransition ==
  ASSUME NEW t \in Rows, NEW role \in Roles
  PROVE  ApplyReplyTransition(t, t.status, role).status = ReplyMove(t.status, role)
BY DEF ApplyReplyTransition, Rows

\* A batch that ends with the customer and moves a status that was read in time
\* leaves the ticket where agents look.
LEMMA BatchHeard ==
  ASSUME NEW t \in Rows, NEW batch \in Batches, batch[Len(batch)] = "customer",
         t.status # "ABSENT", MovesAny(t.status, batch)
  PROVE  TransitionAll(t, t.status, batch).status \in Attended
<1> DEFINE first == ApplyReplyTransition(t, t.status, batch[1])
           carried == ReplyMove(t.status, batch[1])
<1>1. t.status \in Statuses /\ t.status \notin {"ABSENT", "DISMISSED"}
  <2>1. t.status = "DISMISSED" => ~MovesAny(t.status, batch)
    BY DEF MovesAny, ReplyMove, Reopenable
  <2>2. QED
    BY <2>1 DEF Rows
<1>2. batch[1] \in Roles /\ (Len(batch) # 1 => Len(batch) = 2 /\ batch[2] \in Roles)
  BY DEF Batches
<1>3. first \in Rows /\ first.status = carried
  BY <1>1, <1>2, TransitionFrame, FreshTransition
<1>4. carried \in Statuses /\ carried \notin {"ABSENT", "DISMISSED"}
  BY <1>1, <1>2, ReplyMoveRange
<1>5. CASE Len(batch) = 1
  <2>1. carried \in Attended
    BY <1>1, <1>5, ReplyMovesHidden
  <2>2. TransitionAll(t, t.status, batch) = first
    BY <1>5 DEF TransitionAll
  <2>3. QED
    BY <1>3, <2>1, <2>2
<1>6. CASE Len(batch) # 1
  <2> HIDE DEF first, carried
  <2>1. TransitionAll(t, t.status, batch) = ApplyReplyTransition(first, carried, "customer")
    BY <1>2, <1>6 DEF TransitionAll, first, carried
  <2>2. ApplyReplyTransition(first, first.status, "customer").status
          = ReplyMove(first.status, "customer")
    BY <1>3, FreshTransition DEF Roles
  <2>3. ReplyMove(carried, "customer") \in Attended
    BY <1>4, ReplyMovesHidden
  <2>4. QED
    BY <1>3, <2>1, <2>2, <2>3
<1>7. QED
  BY <1>5, <1>6

-----------------------------------------------------------------------------
(***************************************************************************)
(* What handlers have seen: whoever found a row works on a ticket that     *)
(* still is there, and a reply that is not written yet is not stored.      *)
(***************************************************************************)
SawRow(r) == \/ req[r].snap.status # "ABSENT"
             \/ req[r].pc = "checked"
             \/ req[r].call.op \notin {"none", "mail"}

Unwritten(r) == \/ req[r].pc = "idle"
                \/ req[r].call.op \in Replies /\ req[r].pc \in {"read", "checked"}

SeenInv ==
  \A r \in Requests :
    /\ SawRow(r) => ticket.status # "ABSENT"
    /\ req[r].pc = "retry" => IsMail(r)
    /\ Unwritten(r) => r \notin stored


\* A step of a request leaves all other handlers alone.
LEMMA OthersRest ==
  ASSUME TypeOK, NEW r \in Requests, RequestStep(r)
  PROVE  \A q \in Requests : q # r => req'[q] = req[q]
BY DEF RequestStep, HandlerStep, CreateTicket, Begin, CheckBotAnswer, StoreReply, PatchTicket,
   ConvertTicket, ActivateTicket, ActivationLost, DiscardTicket, Escalate, IngestNewThread,
   IngestReply, IngestRecheck, IngestMessage, IngestNothing, AfterIngest, RetryIngest, Goto,
   TypeOK

\* A step of a request stores no message but its own.
LEMMA StoresOwn ==
  ASSUME TypeOK, NEW r \in Requests, RequestStep(r)
  PROVE  /\ stored' \in {stored, stored \union {r}}
         /\ stored' # stored => \/ CreateTicket(r) \/ StoreReply(r) \/ IngestNewThread(r)
                                \/ IngestReply(r) \/ IngestMessage(r)
BY DEF RequestStep, HandlerStep, CreateTicket, Begin, CheckBotAnswer, StoreReply, PatchTicket,
   ConvertTicket, ActivateTicket, ActivationLost, DiscardTicket, Escalate, IngestNewThread,
   IngestReply, IngestRecheck, IngestMessage, IngestNothing, AfterIngest, RetryIngest, rowVars

\* The worker and a crash store nothing; the worker leaves the handlers alone.
LEMMA BotStoresNothing == ASSUME BotStep \/ Crash PROVE stored' = stored /\ (BotStep => req' = req)
BY DEF BotStep, BotGateFails, BotPost, BotWait, BotMail, BotGiveUp, BotEscalate, BotSuppressed,
   BotSkip, BotStart, BotRetry, BotAudit, Crash, rowVars

\* Nothing is known of a row, nor written, before a request begins.
LEMMA InitSeen == Init => SeenInv
BY DEF Init, SeenInv, SawRow, Unwritten, NoSnap, NoCall, Replies

\* A handler keeps what it has seen as it goes on.
LEMMA SeenStep == ASSUME TypeOK, SeenInv, [Next]_vars PROVE SeenInv'
<1>1. ticket.status # "ABSENT" => ticket'.status # "ABSENT"
  BY RowGrows DEF Grows
<1>2. CASE UNCHANGED vars
  BY <1>2 DEF vars, SeenInv, SawRow, Unwritten, IsMail
<1>3. CASE BotStep
  BY <1>1, <1>3, BotStoresNothing DEF SeenInv, SawRow, Unwritten, IsMail
<1>4. CASE Crash
  <2>1. stored' = stored
    BY <1>4, BotStoresNothing
  <2>2. ASSUME NEW q \in Requests
        PROVE  /\ req'[q].call = req[q].call /\ req'[q].snap = req[q].snap
               /\ \/ req'[q].pc = req[q].pc
                  \/ req'[q].pc = "retry" /\ IsMail(q)
                  \/ req'[q].pc = "done"
    BY <1>4 DEF Crash, TypeOK, Handlers
  <2>3. QED
    BY <1>1, <2>1, <2>2 DEF SeenInv, SawRow, Unwritten, IsMail
<1>5. ASSUME NEW r \in Requests, RequestStep(r) PROVE SeenInv'
  <2> DEFINE Kept(q) == /\ SawRow(q)' => ticket'.status # "ABSENT"
                        /\ req'[q].pc = "retry" => IsMail(q)'
                        /\ Unwritten(q)' => q \notin stored'
  <2>1. ASSUME NEW q \in Requests, q # r PROVE Kept(q)
    <3>1. req'[q] = req[q] /\ (q \in stored' <=> q \in stored)
      BY <1>5, <2>1, OthersRest, StoresOwn
    <3>2. QED
      BY <1>1, <3>1 DEF SeenInv, SawRow, Unwritten, IsMail
  <2>2. Kept(r)
    <3> USE DEF SawRow, Unwritten, IsMail
    <3>1. CASE CreateTicket(r)
      BY <3>1 DEF CreateTicket, TypeOK, Rows
    <3>2. ASSUME NEW c \in Calls, Begin(r, c) PROVE Kept(r)
      <4>1. /\ req'[r] = [pc |-> "read", call |-> c, snap |-> Snapshot]
            /\ ticket' = ticket /\ stored' = stored
        BY <3>2 DEF Begin, TypeOK, rowVars
      <4>2. r \notin stored /\ (ticket.status = "ABSENT" => c.op = "mail")
        BY <3>2 DEF Begin, SeenInv
      <4>3. QED
        BY <4>1, <4>2 DEF Snapshot
    <3>3. CASE CheckBotAnswer(r)
      <4>1. /\ req'[r].pc = "checked" /\ req'[r].call = req[r].call
            /\ ticket' = ticket /\ stored' = stored
        BY <3>3 DEF CheckBotAnswer, TypeOK, Handlers, rowVars
      <4>2. req[r].call.op = "customerReply" /\ req[r].pc = "read"
        BY <3>3 DEF CheckBotAnswer, NeedsBotCheck
      <4>3. QED
        BY <4>1, <4>2 DEF SeenInv, Replies
    <3>4. CASE IngestRecheck(r)
      <4>1. /\ req'[r].pc = "checked" /\ req'[r].call = req[r].call
            /\ ticket' = ticket /\ stored' = stored
        BY <3>4 DEF IngestRecheck, TypeOK, Handlers, rowVars
      <4>2. ticket.status # "ABSENT" /\ req[r].call.op = "mail"
        BY <3>4 DEF IngestRecheck, SeenInv, IsMail
      <4>3. QED
        BY <4>1, <4>2 DEF Replies
    <3>5. CASE RetryIngest(r)
      <4>1. /\ req'[r].pc = "read" /\ req'[r].call = req[r].call /\ req'[r].snap = Snapshot
            /\ ticket' = ticket /\ stored' = stored
        BY <3>5 DEF RetryIngest, TypeOK, Handlers, rowVars
      <4>2. req[r].call.op = "mail"
        BY <3>5 DEF RetryIngest, SeenInv, IsMail
      <4>3. QED
        BY <4>1, <4>2 DEF Snapshot, Replies
    <3>6. CASE IngestNewThread(r)
      <4>1. /\ req'[r].pc \in {"done", "retry"} /\ req'[r].call = req[r].call
            /\ ticket'.status # "ABSENT"
        BY <3>6 DEF IngestNewThread, Goto, TypeOK, Handlers, Rows
      <4>2. QED
        BY <3>6, <4>1 DEF IngestNewThread, Replies
    <3>7. CASE ~CreateTicket(r) /\ ~CheckBotAnswer(r) /\ ~IngestRecheck(r) /\ ~RetryIngest(r)
               /\ ~IngestNewThread(r) /\ ~\E c \in Calls : Begin(r, c)
      <4>1. /\ req'[r].call = req[r].call /\ req'[r].snap = req[r].snap
            /\ req'[r].pc \in {"written", "activate", "escalate", "done"}
        BY <1>5, <3>7 DEF RequestStep, HandlerStep, StoreReply, PatchTicket, ConvertTicket,
           ActivateTicket, ActivationLost, DiscardTicket, Escalate, IngestReply,
           IngestMessage, IngestNothing, AfterIngest, Goto, TypeOK, Handlers
      <4>2. QED
        BY <1>1, <4>1 DEF SeenInv
    <3>8. QED
      BY <1>5, <3>1, <3>2, <3>3, <3>4, <3>5, <3>6, <3>7 DEF RequestStep
  <2>3. QED
    BY <2>1, <2>2 DEF SeenInv, SawRow, Unwritten, IsMail
<1>6. QED
  BY <1>2, <1>3, <1>4, <1>5, NextSplit

-----------------------------------------------------------------------------
(***************************************************************************)
(* A message that waits without an excuse is on a ticket agents look at,   *)
(* or its handler is about to escalate.                                    *)
(***************************************************************************)
HeardInv == unread /\ excuses = {} => ticket.status \in Attended \/ Calling

\* A customer's message that is written with its eyes open is heard.
LEMMA StoredIsHeard ==
  ASSUME TypeOK, SeenInv, NEW r \in Requests, RequestStep(r),
         Stores(r), CustomerSpeaks(r), WrittenBlind(r) = {}
  PROVE  ticket'.status \in Attended \/ Calling'
<1> DEFINE batch == req[r].call.batch
           last == batch[Len(batch)]
<1>1. /\ ~Stale(r)
      /\ IsMail(r) => req[r].call.live
      /\ ticket.status # "ABSENT" => req[r].snap.isTicket
      /\ IsMail(r) \/ ticket.status # "DISMISSED"
  <2>1. IsMail(r) => req[r].call.live \in BOOLEAN
    BY CallFields DEF TypeOK, Handlers, IsMail
  <2>2. QED
    BY <2>1 DEF WrittenBlind
<1>2. req[r].snap.status = ticket.status
  BY <1>1 DEF Stale
<1>3. IsMail(r) => batch \in Batches /\ last = "customer"
  BY CallFields DEF CustomerSpeaks, IsMail, TypeOK, Handlers
<1>4. CASE CreateTicket(r)
  BY <1>4 DEF CreateTicket, TypeOK, Rows, Attended
<1>5. CASE IngestNewThread(r)
  BY <1>5 DEF IngestNewThread, Stores, TypeOK, Rows, Attended
<1>6. CASE StoreReply(r)
  <2>1. req[r].call.op = "customerReply"
    BY <1>6 DEF StoreReply, CustomerSpeaks, IsMail, Replies
  <2>2. ticket.status # "ABSENT"
    BY <2>1 DEF SeenInv, SawRow
  <2>3. CASE req[r].snap.auto
    <3>1. req'[r] = [req[r] EXCEPT !.pc = "escalate"] /\ r \in stored'
      BY <1>6, <2>3 DEF StoreReply, Goto, TypeOK
    <3>2. req'[r].pc = "escalate" /\ req'[r].call.op = "customerReply"
      BY <2>1, <3>1 DEF TypeOK, Handlers
    <3>3. QED
      BY <3>1, <3>2 DEF Calling, CustomerSpeaks
  <2>4. CASE ~req[r].snap.auto
    <3>1. ticket' = ApplyReplyTransition(ticket, ticket.status, "customer")
      BY <1>1, <1>2, <1>6, <2>1, <2>2, <2>4 DEF StoreReply
    <3>2. ticket'.status = ReplyMove(ticket.status, "customer")
      BY <3>1, FreshTransition DEF TypeOK, Roles
    <3>3. ticket.status \in Statuses /\ ticket.status \notin {"ABSENT", "DISMISSED"}
      BY <1>1, <2>1, <2>2 DEF TypeOK, Rows, IsMail
    <3>4. QED
      BY <3>2, <3>3, ReplyMovesHidden
  <2>5. QED
    BY <2>3, <2>4
<1>7. CASE IngestReply(r)
  <2>1. /\ ticket' = TransitionAll(ticket, ticket.status, batch)
        /\ ticket.status # "ABSENT" /\ MovesAny(ticket.status, batch) /\ IsMail(r)
    BY <1>2, <1>7 DEF IngestReply, Transits
  <2>2. QED
    BY <1>3, <2>1, BatchHeard DEF TypeOK
<1>8. CASE IngestMessage(r)
  <2>1. /\ IsMail(r) /\ req[r].pc = "checked"
        /\ ticket' = IF FromCustomer(batch) /\ ticket.status = "DISMISSED"
                     THEN [ticket EXCEPT !.status = "NEW"] ELSE ticket
    BY <1>2, <1>8 DEF IngestMessage
  <2>2. ticket.status # "ABSENT" /\ ~MovesAny(ticket.status, batch)
    BY <1>1, <1>2, <2>1 DEF SeenInv, SawRow, Stale
  <2>3. FromCustomer(batch) /\ (Len(batch) = 1 \/ Len(batch) = 2)
    BY <1>3, <2>1 DEF FromCustomer, Batches
  <2>4. ReplyMove(ticket.status, "customer") = ticket.status
    BY <1>3, <2>1, <2>2, <2>3 DEF MovesAny
  <2>5. CASE ticket.status = "DISMISSED"
    BY <2>1, <2>3, <2>5 DEF TypeOK, Rows, Attended
  <2>6. CASE ticket.status # "DISMISSED"
    <3>1. ticket.status \in Attended
      BY <2>2, <2>4, <2>6, ReplyMovesHidden DEF TypeOK, Rows
    <3>2. QED
      BY <2>1, <2>6, <3>1
  <2>7. QED
    BY <2>5, <2>6
<1>9. QED
  BY <1>4, <1>5, <1>6, <1>7, <1>8, StoresOwn DEF Stores

\* A step of a request that neither stores a message of the customer nor is an
\* agent's hides nothing.
LEMMA QuietStep ==
  ASSUME TypeOK, SeenInv, NEW r \in Requests, RequestStep(r),
         ~AgentDeals(r), ~(Stores(r) /\ CustomerSpeaks(r))
  PROVE  ticket'.status = ticket.status \/ ticket'.status \in Attended
<1>1. CASE StoreReply(r)
  <2>1. r \notin stored /\ r \in stored'
    BY <1>1 DEF StoreReply, SeenInv, Unwritten
  <2>2. req[r].call.op = "internalNote"
    BY <2>1 DEF AgentDeals, Stores
  <2>3. QED
    BY <1>1, <2>2 DEF StoreReply
<1>2. ~IngestReply(r)
  BY DEF IngestReply, AgentDeals, Stores, IsMail
<1>3. CASE PatchTicket(r)
  BY <1>3 DEF PatchTicket, AgentDeals, TypeOK, Rows
<1>4. CASE DiscardTicket(r)
  BY <1>4 DEF AgentDeals
<1>5. CASE Escalate(r)
  BY <1>5, EscalateFrame DEF Escalate, TypeOK, Attended
<1>6. CASE CreateTicket(r) \/ ConvertTicket(r) \/ IngestNewThread(r) \/ IngestMessage(r)
  BY <1>6 DEF CreateTicket, ConvertTicket, IngestNewThread, IngestMessage, TypeOK, Rows, Attended
<1>7. CASE ~StoreReply(r) /\ ~PatchTicket(r) /\ ~DiscardTicket(r) /\ ~Escalate(r)
           /\ ~CreateTicket(r) /\ ~ConvertTicket(r) /\ ~IngestNewThread(r) /\ ~IngestMessage(r)
  BY <1>2, <1>7 DEF RequestStep, HandlerStep, Begin, CheckBotAnswer, ActivateTicket,
     ActivationLost, IngestRecheck, IngestNothing, AfterIngest, RetryIngest, rowVars
<1>8. QED
  BY <1>1, <1>3, <1>4, <1>5, <1>6, <1>7

\* A handler that is about to call for a human still is, unless the step is its call.
LEMMA CallGoesOn ==
  ASSUME TypeOK, NEW r \in Requests, RequestStep(r), Calling
  PROVE  Calling' \/ Escalate(r)
<1>1. PICK q \in stored : CustomerSpeaks(q) /\ req[q].pc = "escalate"
  BY DEF Calling
<1>2. q \in stored' /\ q \in Requests
  BY StoresOwn DEF TypeOK
<1>3. CASE q # r
  <2>1. req'[q] = req[q]
    BY <1>2, <1>3, OthersRest
  <2>2. QED
    BY <1>1, <1>2, <2>1 DEF Calling, CustomerSpeaks, IsMail
<1>4. CASE q = r
  BY <1>1, <1>4 DEF RequestStep, HandlerStep, CreateTicket, Begin, CheckBotAnswer, StoreReply,
     PatchTicket, ConvertTicket, ActivateTicket, ActivationLost, DiscardTicket, IngestNewThread,
     IngestReply, IngestRecheck, IngestMessage, IngestNothing, AfterIngest, RetryIngest
<1>5. QED
  BY <1>3, <1>4

\* Every watched step keeps the customer heard, or notes an excuse.
LEMMA HeardStep ==
  ASSUME TypeOK, SeenInv, HeardInv, [HeardNext]_heardVars
  PROVE  HeardInv'
<1> DEFINE heard == {r \in Requests : Stores(r) /\ CustomerSpeaks(r)}
<1>1. CASE UNCHANGED heardVars
  BY <1>1 DEF heardVars, vars, HeardInv, Calling, CustomerSpeaks, IsMail
<1>2. CASE HeardNext
  <2> SUFFICES ASSUME unread', excuses' = {}
               PROVE  ticket'.status \in Attended \/ Calling'
    BY DEF HeardInv
  <2>1. /\ \A r \in Requests : ~AgentDeals(r)
        /\ unread \/ heard # {}
        /\ heard # {} => UNION {WrittenBlind(r) : r \in heard} = {}
        /\ heard = {} => excuses = {} /\ Overtaken = {}
    BY <1>2 DEF HeardNext, Watch
  <2> HIDE DEF heard
  <2>2. CASE heard # {}
    <3>1. PICK r \in Requests : Stores(r) /\ CustomerSpeaks(r) /\ WrittenBlind(r) = {}
      BY <2>1, <2>2 DEF heard
    <3>2. PICK q \in Requests : RequestStep(q)
      BY <1>2, <3>1, NextSplit, BotStoresNothing DEF HeardNext, Stores
    <3>3. q = r
      BY <3>1, <3>2, StoresOwn DEF Stores
    <3>4. QED
      BY <3>1, <3>2, <3>3, StoredIsHeard
  <2>3. CASE heard = {}
    <3>1. ticket.status \in Attended \/ Calling
      BY <2>1, <2>3 DEF HeardInv
    <3>2. /\ ~BotWait
          /\ (\E r \in Requests : Escalate(r)) => ticket.assignee = None
          /\ Crash => ~Calling
      BY <2>1, <2>3 DEF Overtaken
    <3>3. ASSUME NEW r \in Requests, RequestStep(r)
          PROVE  ticket'.status \in Attended \/ Calling'
      <4>1. ~(Stores(r) /\ CustomerSpeaks(r)) /\ ~AgentDeals(r)
        BY <2>1, <2>3 DEF heard
      <4>2. ticket'.status = ticket.status \/ ticket'.status \in Attended
        BY <3>3, <4>1, QuietStep
      <4>3. Escalate(r) => ticket'.status = "OPEN"
        BY <3>2 DEF Escalate, EscalateToHuman, TypeOK, Rows
      <4>4. QED
        BY <3>1, <3>3, <4>2, <4>3, CallGoesOn DEF Attended
    <3>4. CASE BotStep
      <4>1. ticket'.status = ticket.status \/ ticket'.status \in Attended
        <5>1. BotEscalate => ticket'.status \in {ticket.status, "OPEN"}
          BY EscalateFrame DEF BotEscalate, TypeOK
        <5>2. QED
          BY <3>2, <3>4, <5>1 DEF BotStep, BotGateFails, BotPost, BotMail, BotGiveUp,
             BotSuppressed, BotSkip, BotStart, BotRetry, BotAudit, rowVars, Attended
      <4>2. Calling => Calling'
        BY <3>4, BotStoresNothing DEF Calling, CustomerSpeaks, IsMail
      <4>3. QED
        BY <3>1, <4>1, <4>2
    <3>5. CASE Crash
      BY <3>1, <3>2, <3>5 DEF Crash, rowVars
    <3>6. QED
      BY <1>2, <3>3, <3>4, <3>5, NextSplit DEF HeardNext
  <2>4. QED
    BY <2>2, <2>3
<1>3. QED
  BY <1>1, <1>2

\* A message of the customer that nobody has dealt with is where agents look, its
\* handler is about to call one of them, or one of the seven excuses applies.
THEOREM CustomerHeard == HeardSpec => []UnheardHasCause
<1>1. HeardSpec => []TypeOK /\ []SeenInv
  <2>1. Spec => []SeenInv
    <3>1. TypeOK /\ SeenInv /\ [Next]_vars => SeenInv'
      BY SeenStep
    <3>2. QED
      BY <3>1, InitSeen, TypeCorrect, PTL DEF Spec
  <2>2. QED
    BY <2>1, HeardImplementsSpec, TypeCorrect, PTL
<1>2. HeardInit => HeardInv
  BY DEF HeardInit, HeardInv
<1>3. TypeOK /\ SeenInv /\ HeardInv /\ [HeardNext]_heardVars => HeardInv'
  BY HeardStep
<1>4. HeardInv => UnheardHasCause
  BY DEF HeardInv, UnheardHasCause
<1>5. QED
  BY <1>1, <1>2, <1>3, <1>4, PTL DEF HeardSpec
=============================================================================
