-------------------------- MODULE AgentDesk_proofs --------------------------
(***************************************************************************)
(* Proofs about the browsers: the event stream of the shell, the reply of  *)
(* the portal that is sent once, and the types of the shell, the lists and *)
(* the page of a ticket.                                                   *)
(***************************************************************************)
EXTENDS AgentDesk, TLAPS, FiniteSetTheorems

-----------------------------------------------------------------------------
(***************************************************************************)
(* The event stream.                                                       *)
(***************************************************************************)
StreamSteps == {"none", "asking", "opening", "open", "waiting", "gone"}

StreamTypeOK == session \in 0..signIns /\ signIns \in 0..MaxSignIns /\ stream \in [Sessions -> StreamSteps]

\* The present session is the last that began; those to come have no stream, and one
\* that is over waits for its ticket at the most.
StreamInv ==
  /\ session \in {0, signIns}
  /\ \A s \in Sessions : s > signIns => stream[s] = "none"
  /\ \A s \in Sessions : s # session => stream[s] \in {"none", "asking", "gone"}

LEMMA StreamStart == Init => StreamTypeOK /\ StreamInv
BY ShellAssumption DEF Init, ShellInit, StreamTypeOK, StreamInv, Sessions, StreamSteps

LEMMA SignInKeepsStream ==
  ASSUME StreamTypeOK, StreamInv, SignIn
  PROVE  (StreamTypeOK /\ StreamInv)'
BY ShellAssumption DEF SignIn, StreamTypeOK, StreamInv, Sessions, StreamSteps

LEMMA SignOutKeepsStream ==
  ASSUME StreamTypeOK, StreamInv, SignOut
  PROVE  (StreamTypeOK /\ StreamInv)'
<1>1. session \in Sessions
  BY ShellAssumption DEF SignOut, StreamTypeOK, StreamInv, Sessions
<1> QED
  BY <1>1, ShellAssumption DEF SignOut, StreamTypeOK, StreamInv, Sessions, StreamSteps

LEMMA ConnectsKeepsStream ==
  ASSUME StreamTypeOK, StreamInv, NEW s \in Sessions, Connects(s)
  PROVE  (StreamTypeOK /\ StreamInv)'
<1>1. s <= signIns
  BY ShellAssumption DEF StreamInv, StreamTypeOK, Connects, Sessions
<1> QED
  BY <1>1, ShellAssumption DEF Connects, TicketComes, Cancelled, StreamTypeOK, StreamInv, Sessions, StreamSteps

LEMMA InterruptsKeepsStream ==
  ASSUME StreamTypeOK, StreamInv, NEW s \in Sessions, Interrupts(s)
  PROVE  (StreamTypeOK /\ StreamInv)'
<1>1. s <= signIns
  BY ShellAssumption DEF StreamInv, StreamTypeOK, Interrupts, Sessions
<1> QED
  BY <1>1, ShellAssumption DEF Interrupts, Breaks, Cancelled, StreamTypeOK, StreamInv, Sessions, StreamSteps

LEMMA StreamStep ==
  ASSUME StreamTypeOK, StreamInv, [Next]_deskVars
  PROVE  (StreamTypeOK /\ StreamInv)'
<1>a. ASSUME UNCHANGED <<session, signIns, stream>> PROVE (StreamTypeOK /\ StreamInv)'
  BY <1>a DEF StreamTypeOK, StreamInv
<1>1. CASE SignIn
  BY <1>1, SignInKeepsStream
<1>2. CASE SignOut
  BY <1>2, SignOutKeepsStream
<1>3. CASE \E s \in Sessions : Connects(s) \/ Interrupts(s)
  BY <1>3, ConnectsKeepsStream, InterruptsKeepsStream
<1>4. CASE ShellNext
  <2>1. CASE ArchiveMoves \/ EventComes \/ RefreshCard
    BY <1>a, <2>1 DEF ArchiveMoves, EventComes, RefreshCard, streamVars
  <2>2. CASE \E c \in Chains : ServeStatus(c) \/ StatusComes(c) \/ PollFails(c) \/ TimerFires(c)
    BY <1>a, <2>2 DEF ServeStatus, StatusComes, PollFails, TimerFires, streamVars
  <2>3. CASE \E n \in Notices : NoticeMade(n)
    BY <1>a, <2>3 DEF NoticeMade, streamVars
  <2>4. CASE AskBadge \/ BadgeComes \/ OpenPanel \/ ClosePanel \/ MarkRead \/ MarkAllRead \/ MarkedComes
    BY <1>a, <2>4 DEF AskBadge, BadgeComes, OpenPanel, ClosePanel, MarkRead, MarkAllRead, MarkedComes, streamVars
  <2> QED
    BY <1>1, <1>2, <1>3, <1>4, <2>1, <2>2, <2>3, <2>4 DEF ShellNext
<1>5. CASE UNCHANGED shellVars
  BY <1>a, <1>5 DEF shellVars
<1> QED
  BY <1>4, <1>5 DEF Next, deskVars

\* A browser holds one stream at the most, that of the session that is there, whatever
\* tickets and retries of earlier sessions come late (useSSE's connect chain).
THEOREM StreamIsOne == Spec => []OneStream
<1>1. StreamTypeOK /\ StreamInv => OneStream
  <2> SUFFICES ASSUME StreamTypeOK, StreamInv PROVE OneStream
    OBVIOUS
  <2>1. \A s \in Sessions : Open(s) => s = session
    BY DEF StreamTypeOK, StreamInv, Open
  <2>2. {s \in Sessions : Open(s)} \subseteq {session}
    BY <2>1
  <2>3. Cardinality({session}) = 1 /\ IsFiniteSet({session})
    BY FS_Singleton
  <2>4. Cardinality({s \in Sessions : Open(s)}) <= 1
    BY <2>2, <2>3, FS_Subset
  <2> QED
    BY <2>1, <2>4 DEF OneStream
<1>2. StreamTypeOK /\ StreamInv /\ [Next]_deskVars => (StreamTypeOK /\ StreamInv)'
  BY StreamStep
<1> QED
  BY <1>1, <1>2, StreamStart, PTL DEF Spec

-----------------------------------------------------------------------------
(***************************************************************************)
(* The reply of the portal.                                                *)
(***************************************************************************)
Formed(c) == c = [kind |-> c.kind, pc |-> c.pc, plan |-> c.plan, got |-> c.got]
CallsFormed ==
  /\ calls = [by \in Pages |-> [s \in Slots |-> calls[by][s]]]
  /\ \A by \in Pages, s \in Slots : Formed(calls[by][s])

Composer(r) == r = [text |-> r.text, note |-> r.note, files |-> r.files, cc |-> r.cc, sending |-> r.sending]
DraftShape(d) ==
  /\ d = [by \in Pages |-> d[by]]
  /\ \A by \in Pages : Composer(d[by])

TicketFormed ==
  /\ ticket = [log |-> ticket.log, status |-> ticket.status, tags |-> ticket.tags, cc |-> ticket.cc]
  /\ ticket.log \in Seq(Kinds)

Formation == CallsFormed /\ DraftShape(draft) /\ TicketFormed /\ written \in [Pages \union {"mail"} -> Nat] /\ lost \in Nat

RepliesIn(log) == {i \in DOMAIN log : log[i] = "reply"}
ReplyOnWay(s) == calls["portal"][s].kind = "send"
Kept(s) == ReplyOnWay(s) /\ calls["portal"][s].pc = "answered"

\* A text that no reply on the ticket is made of yet.
Unsent == draft["portal"].text /\ \A s \in Slots : ~Kept(s)

\* One request of the portal carries a reply, and while it is on its way the text
\* is in the composer and the button disabled.
ComposerInv ==
  /\ \A s, t \in Slots : ReplyOnWay(s) /\ ReplyOnWay(t) => s = t
  /\ \A s \in Slots : calls["portal"][s].kind # "resolve"
  /\ \A s \in Slots : ReplyOnWay(s) => draft["portal"].text /\ draft["portal"].sending

\* Of the texts written, one that waits in the composer is not on the ticket.
CreditInv == Cardinality(RepliesIn(ticket.log)) + (IF Unsent THEN 1 ELSE 0) <= 1 + written["portal"] + lost

LEMMA OneMore ==
  ASSUME NEW log \in Seq(Kinds), NEW rows \in Seq(Kinds)
  PROVE  /\ RepliesIn(log) \subseteq RepliesIn(log \o rows)
         /\ \A i \in RepliesIn(log \o rows) \ RepliesIn(log) : i - Len(log) \in RepliesIn(rows) /\ i \in Nat
BY DEF RepliesIn

LEMMA RepliesFinite ==
  ASSUME NEW log \in Seq(Kinds)
  PROVE  IsFiniteSet(RepliesIn(log)) /\ Cardinality(RepliesIn(log)) \in Nat
<1>1. RepliesIn(log) \subseteq 1..Len(log)
  BY DEF RepliesIn
<1>2. IsFiniteSet(1..Len(log))
  BY FS_Interval
<1> QED
  BY <1>1, <1>2, FS_Subset, FS_CardinalityType

LEMMA OtherRows ==
  ASSUME NEW log \in Seq(Kinds), NEW rows \in Seq(Kinds), \A i \in DOMAIN rows : rows[i] # "reply"
  PROVE  log \o rows \in Seq(Kinds) /\ RepliesIn(log \o rows) = RepliesIn(log)
<1>1. RepliesIn(rows) = {}
  BY DEF RepliesIn
<1>2. log \o rows \in Seq(Kinds)
  OBVIOUS
<1>3. RepliesIn(log \o rows) = RepliesIn(log)
  <2>1. RepliesIn(log) \subseteq RepliesIn(log \o rows)
    BY OneMore
  <2>2. \A i \in RepliesIn(log \o rows) \ RepliesIn(log) : i - Len(log) \in RepliesIn(rows)
    BY OneMore
  <2> QED
    BY <1>1, <2>1, <2>2
<1> QED
  BY <1>2, <1>3

LEMMA ReplyRows ==
  ASSUME NEW log \in Seq(Kinds), NEW rows \in {<<"reply">>, <<"reply", "event">>}
  PROVE  log \o rows \in Seq(Kinds) /\ Cardinality(RepliesIn(log \o rows)) = Cardinality(RepliesIn(log)) + 1
<1>1. rows \in Seq(Kinds)
  <2>1. <<"reply">> \in Seq(Kinds) /\ <<"reply", "event">> \in Seq(Kinds)
    BY DEF Kinds
  <2> QED
    BY <2>1
<1>2. RepliesIn(rows) = {1}
  BY DEF RepliesIn
<1>3. Len(log) + 1 \in RepliesIn(log \o rows) /\ Len(log) + 1 \notin RepliesIn(log)
  BY <1>1 DEF RepliesIn
<1>4. RepliesIn(log \o rows) = RepliesIn(log) \cup {Len(log) + 1}
  BY <1>1, <1>2, <1>3, OneMore
<1>5. IsFiniteSet(RepliesIn(log))
  BY RepliesFinite
<1>6. Cardinality(RepliesIn(log \o rows)) = Cardinality(RepliesIn(log)) + 1
  BY <1>3, <1>4, <1>5, FS_AddElement
<1>7. log \o rows \in Seq(Kinds)
  BY <1>1
<1> QED
  BY <1>6, <1>7

\* What a request of the page does to the table of requests.
LEMMA StartWrites ==
  ASSUME CallsFormed, NEW by \in Pages, NEW s \in Slots, NEW call, Formed(call), Start(by, s, call)
  PROVE  /\ CallsFormed'
         /\ calls'[by][s] = call
         /\ \A b \in Pages, t \in Slots : b # by \/ t # s => calls'[b][t] = calls[b][t]
<1>1. calls' = [b \in Pages |-> [t \in Slots |-> IF b = by /\ t = s THEN call ELSE calls[b][t]]]
  BY DEF CallsFormed, Start
<1> QED
  BY <1>1 DEF CallsFormed, Formed

LEMMA CallsAreFormed ==
  ASSUME NEW kind, NEW plan
  PROVE  /\ Formed(NoCall) /\ NoCall.kind = "none"
         /\ Formed(Call(kind, plan)) /\ Call(kind, plan).kind = kind /\ Call(kind, plan).pc = "sent"
         /\ Call(kind, plan) = [kind |-> kind, pc |-> "sent", plan |-> plan, got |-> NoCall.got]
<1>1. Formed(NoCall) /\ NoCall.kind = "none"
  BY DEF Formed, NoCall
<1>2. \A k, p, w, g : /\ [[kind |-> k, pc |-> w, plan |-> p, got |-> g] EXCEPT !.kind = kind] = [kind |-> kind, pc |-> w, plan |-> p, got |-> g]
                    /\ [[kind |-> k, pc |-> w, plan |-> p, got |-> g] EXCEPT !.pc = "sent"] = [kind |-> k, pc |-> "sent", plan |-> p, got |-> g]
                    /\ [[kind |-> k, pc |-> w, plan |-> p, got |-> g] EXCEPT !.plan = plan] = [kind |-> k, pc |-> w, plan |-> plan, got |-> g]
  OBVIOUS
<1>3. Call(kind, plan) = [[[NoCall EXCEPT !.kind = kind] EXCEPT !.pc = "sent"] EXCEPT !.plan = plan]
  BY DEF Call
<1>4. Call(kind, plan) = [kind |-> kind, pc |-> "sent", plan |-> plan, got |-> NoCall.got]
  <2>1. NoCall = [kind |-> "none", pc |-> "idle", plan |-> NoPlan, got |-> NoCall.got]
    BY DEF NoCall
  <2> QED
    BY <1>2, <1>3, <2>1
<1> QED
  BY <1>1, <1>4 DEF Formed

LEMMA FieldsWritten ==
  ASSUME NEW c, Formed(c), NEW pc, NEW got
  PROVE  /\ [c EXCEPT !.pc = pc] = [kind |-> c.kind, pc |-> pc, plan |-> c.plan, got |-> c.got]
         /\ [c EXCEPT !.pc = pc, !.got = got] = [kind |-> c.kind, pc |-> pc, plan |-> c.plan, got |-> got]
<1>1. \A k, w, l, g : [[kind |-> k, pc |-> w, plan |-> l, got |-> g] EXCEPT !.got = got] = [kind |-> k, pc |-> w, plan |-> l, got |-> got]
  OBVIOUS
<1>2. c \in [kind : {c.kind}, pc : {c.pc}, plan : {c.plan}, got : {c.got}]
  BY DEF Formed
<1>3. [c EXCEPT !.pc = pc] = [kind |-> c.kind, pc |-> pc, plan |-> c.plan, got |-> c.got]
  BY <1>2
<1>4. [c EXCEPT !.pc = pc, !.got = got] = [[c EXCEPT !.pc = pc] EXCEPT !.got = got]
  OBVIOUS
<1>5. [[c EXCEPT !.pc = pc] EXCEPT !.got = got] = [kind |-> c.kind, pc |-> pc, plan |-> c.plan, got |-> got]
  <2>1. [[kind |-> c.kind, pc |-> pc, plan |-> c.plan, got |-> c.got] EXCEPT !.got = got]
        = [kind |-> c.kind, pc |-> pc, plan |-> c.plan, got |-> got]
    BY <1>1
  <2> QED
    BY <2>1, <1>3
<1> QED
  BY <1>3, <1>4, <1>5, Zenon

LEMMA AnswerWrites ==
  ASSUME CallsFormed, NEW by \in Pages, NEW s \in Slots, NEW got, Answer(by, s, got)
  PROVE  /\ CallsFormed'
         /\ calls'[by][s].kind = calls[by][s].kind /\ calls'[by][s].pc = "answered"
         /\ \A b \in Pages, t \in Slots : b # by \/ t # s => calls'[b][t] = calls[b][t]
<1> DEFINE call == [calls[by][s] EXCEPT !.pc = "answered", !.got = got]
<1>1. Formed(call) /\ call.kind = calls[by][s].kind /\ call.pc = "answered"
  <2>1. Formed(calls[by][s])
    BY DEF CallsFormed
  <2>2. call = [kind |-> calls[by][s].kind, pc |-> "answered", plan |-> calls[by][s].plan, got |-> got]
    BY <2>1, FieldsWritten
  <2> HIDE DEF call
  <2> QED
    BY <2>2 DEF Formed
<1>2. Start(by, s, call)
  BY DEF Answer
<1> HIDE DEF call
<1> QED
  BY <1>1, <1>2, StartWrites

LEMMA FailureWrites ==
  ASSUME CallsFormed, NEW by \in Pages, NEW s \in Slots, Start(by, s, [calls[by][s] EXCEPT !.pc = "failed"])
  PROVE  /\ CallsFormed'
         /\ calls'[by][s].kind = calls[by][s].kind /\ calls'[by][s].pc = "failed"
         /\ \A b \in Pages, t \in Slots : b # by \/ t # s => calls'[b][t] = calls[b][t]
<1> DEFINE call == [calls[by][s] EXCEPT !.pc = "failed"]
<1>1. Formed(call) /\ call.kind = calls[by][s].kind /\ call.pc = "failed"
  <2>1. Formed(calls[by][s])
    BY DEF CallsFormed
  <2>2. call = [kind |-> calls[by][s].kind, pc |-> "failed", plan |-> calls[by][s].plan, got |-> calls[by][s].got]
    BY <2>1, FieldsWritten
  <2> HIDE DEF call
  <2> QED
    BY <2>2 DEF Formed
<1>2. Start(by, s, call)
  OBVIOUS
<1> HIDE DEF call
<1> QED
  BY <1>1, <1>2, StartWrites

SameDraft(by) == draft'[by].text = draft[by].text /\ draft'[by].sending = draft[by].sending
SameWritten == written'["portal"] = written["portal"]
SameReplies == RepliesIn(ticket'.log) = RepliesIn(ticket.log)

\* A step that touches no reply of the portal: its request, if it has one, stays or
\* changes into another that is no reply.
LEMMA NoReplyTouched ==
  ASSUME Formation, ComposerInv, CreditInv, SameDraft("portal"), SameWritten, SameReplies, lost' \in Nat, lost' >= lost,
         \A s \in Slots : \/ calls'["portal"][s] = calls["portal"][s]
                          \/ ~ReplyOnWay(s) /\ calls'["portal"][s].kind \notin {"send", "resolve"}
  PROVE  ComposerInv' /\ CreditInv'
<1>1. ComposerInv'
  BY DEF ComposerInv, SameDraft, ReplyOnWay
<1>2. Unsent' = Unsent
  BY DEF Unsent, SameDraft, Kept, ReplyOnWay
<1>3. Cardinality(RepliesIn(ticket.log)) \in Nat
  BY RepliesFinite DEF Formation, TicketFormed
<1>4. written["portal"] \in Nat
  BY DEF Formation, Pages
<1>5. CreditInv'
  BY <1>2, <1>3, <1>4 DEF CreditInv, SameWritten, SameReplies, Formation
<1> QED
  BY <1>1, <1>5

DraftBecomes(by, r) == draft' = [b \in Pages |-> IF b = by THEN r ELSE draft[b]]

LEMMA DraftWrites ==
  ASSUME DraftShape(draft), NEW by \in Pages, NEW r, Composer(r), DraftBecomes(by, r)
  PROVE  DraftShape(draft') /\ draft'[by] = r /\ \A b \in Pages \ {by} : draft'[b] = draft[b]
<1>1. draft'[by] = r /\ (\A b \in Pages \ {by} : draft'[b] = draft[b]) /\ draft' = [b \in Pages |-> draft'[b]]
  BY DEF DraftBecomes
<1> QED
  BY <1>1 DEF DraftShape

\* A composer with some of its fields rewritten.
LEMMA FieldRewritten ==
  ASSUME NEW r, Composer(r), NEW v
  PROVE  /\ [r EXCEPT !.text = v] = [text |-> v, note |-> r.note, files |-> r.files, cc |-> r.cc, sending |-> r.sending]
         /\ [r EXCEPT !.note = v] = [text |-> r.text, note |-> v, files |-> r.files, cc |-> r.cc, sending |-> r.sending]
         /\ [r EXCEPT !.files = v] = [text |-> r.text, note |-> r.note, files |-> v, cc |-> r.cc, sending |-> r.sending]
         /\ [r EXCEPT !.cc = v] = [text |-> r.text, note |-> r.note, files |-> r.files, cc |-> v, sending |-> r.sending]
         /\ [r EXCEPT !.sending = v] = [text |-> r.text, note |-> r.note, files |-> r.files, cc |-> r.cc, sending |-> v]
<1>1. r \in [text : {r.text}, note : {r.note}, files : {r.files}, cc : {r.cc}, sending : {r.sending}]
  BY DEF Composer
<1>2. [r EXCEPT !.text = v] = [text |-> v, note |-> r.note, files |-> r.files, cc |-> r.cc, sending |-> r.sending]
  BY <1>1
<1>3. [r EXCEPT !.note = v] = [text |-> r.text, note |-> v, files |-> r.files, cc |-> r.cc, sending |-> r.sending]
  BY <1>1
<1>4. [r EXCEPT !.files = v] = [text |-> r.text, note |-> r.note, files |-> v, cc |-> r.cc, sending |-> r.sending]
  BY <1>1
<1>5. [r EXCEPT !.cc = v] = [text |-> r.text, note |-> r.note, files |-> r.files, cc |-> v, sending |-> r.sending]
  BY <1>1
<1>6. [r EXCEPT !.sending = v] = [text |-> r.text, note |-> r.note, files |-> r.files, cc |-> r.cc, sending |-> v]
  BY <1>1
<1> QED
  BY <1>2, <1>3, <1>4, <1>5, <1>6, Zenon

LEMMA NotedComposer ==
  ASSUME NEW r, Composer(r), NEW w
  PROVE  Composer([r EXCEPT !.text = TRUE, !.note = w]) /\ [r EXCEPT !.text = TRUE, !.note = w].text = TRUE
         /\ [r EXCEPT !.text = TRUE, !.note = w].sending = r.sending
<1> DEFINE r1 == [r EXCEPT !.text = TRUE]
<1>1. r1 = [text |-> TRUE, note |-> r.note, files |-> r.files, cc |-> r.cc, sending |-> r.sending]
  BY FieldRewritten, Zenon
<1>2. [r EXCEPT !.text = TRUE, !.note = w] = [r1 EXCEPT !.note = w]
  OBVIOUS
<1> HIDE DEF r1
<1>3. Composer(r1) /\ r1.text = TRUE /\ r1.files = r.files /\ r1.cc = r.cc /\ r1.sending = r.sending
  BY <1>1 DEF Composer
<1>4. [r1 EXCEPT !.note = w] = [text |-> TRUE, note |-> w, files |-> r1.files, cc |-> r1.cc, sending |-> r1.sending]
  BY <1>3, FieldRewritten, Zenon
<1> DEFINE r2 == [r1 EXCEPT !.note = w]
<1>5. [r EXCEPT !.text = TRUE, !.note = w] = r2
  BY <1>2
<1>6. r2 = [text |-> r1.text, note |-> w, files |-> r1.files, cc |-> r1.cc, sending |-> r1.sending]
  BY <1>4
<1> HIDE DEF r2
<1>7. Composer(r2) /\ r2.text = TRUE /\ r2.sending = r.sending
  BY <1>3, <1>6 DEF Composer
<1> QED
  BY <1>5, <1>7, Zenon

LEMMA EmptiedComposer ==
  ASSUME NEW r, Composer(r), NEW y
  PROVE  /\ Composer([r EXCEPT !.text = FALSE, !.files = {}, !.sending = FALSE, !.cc = y])
         /\ [r EXCEPT !.text = FALSE, !.files = {}, !.sending = FALSE, !.cc = y].text = FALSE
         /\ [r EXCEPT !.text = FALSE, !.files = {}, !.sending = FALSE, !.cc = y].sending = FALSE
<1> DEFINE r1 == [r EXCEPT !.text = FALSE]
           r2 == [r1 EXCEPT !.files = {}]
           r3 == [r2 EXCEPT !.sending = FALSE]
<1>1. [r EXCEPT !.text = FALSE, !.files = {}, !.sending = FALSE, !.cc = y] = [r3 EXCEPT !.cc = y]
  OBVIOUS
<1>2. r1 = [text |-> FALSE, note |-> r.note, files |-> r.files, cc |-> r.cc, sending |-> r.sending]
  BY FieldRewritten, Zenon
<1> HIDE DEF r1
<1>3. Composer(r1) /\ r1.text = FALSE /\ r1.note = r.note
  BY <1>2 DEF Composer
<1>4. r2 = [text |-> r1.text, note |-> r1.note, files |-> {}, cc |-> r1.cc, sending |-> r1.sending]
  BY <1>3, FieldRewritten, Zenon
<1> HIDE DEF r2
<1>5. Composer(r2) /\ r2.text = FALSE /\ r2.files = {} /\ r2.note = r.note
  BY <1>3, <1>4 DEF Composer
<1>6. r3 = [text |-> r2.text, note |-> r2.note, files |-> r2.files, cc |-> r2.cc, sending |-> FALSE]
  BY <1>5, FieldRewritten, Zenon
<1> HIDE DEF r3
<1>7. Composer(r3) /\ r3.text = FALSE /\ r3.files = {} /\ r3.note = r.note /\ r3.sending = FALSE
  BY <1>5, <1>6 DEF Composer
<1> DEFINE r4 == [r3 EXCEPT !.cc = y]
<1>8. r4 = [text |-> r3.text, note |-> r3.note, files |-> r3.files, cc |-> y, sending |-> r3.sending]
  BY <1>7, FieldRewritten, Zenon
<1>9. [r EXCEPT !.text = FALSE, !.files = {}, !.sending = FALSE, !.cc = y] = r4
  BY <1>1
<1> HIDE DEF r4
<1>10. Composer(r4) /\ r4.text = FALSE /\ r4.sending = FALSE
  BY <1>7, <1>8 DEF Composer
<1> QED
  BY <1>9, <1>10, Zenon

LEMMA LogRewritten ==
  ASSUME NEW r, r = [log |-> r.log, status |-> r.status, tags |-> r.tags, cc |-> r.cc], NEW log
  PROVE  [r EXCEPT !.log = log] = [log |-> log, status |-> r.status, tags |-> r.tags, cc |-> r.cc]
<1>1. r \in [log : {r.log}, status : {r.status}, tags : {r.tags}, cc : {r.cc}]
  OBVIOUS
<1> QED
  BY <1>1

\* The rows a message adds.
LEMMA PostedRows ==
  ASSUME TicketFormed, NEW kind \in Kinds
  PROVE  \E rows \in {<<kind>>, <<kind, "event">>} : \E status :
           Posted(ticket, kind) = [log |-> ticket.log \o rows, status |-> status, tags |-> ticket.tags, cc |-> ticket.cc]
<1> DEFINE to == CASE kind \in {"reply", "mail"} -> Moves(ticket.status, "customer")
                   [] kind = "agent"             -> Moves(ticket.status, "agent")
                   [] OTHER                      -> ticket.status
           rows == IF to = ticket.status THEN <<kind>> ELSE <<kind, "event">>
<1>1. Posted(ticket, kind) = [ticket EXCEPT !.log = ticket.log \o rows, !.status = to]
  BY DEF Posted
<1>2. rows \in {<<kind>>, <<kind, "event">>}
  OBVIOUS
<1> HIDE DEF to, rows
<1>3. [ticket EXCEPT !.log = ticket.log \o rows, !.status = to] = [[ticket EXCEPT !.log = ticket.log \o rows] EXCEPT !.status = to]
  OBVIOUS
<1>4. \A l, l2, s, s2, t, c :
        /\ [[log |-> l, status |-> s, tags |-> t, cc |-> c] EXCEPT !.log = l2] = [log |-> l2, status |-> s, tags |-> t, cc |-> c]
        /\ [[log |-> l, status |-> s, tags |-> t, cc |-> c] EXCEPT !.status = s2] = [log |-> l, status |-> s2, tags |-> t, cc |-> c]
  OBVIOUS
<1>5. [ticket EXCEPT !.log = ticket.log \o rows] = [log |-> ticket.log \o rows, status |-> ticket.status, tags |-> ticket.tags, cc |-> ticket.cc]
  BY LogRewritten DEF TicketFormed
<1>6. Posted(ticket, kind) = [log |-> ticket.log \o rows, status |-> to, tags |-> ticket.tags, cc |-> ticket.cc]
  BY <1>1, <1>3, <1>4, <1>5
<1> QED
  BY <1>2, <1>6

LEMMA CopyRewritten ==
  ASSUME NEW l, NEW s, NEW t, NEW c, NEW d
  PROVE  [[log |-> l, status |-> s, tags |-> t, cc |-> c] EXCEPT !.cc = d] = [log |-> l, status |-> s, tags |-> t, cc |-> d]
OBVIOUS

LEMMA TicketGrows ==
  ASSUME TicketFormed, NEW rows \in Seq(Kinds), \A i \in DOMAIN rows : rows[i] # "reply", NEW s, NEW t, NEW c,
         ticket' = [log |-> ticket.log \o rows, status |-> s, tags |-> t, cc |-> c]
  PROVE  TicketFormed' /\ SameReplies
<1>1. ticket.log \in Seq(Kinds)
  BY DEF TicketFormed
<1>2. ticket'.log = ticket.log \o rows
  OBVIOUS
<1>3. ticket'.log \in Seq(Kinds) /\ SameReplies
  BY <1>1, <1>2, OtherRows DEF SameReplies
<1> QED
  BY <1>3 DEF TicketFormed

LEMMA OtherPost ==
  ASSUME TicketFormed, NEW kind \in Kinds \ {"reply"}, NEW cc, ticket' \in {Posted(ticket, kind), [Posted(ticket, kind) EXCEPT !.cc = cc]}
  PROVE  TicketFormed' /\ SameReplies
<1>1. PICK rows \in {<<kind>>, <<kind, "event">>} : \E status :
        Posted(ticket, kind) = [log |-> ticket.log \o rows, status |-> status, tags |-> ticket.tags, cc |-> ticket.cc]
  BY PostedRows
<1>2. rows \in Seq(Kinds) /\ \A i \in DOMAIN rows : rows[i] # "reply"
  <2>1. CASE rows = <<kind>>
    BY <2>1
  <2>2. CASE rows = <<kind, "event">>
    <3>1. "event" \in Kinds
      BY DEF Kinds
    <3> QED
      BY <2>2, <3>1
  <2> QED
    BY <2>1, <2>2
<1>3. \E s, c : ticket' = [log |-> ticket.log \o rows, status |-> s, tags |-> ticket.tags, cc |-> c]
  BY <1>1, CopyRewritten
<1> QED
  BY <1>2, <1>3, TicketGrows

LEMMA ReplyPost ==
  ASSUME TicketFormed, NEW cc, ticket' = [Posted(ticket, "reply") EXCEPT !.cc = cc]
  PROVE  TicketFormed' /\ Cardinality(RepliesIn(ticket'.log)) = Cardinality(RepliesIn(ticket.log)) + 1
<1>1. PICK rows \in {<<"reply">>, <<"reply", "event">>} : \E status :
        Posted(ticket, "reply") = [log |-> ticket.log \o rows, status |-> status, tags |-> ticket.tags, cc |-> ticket.cc]
  BY PostedRows DEF Kinds
<1> DEFINE log == ticket.log \o rows
<1>2. \E s : ticket' = [log |-> log, status |-> s, tags |-> ticket.tags, cc |-> cc]
  <2>1. PICK s : Posted(ticket, "reply") = [log |-> log, status |-> s, tags |-> ticket.tags, cc |-> ticket.cc]
    BY <1>1
  <2> HIDE DEF log
  <2>2. [[log |-> log, status |-> s, tags |-> ticket.tags, cc |-> ticket.cc] EXCEPT !.cc = cc]
        = [log |-> log, status |-> s, tags |-> ticket.tags, cc |-> cc]
    OBVIOUS
  <2> QED
    BY <2>1, <2>2
<1>3. ticket.log \in Seq(Kinds)
  BY DEF TicketFormed
<1>4. ticket'.log = ticket.log \o rows
  BY <1>2
<1>5. ticket'.log \in Seq(Kinds) /\ Cardinality(RepliesIn(ticket'.log)) = Cardinality(RepliesIn(ticket.log)) + 1
  BY <1>3, <1>4, ReplyRows
<1> QED
  BY <1>2, <1>5 DEF TicketFormed

Sent == Formation /\ ComposerInv /\ CreditInv

LEMMA SentStart == Init => Sent
<1> SUFFICES ASSUME Init PROVE Sent
  OBVIOUS
<1>1. CallsFormed /\ \A s \in Slots : calls["portal"][s].kind \notin {"send", "resolve"}
  <2> DEFINE first(by, s) == IF s = 2 /\ by \in story THEN Call("load", NoPlan) ELSE NoCall
  <2>1. \A by \in Pages, s \in Slots : Formed(first(by, s)) /\ first(by, s).kind \in {"load", "none"}
    BY CallsAreFormed
  <2>2. calls = [by \in Pages |-> [s \in Slots |-> first(by, s)]]
    BY DEF Init, PageInit
  <2> HIDE DEF first
  <2> QED
    BY <2>1, <2>2 DEF CallsFormed, Pages
<1>2. DraftShape(draft) /\ ~draft["portal"].text
  BY DEF Init, PageInit, DraftShape, Composer, Pages
<1>3. TicketFormed /\ ticket.log = <<"reply">>
  BY DEF Init, PageInit, TicketFormed, Kinds
<1>4. written = [by \in Pages \union {"mail"} |-> 0] /\ lost = 0
  BY DEF Init, PageInit
<1>5. Cardinality(RepliesIn(ticket.log)) = 1
  <2>1. RepliesIn(ticket.log) = {1}
    BY <1>3 DEF RepliesIn
  <2> QED
    BY <2>1, FS_Singleton
<1>6. Formation
  BY <1>1, <1>2, <1>3, <1>4 DEF Formation
<1>7. ComposerInv
  BY <1>1 DEF ComposerInv, ReplyOnWay
<1>8. CreditInv
  BY <1>2, <1>4, <1>5 DEF CreditInv, Unsent, Pages
<1> QED
  BY <1>6, <1>7, <1>8 DEF Sent

LEMMA OneField ==
  ASSUME NEW r, Composer(r), NEW v
  PROVE  /\ Composer([r EXCEPT !.files = v]) /\ [r EXCEPT !.files = v].text = r.text /\ [r EXCEPT !.files = v].sending = r.sending
         /\ Composer([r EXCEPT !.cc = v]) /\ [r EXCEPT !.cc = v].text = r.text /\ [r EXCEPT !.cc = v].sending = r.sending
         /\ Composer([r EXCEPT !.sending = v]) /\ [r EXCEPT !.sending = v].text = r.text /\ [r EXCEPT !.sending = v].sending = v
<1> DEFINE f == [r EXCEPT !.files = v]
           c == [r EXCEPT !.cc = v]
           s == [r EXCEPT !.sending = v]
<1>1. f = [text |-> r.text, note |-> r.note, files |-> v, cc |-> r.cc, sending |-> r.sending]
  BY FieldRewritten, Zenon
<1>2. c = [text |-> r.text, note |-> r.note, files |-> r.files, cc |-> v, sending |-> r.sending]
  BY FieldRewritten, Zenon
<1>3. s = [text |-> r.text, note |-> r.note, files |-> r.files, cc |-> r.cc, sending |-> v]
  BY FieldRewritten, Zenon
<1> SUFFICES /\ Composer(f) /\ f.text = r.text /\ f.sending = r.sending
             /\ Composer(c) /\ c.text = r.text /\ c.sending = r.sending
             /\ Composer(s) /\ s.text = r.text /\ s.sending = v
  OBVIOUS
<1> HIDE DEF f, c, s
<1> QED
  BY <1>1, <1>2, <1>3 DEF Composer

LEMMA ChipsWrite ==
  ASSUME DraftShape(draft), NEW by \in Pages, NEW v,
         draft' = [draft EXCEPT ![by].files = v] \/ draft' = [draft EXCEPT ![by].cc = v]
  PROVE  DraftShape(draft') /\ \A b \in Pages : SameDraft(b)
<1>1. \/ DraftBecomes(by, [draft[by] EXCEPT !.files = v])
      \/ DraftBecomes(by, [draft[by] EXCEPT !.cc = v])
  BY DEF DraftShape, DraftBecomes
<1>2. Composer(draft[by])
  BY DEF DraftShape
<1>3. \E r : Composer(r) /\ r.text = draft[by].text /\ r.sending = draft[by].sending /\ DraftBecomes(by, r)
  BY <1>1, <1>2, OneField
<1> QED
  BY <1>3, DraftWrites DEF SameDraft

LEMMA SendingWrites ==
  ASSUME DraftShape(draft), NEW by \in Pages, NEW v, draft' = [draft EXCEPT ![by].sending = v]
  PROVE  /\ DraftShape(draft')
         /\ draft'[by].text = draft[by].text /\ draft'[by].sending = v
         /\ \A b \in Pages \ {by} : draft'[b] = draft[b]
<1>1. DraftBecomes(by, [draft[by] EXCEPT !.sending = v])
  BY DEF DraftShape, DraftBecomes
<1>2. Composer(draft[by])
  BY DEF DraftShape
<1>3. \E r : Composer(r) /\ r.text = draft[by].text /\ r.sending = v /\ DraftBecomes(by, r)
  BY <1>1, <1>2, OneField
<1> QED
  BY <1>3, DraftWrites

LEMMA EmptyingWrites ==
  ASSUME DraftShape(draft), NEW by \in Pages, NEW v,
         draft' = [draft EXCEPT ![by].text = FALSE, ![by].files = {}, ![by].sending = FALSE, ![by].cc = v]
  PROVE  /\ DraftShape(draft')
         /\ draft'[by].text = FALSE /\ draft'[by].sending = FALSE
         /\ \A b \in Pages \ {by} : draft'[b] = draft[b]
<1>1. DraftBecomes(by, [draft[by] EXCEPT !.text = FALSE, !.files = {}, !.sending = FALSE, !.cc = v])
  BY DEF DraftShape, DraftBecomes
<1>2. Composer(draft[by])
  BY DEF DraftShape
<1>3. \E r : Composer(r) /\ r.text = FALSE /\ r.sending = FALSE /\ DraftBecomes(by, r)
  BY <1>1, <1>2, EmptiedComposer
<1> QED
  BY <1>3, DraftWrites

\* A step that leaves the requests, the composers and the count of the texts alone.
LEMMA RowsAlone ==
  ASSUME Sent, TicketFormed', SameReplies, UNCHANGED <<calls, draft, lost>>, written' \in [Pages \union {"mail"} -> Nat], SameWritten
  PROVE  Sent'
<1>1. Formation'
  BY DEF Sent, Formation, CallsFormed
<1>2. lost' \in Nat /\ lost' >= lost /\ SameDraft("portal")
  BY DEF Sent, Formation, SameDraft
<1>3. ComposerInv' /\ CreditInv'
  BY <1>2, NoReplyTouched DEF Sent
<1> QED
  BY <1>1, <1>3 DEF Sent

\* A step that writes one request that is no reply, and no text of the portal.
LEMMA RequestAlone ==
  ASSUME Sent, NEW by \in Pages, NEW s \in Slots, CallsFormed',
         \A b \in Pages, t \in Slots : b # by \/ t # s => calls'[b][t] = calls[b][t],
         by = "portal" => ~ReplyOnWay(s) /\ calls'["portal"][s].kind \notin {"send", "resolve"},
         TicketFormed', SameReplies, DraftShape(draft'), SameDraft("portal"), UNCHANGED written, lost' \in Nat, lost' >= lost
  PROVE  Sent'
<1>1. Formation'
  BY DEF Sent, Formation
<1>2. \A t \in Slots : \/ calls'["portal"][t] = calls["portal"][t]
                       \/ ~ReplyOnWay(t) /\ calls'["portal"][t].kind \notin {"send", "resolve"}
  BY DEF Pages
<1>3. SameWritten
  BY DEF SameWritten
<1>4. ComposerInv' /\ CreditInv'
  BY <1>2, <1>3, NoReplyTouched DEF Sent
<1> QED
  BY <1>1, <1>4 DEF Sent

LEMMA WriteKeepsSent ==
  ASSUME Sent, NEW by \in Pages, Write(by)
  PROVE  Sent'
<1>1. PICK note : draft' = [draft EXCEPT ![by].text = TRUE, ![by].note = note]
  BY DEF Write
<1>2. DraftShape(draft) /\ Composer(draft[by])
  BY DEF Sent, Formation, DraftShape
<1>3. DraftBecomes(by, [draft[by] EXCEPT !.text = TRUE, !.note = note])
  BY <1>1, <1>2 DEF DraftShape, DraftBecomes
<1>4. \E r : Composer(r) /\ r.text = TRUE /\ r.sending = draft[by].sending /\ DraftBecomes(by, r)
  BY <1>2, <1>3, NotedComposer
<1>5. /\ DraftShape(draft') /\ draft'[by].sending = draft[by].sending /\ draft'[by].text = TRUE
      /\ \A b \in Pages \ {by} : draft'[b] = draft[b]
  BY <1>2, <1>4, DraftWrites
<1>6. written' = [written EXCEPT ![by] = @ + 1] /\ written \in [Pages \union {"mail"} -> Nat]
  BY DEF Write, Sent, Formation
<1>7. written' \in [Pages \union {"mail"} -> Nat] /\ UNCHANGED <<ticket, calls, lost>>
  BY <1>6 DEF Write
<1>8. Formation'
  BY <1>5, <1>7 DEF Sent, Formation, CallsFormed, TicketFormed
<1>9. CASE by = "agent"
  <2>1. SameDraft("portal") /\ SameWritten /\ SameReplies
    BY <1>5, <1>6, <1>7, <1>9 DEF SameDraft, SameWritten, SameReplies, Pages
  <2>2. lost' \in Nat /\ lost' >= lost
    BY <1>7 DEF Sent, Formation
  <2>3. ComposerInv' /\ CreditInv'
    BY <1>7, <2>1, <2>2, NoReplyTouched DEF Sent
  <2> QED
    BY <1>8, <2>3 DEF Sent
<1>10. CASE by = "portal"
  <2>1. ~draft["portal"].text
    BY <1>10 DEF Write
  <2>2. ComposerInv'
    BY <1>7, <2>1 DEF Sent, ComposerInv, ReplyOnWay
  <2>3. ~Unsent
    BY <2>1 DEF Unsent
  <2>4. written'["portal"] = written["portal"] + 1 /\ written["portal"] \in Nat
    BY <1>6, <1>10 DEF Pages
  <2>5. Cardinality(RepliesIn(ticket.log)) \in Nat /\ lost \in Nat
    BY RepliesFinite DEF Sent, Formation, TicketFormed
  <2>6. CreditInv'
    BY <1>7, <2>3, <2>4, <2>5 DEF Sent, CreditInv
  <2> QED
    BY <1>8, <2>2, <2>6 DEF Sent
<1> QED
  BY <1>9, <1>10 DEF Pages

LEMMA RemoveChipKeepsSent ==
  ASSUME Sent, NEW by \in Pages, RemoveChip(by)
  PROVE  Sent'
<1>1. \E v : draft' = [draft EXCEPT ![by].files = v] \/ draft' = [draft EXCEPT ![by].cc = v]
  BY DEF RemoveChip
<1>2. DraftShape(draft)
  BY DEF Sent, Formation
<1>3. DraftShape(draft') /\ \A b \in Pages : SameDraft(b)
  <2>1. ASSUME NEW v, draft' = [draft EXCEPT ![by].files = v] PROVE DraftShape(draft') /\ \A b \in Pages : SameDraft(b)
    BY <1>2, <2>1, ChipsWrite
  <2>2. ASSUME NEW v, draft' = [draft EXCEPT ![by].cc = v] PROVE DraftShape(draft') /\ \A b \in Pages : SameDraft(b)
    BY <1>2, <2>2, ChipsWrite
  <2> QED
    BY <1>1, <2>1, <2>2
<1>4. UNCHANGED <<ticket, calls, written, lost>>
  BY DEF RemoveChip
<1>5. Formation'
  BY <1>3, <1>4 DEF Sent, Formation, CallsFormed, TicketFormed
<1>6. lost' \in Nat /\ lost' >= lost /\ SameDraft("portal") /\ SameWritten /\ SameReplies
  BY <1>3, <1>4 DEF Sent, Formation, SameWritten, SameReplies, Pages
<1>7. ComposerInv' /\ CreditInv'
  BY <1>4, <1>6, NoReplyTouched DEF Sent
<1> QED
  BY <1>5, <1>7 DEF Sent

\* The actions that only ask: their request takes a slot that is free.
Asking(by, s, call) ==
  Start(by, s, call) /\ calls[by][s].kind \in {"none", "load", "poll", "status", "tags", "convert", "attach"} /\ UNCHANGED <<ticket, draft, written, lost>>

LEMMA AskingKeepsSent ==
  ASSUME Sent, NEW by \in Pages, NEW s \in Slots, NEW call, Formed(call), Asking(by, s, call), call.kind \notin {"send", "resolve"}
  PROVE  Sent'
<1>1. CallsFormed /\ Start(by, s, call)
  BY DEF Sent, Formation, Asking
<1>2. /\ CallsFormed'
      /\ calls'[by][s] = call
      /\ \A b \in Pages, t \in Slots : b # by \/ t # s => calls'[b][t] = calls[b][t]
  BY <1>1, StartWrites
<1>3. TicketFormed' /\ SameReplies /\ DraftShape(draft') /\ SameDraft("portal") /\ UNCHANGED written /\ lost' \in Nat /\ lost' >= lost
  BY DEF Sent, Formation, Asking, TicketFormed, SameReplies, SameDraft
<1>4. by = "portal" => ~ReplyOnWay(s) /\ calls'["portal"][s].kind \notin {"send", "resolve"}
  BY <1>2 DEF ReplyOnWay, Asking
<1> QED
  BY <1>2, <1>3, <1>4, RequestAlone

LEMMA PollKeepsSent ==
  ASSUME Sent, NEW by \in Pages, NEW s \in Slots, Poll(by, s)
  PROVE  Sent'
<1>1. Formed(Call("poll", NoPlan)) /\ Call("poll", NoPlan).kind = "poll"
  BY CallsAreFormed
<1>2. Asking(by, s, Call("poll", NoPlan))
  BY DEF Poll, Asking
<1> QED
  BY <1>1, <1>2, AskingKeepsSent

LEMMA ReloadKeepsSent ==
  ASSUME Sent, NEW s \in Slots, Reload(s)
  PROVE  Sent'
<1>1. Formed(Call("poll", NoPlan)) /\ Call("poll", NoPlan).kind = "poll"
  BY CallsAreFormed
<1>2. Asking("agent", s, Call("poll", NoPlan)) /\ "agent" \in Pages
  BY DEF Reload, Asking, Idle, Pages
<1> QED
  BY <1>1, <1>2, AskingKeepsSent

LEMMA ConvertKeepsSent ==
  ASSUME Sent, NEW s \in Slots, Convert(s)
  PROVE  Sent'
<1>1. Formed(Call("convert", NoPlan)) /\ Call("convert", NoPlan).kind = "convert"
  BY CallsAreFormed
<1>2. Asking("agent", s, Call("convert", NoPlan)) /\ "agent" \in Pages
  BY DEF Convert, Asking, Idle, Pages
<1> QED
  BY <1>1, <1>2, AskingKeepsSent

LEMMA ToggleTagKeepsSent ==
  ASSUME Sent, NEW s \in Slots, NEW t \in Tags, ToggleTag(s, t)
  PROVE  Sent'
<1>1. PICK plan : Start("agent", s, Call("tags", plan))
  BY DEF ToggleTag
<1>2. Formed(Call("tags", plan)) /\ Call("tags", plan).kind = "tags"
  BY CallsAreFormed
<1>3. Asking("agent", s, Call("tags", plan)) /\ "agent" \in Pages
  BY <1>1 DEF ToggleTag, Asking, Idle, Pages
<1> QED
  BY <1>2, <1>3, AskingKeepsSent

LEMMA AttachKeepsSent ==
  ASSUME Sent, NEW by \in Pages, NEW s \in Slots, NEW f \in Files, Attach(by, s, f)
  PROVE  Sent'
<1>1. PICK plan : Start(by, s, Call("attach", plan))
  BY DEF Attach
<1>2. Formed(Call("attach", plan)) /\ Call("attach", plan).kind = "attach"
  BY CallsAreFormed
<1>3. Asking(by, s, Call("attach", plan))
  BY <1>1 DEF Attach, Asking, Idle
<1> QED
  BY <1>2, <1>3, AskingKeepsSent

LEMMA SetStatusKeepsSent ==
  ASSUME Sent, NEW by \in Pages, NEW s \in Slots, NEW status, SetStatus(by, s, status)
  PROVE  Sent'
<1>1. PICK plan : Start(by, s, Call("status", plan))
  BY DEF SetStatus
<1>2. Formed(Call("status", plan)) /\ Call("status", plan).kind = "status"
  BY CallsAreFormed
<1>3. Asking(by, s, Call("status", plan))
  BY <1>1 DEF SetStatus, Asking, Idle
<1> QED
  BY <1>2, <1>3, AskingKeepsSent

\* The button is enabled when no reply is on its way.
LEMMA SendKeepsSent ==
  ASSUME Sent, NEW by \in Pages, NEW s \in Slots, Send(by, s)
  PROVE  Sent'
<1>0. PICK kind \in {"send", "resolve"} :
        \E plan : Start(by, s, Call(kind, plan)) /\ (by = "portal" => kind = "send")
  BY DEF Send
<1>1. PICK plan : Start(by, s, Call(kind, plan)) /\ (by = "portal" => kind = "send")
  BY <1>0
<1>2. Formed(Call(kind, plan)) /\ Call(kind, plan).kind = kind /\ Call(kind, plan).pc = "sent"
  BY CallsAreFormed
<1>3. CallsFormed /\ DraftShape(draft) /\ TicketFormed
  BY DEF Sent, Formation
<1>4. /\ CallsFormed'
      /\ calls'[by][s] = Call(kind, plan)
      /\ \A b \in Pages, t \in Slots : b # by \/ t # s => calls'[b][t] = calls[b][t]
  BY <1>1, <1>2, <1>3, StartWrites
<1>5. UNCHANGED <<ticket, written, lost>> /\ draft' = [draft EXCEPT ![by].sending = TRUE]
  BY DEF Send
<1>6. /\ DraftShape(draft')
      /\ draft'[by].text = draft[by].text /\ draft'[by].sending = TRUE
      /\ \A b \in Pages \ {by} : draft'[b] = draft[b]
  BY <1>3, <1>5, SendingWrites
<1>7. Formation'
  BY <1>4, <1>5, <1>6 DEF Sent, Formation, TicketFormed
<1>8. CASE by = "agent"
  <2>1. TicketFormed' /\ SameReplies /\ SameDraft("portal") /\ lost' \in Nat /\ lost' >= lost
    BY <1>3, <1>5, <1>6, <1>8 DEF Sent, Formation, TicketFormed, SameReplies, SameDraft, Pages
  <2> QED
    BY <1>4, <1>5, <1>6, <1>8, <2>1, RequestAlone
<1>9. CASE by = "portal"
  <2>1. draft["portal"].text /\ ~draft["portal"].sending
    BY <1>9 DEF Send, MaySend
  <2>2. \A t \in Slots : ~ReplyOnWay(t)
    BY <2>1 DEF Sent, ComposerInv
  <2>3. calls'["portal"][s].kind = "send" /\ calls'["portal"][s].pc = "sent" /\ \A t \in Slots \ {s} : calls'["portal"][t] = calls["portal"][t]
    BY <1>1, <1>2, <1>4, <1>9
  <2>4. ComposerInv'
    BY <1>6, <1>9, <2>1, <2>2, <2>3 DEF Sent, ComposerInv, ReplyOnWay
  <2>5. Unsent' = Unsent
    BY <1>6, <1>9, <2>1, <2>2, <2>3 DEF Unsent, Kept, ReplyOnWay
  <2>6. CreditInv'
    BY <1>5, <2>5 DEF Sent, CreditInv
  <2> QED
    BY <1>7, <2>4, <2>6 DEF Sent
<1> QED
  BY <1>8, <1>9 DEF Pages

-----------------------------------------------------------------------------
\* The rest of the system writes rows that are no replies.
LEMMA MailKeepsSent ==
  ASSUME Sent, MailArrives
  PROVE  Sent'
<1>1. PICK more : ticket' = [Posted(ticket, "mail") EXCEPT !.cc = @ \union more]
  BY DEF MailArrives
<1>2. TicketFormed' /\ SameReplies
  <2>1. "mail" \in Kinds \ {"reply"} /\ TicketFormed
    BY DEF Kinds, Sent, Formation
  <2>2. \E cc : ticket' = [Posted(ticket, "mail") EXCEPT !.cc = cc]
    BY <1>1
  <2> QED
    BY <2>1, <2>2, OtherPost
<1>3. written' = [written EXCEPT !["mail"] = @ + 1] /\ UNCHANGED <<calls, draft, lost>>
  BY DEF MailArrives
<1>4. written' \in [Pages \union {"mail"} -> Nat] /\ SameWritten
  BY <1>3 DEF Sent, Formation, SameWritten, Pages
<1> QED
  BY <1>2, <1>3, <1>4, RowsAlone

LEMMA BotKeepsSent ==
  ASSUME Sent, BotPosts \/ BotWaits
  PROVE  Sent'
<1>1. TicketFormed' /\ SameReplies
  <2>1. CASE BotPosts
    <3>1. "bot" \in Kinds \ {"reply"} /\ TicketFormed
      BY DEF Kinds, Sent, Formation
    <3>2. ticket' = Posted(ticket, "bot")
      BY <2>1 DEF BotPosts
    <3> QED
      BY <3>1, <3>2, OtherPost
  <2>2. CASE BotWaits
    <3>1. ticket \in [log : {ticket.log}, status : {ticket.status}, tags : {ticket.tags}, cc : {ticket.cc}] /\ ticket.log \in Seq(Kinds)
      BY DEF TicketFormed, Sent, Formation
    <3>2. ticket' = [ticket EXCEPT !.status = "WAITING"]
      BY <2>2 DEF BotWaits
    <3>3. ticket' = [log |-> ticket.log, status |-> "WAITING", tags |-> ticket.tags, cc |-> ticket.cc]
      BY <3>1, <3>2
    <3> QED
      BY <3>1, <3>3 DEF TicketFormed, SameReplies
  <2> QED
    BY <2>1, <2>2
<1>2. UNCHANGED <<calls, draft, lost, written>>
  BY DEF BotPosts, BotWaits
<1>3. written' \in [Pages \union {"mail"} -> Nat] /\ SameWritten
  BY <1>2 DEF Sent, Formation, SameWritten
<1> QED
  BY <1>1, <1>2, <1>3, RowsAlone

\* An answer or a failure of a request that is no reply of the portal.
LEMMA AnswerAlone ==
  ASSUME Sent, NEW by \in Pages, NEW s \in Slots, by = "portal" => calls[by][s].kind # "send",
         CallsFormed', calls'[by][s].kind = calls[by][s].kind,
         \A b \in Pages, t \in Slots : b # by \/ t # s => calls'[b][t] = calls[b][t],
         TicketFormed', SameReplies, UNCHANGED <<draft, written>>, lost' \in Nat, lost' >= lost
  PROVE  Sent'
<1>1. by = "portal" => ~ReplyOnWay(s) /\ calls'["portal"][s].kind \notin {"send", "resolve"}
  BY DEF Sent, ComposerInv, ReplyOnWay
<1>2. DraftShape(draft') /\ SameDraft("portal")
  BY DEF Sent, Formation, SameDraft
<1> QED
  BY <1>1, <1>2, RequestAlone

LEMMA ServeReadKeepsSent ==
  ASSUME Sent, NEW by \in Pages, NEW s \in Slots, ServeRead(by, s) \/ ServeUpload(by, s), UNCHANGED <<view, draft, botStep, written, faults, lost>>
  PROVE  Sent'
<1>1. PICK got : Answer(by, s, got)
  BY DEF ServeRead, ServeUpload
<1>2. CallsFormed
  BY DEF Sent, Formation
<1>3. /\ CallsFormed' /\ calls'[by][s].kind = calls[by][s].kind
      /\ \A b \in Pages, t \in Slots : b # by \/ t # s => calls'[b][t] = calls[b][t]
  BY <1>1, <1>2, AnswerWrites
<1>4. calls[by][s].kind # "send" /\ UNCHANGED ticket
  BY DEF ServeRead, ServeUpload
<1>5. TicketFormed' /\ SameReplies /\ lost' \in Nat /\ lost' >= lost
  BY <1>4 DEF Sent, Formation, TicketFormed, SameReplies
<1> QED
  BY <1>3, <1>4, <1>5, AnswerAlone

LEMMA ServePatchKeepsSent ==
  ASSUME Sent, NEW by \in Pages, NEW s \in Slots, ServePatch(by, s), UNCHANGED <<view, draft, botStep, written, faults, lost>>
  PROVE  Sent'
<1> DEFINE c == calls[by][s]
           next == CASE c.kind = "status"  -> [ticket EXCEPT !.status = c.plan.status]
                     [] c.kind = "tags"    -> [ticket EXCEPT !.tags = c.plan.tags]
                     [] c.kind = "convert" -> [ticket EXCEPT !.status = IF @ = "NEW" THEN "OPEN" ELSE @]
           rows == CASE c.kind = "status" /\ next # ticket -> <<"event">>
                     [] c.kind = "tags" /\ next # ticket   -> <<"quiet">>
                     [] OTHER                              -> <<>>
<1>1. \E got : Answer(by, s, got)
  BY DEF ServePatch
<1>2. by = "agent" /\ ticket' = [next EXCEPT !.log = next.log \o rows] /\ c.kind \in {"status", "tags", "convert"}
  BY DEF ServePatch
<1>3. CallsFormed /\ TicketFormed
  BY DEF Sent, Formation
<1>4. /\ CallsFormed' /\ calls'[by][s].kind = calls[by][s].kind
      /\ \A b \in Pages, t \in Slots : b # by \/ t # s => calls'[b][t] = calls[b][t]
  BY <1>1, <1>3, AnswerWrites
<1>5. rows \in Seq(Kinds) /\ \A i \in DOMAIN rows : rows[i] # "reply"
  <2>1. \A r \in {<<"event">>, <<"quiet">>} : r \in Seq(Kinds) /\ \A i \in DOMAIN r : r[i] # "reply"
    <3>1. <<"event">> \in Seq(Kinds) /\ <<"quiet">> \in Seq(Kinds)
      BY DEF Kinds
    <3>2. \A i \in DOMAIN <<"event">> : <<"event">>[i] # "reply"
      OBVIOUS
    <3>3. \A i \in DOMAIN <<"quiet">> : <<"quiet">>[i] # "reply"
      OBVIOUS
    <3> HIDE DEF next, rows
    <3> QED
      BY <3>1, <3>2, <3>3
  <2>2. <<>> \in Seq(Kinds) /\ DOMAIN <<>> = {}
    OBVIOUS
  <2>3. rows = <<"event">> \/ rows = <<"quiet">> \/ rows = <<>>
    BY Zenon
  <2> HIDE DEF rows
  <2> QED
    BY <2>1, <2>2, <2>3
<1>6. \E st, tg : next = [log |-> ticket.log, status |-> st, tags |-> tg, cc |-> ticket.cc]
  <2>1. ticket \in [log : {ticket.log}, status : {ticket.status}, tags : {ticket.tags}, cc : {ticket.cc}]
    BY <1>3 DEF TicketFormed
  <2>2. \A v : /\ [ticket EXCEPT !.status = v] = [log |-> ticket.log, status |-> v, tags |-> ticket.tags, cc |-> ticket.cc]
               /\ [ticket EXCEPT !.tags = v] = [log |-> ticket.log, status |-> ticket.status, tags |-> v, cc |-> ticket.cc]
    BY <2>1
  <2>3. \E v : next = [ticket EXCEPT !.status = v] \/ next = [ticket EXCEPT !.tags = v]
    BY <1>2
  <2> HIDE DEF next
  <2> QED
    BY <2>2, <2>3
<1> HIDE DEF next, rows
<1>7. PICK st, tg : next = [log |-> ticket.log, status |-> st, tags |-> tg, cc |-> ticket.cc]
  BY <1>6
<1>8. ticket' = [log |-> ticket.log \o rows, status |-> st, tags |-> tg, cc |-> ticket.cc]
  <2>1. next = [log |-> next.log, status |-> next.status, tags |-> next.tags, cc |-> next.cc]
    BY <1>7
  <2>2. ticket' = [log |-> next.log \o rows, status |-> next.status, tags |-> next.tags, cc |-> next.cc]
    BY <1>2, <2>1, LogRewritten
  <2> QED
    BY <1>7, <2>2
<1>9. TicketFormed' /\ SameReplies
  BY <1>3, <1>5, <1>8, TicketGrows
<1>10. lost' \in Nat /\ lost' >= lost
  BY DEF Sent, Formation
<1> QED
  BY <1>2, <1>4, <1>9, <1>10, AnswerAlone

-----------------------------------------------------------------------------
\* A reply of the portal: posted, failed, its answer lost, and arrived.
LEMMA ServeSendKeepsSent ==
  ASSUME Sent, NEW by \in Pages, NEW s \in Slots, ServeSend(by, s), calls[by][s].pc = "sent",
         UNCHANGED <<view, draft, botStep, written, faults, lost>>
  PROVE  Sent'
<1>1. PICK got : Answer(by, s, got)
  BY DEF ServeSend
<1>2. CallsFormed /\ TicketFormed /\ lost \in Nat
  BY DEF Sent, Formation
<1>3. /\ CallsFormed' /\ calls'[by][s].kind = calls[by][s].kind /\ calls'[by][s].pc = "answered"
      /\ \A b \in Pages, t \in Slots : b # by \/ t # s => calls'[b][t] = calls[b][t]
  BY <1>1, <1>2, AnswerWrites
<1>4. CASE by = "agent"
  <2>0. PICK kind \in {"note", "agent"} : \E cc : ticket' = [Posted(ticket, kind) EXCEPT !.cc = cc]
    BY <1>4 DEF ServeSend
  <2>1. PICK cc : ticket' = [Posted(ticket, kind) EXCEPT !.cc = cc]
    BY <2>0
  <2>2. kind \in Kinds \ {"reply"}
    BY DEF Kinds
  <2>3. TicketFormed' /\ SameReplies
    BY <1>2, <2>1, <2>2, OtherPost
  <2>4. lost' \in Nat /\ lost' >= lost
    BY <1>2
  <2> QED
    BY <1>3, <1>4, <2>3, <2>4, AnswerAlone
<1>5. CASE by = "portal"
  <2>1. PICK cc : ticket' = [Posted(ticket, "reply") EXCEPT !.cc = cc]
    BY <1>5 DEF ServeSend
  <2>2. TicketFormed' /\ Cardinality(RepliesIn(ticket'.log)) = Cardinality(RepliesIn(ticket.log)) + 1
    BY <1>2, <2>1, ReplyPost
  <2>3. ReplyOnWay(s)
    BY <1>5 DEF ServeSend, ReplyOnWay, Sent, ComposerInv
  <2>4. Unsent
    BY <1>5, <2>3 DEF Sent, ComposerInv, Unsent, Kept
  <2>5. Kept(s)'
    BY <1>3, <1>5, <2>3 DEF Kept, ReplyOnWay
  <2>6. ~Unsent'
    BY <2>5 DEF Unsent
  <2>7. ComposerInv'
    BY <1>3, <1>5 DEF Sent, ComposerInv, ReplyOnWay
  <2>8. Cardinality(RepliesIn(ticket.log)) \in Nat /\ written["portal"] \in Nat
    BY RepliesFinite DEF Sent, Formation, TicketFormed, Pages
  <2>9. CreditInv'
    BY <1>2, <2>2, <2>4, <2>6, <2>8 DEF Sent, CreditInv
  <2>10. Formation'
    BY <1>3, <2>2 DEF Sent, Formation
  <2> QED
    BY <2>7, <2>9, <2>10 DEF Sent
<1> QED
  BY <1>4, <1>5 DEF Pages

\* What a failure, or the loss of an answer, does to the credit.
LEMMA FailureKeepsSent ==
  ASSUME Sent, NEW by \in Pages, NEW s \in Slots, Start(by, s, [calls[by][s] EXCEPT !.pc = "failed"]),
         UNCHANGED <<ticket, draft, written>>, lost' \in Nat, lost' >= lost,
         by = "portal" /\ Kept(s) => lost' >= lost + 1
  PROVE  Sent'
<1>1. CallsFormed
  BY DEF Sent, Formation
<1>2. /\ CallsFormed' /\ calls'[by][s].kind = calls[by][s].kind /\ calls'[by][s].pc = "failed"
      /\ \A b \in Pages, t \in Slots : b # by \/ t # s => calls'[b][t] = calls[b][t]
  BY <1>1, FailureWrites
<1>3. TicketFormed' /\ SameReplies /\ SameDraft("portal")
  BY DEF Sent, Formation, TicketFormed, SameReplies, SameDraft
<1>4. CASE by = "agent" \/ ~ReplyOnWay(s)
  <2>1. by = "portal" => calls[by][s].kind # "send"
    BY <1>4 DEF ReplyOnWay
  <2> QED
    BY <1>2, <1>3, <2>1, AnswerAlone
<1>5. CASE by = "portal" /\ ReplyOnWay(s)
  <2>1. ComposerInv'
    BY <1>2, <1>5 DEF Sent, ComposerInv, ReplyOnWay
  <2>2. \A t \in Slots \ {s} : ~ReplyOnWay(t)
    BY <1>5 DEF Sent, ComposerInv
  <2>3. ~Kept(s) => Unsent
    BY <1>5, <2>2 DEF Sent, ComposerInv, Unsent, Kept
  <2>4. Cardinality(RepliesIn(ticket.log)) \in Nat /\ written["portal"] \in Nat /\ lost \in Nat
    BY RepliesFinite DEF Sent, Formation, TicketFormed, Pages
  <2>5. CreditInv'
    <3>1. CASE Kept(s)
      BY <1>5, <2>4, <3>1 DEF Sent, CreditInv
    <3>2. CASE ~Kept(s)
      BY <2>3, <2>4, <3>2 DEF Sent, CreditInv
    <3> QED
      BY <3>1, <3>2
  <2>6. Formation'
    BY <1>2, <1>3 DEF Sent, Formation
  <2> QED
    BY <2>1, <2>5, <2>6 DEF Sent
<1> QED
  BY <1>4, <1>5 DEF Pages

LEMMA FailsKeepsSent ==
  ASSUME Sent, NEW by \in Pages, NEW s \in Slots, Fails(by, s)
  PROVE  Sent'
<1>1. Start(by, s, [calls[by][s] EXCEPT !.pc = "failed"]) /\ UNCHANGED <<ticket, draft, written, lost>>
  BY DEF Fails
<1>2. ~(by = "portal" /\ Kept(s)) /\ lost' \in Nat /\ lost' >= lost
  BY <1>1 DEF Fails, Kept, Sent, Formation
<1> QED
  BY <1>1, <1>2, FailureKeepsSent

LEMMA LosesKeepsSent ==
  ASSUME Sent, NEW by \in Pages, NEW s \in Slots, Loses(by, s)
  PROVE  Sent'
<1>1. Start(by, s, [calls[by][s] EXCEPT !.pc = "failed"]) /\ UNCHANGED <<ticket, draft, written>>
  BY DEF Loses
<1>2. lost \in Nat /\ lost' = lost + (IF calls[by][s].kind = "send" THEN 1 ELSE 0)
  BY DEF Loses, Sent, Formation
<1>3. by = "portal" /\ Kept(s) => calls[by][s].kind = "send"
  BY DEF Kept, ReplyOnWay
<1> QED
  BY <1>1, <1>2, <1>3, FailureKeepsSent

LEMMA FollowUpFormed ==
  ASSUME NEW c
  PROVE  \A call : /\ call = (IF c = "resolve" THEN Call("status", [NoPlan EXCEPT !.status = "RESOLVED"]) ELSE NoCall)
                      => Formed(call) /\ call.kind \in {"none", "status"}
                   /\ call = (IF c = "convert" THEN NoCall ELSE Call("poll", NoPlan)) => Formed(call) /\ call.kind \in {"none", "poll"}
                   /\ call = NoCall => Formed(call) /\ call.kind = "none"
<1>1. Formed(NoCall) /\ NoCall.kind = "none"
  BY CallsAreFormed
<1>2. Formed(Call("status", [NoPlan EXCEPT !.status = "RESOLVED"])) /\ Call("status", [NoPlan EXCEPT !.status = "RESOLVED"]).kind = "status"
  BY CallsAreFormed
<1>3. Formed(Call("poll", NoPlan)) /\ Call("poll", NoPlan).kind = "poll"
  BY CallsAreFormed
<1> QED
  BY <1>1, <1>2, <1>3

\* Any answer but the one to a reply of the portal.
LEMMA OtherArrives ==
  ASSUME Sent, NEW by \in Pages, NEW s \in Slots, NEW call, Start(by, s, call), Formed(call), call.kind \notin {"send", "resolve"},
         by = "portal" => calls[by][s].kind # "send",
         DraftShape(draft'), SameDraft("portal"), UNCHANGED <<ticket, written, lost>>
  PROVE  Sent'
<1>1. CallsFormed
  BY DEF Sent, Formation
<1>2. /\ CallsFormed' /\ calls'[by][s] = call
      /\ \A b \in Pages, t \in Slots : b # by \/ t # s => calls'[b][t] = calls[b][t]
  BY <1>1, StartWrites
<1>3. TicketFormed' /\ SameReplies /\ lost' \in Nat /\ lost' >= lost
  BY DEF Sent, Formation, TicketFormed, SameReplies
<1>4. by = "portal" => ~ReplyOnWay(s) /\ calls'["portal"][s].kind \notin {"send", "resolve"}
  BY <1>2 DEF ReplyOnWay
<1> QED
  BY <1>2, <1>3, <1>4, RequestAlone

Arrived == UNCHANGED <<ticket, upload, botStep, heard, written, faults, lost>>

LEMMA TakeReadKeepsSent ==
  ASSUME Sent, NEW by \in Pages, NEW s \in Slots, Arrived, TakeRead(by, s) \/ TakeUpload(by, s)
  PROVE  Sent'
<1>1. Start(by, s, NoCall) /\ calls[by][s].kind # "send"
  BY DEF TakeRead, TakeUpload
<1>2. Formed(NoCall) /\ NoCall.kind \notin {"send", "resolve"}
  BY CallsAreFormed
<1>3. DraftShape(draft') /\ SameDraft("portal")
  <2>1. DraftShape(draft) /\ "portal" \in Pages
    BY DEF Sent, Formation, Pages
  <2>2. \/ draft' = draft
        \/ \E v : draft' = [draft EXCEPT ![by].files = v] \/ draft' = [draft EXCEPT ![by].cc = v]
    BY DEF TakeRead, TakeUpload
  <2>3. CASE draft' = draft
    BY <2>1, <2>3 DEF SameDraft
  <2>4. ASSUME NEW v, draft' = [draft EXCEPT ![by].files = v] \/ draft' = [draft EXCEPT ![by].cc = v]
        PROVE  DraftShape(draft') /\ SameDraft("portal")
    BY <2>1, <2>4, ChipsWrite
  <2> QED
    BY <2>2, <2>3, <2>4
<1>4. UNCHANGED <<ticket, written, lost>>
  BY DEF Arrived
<1> QED
  BY <1>1, <1>2, <1>3, <1>4, OtherArrives

LEMMA TakePatchKeepsSent ==
  ASSUME Sent, NEW by \in Pages, NEW s \in Slots, Arrived, TakePatch(by, s)
  PROVE  Sent'
<1> DEFINE call == IF calls[by][s].kind = "convert" THEN NoCall ELSE Call("poll", NoPlan)
<1>1. Start(by, s, call) /\ calls[by][s].kind # "send"
  BY DEF TakePatch
<1>2. Formed(call) /\ call.kind \notin {"send", "resolve"}
  BY FollowUpFormed
<1>3. DraftShape(draft') /\ SameDraft("portal") /\ UNCHANGED <<ticket, written, lost>>
  BY DEF Sent, Formation, TakePatch, Arrived, SameDraft
<1> HIDE DEF call
<1> QED
  BY <1>1, <1>2, <1>3, OtherArrives

\* A reply that arrived, or did not, leaves no other on its way.
LEMMA TakeSendKeepsSent ==
  ASSUME Sent, NEW by \in Pages, NEW s \in Slots, Arrived, TakeSend(by, s)
  PROVE  Sent'
<1> DEFINE call == IF calls[by][s].kind = "resolve" THEN Call("status", [NoPlan EXCEPT !.status = "RESOLVED"]) ELSE NoCall
<1>1. Start(by, s, call) /\ calls[by][s].kind \in {"send", "resolve"} /\ UNCHANGED <<ticket, written, lost>>
  BY DEF TakeSend, Arrived
<1>2. Formed(call) /\ call.kind \notin {"send", "resolve"}
  BY FollowUpFormed
<1>3. CallsFormed /\ DraftShape(draft)
  BY DEF Sent, Formation
<1>4. PICK v : draft' = [draft EXCEPT ![by].text = FALSE, ![by].files = {}, ![by].sending = FALSE, ![by].cc = v]
  BY DEF TakeSend
<1>5. /\ DraftShape(draft')
      /\ draft'[by].text = FALSE /\ draft'[by].sending = FALSE
      /\ \A b \in Pages \ {by} : draft'[b] = draft[b]
  BY <1>3, <1>4, EmptyingWrites
<1> HIDE DEF call
<1>6. /\ CallsFormed' /\ calls'[by][s] = call
      /\ \A b \in Pages, t \in Slots : b # by \/ t # s => calls'[b][t] = calls[b][t]
  BY <1>1, <1>2, <1>3, StartWrites
<1>7. CASE by = "agent"
  <2>1. SameDraft("portal")
    BY <1>5, <1>7 DEF SameDraft, Pages
  <2> QED
    BY <1>1, <1>2, <1>5, <1>7, <2>1, OtherArrives
<1>8. CASE by = "portal"
  <2>1. ReplyOnWay(s)
    BY <1>1, <1>8 DEF Sent, ComposerInv, ReplyOnWay
  <2>2. \A t \in Slots : ~ReplyOnWay(t)'
    BY <1>2, <1>6, <1>8, <2>1 DEF Sent, ComposerInv, ReplyOnWay
  <2>3. ComposerInv'
    BY <1>2, <1>6, <1>8, <2>2 DEF Sent, ComposerInv, ReplyOnWay
  <2>4. ~Unsent'
    BY <1>5, <1>8 DEF Unsent
  <2>5. Cardinality(RepliesIn(ticket.log)) \in Nat /\ written["portal"] \in Nat /\ lost \in Nat
    BY RepliesFinite DEF Sent, Formation, TicketFormed, Pages
  <2>6. CreditInv'
    BY <1>1, <2>4, <2>5 DEF Sent, CreditInv
  <2>7. Formation'
    BY <1>1, <1>5, <1>6 DEF Sent, Formation, TicketFormed
  <2> QED
    BY <2>3, <2>6, <2>7 DEF Sent
<1> QED
  BY <1>7, <1>8 DEF Pages

LEMMA TakeFailureKeepsSent ==
  ASSUME Sent, NEW by \in Pages, NEW s \in Slots, Arrived, TakeFailure(by, s), calls[by][s].pc = "failed"
  PROVE  Sent'
<1> DEFINE call == IF calls[by][s].kind = "resolve" THEN Call("status", [NoPlan EXCEPT !.status = "RESOLVED"]) ELSE NoCall
<1>1. Start(by, s, call) /\ UNCHANGED <<ticket, written, lost>>
  BY DEF TakeFailure, Arrived
<1>2. Formed(call) /\ call.kind \notin {"send", "resolve"}
  BY FollowUpFormed
<1>3. CallsFormed /\ DraftShape(draft)
  BY DEF Sent, Formation
<1>4. /\ DraftShape(draft')
      /\ draft'[by].text = draft[by].text
      /\ calls[by][s].kind \notin {"send", "resolve"} => draft'[by].sending = draft[by].sending
      /\ \A b \in Pages \ {by} : draft'[b] = draft[b]
  <2>1. CASE calls[by][s].kind \in {"send", "resolve"}
    <3>1. draft' = [draft EXCEPT ![by].sending = FALSE]
      BY <2>1 DEF TakeFailure
    <3> QED
      BY <1>3, <2>1, <3>1, SendingWrites
  <2>2. CASE calls[by][s].kind \notin {"send", "resolve"}
    BY <1>3, <2>2 DEF TakeFailure
  <2> QED
    BY <2>1, <2>2
<1> HIDE DEF call
<1>5. /\ CallsFormed' /\ calls'[by][s] = call
      /\ \A b \in Pages, t \in Slots : b # by \/ t # s => calls'[b][t] = calls[b][t]
  BY <1>1, <1>2, <1>3, StartWrites
<1>6. CASE by = "agent" \/ ~ReplyOnWay(s)
  <2>1. SameDraft("portal")
    BY <1>4, <1>6 DEF SameDraft, Pages, Sent, ComposerInv, ReplyOnWay
  <2>2. by = "portal" => calls[by][s].kind # "send"
    BY <1>6 DEF ReplyOnWay
  <2> QED
    BY <1>1, <1>2, <1>4, <2>1, <2>2, OtherArrives
<1>7. CASE by = "portal" /\ ReplyOnWay(s)
  <2>1. \A t \in Slots : ~ReplyOnWay(t)' /\ calls'["portal"][t].kind # "resolve"
    BY <1>2, <1>5, <1>7 DEF Sent, ComposerInv, ReplyOnWay
  <2>2. ComposerInv'
    BY <2>1 DEF ComposerInv
  <2>3. Unsent' = Unsent
    <3>1. \A t \in Slots : ~Kept(t)
      BY <1>7 DEF Sent, ComposerInv, Kept
    <3>2. \A t \in Slots : ~Kept(t)'
      BY <2>1 DEF Kept
    <3> QED
      BY <1>4, <1>7, <3>1, <3>2 DEF Unsent
  <2>4. CreditInv'
    BY <1>1, <2>3 DEF Sent, CreditInv
  <2>5. Formation'
    BY <1>1, <1>4, <1>5 DEF Sent, Formation, TicketFormed
  <2> QED
    BY <2>2, <2>4, <2>5 DEF Sent
<1> QED
  BY <1>6, <1>7 DEF Pages

-----------------------------------------------------------------------------
LEMMA ServeKeepsSent ==
  ASSUME Sent, NEW by \in Pages, NEW s \in Slots, Serve(by, s)
  PROVE  Sent'
<1>1. UNCHANGED <<view, draft, botStep, written, faults, lost>> /\ calls[by][s].pc = "sent"
  BY DEF Serve
<1>2. CASE ServeRead(by, s) \/ ServeUpload(by, s)
  BY <1>1, <1>2, ServeReadKeepsSent
<1>3. CASE ServePatch(by, s)
  BY <1>1, <1>3, ServePatchKeepsSent
<1>4. CASE ServeSend(by, s)
  BY <1>1, <1>4, ServeSendKeepsSent
<1> QED
  BY <1>2, <1>3, <1>4 DEF Serve

LEMMA ArriveKeepsSent ==
  ASSUME Sent, NEW by \in Pages, NEW s \in Slots, Arrive(by, s)
  PROVE  Sent'
<1>1. Arrived
  BY DEF Arrive, Arrived
<1>2. CASE TakeRead(by, s) \/ TakeUpload(by, s)
  BY <1>1, <1>2, TakeReadKeepsSent
<1>3. CASE TakeSend(by, s)
  BY <1>1, <1>3, TakeSendKeepsSent
<1>4. CASE TakePatch(by, s)
  BY <1>1, <1>4, TakePatchKeepsSent
<1>5. CASE calls[by][s].pc = "failed" /\ TakeFailure(by, s)
  BY <1>1, <1>5, TakeFailureKeepsSent
<1> QED
  BY <1>2, <1>3, <1>4, <1>5 DEF Arrive

LEMMA SentStep == Sent /\ [Next]_deskVars => Sent'
<1> SUFFICES ASSUME Sent, [Next]_deskVars PROVE Sent'
  OBVIOUS
<1>1. CASE UNCHANGED pageVars
  <2>1. UNCHANGED <<ticket, draft, calls, written, lost>>
    BY <1>1 DEF pageVars
  <2> QED
    BY <2>1 DEF Sent, Formation, CallsFormed, TicketFormed, ComposerInv, CreditInv, Unsent, Kept, ReplyOnWay
<1>2. CASE PageNext
  <2>1. CASE MailArrives \/ BotPosts \/ BotWaits
    BY <2>1, MailKeepsSent, BotKeepsSent
  <2>2. CASE \E by \in Pages : Write(by) \/ RemoveChip(by)
    BY <2>2, WriteKeepsSent, RemoveChipKeepsSent
  <2>3. ASSUME NEW by \in Pages, NEW s \in Slots,
               \/ Send(by, s) \/ Poll(by, s) \/ Serve(by, s) \/ Fails(by, s) \/ Loses(by, s) \/ Arrive(by, s)
               \/ \E f \in Files : Attach(by, s, f)
               \/ \E status \in Statuses \ {"NEW"} : SetStatus(by, s, status)
        PROVE  Sent'
    <3>1. CASE Send(by, s) \/ Poll(by, s) \/ Serve(by, s)
      BY <3>1, SendKeepsSent, PollKeepsSent, ServeKeepsSent
    <3>2. CASE Fails(by, s) \/ Loses(by, s) \/ Arrive(by, s)
      BY <3>2, FailsKeepsSent, LosesKeepsSent, ArriveKeepsSent
    <3>3. CASE \E f \in Files : Attach(by, s, f)
      BY <3>3, AttachKeepsSent
    <3>4. CASE \E status \in Statuses \ {"NEW"} : SetStatus(by, s, status)
      BY <3>4, SetStatusKeepsSent
    <3> QED
      BY <2>3, <3>1, <3>2, <3>3, <3>4
  <2>4. CASE \E s \in Slots : Convert(s) \/ Reload(s) \/ \E t \in Tags : ToggleTag(s, t)
    BY <2>4, ConvertKeepsSent, ReloadKeepsSent, ToggleTagKeepsSent
  <2> QED
    BY <1>2, <2>1, <2>2, <2>3, <2>4 DEF PageNext
<1> QED
  BY <1>1, <1>2 DEF Next, deskVars

\* A reply the customer wrote once is on the ticket once, whatever fails, is lost or
\* overtakes: only an answer that did not arrive makes him send it again (sendReply,
\* whose button isSending disables).
THEOREM RepliesAreSentOnce == Spec => []SentOnce
<1>1. Sent => SentOnce
  <2> SUFFICES ASSUME Sent PROVE SentOnce
    OBVIOUS
  <2>1. RepliesIn(ticket.log) = {i \in DOMAIN ticket.log : ticket.log[i] = "reply"}
    BY DEF RepliesIn
  <2>2. Cardinality(RepliesIn(ticket.log)) \in Nat /\ written["portal"] \in Nat /\ lost \in Nat
    BY RepliesFinite DEF Sent, Formation, TicketFormed, Pages
  <2>3. Cardinality(RepliesIn(ticket.log)) <= 1 + written["portal"] + lost
    BY <2>2 DEF Sent, CreditInv
  <2> QED
    BY <2>1, <2>3 DEF SentOnce
<1> QED
  BY <1>1, SentStart, SentStep, PTL DEF Spec

-----------------------------------------------------------------------------
(***************************************************************************)
(* The types of the shell.                                                 *)
(***************************************************************************)
Loops == [pc : {"none", "sent", "answered", "timer"}, got : Progress]

CardTyped ==
  /\ archive \in Progress /\ resets \in 0..1 /\ card \in [shown : Progress, held : BOOLEAN]
  /\ chain \in [Chains -> Loops] /\ timerRef \in 0..MaxChains
  /\ events \in Seq(Progress)

\* What the panel lists was made, and nobody reads what was not.
NoticesTyped ==
  /\ notices \in [made : SUBSET Notices, read : SUBSET Notices] /\ notices.read \subseteq notices.made
  /\ badge \in [count : 0..Cardinality(Notices), asked : BOOLEAN]
  /\ panel \in [open : BOOLEAN, listed : SUBSET Notices, read : SUBSET Notices, pending : SUBSET Notices]
  /\ panel.listed \subseteq notices.made

ShellInv == StreamTypeOK /\ StreamInv /\ breaks \in 0..MaxBreaks /\ CardTyped /\ NoticesTyped

LEMMA NothingIsProgress == Nothing \in Progress
BY ShellAssumption DEF Nothing, Progress

LEMMA ShellStart == Init => ShellInv
<1> SUFFICES ASSUME Init PROVE ShellInv
  OBVIOUS
<1>1. ShellInit
  BY DEF Init
<1>2. breaks \in 0..MaxBreaks
  BY <1>1, ShellAssumption DEF ShellInit
<1>3. CardTyped
  BY <1>1, NothingIsProgress, ShellAssumption DEF ShellInit, CardTyped, Loops
<1>4. Cardinality(Notices) \in Nat
  BY ShellAssumption, FS_CardinalityType
<1>5. NoticesTyped
  BY <1>1, <1>4 DEF ShellInit, NoticesTyped
<1> QED
  BY <1>2, <1>3, <1>5, StreamStart DEF ShellInv

\* Signing in, the stream and its failures.
LEMMA SessionsKeepShell ==
  ASSUME ShellInv, SignIn \/ SignOut \/ \E s \in Sessions : Connects(s) \/ Interrupts(s)
  PROVE  breaks' \in 0..MaxBreaks /\ CardTyped' /\ NoticesTyped'
<1>1. CASE SignIn
  <2>1. 1 \in Chains /\ [pc |-> "sent", got |-> Nothing] \in Loops
    BY ShellAssumption, NothingIsProgress DEF Chains, Loops
  <2>2. chain' \in [Chains -> Loops]
    BY <1>1, <2>1 DEF SignIn, ShellInv, CardTyped
  <2>3. CardTyped'
    BY <1>1, <2>2 DEF SignIn, ShellInv, CardTyped
  <2>4. NoticesTyped'
    BY <1>1 DEF SignIn, ShellInv, NoticesTyped
  <2> QED
    BY <1>1, <2>3, <2>4 DEF SignIn, ShellInv
<1>2. CASE SignOut \/ \E s \in Sessions : Connects(s)
  BY <1>2 DEF SignOut, Connects, archiveVars, noticeVars, ShellInv, CardTyped, NoticesTyped
<1>3. CASE \E s \in Sessions : Interrupts(s)
  <2>1. breaks' \in 0..MaxBreaks
    BY <1>3, ShellAssumption DEF Interrupts, Breaks, ShellInv
  <2> QED
    BY <1>3, <2>1 DEF Interrupts, archiveVars, noticeVars, ShellInv, CardTyped, NoticesTyped
<1> QED
  BY <1>1, <1>2, <1>3

LEMMA ArchiveKeepsShell ==
  ASSUME ShellInv, ArchiveMoves \/ EventComes
  PROVE  breaks' \in 0..MaxBreaks /\ CardTyped' /\ NoticesTyped'
<1>1. NoticesTyped' /\ breaks' \in 0..MaxBreaks
  BY DEF ArchiveMoves, EventComes, noticeVars, ShellInv, NoticesTyped
<1>2. CASE ArchiveMoves
  <2>1. archive' \in Progress
    BY <1>2, NothingIsProgress, ShellAssumption DEF ArchiveMoves, ShellInv, CardTyped, Progress
  <2>2. events' \in Seq(Progress) /\ resets' \in 0..1
    BY <1>2, <2>1 DEF ArchiveMoves, ShellInv, CardTyped
  <2> QED
    BY <1>1, <1>2, <2>1, <2>2 DEF ArchiveMoves, ShellInv, CardTyped
<1>3. CASE EventComes
  <2>1. events' \in Seq(Progress) /\ Head(events) \in Progress
    BY <1>3 DEF EventComes, ShellInv, CardTyped
  <2>2. card' \in [shown : Progress, held : BOOLEAN]
    BY <1>3, <2>1 DEF EventComes, ShellInv, CardTyped
  <2> QED
    BY <1>1, <1>3, <2>1, <2>2 DEF EventComes, ShellInv, CardTyped
<1> QED
  BY <1>2, <1>3

LEMMA LoopsKeepShell ==
  ASSUME ShellInv, NEW c \in Chains, ServeStatus(c) \/ StatusComes(c) \/ PollFails(c) \/ TimerFires(c)
  PROVE  breaks' \in 0..MaxBreaks /\ CardTyped' /\ NoticesTyped'
<1>1. NoticesTyped' /\ breaks' \in 0..MaxBreaks
  BY ShellAssumption DEF ServeStatus, StatusComes, PollFails, TimerFires, noticeVars, ShellInv, NoticesTyped
<1>2. chain \in [Chains -> Loops] /\ archive \in Progress /\ c \in 0..MaxChains /\ card \in [shown : Progress, held : BOOLEAN]
  BY ShellAssumption DEF ShellInv, CardTyped, Chains
<1>3. CASE ServeStatus(c)
  <2>1. chain' \in [Chains -> Loops]
    BY <1>2, <1>3 DEF ServeStatus, Loops
  <2> QED
    BY <1>1, <1>3, <2>1 DEF ServeStatus, ShellInv, CardTyped
<1>4. [chain EXCEPT ![c] = [pc |-> "timer", got |-> Nothing]] \in [Chains -> Loops]
  BY <1>2, NothingIsProgress DEF Loops
<1>5. CASE StatusComes(c)
  <2> DEFINE got == chain[c].got
             seen == IF got.seen < card.shown.seen THEN card.shown.seen ELSE got.seen
  <2>1. got \in Progress /\ card.shown \in Progress
    BY <1>2 DEF Loops
  <2>2. [got EXCEPT !.seen = seen] \in Progress
    BY <2>1, ShellAssumption DEF Progress
  <2>3. card' = [shown |-> [got EXCEPT !.seen = seen], held |-> seen # got.seen]
    BY <1>5 DEF StatusComes
  <2>4. card' \in [shown : Progress, held : BOOLEAN]
    BY <2>2, <2>3
  <2> QED
    BY <1>1, <1>2, <1>4, <1>5, <2>4 DEF StatusComes, Rests, ShellInv, CardTyped
<1>6. CASE PollFails(c)
  BY <1>1, <1>2, <1>4, <1>6 DEF PollFails, StatusFails, Rests, ShellInv, CardTyped
<1>7. CASE TimerFires(c)
  <2>1. chain' \in [Chains -> Loops] /\ timerRef' \in 0..MaxChains
    BY <1>2, <1>7, ShellAssumption DEF TimerFires, Loops, ShellInv, CardTyped
  <2> QED
    BY <1>1, <1>7, <2>1 DEF TimerFires, ShellInv, CardTyped
<1> QED
  BY <1>3, <1>5, <1>6, <1>7

LEMMA RefreshKeepsShell ==
  ASSUME ShellInv, RefreshCard
  PROVE  breaks' \in 0..MaxBreaks /\ CardTyped' /\ NoticesTyped'
<1> DEFINE left == [chain EXCEPT ![IF timerRef = 0 THEN 1 ELSE timerRef] = IF timerRef = 0 THEN @ ELSE [pc |-> "none", got |-> Nothing]]
<1>1. chain \in [Chains -> Loops] /\ timerRef \in 0..MaxChains
  BY DEF ShellInv, CardTyped
<1>2. (IF timerRef = 0 THEN 1 ELSE timerRef) \in Chains
  BY <1>1, ShellAssumption DEF Chains
<1>3. left \in [Chains -> Loops]
  BY <1>1, <1>2, NothingIsProgress DEF Loops
<1>4. \E c \in Chains : chain' = [left EXCEPT ![c].pc = "sent"]
  BY DEF RefreshCard
<1> HIDE DEF left
<1>5. chain' \in [Chains -> Loops]
  BY <1>3, <1>4 DEF Loops
<1>6. timerRef' \in 0..MaxChains
  BY ShellAssumption DEF RefreshCard
<1> QED
  BY <1>5, <1>6 DEF RefreshCard, noticeVars, ShellInv, CardTyped, NoticesTyped

LEMMA UnreadCounts ==
  ASSUME ShellInv
  PROVE  Unread \in 0..Cardinality(Notices)
<1>1. /\ notices.made \subseteq Notices /\ notices.read \subseteq notices.made
  BY DEF ShellInv, NoticesTyped
<1>2. /\ IsFiniteSet(notices.made) /\ Cardinality(notices.made) <= Cardinality(Notices)
  BY <1>1, ShellAssumption, FS_Subset
<1>3. /\ IsFiniteSet(notices.read) /\ Cardinality(notices.read) <= Cardinality(notices.made)
  BY <1>1, <1>2, FS_Subset
<1>4. Cardinality(Notices) \in Nat /\ Cardinality(notices.made) \in Nat /\ Cardinality(notices.read) \in Nat
  BY <1>2, <1>3, ShellAssumption, FS_CardinalityType
<1> QED
  BY <1>2, <1>3, <1>4 DEF Unread

LEMMA NoticesKeepShell ==
  ASSUME ShellInv, \/ \E n \in Notices : NoticeMade(n)
                   \/ AskBadge \/ BadgeComes \/ OpenPanel \/ ClosePanel \/ MarkRead \/ MarkAllRead \/ MarkedComes
  PROVE  breaks' \in 0..MaxBreaks /\ CardTyped' /\ NoticesTyped'
<1>1. breaks' \in 0..MaxBreaks /\ CardTyped'
  BY DEF NoticeMade, AskBadge, BadgeComes, OpenPanel, ClosePanel, MarkRead, MarkAllRead, MarkedComes, archiveVars,
         ShellInv, CardTyped
<1>2. NoticesTyped
  BY DEF ShellInv
<1>3. CASE \E n \in Notices : NoticeMade(n)
  BY <1>1, <1>2, <1>3 DEF NoticeMade, NoticesTyped
<1>4. CASE AskBadge \/ BadgeComes
  <2>1. Unread \in 0..Cardinality(Notices)
    BY UnreadCounts
  <2>2. badge' = [badge EXCEPT !.asked = TRUE] \/ badge' = [count |-> Unread, asked |-> FALSE]
    BY <1>4 DEF AskBadge, BadgeComes
  <2> DEFINE counts == 0..Cardinality(Notices)
  <2>3. badge' \in [count : counts, asked : BOOLEAN]
    <3>1. Unread \in counts /\ badge \in [count : counts, asked : BOOLEAN]
      BY <1>2, <2>1 DEF NoticesTyped
    <3> HIDE DEF counts
    <3>2. \A n \in counts : [count |-> n, asked |-> FALSE] \in [count : counts, asked : BOOLEAN]
      OBVIOUS
    <3>3. [badge EXCEPT !.asked = TRUE] \in [count : counts, asked : BOOLEAN]
      BY <3>1
    <3> QED
      BY <2>2, <3>1, <3>2, <3>3
  <2>4. UNCHANGED <<notices, panel>>
    BY <1>4 DEF AskBadge, BadgeComes
  <2> QED
    BY <1>1, <1>2, <2>3, <2>4 DEF NoticesTyped
<1>5. CASE OpenPanel \/ ClosePanel \/ MarkedComes
  BY <1>1, <1>2, <1>5 DEF OpenPanel, ClosePanel, MarkedComes, NoticesTyped
<1>6. CASE MarkRead \/ MarkAllRead
  BY <1>1, <1>2, <1>6 DEF MarkRead, MarkAllRead, NoticesTyped
<1> QED
  BY <1>1, <1>3, <1>4, <1>5, <1>6

LEMMA ShellStep ==
  ASSUME ShellInv, [Next]_deskVars
  PROVE  ShellInv'
<1>1. (StreamTypeOK /\ StreamInv)'
  BY StreamStep DEF ShellInv
<1>2. CASE ShellNext
  BY <1>1, <1>2, SessionsKeepShell, ArchiveKeepsShell, LoopsKeepShell, RefreshKeepsShell, NoticesKeepShell DEF ShellNext, ShellInv
<1>3. CASE UNCHANGED shellVars
  BY <1>1, <1>3 DEF shellVars, ShellInv, CardTyped, NoticesTyped
<1> QED
  BY <1>2, <1>3 DEF Next, deskVars

LEMMA ShellTypes == ShellInv => ShellTypeOK
BY DEF ShellInv, StreamTypeOK, StreamSteps, CardTyped, NoticesTyped, Loops, ShellTypeOK

-----------------------------------------------------------------------------
(***************************************************************************)
(* Lists made of a set.                                                    *)
(***************************************************************************)
Below(S, key, x) == {y \in S : key[y] < key[x]}

\* The number of members with a smaller key tells where a member goes.
LEMMA RankFacts ==
  ASSUME NEW S, IsFiniteSet(S), NEW key \in [S -> Int], \A x, y \in S : key[x] = key[y] => x = y
  PROVE  /\ \A x \in S : IsFiniteSet(Below(S, key, x)) /\ Cardinality(Below(S, key, x)) \in 0..(Cardinality(S) - 1)
         /\ \A x, y \in S : key[x] < key[y] => Cardinality(Below(S, key, x)) < Cardinality(Below(S, key, y))
<1>0. Cardinality(S) \in Nat
  BY FS_CardinalityType
<1>1. ASSUME NEW x \in S
      PROVE  IsFiniteSet(Below(S, key, x)) /\ Cardinality(Below(S, key, x)) \in 0..(Cardinality(S) - 1)
  <2>1. Below(S, key, x) \subseteq S \ {x}
    BY DEF Below
  <2>2. IsFiniteSet(S \ {x}) /\ Cardinality(S \ {x}) = Cardinality(S) - 1
    BY FS_RemoveElement
  <2>3. IsFiniteSet(Below(S, key, x)) /\ Cardinality(Below(S, key, x)) <= Cardinality(S \ {x})
    BY <2>1, <2>2, FS_Subset
  <2>4. Cardinality(Below(S, key, x)) \in Nat
    BY <2>3, FS_CardinalityType
  <2> QED
    BY <1>0, <2>2, <2>3, <2>4
<1>2. ASSUME NEW x \in S, NEW y \in S, key[x] < key[y]
      PROVE  Cardinality(Below(S, key, x)) < Cardinality(Below(S, key, y))
  <2>1. Below(S, key, x) \cup {x} \subseteq Below(S, key, y) /\ x \notin Below(S, key, x)
    BY <1>2 DEF Below
  <2>2. IsFiniteSet(Below(S, key, x)) /\ IsFiniteSet(Below(S, key, y))
    BY <1>1
  <2>3. Cardinality(Below(S, key, x) \cup {x}) = Cardinality(Below(S, key, x)) + 1
    BY <2>1, <2>2, FS_AddElement
  <2>4. Cardinality(Below(S, key, x) \cup {x}) <= Cardinality(Below(S, key, y))
    BY <2>1, <2>2, FS_Subset
  <2>5. Cardinality(Below(S, key, x)) \in Nat /\ Cardinality(Below(S, key, y)) \in Nat
    BY <2>2, FS_CardinalityType
  <2> QED
    BY <2>3, <2>4, <2>5
<1> QED
  BY <1>1, <1>2

\* Every place has its member: as many members as places, and no two in one place.
LEMMA PlacesAreTaken ==
  ASSUME NEW S, IsFiniteSet(S), NEW key \in [S -> Int], \A x, y \in S : key[x] = key[y] => x = y
  PROVE  \A k \in 1..Cardinality(S) : \E x \in S : Cardinality(Below(S, key, x)) = k - 1
<1> DEFINE n == Cardinality(S)
           rank == [x \in S |-> Cardinality(Below(S, key, x))]
<1>0. n \in Nat
  BY FS_CardinalityType
<1>1. rank \in [S -> 0..(n - 1)]
  BY RankFacts
<1>2. \A x, y \in S : rank[x] = rank[y] => x = y
  <2> SUFFICES ASSUME NEW x \in S, NEW y \in S, x # y PROVE rank[x] # rank[y]
    OBVIOUS
  <2>1. key[x] < key[y] \/ key[y] < key[x]
    OBVIOUS
  <2>2. rank[x] < rank[y] \/ rank[y] < rank[x]
    BY <2>1, RankFacts
  <2>3. rank[x] \in Int /\ rank[y] \in Int
    BY <1>1
  <2> QED
    BY <2>2, <2>3
<1>3. IsFiniteSet(0..(n - 1)) /\ Cardinality(0..(n - 1)) = n
  BY <1>0, FS_Interval
<1> HIDE DEF rank, n
<1>4. rank \in Injection(S, 0..(n - 1))
  BY <1>1, <1>2 DEF Injection, IsInjective
<1>5. rank \in Surjection(S, 0..(n - 1))
  BY <1>3, <1>4, FS_Injection DEF n
<1>6. \A m \in 0..(n - 1) : \E x \in S : rank[x] = m
  BY <1>5 DEF Surjection
<1>7. ASSUME NEW k \in 1..n PROVE \E x \in S : Cardinality(Below(S, key, x)) = k - 1
  <2>1. k - 1 \in 0..(n - 1)
    BY <1>0
  <2> QED
    BY <1>6, <2>1 DEF rank
<1> QED
  BY <1>7 DEF n

\* A set in order is a list of its members, each of them once.
LEMMA InOrderLists ==
  ASSUME NEW S, IsFiniteSet(S), NEW key \in [S -> Int], \A x, y \in S : key[x] = key[y] => x = y
  PROVE  /\ InOrder(S, key) \in Seq(S) /\ Len(InOrder(S, key)) = Cardinality(S)
         /\ InOrder(S, key) \in [1..Cardinality(S) -> S]
         /\ \A i, j \in 1..Cardinality(S) : InOrder(S, key)[i] = InOrder(S, key)[j] => i = j
<1> DEFINE n == Cardinality(S)
           At(k, x) == Cardinality({y \in S : key[y] < key[x]}) = k - 1
<1>0. n \in Nat
  BY FS_CardinalityType
<1>1. \A k \in 1..n : \E x \in S : At(k, x)
  BY PlacesAreTaken DEF Below
<1>2. InOrder(S, key) = [k \in 1..n |-> CHOOSE x \in S : At(k, x)]
  BY DEF InOrder
<1>3. \A k \in 1..n : (CHOOSE x \in S : At(k, x)) \in S /\ At(k, CHOOSE x \in S : At(k, x))
  BY <1>1
<1> DEFINE list == InOrder(S, key)
<1>4. list \in [1..n -> S] /\ \A k \in 1..n : At(k, list[k])
  BY <1>2, <1>3
<1>5. ASSUME NEW i \in 1..n, NEW j \in 1..n, list[i] = list[j] PROVE i = j
  <2>1. \A x : At(i, x) /\ At(j, x) => i = j
    OBVIOUS
  <2>2. At(i, list[i]) /\ At(j, list[j])
    BY <1>4
  <2> HIDE DEF At, list
  <2> QED
    BY <1>5, <2>1, <2>2
<1>6. list \in Seq(S) /\ Len(list) = n
  <2> HIDE DEF list, n
  <2> QED
    BY <1>0, <1>4
<1> QED
  BY <1>4, <1>5, <1>6

\* Positions in ascending order are a list of them, each of them once.
LEMMA AscendingLists ==
  ASSUME NEW n \in Nat, NEW N \in SUBSET (1..n)
  PROVE  /\ Ascending(N) \in Seq(N) /\ Len(Ascending(N)) = Cardinality(N)
         /\ Ascending(N) \in [1..Cardinality(N) -> N]
         /\ \A i, j \in 1..Cardinality(N) : Ascending(N)[i] = Ascending(N)[j] => i = j
<1> DEFINE size == Cardinality(N)
           key == [i \in N |-> i]
           At(k, i) == Cardinality(N \cap (1..i)) = k
           list == Ascending(N)
<1>0. IsFiniteSet(N) /\ size \in Nat
  <2>1. IsFiniteSet(1..n)
    BY FS_Interval
  <2>2. IsFiniteSet(N)
    BY <2>1, FS_Subset
  <2> QED
    BY <2>2, FS_CardinalityType
<1>1. key \in [N -> Int] /\ \A i, j \in N : key[i] = key[j] => i = j
  OBVIOUS
<1>2. ASSUME NEW i \in N
      PROVE  Cardinality(N \cap (1..i)) = Cardinality(Below(N, key, i)) + 1
  <2>1. Below(N, key, i) = {y \in N : y < i}
    BY DEF Below
  <2>2. \A y \in N : y \in 1..i <=> y < i \/ y = i
    OBVIOUS
  <2>3. N \cap (1..i) = {y \in N : y < i} \cup {i} /\ i \notin {y \in N : y < i}
    <3>1. ~(i < i)
      OBVIOUS
    <3>2. {y \in N : y \in 1..i} = {y \in N : y < i} \cup {i}
      BY <2>2, Zenon
    <3>3. N \cap (1..i) = {y \in N : y \in 1..i}
      BY Zenon
    <3> QED
      BY <3>1, <3>2, <3>3, Zenon
  <2>4. IsFiniteSet({y \in N : y < i})
    BY <1>0, FS_Subset
  <2> QED
    BY <2>1, <2>3, <2>4, FS_AddElement
<1>3. \A k \in 1..size : \E i \in N : At(k, i)
  <2>1. \A k \in 1..size : \E i \in N : Cardinality(Below(N, key, i)) = k - 1
    BY <1>0, <1>1, PlacesAreTaken
  <2> DEFINE rank(i) == Cardinality(Below(N, key, i))
  <2>2. \A i \in N : rank(i) \in Nat
    <3> HIDE DEF key
    <3>1. \A i \in N : IsFiniteSet(Below(N, key, i))
      BY <1>0, <1>1, RankFacts
    <3> QED
      BY <3>1, FS_CardinalityType
  <2>3. \A i \in N : Cardinality(N \cap (1..i)) = rank(i) + 1
    BY <1>2
  <2>4. \A k \in 1..size : \E i \in N : rank(i) = k - 1
    BY <2>1
  <2> HIDE DEF rank
  <2> SUFFICES ASSUME NEW k \in 1..size PROVE \E i \in N : At(k, i)
    OBVIOUS
  <2>5. PICK i \in N : rank(i) = k - 1
    BY <2>4
  <2>6. Cardinality(N \cap (1..i)) = k
    BY <2>2, <2>3, <2>5
  <2> QED
    BY <2>6
<1>4. list = [k \in 1..size |-> CHOOSE i \in N : At(k, i)]
  BY DEF Ascending
<1>5. \A k \in 1..size : (CHOOSE i \in N : At(k, i)) \in N /\ At(k, CHOOSE i \in N : At(k, i))
  BY <1>3
<1>6. list \in [1..size -> N] /\ \A k \in 1..size : At(k, list[k])
  BY <1>4, <1>5
<1>7. ASSUME NEW i \in 1..size, NEW j \in 1..size, list[i] = list[j] PROVE i = j
  <2>1. \A x : At(i, x) /\ At(j, x) => i = j
    OBVIOUS
  <2>2. At(i, list[i]) /\ At(j, list[j])
    BY <1>6
  <2> HIDE DEF At, list
  <2> QED
    BY <1>7, <2>1, <2>2
<1>8. list \in Seq(N) /\ Len(list) = size
  <2> HIDE DEF list, size
  <2> QED
    BY <1>0, <1>6
<1> QED
  BY <1>6, <1>7, <1>8

-----------------------------------------------------------------------------
(***************************************************************************)
(* The types of the lists.                                                 *)
(***************************************************************************)
RowRec == [id : Tickets, status : RowStatuses, at : Nat]
AnswerRec == [rows : Seq(RowRec), total : 0..Cardinality(Tickets)]
LoadRec == [mode : Modes, filter : Filters, offset : Nat, pc : {"sent", "answered"}, got : AnswerRec]
InboxRec == [rows : Seq(RowRec), total : 0..Cardinality(Tickets), offset : Nat, filter : Filters, more : BOOLEAN,
             loading : BOOLEAN, watched : BOOLEAN, due : BOOLEAN, mixed : BOOLEAN]
WholeRec == [shown : Queries, asked : Queries, sent : SUBSET Queries, answered : SUBSET Queries]

Once(rows) == \A i, j \in DOMAIN rows : rows[i].id = rows[j].id => i = j

Copies == {Copy(t) : t \in Tickets}

\* The rows that are somewhere: in the database, on the page, in an answer.
Held == Range(inbox.rows) \cup Copies \cup (UNION {Range(l.got.rows) : l \in loads})

\* A moment belongs to one ticket, whose row was written then.
Named(R) == \A r, q \in R : r.at = q.at => r.id = q.id
Dated(R, c) == \A r \in R : r.at \in 1..c

ListTyped ==
  /\ row \in [Tickets -> [status : RowStatuses, at : Nat]]
  /\ clock \in Nat /\ clock <= Cardinality(Tickets) + MaxUpdates
  /\ inbox \in InboxRec /\ Once(inbox.rows)
  /\ loads \subseteq LoadRec /\ IsFiniteSet(loads) /\ Cardinality(loads) <= MaxLoads
  /\ \A l \in loads : Once(l.got.rows)
  /\ whole \in WholeRec

ListInv == ListTyped /\ Named(Held) /\ Dated(Held, clock)

LEMMA RangesAreFinite ==
  ASSUME NEW T, NEW s \in Seq(T)
  PROVE  IsFiniteSet(Range(s)) /\ Range(s) \subseteq T /\ Range(s) = {s[i] : i \in 1..Len(s)}
<1>1. DOMAIN s = 1..Len(s) /\ Len(s) \in Nat
  OBVIOUS
<1>2. s \in [1..Len(s) -> Range(s)] /\ Range(s) \subseteq T /\ Range(s) = {s[i] : i \in 1..Len(s)}
  BY <1>1 DEF Range
<1>3. s \in Surjection(1..Len(s), Range(s))
  BY <1>1, <1>2 DEF Surjection, Range
<1>4. IsFiniteSet(1..Len(s))
  BY <1>1, FS_Interval
<1> QED
  BY <1>2, <1>3, <1>4, FS_Surjection

\* What findAll answers: rows of the database, each once.
LEMMA AnswersAreRows ==
  ASSUME ListTyped, Named(Held), NEW filter, NEW offset \in Nat
  PROVE  /\ Answered(filter, offset) \in AnswerRec
         /\ Once(Answered(filter, offset).rows)
         /\ Range(Answered(filter, offset).rows) \subseteq Copies
<1> DEFINE S == Selected(filter)
           key == [t \in S |-> -row[t].at]
           all == Ordered(S)
           last == IF Len(all) < offset + PageSize THEN Len(all) ELSE offset + PageSize
           n == IF last > offset THEN last - offset ELSE 0
           rows == [i \in 1..n |-> Copy(all[offset + i])]
<1>1. S \subseteq Tickets /\ IsFiniteSet(S) /\ Cardinality(S) \in Nat /\ Cardinality(S) <= Cardinality(Tickets)
  <2>1. S \subseteq Tickets
    BY DEF Selected
  <2> HIDE DEF S
  <2> QED
    BY <2>1, ListAssumption, FS_Subset, FS_CardinalityType
<1>2. \A t \in Tickets : Copy(t) \in RowRec /\ Copy(t).id = t /\ Copy(t).at = row[t].at /\ row[t].at \in Nat
  BY DEF ListTyped, Copy, RowRec
<1>3. \A t, u \in Tickets : row[t].at = row[u].at => t = u
  <2>1. \A t \in Tickets : Copy(t) \in Held
    BY DEF Held, Copies
  <2> QED
    BY <1>2, <2>1 DEF Named
<1>4. key \in [S -> Int] /\ \A t, u \in S : key[t] = key[u] => t = u
  BY <1>1, <1>2, <1>3
<1>5. all = InOrder(S, key)
  BY DEF Ordered
<1> HIDE DEF S, key
<1>6. /\ all \in [1..Cardinality(S) -> S] /\ Len(all) = Cardinality(S)
      /\ \A i, j \in 1..Cardinality(S) : all[i] = all[j] => i = j
  BY <1>1, <1>4, <1>5, InOrderLists
<1>7. n \in Nat /\ \A i \in 1..n : offset + i \in 1..Cardinality(S)
  BY <1>1, <1>6, ListAssumption
<1>8. Answered(filter, offset) = [rows |-> rows, total |-> Len(all)]
  BY DEF Answered, S
<1> HIDE DEF all, last, n
<1>9. \A i \in 1..n : all[offset + i] \in Tickets
  BY <1>1, <1>6, <1>7
<1>10. rows \in Seq(RowRec)
  BY <1>2, <1>7, <1>9
<1>11. Once(rows)
  <2> SUFFICES ASSUME NEW i \in 1..n, NEW j \in 1..n, rows[i].id = rows[j].id PROVE i = j
    BY DEF Once
  <2>1. all[offset + i] = all[offset + j]
    BY <1>2, <1>9
  <2> QED
    BY <1>6, <1>7, <2>1
<1>12. Range(rows) \subseteq Copies
  BY <1>9 DEF Range, Copies
<1>13. Len(all) \in 0..Cardinality(Tickets)
  BY <1>1, <1>6, ListAssumption, FS_CardinalityType
<1> HIDE DEF rows
<1> QED
  BY <1>8, <1>10, <1>11, <1>12, <1>13 DEF AnswerRec

\* A background answer takes the place of the rows it renews: no ticket comes twice.
LEMMA MergedIsOnce ==
  ASSUME NEW old \in Seq(RowRec), NEW new \in Seq(RowRec), Once(old), Once(new), Named(Range(old) \cup Range(new))
  PROVE  Merged(old, new) \in Seq(RowRec) /\ Once(Merged(old, new)) /\ Range(Merged(old, new)) \subseteq Range(old) \cup Range(new)
<1> DEFINE R == {r \in Range(old) : r.id \notin Ids(new)} \cup Range(new)
           key == [r \in R |-> -r.at]
           list == InOrder(R, key)
<1>1. Range(old) \subseteq RowRec /\ IsFiniteSet(Range(old)) /\ Range(new) \subseteq RowRec /\ IsFiniteSet(Range(new))
  BY RangesAreFinite
<1>2. R \subseteq Range(old) \cup Range(new) /\ R \subseteq RowRec
  BY <1>1
<1>3. IsFiniteSet(R)
  BY <1>1, <1>2, FS_Union, FS_Subset
<1>4. \A r \in Range(new) : r.id \in Ids(new)
  BY DEF Range, Ids
<1>5. /\ \A r, q \in Range(old) : r.id = q.id => r = q
      /\ \A r, q \in Range(new) : r.id = q.id => r = q
  BY DEF Once, Range
<1>6. \A r, q \in R : r.id = q.id => r = q
  BY <1>4, <1>5
<1>7. \A r \in R : r.at \in Nat
  BY <1>2 DEF RowRec
<1>8. \A r, q \in R : r.at = q.at => r = q
  BY <1>2, <1>6 DEF Named
<1>9. Merged(old, new) = list
  BY DEF Merged
<1> HIDE DEF R
<1>10. key \in [R -> Int] /\ \A r, q \in R : key[r] = key[q] => r = q
  BY <1>7, <1>8
<1> HIDE DEF key
<1>11. /\ list \in Seq(R) /\ list \in [1..Cardinality(R) -> R]
       /\ \A i, j \in 1..Cardinality(R) : list[i] = list[j] => i = j
  BY <1>3, <1>10, InOrderLists
<1> HIDE DEF list
<1>12. list \in Seq(RowRec)
  BY <1>2, <1>11
<1>13. Once(list)
  BY <1>6, <1>11 DEF Once
<1>14. Range(list) \subseteq R
  BY <1>11, RangesAreFinite
<1> QED
  BY <1>2, <1>9, <1>12, <1>13, <1>14

\* Of a further page, what is there already is left out.
LEMMA ExtendedIsOnce ==
  ASSUME NEW old \in Seq(RowRec), NEW new \in Seq(RowRec), Once(old), Once(new)
  PROVE  Extended(old, new) \in Seq(RowRec) /\ Once(Extended(old, new)) /\ Range(Extended(old, new)) \subseteq Range(old) \cup Range(new)
<1> DEFINE fresh == {i \in DOMAIN new : new[i].id \notin Ids(old)}
           order == Ascending(fresh)
           more == [k \in DOMAIN order |-> new[order[k]]]
<1>1. fresh \subseteq 1..Len(new) /\ Len(new) \in Nat
  OBVIOUS
<1>3. \A i \in fresh : i \in 1..Len(new) /\ new[i] \in RowRec /\ new[i] \in Range(new) /\ new[i].id \notin Ids(old)
  BY DEF Range
<1>4. \A i, j \in fresh : new[i].id = new[j].id => i = j
  BY DEF Once
<1>5. Extended(old, new) = old \o more
  BY DEF Extended
<1> HIDE DEF fresh
<1>6. /\ order \in Seq(fresh) /\ DOMAIN order = 1..Len(order) /\ Len(order) \in Nat
      /\ \A i \in 1..Len(order) : order[i] \in fresh
      /\ \A i, j \in 1..Len(order) : order[i] = order[j] => i = j
  <2>1. /\ order \in Seq(fresh) /\ Len(order) = Cardinality(fresh)
        /\ order \in [1..Cardinality(fresh) -> fresh]
        /\ \A i, j \in 1..Cardinality(fresh) : order[i] = order[j] => i = j
    BY <1>1, AscendingLists
  <2> HIDE DEF order
  <2> QED
    BY <2>1
<1> HIDE DEF order
<1>7. more \in Seq(RowRec) /\ Len(more) = Len(order) /\ \A k \in 1..Len(order) : more[k] = new[order[k]]
  BY <1>3, <1>6
<1> HIDE DEF more
<1> DEFINE both == old \o more
<1>8. /\ both \in Seq(RowRec) /\ Len(both) = Len(old) + Len(more) /\ Len(old) \in Nat /\ Len(more) \in Nat
      /\ \A i \in 1..Len(both) : both[i] = IF i <= Len(old) THEN old[i] ELSE more[i - Len(old)]
  BY <1>7
<1> HIDE DEF both
<1>9. \A i \in 1..Len(old) : old[i].id \in Ids(old) /\ old[i] \in Range(old)
  BY DEF Ids, Range
<1>10. ASSUME NEW i \in 1..Len(both)
       PROVE  \/ i \in 1..Len(old) /\ both[i] = old[i] /\ both[i].id \in Ids(old) /\ both[i] \in Range(old)
              \/ /\ i - Len(old) \in 1..Len(order) /\ both[i] = new[order[i - Len(old)]]
                 /\ both[i].id \notin Ids(old) /\ both[i] \in Range(new)
  <2>1. CASE i <= Len(old)
    <3>1. i \in 1..Len(old) /\ both[i] = old[i]
      BY <1>8, <2>1
    <3> QED
      BY <1>9, <3>1
  <2>2. CASE ~(i <= Len(old))
    <3>1. i - Len(old) \in 1..Len(order) /\ both[i] = more[i - Len(old)]
      BY <1>7, <1>8, <2>2
    <3>2. both[i] = new[order[i - Len(old)]] /\ order[i - Len(old)] \in fresh
      BY <1>6, <1>7, <3>1
    <3> QED
      BY <1>3, <3>1, <3>2
  <2> QED
    BY <2>1, <2>2
<1>11. Once(both)
  <2> SUFFICES ASSUME NEW i \in 1..Len(both), NEW j \in 1..Len(both), both[i].id = both[j].id PROVE i = j
    BY <1>8 DEF Once
  <2>1. CASE both[i].id \in Ids(old)
    <3>1. i \in DOMAIN old /\ j \in DOMAIN old /\ old[i].id = old[j].id
      BY <1>10, <2>1
    <3> QED
      BY <3>1 DEF Once
  <2>2. CASE both[i].id \notin Ids(old)
    <3> DEFINE a == i - Len(old)
               b == j - Len(old)
    <3>1. a \in 1..Len(order) /\ b \in 1..Len(order) /\ both[i] = new[order[a]] /\ both[j] = new[order[b]]
      BY <1>10, <2>2
    <3>2. a = b => i = j
      BY <1>8
    <3> HIDE DEF a, b
    <3>3. order[a] = order[b]
      BY <1>4, <1>6, <3>1
    <3> QED
      BY <1>6, <3>1, <3>2, <3>3
  <2> QED
    BY <2>1, <2>2
<1>12. Range(both) \subseteq Range(old) \cup Range(new)
  <2>1. Range(both) = {both[i] : i \in 1..Len(both)}
    BY <1>8, RangesAreFinite
  <2> QED
    BY <1>10, <2>1
<1> QED
  BY <1>5, <1>8, <1>11, <1>12 DEF both

LEMMA ListStart == Init => ListInv
<1> SUFFICES ASSUME Init PROVE ListInv
  OBVIOUS
<1> DEFINE order == SetToSeq(Tickets)
           n == Cardinality(Tickets)
           place(t) == CHOOSE i \in DOMAIN order : order[i] = t
<1>0. n \in Nat /\ ListInit
  BY ListAssumption, FS_CardinalityType DEF Init
<1>1. \E f \in [1..n -> Tickets] : IsInjective(f)
  <2>1. PICK f \in Bijection(1..n, Tickets) : TRUE
    BY ListAssumption, FS_CardinalityType DEF ExistsBijection
  <2>2. f \in [1..n -> Tickets] /\ IsInjective(f)
    BY <2>1 DEF Bijection, Injection
  <2> QED
    BY <2>2
<1>2. order \in [1..n -> Tickets] /\ IsInjective(order)
  BY <1>1 DEF SetToSeq
<1> HIDE DEF order
<1>3. order \in Surjection(1..n, Tickets)
  <2>1. IsFiniteSet(1..n) /\ Cardinality(1..n) = n
    BY <1>0, FS_Interval
  <2>2. order \in Injection(1..n, Tickets)
    BY <1>2 DEF Injection
  <2> QED
    BY <2>1, <2>2, ListAssumption, FS_Injection
<1>4. \A t \in Tickets : \E i \in 1..n : order[i] = t
  BY <1>3 DEF Surjection
<1>5. \A t \in Tickets : place(t) \in 1..n /\ order[place(t)] = t
  BY <1>2, <1>4
<1>6. /\ row = [t \in Tickets |-> [status |-> "NEW", at |-> place(t)]] /\ clock = n
      /\ inbox = [rows |-> <<>>, total |-> 0, offset |-> 0, filter |-> "any", more |-> FALSE, loading |-> TRUE,
                  watched |-> FALSE, due |-> "inbox" \in story, mixed |-> FALSE]
      /\ loads = {} /\ whole = [shown |-> "none", asked |-> "none", sent |-> {}, answered |-> {}]
  BY <1>0 DEF ListInit, order
<1> HIDE DEF place
<1>7. \A t \in Tickets : Copy(t).at = place(t) /\ Copy(t).id = t
  BY <1>6 DEF Copy
<1>8. Held = Copies
  <2>1. Range(inbox.rows) = {}
    BY <1>6 DEF Range
  <2> QED
    BY <1>6, <2>1 DEF Held
<1>9. Named(Held) /\ Dated(Held, clock)
  BY <1>5, <1>6, <1>7, <1>8 DEF Named, Dated, Copies
<1>10. inbox \in InboxRec /\ Once(inbox.rows)
  <2>1. 0 \in 0..n
    BY <1>0
  <2> HIDE DEF n
  <2>2. InboxRec = [rows : Seq(RowRec), total : 0..n, offset : Nat, filter : Filters, more : BOOLEAN,
             loading : BOOLEAN, watched : BOOLEAN, due : BOOLEAN, mixed : BOOLEAN]
    BY DEF InboxRec, n
  <2>3. "any" \in Filters /\ <<>> \in Seq(RowRec) /\ ("inbox" \in story) \in BOOLEAN
    BY DEF Filters
  <2>4. inbox \in InboxRec
    BY <1>6, <2>1, <2>2, <2>3
  <2>5. Once(inbox.rows)
    BY <1>6 DEF Once
  <2> QED
    BY <2>4, <2>5
<1>11. row \in [Tickets -> [status : RowStatuses, at : Nat]]
  BY <1>5, <1>6 DEF RowStatuses
<1>12. loads \subseteq LoadRec /\ IsFiniteSet(loads) /\ Cardinality(loads) <= MaxLoads
  BY <1>6, FS_EmptySet, ListAssumption
<1>13. whole \in WholeRec
  BY <1>6 DEF WholeRec, Queries
<1>14. ListTyped
  BY <1>0, <1>6, <1>10, <1>11, <1>12, <1>13, ListAssumption DEF ListTyped
<1> QED
  BY <1>9, <1>14 DEF ListInv

\* As long as no row is written, what is held comes from what was held.
LEMMA HeldOnly ==
  ASSUME ListInv, clock' = clock, Held' \subseteq Held, ListTyped'
  PROVE  ListInv'
BY DEF ListInv, Named, Dated

LEMMA CopiesStay == ASSUME row' = row PROVE Copies' = Copies
BY DEF Copies, Copy

LEMMA OneAdded ==
  \A S, x : IsFiniteSet(S) => /\ IsFiniteSet(S \cup {x}) /\ Cardinality(S \cup {x}) \in Nat
                              /\ Cardinality(S \cup {x}) <= Cardinality(S) + 1
<1> SUFFICES ASSUME NEW S, NEW x, IsFiniteSet(S)
             PROVE  /\ IsFiniteSet(S \cup {x}) /\ Cardinality(S \cup {x}) \in Nat
                    /\ Cardinality(S \cup {x}) <= Cardinality(S) + 1
  OBVIOUS
<1>1. IsFiniteSet(S \cup {x}) /\ Cardinality(S \cup {x}) = IF x \in S THEN Cardinality(S) ELSE Cardinality(S) + 1
  BY FS_AddElement
<1>2. Cardinality(S) \in Nat /\ Cardinality(S \cup {x}) \in Nat
  BY <1>1, FS_CardinalityType
<1> QED
  BY <1>1, <1>2

\* A request is made: it has no rows yet.
LEMMA AskingKeepsList ==
  ASSUME ListInv, NEW mode \in Modes, Asks(mode), Cardinality(loads) < MaxLoads, UNCHANGED <<row, clock, whole>>,
         inbox' \in InboxRec, inbox'.rows = inbox.rows
  PROVE  ListInv'
<1> DEFINE l == [mode |-> mode, filter |-> inbox.filter, offset |-> IF mode = "append" THEN inbox.offset ELSE 0,
                 pc |-> "sent", got |-> [rows |-> <<>>, total |-> 0]]
<1>1. loads' = loads \union {l}
  BY DEF Asks
<1>2. l \in LoadRec /\ Once(l.got.rows) /\ Range(l.got.rows) = {}
  <2>1. inbox.filter \in Filters /\ inbox.offset \in Nat /\ <<>> \in Seq(RowRec)
    BY DEF ListInv, ListTyped, InboxRec
  <2>2. 0 \in 0..Cardinality(Tickets)
    BY ListAssumption, FS_CardinalityType
  <2>3. [rows |-> <<>>, total |-> 0] \in AnswerRec
    BY <2>1, <2>2 DEF AnswerRec
  <2>4. l \in LoadRec
    BY <2>1, <2>3 DEF LoadRec
  <2> QED
    BY <2>4 DEF Once, Range
<1> HIDE DEF l
<1>3. loads' \subseteq LoadRec /\ IsFiniteSet(loads') /\ Cardinality(loads') <= MaxLoads
  <2>1. loads \subseteq LoadRec /\ IsFiniteSet(loads) /\ Cardinality(loads) \in Nat
    BY FS_CardinalityType DEF ListInv, ListTyped
  <2>2. IsFiniteSet(loads') /\ Cardinality(loads') <= Cardinality(loads) + 1 /\ Cardinality(loads') \in Nat
    BY <1>1, <2>1, OneAdded, Zenon
  <2> QED
    BY <1>1, <1>2, <2>1, <2>2, ListAssumption
<1>4. \A m \in loads' : Once(m.got.rows)
  BY <1>1, <1>2 DEF ListInv, ListTyped
<1>5. ListTyped'
  BY <1>3, <1>4 DEF ListInv, ListTyped, Once
<1>6. Held' \subseteq Held
  <2>1. Range(inbox'.rows) = Range(inbox.rows)
    OBVIOUS
  <2> QED
    BY <1>1, <1>2, <2>1, CopiesStay DEF Held
<1> QED
  BY <1>5, <1>6, HeldOnly

LEMMA InboxAsks ==
  ASSUME ListInv, LoadFull \/ Refresh \/ Scroll
  PROVE  ListInv'
<1>0. inbox \in InboxRec
  BY DEF ListInv, ListTyped
<1>1. CASE LoadFull
  <2>1. inbox' \in InboxRec /\ inbox'.rows = inbox.rows
    BY <1>0, <1>1 DEF LoadFull, InboxRec
  <2> QED
    BY <1>1, <2>1, AskingKeepsList DEF LoadFull, Modes
<1>2. CASE Refresh
  <2>1. inbox' \in InboxRec /\ inbox'.rows = inbox.rows
    BY <1>0, <1>2 DEF Refresh
  <2> QED
    BY <1>2, <2>1, AskingKeepsList DEF Refresh, Modes
<1>3. CASE Scroll
  <2>1. inbox' \in InboxRec /\ inbox'.rows = inbox.rows
    BY <1>0, <1>3 DEF Scroll, InboxRec
  <2> QED
    BY <1>3, <2>1, AskingKeepsList DEF Scroll, Modes
<1> QED
  BY <1>1, <1>2, <1>3

LEMMA FilterKeepsList ==
  ASSUME ListInv, ChangeFilter
  PROVE  ListInv'
<1>1. inbox' \in InboxRec /\ inbox'.rows = inbox.rows
  BY DEF ListInv, ListTyped, ChangeFilter, InboxRec, Filters
<1>2. ListTyped'
  BY <1>1 DEF ListInv, ListTyped, ChangeFilter, Once
<1>3. Held' = Held
  <2>1. Range(inbox'.rows) = Range(inbox.rows)
    BY <1>1
  <2> QED
    BY <2>1, CopiesStay DEF Held, ChangeFilter
<1> QED
  BY <1>2, <1>3, HeldOnly DEF ChangeFilter

\* A row is written at a moment of its own.
LEMMA ChangeKeepsList ==
  ASSUME ListInv, NEW t \in Tickets, NEW status \in RowStatuses, Change(t, status)
  PROVE  ListInv'
<1>1. /\ clock \in Nat /\ clock' = clock + 1 /\ clock' <= Cardinality(Tickets) + MaxUpdates
      /\ row \in [Tickets -> [status : RowStatuses, at : Nat]]
      /\ row' = [row EXCEPT ![t] = [status |-> status, at |-> clock + 1]]
      /\ UNCHANGED <<inbox, loads, whole>>
  BY ListAssumption, FS_CardinalityType DEF Change, ListInv, ListTyped
<1>2. row' \in [Tickets -> [status : RowStatuses, at : Nat]]
  BY <1>1
<1>3. ListTyped'
  BY <1>1, <1>2 DEF ListInv, ListTyped
<1>4. \A u \in Tickets : Copy(u)' = IF u = t THEN [id |-> t, status |-> status, at |-> clock + 1] ELSE Copy(u)
  BY <1>1 DEF Copy
<1> DEFINE new == [id |-> t, status |-> status, at |-> clock + 1]
<1>5. Held' \subseteq Held \cup {new}
  BY <1>1, <1>4 DEF Held, Copies
<1>6. new.at = clock + 1
  OBVIOUS
<1> HIDE DEF new
<1>7. Dated(Held', clock')
  BY <1>1, <1>5, <1>6 DEF ListInv, Dated
<1>8. Named(Held')
  <2> SUFFICES ASSUME NEW r \in Held', NEW q \in Held', r.at = q.at PROVE r.id = q.id
    BY DEF Named
  <2>1. CASE r \in Held /\ q \in Held
    BY <2>1 DEF ListInv, Named
  <2>2. \A p \in Held : p.at # new.at
    BY <1>1, <1>6 DEF ListInv, Dated
  <2> QED
    BY <1>5, <2>1, <2>2
<1> QED
  BY <1>3, <1>7, <1>8 DEF ListInv, Named, Dated

LEMMA ServeKeepsList ==
  ASSUME ListInv, NEW l \in loads, ServeList(l)
  PROVE  ListInv'
<1> DEFINE got == Answered(l.filter, l.offset)
           m == [l EXCEPT !.pc = "answered", !.got = got]
<1>1. loads' = (loads \ {l}) \union {m} /\ UNCHANGED <<row, clock, inbox, whole>>
  BY DEF ServeList
<1>2. l \in LoadRec /\ l.offset \in Nat
  BY DEF ListInv, ListTyped, LoadRec
<1>3. got \in AnswerRec /\ Once(got.rows) /\ Range(got.rows) \subseteq Copies
  BY <1>2, AnswersAreRows DEF ListInv
<1> HIDE DEF got
<1>4. m \in LoadRec /\ m.got = got
  BY <1>2, <1>3 DEF LoadRec
<1> HIDE DEF m
<1>5. loads' \subseteq LoadRec /\ IsFiniteSet(loads') /\ Cardinality(loads') <= MaxLoads
  <2>1. loads \subseteq LoadRec /\ IsFiniteSet(loads) /\ Cardinality(loads) \in Nat /\ Cardinality(loads) <= MaxLoads
    BY FS_CardinalityType DEF ListInv, ListTyped
  <2>2. IsFiniteSet(loads \ {l}) /\ Cardinality(loads \ {l}) = Cardinality(loads) - 1
    BY <2>1, FS_RemoveElement
  <2>3. IsFiniteSet(loads') /\ Cardinality(loads') <= Cardinality(loads \ {l}) + 1 /\ Cardinality(loads') \in Nat
    BY <1>1, <2>2, OneAdded, Zenon
  <2> QED
    BY <1>1, <1>4, <2>1, <2>2, <2>3, ListAssumption
<1>6. \A k \in loads' : Once(k.got.rows)
  BY <1>1, <1>3, <1>4 DEF ListInv, ListTyped
<1>7. ListTyped'
  BY <1>1, <1>5, <1>6 DEF ListInv, ListTyped, Once
<1>8. Held' \subseteq Held
  BY <1>1, <1>3, <1>4, CopiesStay DEF Held
<1> QED
  BY <1>1, <1>7, <1>8, HeldOnly

\* An answer is taken: the page shows rows it had, or rows of the answer, each once.
LEMMA TakenRows ==
  ASSUME ListInv, NEW l \in loads
  PROVE  /\ Taken(l) \in InboxRec /\ Once(Taken(l).rows)
         /\ Range(Taken(l).rows) \subseteq Range(inbox.rows) \cup Range(l.got.rows)
<1> DEFINE new == l.got.rows
           old == inbox.rows
           rows == CASE l.mode = "full"       -> new
                     [] l.mode = "background" -> Merged(old, new)
                     [] l.mode = "append"     -> Extended(old, new)
           offset == CASE l.mode = "full"   -> Len(new)
                       [] l.mode = "append" -> inbox.offset + Len(new)
                       [] OTHER             -> inbox.offset
           more == inbox.more /\ l.mode # "append"
           loading == inbox.loading /\ l.mode # "full"
           mixed == inbox.mixed \/ l.filter # inbox.filter
<1>1. /\ l \in LoadRec /\ new \in Seq(RowRec) /\ Once(new) /\ l.got.total \in 0..Cardinality(Tickets)
      /\ inbox \in InboxRec /\ old \in Seq(RowRec) /\ Once(old) /\ inbox.offset \in Nat
  BY DEF ListInv, ListTyped, LoadRec, AnswerRec, InboxRec
<1>2. Named(Range(old) \cup Range(new))
  <2>1. Range(old) \cup Range(new) \subseteq Held
    BY DEF Held
  <2> QED
    BY <2>1 DEF ListInv, Named
<1>3. /\ Merged(old, new) \in Seq(RowRec) /\ Once(Merged(old, new)) /\ Range(Merged(old, new)) \subseteq Range(old) \cup Range(new)
      /\ Extended(old, new) \in Seq(RowRec) /\ Once(Extended(old, new)) /\ Range(Extended(old, new)) \subseteq Range(old) \cup Range(new)
  BY <1>1, <1>2, MergedIsOnce, ExtendedIsOnce
<1>4. l.mode \in {"full", "background", "append"}
  BY <1>1 DEF LoadRec, Modes
<1>5. rows \in Seq(RowRec) /\ Once(rows) /\ Range(rows) \subseteq Range(old) \cup Range(new)
  <2>1. CASE l.mode = "full"
    BY <1>1, <2>1
  <2>2. CASE l.mode = "background"
    BY <1>3, <2>2
  <2>3. CASE l.mode = "append"
    BY <1>3, <2>3
  <2> QED
    BY <1>4, <2>1, <2>2, <2>3
<1>6. offset \in Nat
  <2>1. Len(new) \in Nat
    BY <1>1
  <2> QED
    BY <1>1, <2>1
<1>7. more \in BOOLEAN /\ loading \in BOOLEAN /\ mixed \in BOOLEAN
  OBVIOUS
<1>8. Taken(l) = [inbox EXCEPT !.total = l.got.total, !.rows = rows, !.offset = offset, !.more = more, !.loading = loading, !.mixed = mixed]
  BY <1>1 DEF Taken, InboxRec
<1> HIDE DEF rows, offset, more, loading, mixed
<1>9. Taken(l) \in InboxRec /\ Taken(l).rows = rows
  BY <1>1, <1>5, <1>6, <1>7, <1>8 DEF InboxRec
<1> QED
  BY <1>5, <1>9

LEMMA ArriveKeepsList ==
  ASSUME ListInv, NEW l \in loads, ArriveList(l)
  PROVE  ListInv'
<1> DEFINE next == Taken(l)
           anew == l.mode = "append" \/ HasMore(next) # HasMore(inbox)
           watched == IF anew THEN HasMore(next) /\ ~next.loading ELSE inbox.watched
<1>1. next \in InboxRec /\ Once(next.rows) /\ Range(next.rows) \subseteq Range(inbox.rows) \cup Range(l.got.rows)
  BY TakenRows
<1>2. watched \in BOOLEAN
  BY DEF ListInv, ListTyped, InboxRec
<1>3. next.watched = inbox.watched
  BY DEF Taken, ListInv, ListTyped, InboxRec
<1>4. inbox' = [next EXCEPT !.watched = watched] /\ loads' = loads \ {l} /\ UNCHANGED <<row, clock, whole>>
  BY <1>3 DEF ArriveList
<1> HIDE DEF watched, next
<1>5. inbox' \in InboxRec /\ inbox'.rows = next.rows
  BY <1>1, <1>2, <1>4 DEF InboxRec
<1>6. loads' \subseteq LoadRec /\ IsFiniteSet(loads') /\ Cardinality(loads') <= MaxLoads
  <2>1. loads \subseteq LoadRec /\ IsFiniteSet(loads) /\ Cardinality(loads) <= MaxLoads
    BY DEF ListInv, ListTyped
  <2>2. IsFiniteSet(loads \ {l}) /\ Cardinality(loads \ {l}) <= Cardinality(loads)
    BY <2>1, FS_Subset
  <2>3. Cardinality(loads) \in Nat /\ Cardinality(loads \ {l}) \in Nat
    BY <2>1, <2>2, FS_CardinalityType
  <2> QED
    BY <1>4, <2>1, <2>2, <2>3, ListAssumption
<1>7. ListTyped'
  BY <1>1, <1>4, <1>5, <1>6 DEF ListInv, ListTyped, Once
<1>8. Held' \subseteq Held
  <2>1. Range(inbox'.rows) \subseteq Range(inbox.rows) \cup Range(l.got.rows)
    BY <1>1, <1>5
  <2> QED
    BY <1>4, <2>1, CopiesStay DEF Held
<1> QED
  BY <1>4, <1>7, <1>8, HeldOnly

LEMMA WholeKeepsList ==
  ASSUME ListInv, NEW q \in Queries, AskWhole(q) \/ ServeWhole(q) \/ ArriveWhole(q)
  PROVE  ListInv'
<1>1. whole' \in WholeRec /\ UNCHANGED <<row, clock, inbox, loads>>
  BY DEF AskWhole, ServeWhole, ArriveWhole, ListInv, ListTyped, WholeRec
<1>2. ListTyped'
  BY <1>1 DEF ListInv, ListTyped, Once
<1>3. Held' = Held
  BY <1>1, CopiesStay DEF Held
<1> QED
  BY <1>1, <1>2, <1>3, HeldOnly

LEMMA ListStep ==
  ASSUME ListInv, [Next]_deskVars
  PROVE  ListInv'
<1>1. CASE ListNext
  BY <1>1, InboxAsks, FilterKeepsList, ChangeKeepsList, ServeKeepsList, ArriveKeepsList, WholeKeepsList DEF ListNext
<1>2. CASE UNCHANGED listVars
  <2>1. UNCHANGED <<row, clock, inbox, loads, whole>>
    BY <1>2 DEF listVars
  <2>2. Held' = Held
    BY <2>1, CopiesStay DEF Held
  <2> QED
    BY <2>1, <2>2 DEF ListInv, ListTyped, Once
<1> QED
  BY <1>1, <1>2 DEF Next, deskVars

LEMMA ListTypes == ListInv => ListTypeOK
<1> SUFFICES ASSUME ListInv PROVE ListTypeOK
  OBVIOUS
<1>1. NoTwinRows
  BY DEF ListInv, ListTyped, Once, NoTwinRows
<1>2. \A t \in Tickets : row[t].status \in RowStatuses /\ row[t].at \in 1..clock
  <2>1. \A t \in Tickets : Copy(t).at = row[t].at /\ Copy(t) \in Held
    BY DEF Held, Copies, Copy
  <2> QED
    BY <2>1 DEF ListInv, ListTyped, Dated
<1>3. clock \in 0..(Cardinality(Tickets) + MaxUpdates)
  BY ListAssumption, FS_CardinalityType DEF ListInv, ListTyped
<1>4. inbox.filter \in Filters /\ inbox.total \in 0..Cardinality(Tickets) /\ inbox.offset \in Nat
  BY DEF ListInv, ListTyped, InboxRec
<1>5. \A l \in loads : l.mode \in Modes /\ l.pc \in {"sent", "answered"}
  BY DEF ListInv, ListTyped, LoadRec
<1>6. Cardinality(loads) <= MaxLoads /\ whole.shown \in Queries /\ whole.asked \in Queries
  BY DEF ListInv, ListTyped, WholeRec
<1> QED
  BY <1>1, <1>2, <1>3, <1>4, <1>5, <1>6 DEF ListTypeOK

-----------------------------------------------------------------------------
(***************************************************************************)
(* The types of the ticket page.                                           *)
(***************************************************************************)
PlanRec   == [note : BOOLEAN, files : SUBSET Files, cc : SUBSET People, tags : SUBSET Tags, status : Statuses]
GotRec    == [n : 0..MaxLog, status : Statuses, tags : SUBSET Tags, cc : SUBSET People]
CallRec   == [kind : Requests, pc : {"idle", "sent", "answered", "failed"}, plan : PlanRec, got : GotRec]
TicketRec == [log : Seq(Kinds), status : Statuses, tags : SUBSET Tags, cc : SUBSET People]
ViewRec   == [shown : Seq(1..MaxLog), status : Statuses \union {"NONE"}, tags : SUBSET Tags, last : 0..MaxLog]
DraftRec  == [text : BOOLEAN, note : BOOLEAN, files : SUBSET Files, cc : SUBSET People, sending : BOOLEAN]

Size == Len(ticket.log)

RowsTyped ==
  /\ ticket \in TicketRec /\ Size \in 1..MaxLog
  /\ upload \in [Files -> [stored : BOOLEAN, on : 0..MaxLog]]
  /\ botStep \in {"none", "posted", "done"} /\ heard \in BOOLEAN

\* An answer that is there has a message of the ticket, the last one then.
Truthful(c, n) == c.got.n <= n /\ (c.pc = "answered" => c.got.n >= 1)

CallsTyped ==
  /\ calls \in [Pages -> [Slots -> CallRec]]
  /\ \A by \in Pages, s \in Slots : Truthful(calls[by][s], Size)

\* A page shows messages the ticket has.
ViewsTyped ==
  /\ view \in [Pages -> ViewRec]
  /\ \A by \in Pages : \A i \in DOMAIN view[by].shown : view[by].shown[i] <= Size

CountsTyped ==
  /\ written \in [Pages \union {"mail"} -> 0..MaxDrafts]
  /\ faults \in 0..MaxFaults /\ lost \in 0..faults

PageInv == RowsTyped /\ CallsTyped /\ ViewsTyped /\ draft \in [Pages -> DraftRec] /\ CountsTyped

LEMMA WiderLists == \A A, B, s : A \subseteq B /\ s \in Seq(A) => s \in Seq(B)
OBVIOUS

LEMMA ListItems == \A A, s : s \in Seq(A) => \A i \in DOMAIN s : s[i] \in A
OBVIOUS

LEMMA MessagesTyped ==
  ASSUME NEW by, NEW n \in Nat
  PROVE  Messages(by, n) \in Seq(1..n)
<1> DEFINE N == {i \in 1..n : Visible(by, i)}
<1>1. Messages(by, n) = Ascending(N)
  BY DEF Messages
<1>2. N \subseteq 1..n
  OBVIOUS
<1> HIDE DEF N
<1>3. Ascending(N) \in Seq(N)
  BY <1>2, AscendingLists
<1>4. Ascending(N) \in Seq(1..n)
  BY <1>2, <1>3, WiderLists, Zenon
<1> QED
  BY <1>1, <1>4

LEMMA PlansTyped ==
  /\ NoPlan \in PlanRec
  /\ \A F \in SUBSET Files : [NoPlan EXCEPT !.files = F] \in PlanRec
  /\ \A T \in SUBSET Tags : [NoPlan EXCEPT !.tags = T] \in PlanRec
  /\ \A st \in Statuses : [NoPlan EXCEPT !.status = st] \in PlanRec
  /\ \A note \in BOOLEAN, F \in SUBSET Files, C \in SUBSET People : [NoPlan EXCEPT !.note = note, !.files = F, !.cc = C] \in PlanRec
BY DEF NoPlan, PlanRec, Statuses

LEMMA NewCallTyped ==
  ASSUME NEW kind \in Requests, NEW plan \in PlanRec
  PROVE  Call(kind, plan) \in CallRec /\ Call(kind, plan).pc = "sent" /\ Call(kind, plan).got.n = 0
<1>1. NoCall.got \in GotRec /\ NoCall.got.n = 0
  BY PageAssumption DEF NoCall, GotRec, Statuses
<1>2. Call(kind, plan) = [kind |-> kind, pc |-> "sent", plan |-> plan, got |-> NoCall.got]
  BY CallsAreFormed
<1>3. PICK got \in GotRec : got = NoCall.got
  BY <1>1
<1>4. [kind |-> kind, pc |-> "sent", plan |-> plan, got |-> got] \in CallRec
  BY DEF CallRec
<1> QED
  BY <1>1, <1>2, <1>3, <1>4

LEMMA NoCallTyped == NoCall \in CallRec /\ NoCall.pc = "idle" /\ NoCall.got.n = 0
<1>1. NoCall.got \in GotRec /\ NoCall.got.n = 0
  BY PageAssumption DEF NoCall, GotRec, Statuses
<1>2. NoPlan \in PlanRec /\ "none" \in Requests
  BY PlansTyped DEF Requests
<1>3. NoCall = [kind |-> "none", pc |-> "idle", plan |-> NoPlan, got |-> NoCall.got]
  BY DEF NoCall
<1>4. PICK got \in GotRec, plan \in PlanRec : got = NoCall.got /\ plan = NoPlan
  BY <1>1, <1>2
<1>5. [kind |-> "none", pc |-> "idle", plan |-> plan, got |-> got] \in CallRec
  BY <1>2 DEF CallRec
<1> QED
  BY <1>1, <1>3, <1>4, <1>5

\* A slot gets another request or another answer; the ticket only grows.
LEMMA SlotWritten ==
  ASSUME CallsTyped, Size \in Nat, Size' \in Nat, Size' >= Size,
         NEW by \in Pages, NEW s \in Slots, NEW call \in CallRec, Truthful(call, Size'), Start(by, s, call)
  PROVE  CallsTyped'
<1>1. calls' = [calls EXCEPT ![by][s] = call]
  BY DEF Start
<1>2. calls' \in [Pages -> [Slots -> CallRec]]
  BY <1>1 DEF CallsTyped
<1>3. ASSUME NEW b \in Pages, NEW t \in Slots PROVE Truthful(calls'[b][t], Size')
  <2>1. CASE b = by /\ t = s
    BY <1>1, <2>1 DEF CallsTyped
  <2>2. CASE ~(b = by /\ t = s)
    <3>1. calls'[b][t] = calls[b][t]
      BY <1>1, <2>2 DEF CallsTyped
    <3>2. Truthful(calls[b][t], Size) /\ calls[b][t].got.n \in 0..MaxLog
      BY DEF CallsTyped, CallRec, GotRec
    <3> QED
      BY <3>1, <3>2 DEF Truthful
  <2> QED
    BY <2>1, <2>2
<1> QED
  BY <1>2, <1>3 DEF CallsTyped

LEMMA CallsStay ==
  ASSUME CallsTyped, Size \in Nat, Size' \in Nat, Size' >= Size, calls' = calls
  PROVE  CallsTyped'
<1>1. ASSUME NEW b \in Pages, NEW t \in Slots PROVE Truthful(calls[b][t], Size')
  <2>1. Truthful(calls[b][t], Size) /\ calls[b][t].got.n \in 0..MaxLog
    BY DEF CallsTyped, CallRec, GotRec
  <2> QED
    BY <2>1 DEF Truthful
<1> QED
  BY <1>1 DEF CallsTyped

LEMMA ViewsStay ==
  ASSUME ViewsTyped, Size \in Nat, Size' \in Nat, Size' >= Size, view' = view
  PROVE  ViewsTyped'
<1>1. ASSUME NEW by \in Pages, NEW i \in DOMAIN view[by].shown PROVE view[by].shown[i] <= Size'
  <2>1. view[by].shown \in Seq(1..MaxLog)
    BY DEF ViewsTyped, ViewRec
  <2>2. view[by].shown[i] \in 1..MaxLog
    BY <2>1, ListItems
  <2> QED
    BY <2>2 DEF ViewsTyped
<1> QED
  BY <1>1 DEF ViewsTyped

\* A page asks: the ticket, what is shown and what is written stay.
LEMMA PageAsks ==
  ASSUME PageInv, NEW by \in Pages, NEW s \in Slots, NEW kind \in Requests, NEW plan \in PlanRec, Start(by, s, Call(kind, plan)),
         UNCHANGED <<ticket, upload, view, botStep, written, faults, lost>>, heard' \in BOOLEAN, draft' \in [Pages -> DraftRec]
  PROVE  PageInv'
<1>1. Call(kind, plan) \in CallRec /\ Call(kind, plan).pc = "sent" /\ Call(kind, plan).got.n = 0
  BY NewCallTyped
<1>2. Size' = Size /\ Size \in Nat
  BY DEF Size, PageInv, RowsTyped
<1>3. PICK call \in CallRec : call = Call(kind, plan)
  BY <1>1
<1>4. Truthful(call, Size')
  BY <1>1, <1>2, <1>3 DEF Truthful
<1>5. CallsTyped'
  BY <1>2, <1>3, <1>4, SlotWritten DEF PageInv
<1>6. ViewsTyped'
  BY <1>2, ViewsStay DEF PageInv
<1> QED
  BY <1>2, <1>5, <1>6 DEF PageInv, RowsTyped, CountsTyped

LEMMA PageStart == Init => PageInv
<1> SUFFICES ASSUME Init PROVE PageInv
  OBVIOUS
<1>1. PageInit
  BY DEF Init
<1>2. ticket.log = <<"reply">> /\ ticket \in TicketRec /\ Size = 1
  BY <1>1 DEF PageInit, TicketRec, Kinds, Statuses, Size
<1>3. RowsTyped
  <2>1. upload \in [Files -> [stored : BOOLEAN, on : 0..MaxLog]] /\ Size \in 1..MaxLog
    BY <1>1, <1>2, PageAssumption DEF PageInit
  <2>2. botStep \in {"none", "posted", "done"} /\ heard \in BOOLEAN
    BY <1>1 DEF PageInit
  <2> QED
    BY <1>2, <2>1, <2>2 DEF RowsTyped
<1>4. CallsTyped
  <2>1. PICK none \in CallRec : none = NoCall /\ Truthful(none, 1)
    BY NoCallTyped DEF Truthful
  <2>2. PICK load \in CallRec : load = Call("load", NoPlan) /\ Truthful(load, 1)
    <3>1. "load" \in Requests /\ NoPlan \in PlanRec
      BY PlansTyped DEF Requests
    <3>2. Call("load", NoPlan) \in CallRec /\ Call("load", NoPlan).pc = "sent" /\ Call("load", NoPlan).got.n = 0
      BY <3>1, NewCallTyped
    <3> QED
      BY <3>2 DEF Truthful
  <2>3. calls = [by \in Pages |-> [s \in Slots |-> IF s = 2 /\ by \in story THEN load ELSE none]]
    BY <1>1, <2>1, <2>2 DEF PageInit
  <2> QED
    BY <1>2, <2>1, <2>2, <2>3 DEF CallsTyped
<1>5. ViewsTyped
  BY <1>1, PageAssumption DEF PageInit, ViewsTyped, ViewRec
<1>6. draft \in [Pages -> DraftRec] /\ CountsTyped
  BY <1>1, PageAssumption DEF PageInit, DraftRec, CountsTyped
<1> QED
  BY <1>3, <1>4, <1>5, <1>6 DEF PageInv

\* The ticket and the requests stay: what is written on a page changes.
LEMMA PageWrites ==
  ASSUME PageInv, UNCHANGED <<ticket, upload, view, calls, botStep, heard, faults, lost>>,
         draft' \in [Pages -> DraftRec], written' \in [Pages \union {"mail"} -> 0..MaxDrafts]
  PROVE  PageInv'
<1>1. Size' = Size /\ Size \in Nat
  BY DEF Size, PageInv, RowsTyped
<1>2. CallsTyped' /\ ViewsTyped'
  BY <1>1, CallsStay, ViewsStay DEF PageInv
<1> QED
  BY <1>1, <1>2 DEF PageInv, RowsTyped, CountsTyped

LEMMA WriteKeepsPage ==
  ASSUME PageInv, NEW by \in Pages, Write(by)
  PROVE  PageInv'
<1>1. draft \in [Pages -> DraftRec] /\ written \in [Pages \union {"mail"} -> 0..MaxDrafts]
  BY DEF PageInv, CountsTyped
<1>2. PICK note \in BOOLEAN : draft' = [draft EXCEPT ![by].text = TRUE, ![by].note = note]
  BY DEF Write
<1>3. draft' \in [Pages -> DraftRec]
  <2>1. PICK r \in DraftRec : r = draft[by]
    BY <1>1
  <2>2. draft' = [draft EXCEPT ![by] = [r EXCEPT !.text = TRUE, !.note = note]]
    BY <1>1, <1>2, <2>1
  <2>3. [r EXCEPT !.text = TRUE, !.note = note] \in DraftRec
    BY DEF DraftRec
  <2> QED
    BY <1>1, <2>2, <2>3
<1>4. written' \in [Pages \union {"mail"} -> 0..MaxDrafts]
  <2>1. by \in Pages \union {"mail"} /\ written[by] + 1 \in 0..MaxDrafts /\ written' = [written EXCEPT ![by] = written[by] + 1]
    BY <1>1, PageAssumption DEF Write
  <2> QED
    BY <1>1, <2>1
<1> QED
  BY <1>3, <1>4, PageWrites DEF Write

LEMMA RemoveChipKeepsPage ==
  ASSUME PageInv, NEW by \in Pages, RemoveChip(by)
  PROVE  PageInv'
<1>1. draft \in [Pages -> DraftRec]
  BY DEF PageInv
<1>2. PICK r \in DraftRec : r = draft[by]
  BY <1>1
<1>3. \/ \E f \in r.files : draft' = [draft EXCEPT ![by].files = @ \ {f}]
      \/ \E p \in r.cc : draft' = [draft EXCEPT ![by].cc = @ \ {p}]
  BY <1>2 DEF RemoveChip
<1>4. \E n \in DraftRec : draft' = [draft EXCEPT ![by] = n]
  <2>1. ASSUME NEW f, draft' = [draft EXCEPT ![by].files = @ \ {f}] PROVE \E n \in DraftRec : draft' = [draft EXCEPT ![by] = n]
    <3>1. [r EXCEPT !.files = @ \ {f}] \in DraftRec
      BY DEF DraftRec
    <3>2. draft' = [draft EXCEPT ![by] = [r EXCEPT !.files = @ \ {f}]]
      BY <1>1, <1>2, <2>1
    <3> QED
      BY <3>1, <3>2
  <2>2. ASSUME NEW p, draft' = [draft EXCEPT ![by].cc = @ \ {p}] PROVE \E n \in DraftRec : draft' = [draft EXCEPT ![by] = n]
    <3>1. [r EXCEPT !.cc = @ \ {p}] \in DraftRec
      BY DEF DraftRec
    <3>2. draft' = [draft EXCEPT ![by] = [r EXCEPT !.cc = @ \ {p}]]
      BY <1>1, <1>2, <2>2
    <3> QED
      BY <3>1, <3>2
  <2> QED
    BY <1>3, <2>1, <2>2
<1>5. draft' \in [Pages -> DraftRec]
  BY <1>1, <1>4
<1>6. UNCHANGED <<ticket, upload, view, calls, botStep, heard, written, faults, lost>>
  BY DEF RemoveChip
<1> QED
  BY <1>5, <1>6, PageWrites DEF PageInv, CountsTyped

LEMMA SendKeepsPage ==
  ASSUME PageInv, NEW by \in Pages, NEW s \in Slots, Send(by, s)
  PROVE  PageInv'
<1>1. draft \in [Pages -> DraftRec]
  BY DEF PageInv
<1>2. PICK r \in DraftRec : r = draft[by]
  BY <1>1
<1>3. draft' = [draft EXCEPT ![by] = [r EXCEPT !.sending = TRUE]]
  BY <1>1, <1>2 DEF Send
<1>4. [r EXCEPT !.sending = TRUE] \in DraftRec
  BY DEF DraftRec
<1>5. draft' \in [Pages -> DraftRec]
  BY <1>1, <1>3, <1>4
<1> DEFINE cc == IF r.note THEN {} ELSE r.cc
           plan == [NoPlan EXCEPT !.note = r.note, !.files = r.files, !.cc = cc]
<1>6. plan \in PlanRec
  <2>1. r.note \in BOOLEAN /\ r.files \in SUBSET Files /\ cc \in SUBSET People
    BY DEF DraftRec
  <2> QED
    BY <2>1, PlansTyped
<1>7. PICK kind \in {"send", "resolve"} : Start(by, s, Call(kind, plan))
  BY <1>2 DEF Send
<1>8. kind \in Requests
  BY DEF Requests
<1>9. UNCHANGED <<ticket, upload, view, botStep, written, faults, lost>> /\ heard' \in BOOLEAN
  BY DEF Send, PageInv, RowsTyped
<1> HIDE DEF plan
<1> QED
  BY <1>5, <1>6, <1>7, <1>8, <1>9, PageAsks

LEMMA OthersAskKeepPage ==
  ASSUME PageInv, NEW by \in Pages, NEW s \in Slots,
         \/ \E f \in Files : Attach(by, s, f)
         \/ \E status \in Statuses : SetStatus(by, s, status)
         \/ Poll(by, s)
  PROVE  PageInv'
<1>1. \E kind \in Requests, plan \in PlanRec : Start(by, s, Call(kind, plan))
  <2>1. ASSUME NEW f \in Files, Attach(by, s, f) PROVE \E kind \in Requests, plan \in PlanRec : Start(by, s, Call(kind, plan))
    <3>1. {f} \in SUBSET Files /\ "attach" \in Requests
      BY DEF Requests
    <3>2. Start(by, s, Call("attach", [NoPlan EXCEPT !.files = {f}]))
      BY <2>1 DEF Attach
    <3> QED
      BY <3>1, <3>2, PlansTyped
  <2>2. ASSUME NEW status \in Statuses, SetStatus(by, s, status) PROVE \E kind \in Requests, plan \in PlanRec : Start(by, s, Call(kind, plan))
    <3>1. "status" \in Requests
      BY DEF Requests
    <3>2. Start(by, s, Call("status", [NoPlan EXCEPT !.status = status]))
      BY <2>2 DEF SetStatus
    <3> QED
      BY <3>1, <3>2, PlansTyped
  <2>3. ASSUME Poll(by, s) PROVE \E kind \in Requests, plan \in PlanRec : Start(by, s, Call(kind, plan))
    <3>1. "poll" \in Requests
      BY DEF Requests
    <3>2. Start(by, s, Call("poll", NoPlan))
      BY <2>3 DEF Poll
    <3> QED
      BY <3>1, <3>2, PlansTyped
  <2> QED
    BY <2>1, <2>2, <2>3
<1>2. UNCHANGED <<ticket, upload, view, botStep, written, faults, lost, draft, heard>>
  BY DEF Attach, SetStatus, Poll
<1>3. heard' \in BOOLEAN /\ draft' \in [Pages -> DraftRec]
  BY <1>2 DEF PageInv, RowsTyped
<1> QED
  BY <1>1, <1>2, <1>3, PageAsks

LEMMA AgentAsksKeepsPage ==
  ASSUME PageInv, NEW s \in Slots, Convert(s) \/ Reload(s) \/ \E t \in Tags : ToggleTag(s, t)
  PROVE  PageInv'
<1>1. \E kind \in Requests, plan \in PlanRec : Start("agent", s, Call(kind, plan))
  <2>1. CASE Convert(s) \/ Reload(s)
    <3>1. "convert" \in Requests /\ "poll" \in Requests
      BY DEF Requests
    <3> QED
      BY <2>1, <3>1, PlansTyped DEF Convert, Reload
  <2>2. ASSUME NEW t \in Tags, ToggleTag(s, t) PROVE \E kind \in Requests, plan \in PlanRec : Start("agent", s, Call(kind, plan))
    <3> DEFINE next == IF t \in view["agent"].tags THEN view["agent"].tags \ {t} ELSE view["agent"].tags \union {t}
    <3>1. Start("agent", s, Call("tags", [NoPlan EXCEPT !.tags = next]))
      BY <2>2 DEF ToggleTag
    <3>2. next \in SUBSET Tags
      BY DEF PageInv, ViewsTyped, ViewRec, Pages
    <3>3. "tags" \in Requests
      BY DEF Requests
    <3> HIDE DEF next
    <3> QED
      BY <3>1, <3>2, <3>3, PlansTyped
  <2> QED
    BY <2>1, <2>2
<1>2. UNCHANGED <<ticket, upload, view, botStep, written, faults, lost, draft>> /\ heard' \in {heard, FALSE}
  BY DEF Convert, Reload, ToggleTag
<1>3. heard' \in BOOLEAN /\ draft' \in [Pages -> DraftRec]
  BY <1>2 DEF PageInv, RowsTyped
<1>4. "agent" \in Pages
  BY DEF Pages
<1> QED
  BY <1>1, <1>2, <1>3, <1>4, PageAsks

\* The rows grow: what is on its way and what is shown stays true.
LEMMA RowsGrow ==
  ASSUME PageInv, UNCHANGED <<view, calls, draft, faults, lost>>,
         RowsTyped', Size' >= Size, written' \in [Pages \union {"mail"} -> 0..MaxDrafts]
  PROVE  PageInv'
<1>1. Size \in Nat /\ Size' \in Nat
  BY DEF PageInv, RowsTyped
<1>2. CallsTyped' /\ ViewsTyped'
  BY <1>1, CallsStay, ViewsStay DEF PageInv
<1> QED
  BY <1>2 DEF PageInv, CountsTyped

\* A list with one or two rows more.
LEMMA LogGrows == \A S, log, rows :
  log \in Seq(S) /\ rows \in Seq(S) => log \o rows \in Seq(S) /\ Len(log \o rows) = Len(log) + Len(rows)
OBVIOUS

LEMMA PostedTyped ==
  ASSUME RowsTyped, NEW kind \in Kinds
  PROVE  /\ Posted(ticket, kind) \in TicketRec
         /\ Len(Posted(ticket, kind).log) \in {Size + 1, Size + 2}
         /\ kind \in {"bot", "note"} => Len(Posted(ticket, kind).log) = Size + 1
<1> DEFINE to == CASE kind \in {"reply", "mail"} -> Moves(ticket.status, "customer")
                   [] kind = "agent"             -> Moves(ticket.status, "agent")
                   [] OTHER                      -> ticket.status
           rows == IF to = ticket.status THEN <<kind>> ELSE <<kind, "event">>
<1>1. Posted(ticket, kind) = [ticket EXCEPT !.log = ticket.log \o rows, !.status = to]
  BY DEF Posted
<1>2. PICK t \in TicketRec : t = ticket
  BY DEF RowsTyped
<1>3. to \in Statuses
  BY <1>2 DEF TicketRec, Statuses, Moves
<1>4. kind \in {"bot", "note"} => to = ticket.status
  OBVIOUS
<1> HIDE DEF to
<1>5. "event" \in Kinds
  BY DEF Kinds
<1>6. <<kind>> \in Seq(Kinds) /\ Len(<<kind>>) = 1 /\ <<kind, "event">> \in Seq(Kinds) /\ Len(<<kind, "event">>) = 2
  BY <1>5
<1>7. rows \in Seq(Kinds) /\ Len(rows) \in {1, 2} /\ (kind \in {"bot", "note"} => Len(rows) = 1)
  BY <1>4, <1>6, Zenon
<1> HIDE DEF rows
<1>8. t.log \in Seq(Kinds) /\ Len(t.log) = Size /\ Size \in Nat
  BY <1>2 DEF RowsTyped, TicketRec, Size
<1>9. PICK log \in Seq(Kinds) : log = t.log \o rows /\ Len(log) = Size + Len(rows)
  BY <1>7, <1>8, LogGrows
<1>10. Posted(ticket, kind) = [t EXCEPT !.log = log, !.status = to]
  BY <1>1, <1>2, <1>9
<1>11. [t EXCEPT !.log = log, !.status = to] \in TicketRec /\ [t EXCEPT !.log = log, !.status = to].log = log
  BY <1>3 DEF TicketRec
<1> QED
  BY <1>7, <1>8, <1>9, <1>10, <1>11

LEMMA MailKeepsPage ==
  ASSUME PageInv, MailArrives
  PROVE  PageInv'
<1>1. RowsTyped /\ Size \in Nat /\ Size + 2 <= MaxLog
  BY DEF MailArrives, PageInv, RowsTyped, Size
<1>2. PICK more \in {{}} \union {{p} : p \in People} : ticket' = [Posted(ticket, "mail") EXCEPT !.cc = @ \union more]
  BY DEF MailArrives
<1>3. PICK t \in TicketRec : t = Posted(ticket, "mail") /\ Len(t.log) \in {Size + 1, Size + 2}
  BY <1>1, PostedTyped DEF Kinds
<1>4. ticket' = [t EXCEPT !.cc = @ \union more] /\ more \in SUBSET People
  BY <1>2, <1>3
<1>5. ticket' \in TicketRec /\ ticket'.log = t.log
  BY <1>4 DEF TicketRec
<1>6. Size' \in {Size + 1, Size + 2}
  BY <1>3, <1>5 DEF Size
<1>7. RowsTyped'
  <2>1. UNCHANGED <<upload, botStep, heard>> /\ Size' \in 1..MaxLog
    BY <1>1, <1>6, PageAssumption DEF MailArrives
  <2> QED
    BY <1>1, <1>5, <2>1 DEF RowsTyped
<1>8. written' \in [Pages \union {"mail"} -> 0..MaxDrafts]
  <2>1. written \in [Pages \union {"mail"} -> 0..MaxDrafts] /\ written["mail"] < MaxDrafts
    BY DEF MailArrives, PageInv, CountsTyped
  <2>2. written["mail"] + 1 \in 0..MaxDrafts /\ written' = [written EXCEPT !["mail"] = written["mail"] + 1]
    BY <2>1, PageAssumption DEF MailArrives
  <2> QED
    BY <2>1, <2>2
<1> QED
  BY <1>1, <1>6, <1>7, <1>8, RowsGrow DEF MailArrives

LEMMA BotKeepsPage ==
  ASSUME PageInv, BotPosts \/ BotWaits
  PROVE  PageInv'
<1>1. RowsTyped /\ Size \in Nat /\ written \in [Pages \union {"mail"} -> 0..MaxDrafts]
  BY DEF PageInv, RowsTyped, CountsTyped
<1>2. CASE BotPosts
  <2>1. Posted(ticket, "bot") \in TicketRec /\ Len(Posted(ticket, "bot").log) = Size + 1
    BY <1>1, PostedTyped DEF Kinds
  <2>2. ticket' \in TicketRec /\ Size' = Size + 1
    BY <1>2, <2>1 DEF BotPosts, Size
  <2>3. upload' = upload /\ botStep' = "posted" /\ heard' \in BOOLEAN
    BY <1>2 DEF BotPosts, Broadcast
  <2>4. Size' \in 1..MaxLog
    BY <1>1, <1>2, <2>2, PageAssumption DEF BotPosts, Size
  <2>5. RowsTyped'
    BY <1>1, <2>2, <2>3, <2>4 DEF RowsTyped
  <2> QED
    BY <1>1, <1>2, <2>2, <2>5, RowsGrow DEF BotPosts
<1>3. CASE BotWaits
  <2>1. PICK t \in TicketRec : t = ticket
    BY <1>1 DEF RowsTyped
  <2>2. ticket' = [t EXCEPT !.status = "WAITING"] /\ "WAITING" \in Statuses
    BY <1>3, <2>1 DEF BotWaits, Statuses
  <2>3. ticket' \in TicketRec /\ ticket'.log = t.log
    BY <2>2 DEF TicketRec
  <2>4. Size' = Size
    BY <2>1, <2>3 DEF Size
  <2>5. RowsTyped'
    BY <1>1, <1>3, <2>3, <2>4 DEF RowsTyped, BotWaits
  <2> QED
    BY <1>1, <1>3, <2>4, <2>5, RowsGrow DEF BotWaits
<1> QED
  BY <1>2, <1>3

\* The API answers: the rows grow, and the answer tells of a message the ticket has.
LEMMA AnswerKeepsPage ==
  ASSUME PageInv, NEW by \in Pages, NEW s \in Slots, NEW got \in GotRec, Answer(by, s, got),
         RowsTyped', Size' >= Size, got.n \in 1..Size', UNCHANGED <<view, draft, written, faults, lost>>
  PROVE  PageInv'
<1>1. Size \in Nat /\ Size' \in Nat
  BY DEF PageInv, RowsTyped
<1>2. PICK c \in CallRec : c = calls[by][s]
  BY DEF PageInv, CallsTyped
<1>3. PICK call \in CallRec : call = [c EXCEPT !.pc = "answered", !.got = got] /\ call.got = got
  <2>1. [c EXCEPT !.pc = "answered", !.got = got] \in CallRec /\ [c EXCEPT !.pc = "answered", !.got = got].got = got
    BY DEF CallRec
  <2> QED
    BY <2>1, Zenon
<1>4. Start(by, s, call)
  BY <1>2, <1>3 DEF Answer
<1>5. Truthful(call, Size')
  BY <1>1, <1>3 DEF Truthful
<1>6. CallsTyped' /\ ViewsTyped'
  BY <1>1, <1>4, <1>5, SlotWritten, ViewsStay DEF PageInv
<1> QED
  BY <1>6 DEF PageInv, CountsTyped

LEMMA SnapshotTyped ==
  ASSUME RowsTyped
  PROVE  Snapshot \in GotRec /\ Snapshot.n = Size /\ Size \in 1..Size /\ Size \in Nat
<1>1. Size \in 1..MaxLog /\ ticket \in TicketRec
  BY DEF RowsTyped
<1>2. Snapshot = [n |-> Size, status |-> ticket.status, tags |-> ticket.tags, cc |-> ticket.cc]
  BY DEF Snapshot, Size
<1>3. ticket.status \in Statuses /\ ticket.tags \in SUBSET Tags /\ ticket.cc \in SUBSET People
  BY <1>1 DEF TicketRec
<1> QED
  BY <1>1, <1>2, <1>3, PageAssumption DEF GotRec

LEMMA ServeReadKeepsPage ==
  ASSUME PageInv, NEW by \in Pages, NEW s \in Slots, ServeRead(by, s), UNCHANGED <<view, draft, botStep, written, faults, lost>>
  PROVE  PageInv'
<1>1. RowsTyped' /\ Size' = Size
  BY DEF PageInv, RowsTyped, Size, ServeRead
<1>2. PICK got \in GotRec : got = Snapshot /\ got.n = Size
  BY SnapshotTyped DEF PageInv
<1>3. Answer(by, s, got) /\ got.n \in 1..Size' /\ Size' >= Size
  BY <1>1, <1>2, SnapshotTyped DEF ServeRead, PageInv
<1> QED
  BY <1>1, <1>3, AnswerKeepsPage

LEMMA ServeUploadKeepsPage ==
  ASSUME PageInv, NEW by \in Pages, NEW s \in Slots, ServeUpload(by, s), UNCHANGED <<view, draft, botStep, written, faults, lost>>
  PROVE  PageInv'
<1>1. Size' = Size /\ ticket' = ticket /\ heard' = heard
  BY DEF ServeUpload, Size
<1>2. upload' \in [Files -> [stored : BOOLEAN, on : 0..MaxLog]]
  <2>1. upload \in [Files -> [stored : BOOLEAN, on : 0..MaxLog]]
    BY DEF PageInv, RowsTyped
  <2>2. ASSUME NEW f \in Files PROVE [upload[f] EXCEPT !.stored = TRUE] \in [stored : BOOLEAN, on : 0..MaxLog]
    BY <2>1
  <2> QED
    BY <2>1, <2>2 DEF ServeUpload
<1>3. RowsTyped'
  BY <1>1, <1>2 DEF PageInv, RowsTyped
<1>4. PICK got \in GotRec : got = Snapshot /\ got.n = Size
  BY SnapshotTyped DEF PageInv
<1>5. Answer(by, s, got) /\ got.n \in 1..Size' /\ Size' >= Size
  BY <1>1, <1>4, SnapshotTyped DEF ServeUpload, PageInv
<1> QED
  BY <1>3, <1>5, AnswerKeepsPage

LEMMA ServeSendKeepsPage ==
  ASSUME PageInv, NEW by \in Pages, NEW s \in Slots, ServeSend(by, s), UNCHANGED <<view, draft, botStep, written, faults, lost>>
  PROVE  PageInv'
<1>1. RowsTyped /\ Size \in Nat /\ Size + 2 <= MaxLog
  BY DEF ServeSend, PageInv, RowsTyped, Size
<1> DEFINE kind == IF by = "portal" THEN "reply" ELSE IF calls[by][s].plan.note THEN "note" ELSE "agent"
           cc == IF kind = "agent" THEN calls[by][s].plan.cc ELSE Posted(ticket, kind).cc
           id == Len(ticket.log) + 1
<1>2. ticket' = [Posted(ticket, kind) EXCEPT !.cc = cc]
  BY DEF ServeSend
<1>3. upload' = Claim(calls[by][s].plan.files, id)
  BY DEF ServeSend
<1>4. Answer(by, s, [Snapshot EXCEPT !.n = id, !.cc = calls[by][s].plan.cc]) /\ heard' \in BOOLEAN
  BY DEF ServeSend, Broadcast
<1>5. id = Size + 1 /\ id \in 0..MaxLog
  BY <1>1, PageAssumption DEF Size
<1>6. PICK plan \in PlanRec : plan = calls[by][s].plan
  BY DEF PageInv, CallsTyped, CallRec
<1>7. kind \in Kinds
  BY DEF Kinds
<1> HIDE DEF kind, id
<1>8. PICK t \in TicketRec : t = Posted(ticket, kind) /\ Len(t.log) \in {Size + 1, Size + 2}
  BY <1>1, <1>7, PostedTyped
<1>9. cc \in SUBSET People
  BY <1>6, <1>8 DEF PlanRec, TicketRec
<1> HIDE DEF cc
<1>10. ticket' \in TicketRec /\ ticket'.log = t.log
  BY <1>2, <1>8, <1>9 DEF TicketRec
<1>11. Size' \in {Size + 1, Size + 2} /\ Size' \in 1..MaxLog
  BY <1>1, <1>8, <1>10, PageAssumption DEF Size
<1>12. upload' \in [Files -> [stored : BOOLEAN, on : 0..MaxLog]]
  <2>1. upload \in [Files -> [stored : BOOLEAN, on : 0..MaxLog]]
    BY <1>1 DEF RowsTyped
  <2>2. PICK i \in 0..MaxLog : i = id
    BY <1>5
  <2>3. ASSUME NEW f \in Files PROVE [upload[f] EXCEPT !.on = i] \in [stored : BOOLEAN, on : 0..MaxLog]
    BY <2>1
  <2> QED
    BY <1>3, <2>1, <2>2, <2>3 DEF Claim
<1>13. RowsTyped'
  BY <1>1, <1>4, <1>10, <1>11, <1>12 DEF RowsTyped
<1>14. PICK snap \in GotRec : snap = Snapshot
  BY <1>1, SnapshotTyped
<1>15. PICK got \in GotRec : got = [Snapshot EXCEPT !.n = id, !.cc = calls[by][s].plan.cc] /\ got.n = id
  <2>1. plan.cc \in SUBSET People
    BY DEF PlanRec
  <2>2. [snap EXCEPT !.n = id, !.cc = plan.cc] \in GotRec /\ [snap EXCEPT !.n = id, !.cc = plan.cc].n = id
    BY <1>5, <2>1 DEF GotRec
  <2> QED
    BY <1>6, <1>14, <2>2
<1>16. Answer(by, s, got) /\ got.n \in 1..Size' /\ Size' >= Size
  BY <1>1, <1>4, <1>5, <1>11, <1>15
<1> QED
  BY <1>13, <1>16, AnswerKeepsPage

LEMMA ServePatchKeepsPage ==
  ASSUME PageInv, NEW by \in Pages, NEW s \in Slots, ServePatch(by, s), UNCHANGED <<view, draft, botStep, written, faults, lost>>
  PROVE  PageInv'
<1>1. RowsTyped /\ Size \in Nat /\ Size + 2 <= MaxLog /\ Size \in 1..MaxLog
  <2>1. RowsTyped /\ Size \in 1..MaxLog
    BY DEF PageInv, RowsTyped
  <2>2. Size + 2 <= MaxLog
    BY DEF ServePatch, Size
  <2> QED
    BY <2>1, <2>2
<1> DEFINE c == calls[by][s]
           next == CASE c.kind = "status"  -> [ticket EXCEPT !.status = c.plan.status]
                     [] c.kind = "tags"    -> [ticket EXCEPT !.tags = c.plan.tags]
                     [] c.kind = "convert" -> [ticket EXCEPT !.status = IF @ = "NEW" THEN "OPEN" ELSE @]
           rows == CASE c.kind = "status" /\ next # ticket -> <<"event">>
                     [] c.kind = "tags" /\ next # ticket   -> <<"quiet">>
                     [] OTHER                              -> <<>>
           log == next.log \o rows
           got == [n |-> Len(ticket.log) + Len(rows), status |-> next.status, tags |-> next.tags, cc |-> next.cc]
<1>2. ticket' = [next EXCEPT !.log = log] /\ Answer(by, s, got) /\ UNCHANGED <<upload, heard>> /\ c.kind \in {"status", "tags", "convert"}
  BY DEF ServePatch
<1>3. PICK t \in TicketRec : t = ticket
  BY <1>1 DEF RowsTyped
<1>4. PICK plan \in PlanRec : plan = c.plan
  BY DEF PageInv, CallsTyped, CallRec
<1>5. next \in TicketRec /\ next.log = t.log
  <2>1. CASE c.kind = "status"
    <3>1. next = [t EXCEPT !.status = plan.status]
      BY <1>3, <1>4, <2>1
    <3>2. [t EXCEPT !.status = plan.status] \in TicketRec /\ [t EXCEPT !.status = plan.status].log = t.log
      BY DEF TicketRec, PlanRec
    <3> QED
      BY <3>1, <3>2, Zenon
  <2>2. CASE c.kind = "tags"
    <3>1. next = [t EXCEPT !.tags = plan.tags]
      BY <1>3, <1>4, <2>2
    <3>2. [t EXCEPT !.tags = plan.tags] \in TicketRec /\ [t EXCEPT !.tags = plan.tags].log = t.log
      BY DEF TicketRec, PlanRec
    <3> QED
      BY <3>1, <3>2, Zenon
  <2>3. CASE c.kind = "convert"
    <3>1. \E status \in Statuses : next = [t EXCEPT !.status = status]
      <4>1. next = [t EXCEPT !.status = IF t.status = "NEW" THEN "OPEN" ELSE t.status]
        BY <1>3, <2>3
      <4>2. (IF t.status = "NEW" THEN "OPEN" ELSE t.status) \in Statuses
        BY DEF TicketRec, Statuses
      <4> QED
        BY <4>1, <4>2
    <3>2. \A status \in Statuses : [t EXCEPT !.status = status] \in TicketRec /\ [t EXCEPT !.status = status].log = t.log
      BY DEF TicketRec
    <3> QED
      BY <3>1, <3>2, Zenon
  <2> QED
    BY <1>2, <2>1, <2>2, <2>3
<1>6. rows \in Seq(Kinds) /\ Len(rows) \in {0, 1}
  <2>1. rows \in {<<"event">>, <<"quiet">>, <<>>}
    OBVIOUS
  <2>2. "event" \in Kinds /\ "quiet" \in Kinds
    BY DEF Kinds
  <2>3. <<"event">> \in Seq(Kinds) /\ Len(<<"event">>) = 1 /\ <<"quiet">> \in Seq(Kinds) /\ Len(<<"quiet">>) = 1
    BY <2>2
  <2>4. <<>> \in Seq(Kinds) /\ Len(<<>>) = 0
    OBVIOUS
  <2> HIDE DEF rows
  <2> QED
    BY <2>1, <2>3, <2>4
<1> HIDE DEF next, rows
<1>7. t.log \in Seq(Kinds) /\ Len(t.log) = Size
  BY <1>3 DEF TicketRec, Size
<1>8. log \in Seq(Kinds) /\ Len(log) = Size + Len(rows)
  BY <1>5, <1>6, <1>7, LogGrows
<1> HIDE DEF log
<1>9. ticket' \in TicketRec /\ ticket'.log = log
  <2>1. PICK x \in TicketRec : x = next
    BY <1>5
  <2>2. [x EXCEPT !.log = log] \in TicketRec /\ [x EXCEPT !.log = log].log = log
    BY <1>8 DEF TicketRec
  <2> QED
    BY <1>2, <2>1, <2>2
<1>10. Size' = Size + Len(rows) /\ Size' \in 1..MaxLog /\ Size' >= Size
  <2>1. Size' = Size + Len(rows)
    BY <1>8, <1>9 DEF Size
  <2>2. PICK n \in {0, 1} : n = Len(rows)
    BY <1>6
  <2> QED
    BY <1>1, <2>1, <2>2, PageAssumption
<1>11. RowsTyped'
  BY <1>1, <1>2, <1>9, <1>10 DEF RowsTyped
<1>12. got.n = Size' /\ got.n \in 1..MaxLog
  BY <1>10 DEF Size
<1>13. got \in GotRec
  <2>1. next.status \in Statuses /\ next.tags \in SUBSET Tags /\ next.cc \in SUBSET People
    BY <1>5 DEF TicketRec
  <2>2. Len(ticket.log) + Len(rows) \in 0..MaxLog
    BY <1>12
  <2> QED
    BY <2>1, <2>2 DEF GotRec
<1> HIDE DEF got
<1>14. got.n \in 1..Size'
  BY <1>10, <1>12
<1> QED
  BY <1>2, <1>10, <1>11, <1>13, <1>14, AnswerKeepsPage

LEMMA ServeKeepsPage ==
  ASSUME PageInv, NEW by \in Pages, NEW s \in Slots, Serve(by, s)
  PROVE  PageInv'
BY ServeReadKeepsPage, ServeSendKeepsPage, ServePatchKeepsPage, ServeUploadKeepsPage DEF Serve

LEMMA FaultsKeepPage ==
  ASSUME PageInv, NEW by \in Pages, NEW s \in Slots, Fails(by, s) \/ Loses(by, s)
  PROVE  PageInv'
<1>1. PICK c \in CallRec : c = calls[by][s]
  BY DEF PageInv, CallsTyped
<1>2. PICK call \in CallRec : call = [c EXCEPT !.pc = "failed"] /\ call.pc = "failed" /\ call.got = c.got
  <2>1. [c EXCEPT !.pc = "failed"] \in CallRec /\ [c EXCEPT !.pc = "failed"].pc = "failed" /\ [c EXCEPT !.pc = "failed"].got = c.got
    BY DEF CallRec
  <2> QED
    BY <2>1, Zenon
<1>3. Start(by, s, call) /\ UNCHANGED <<ticket, upload, view, draft, botStep, heard, written>>
  BY <1>1, <1>2 DEF Fails, Loses
<1>4. Size' = Size /\ Size \in Nat /\ RowsTyped'
  BY <1>3 DEF PageInv, RowsTyped, Size
<1>5. Truthful(call, Size')
  <2>1. Truthful(c, Size)
    BY <1>1 DEF PageInv, CallsTyped
  <2> QED
    BY <1>2, <1>4, <2>1 DEF Truthful
<1>6. CallsTyped' /\ ViewsTyped'
  BY <1>3, <1>4, <1>5, SlotWritten, ViewsStay DEF PageInv
<1>7. CountsTyped'
  <2>1. faults \in 0..MaxFaults /\ lost \in 0..faults /\ MaxFaults \in Nat
    BY PageAssumption DEF PageInv, CountsTyped
  <2>2. faults' \in 0..MaxFaults /\ lost' \in 0..faults'
    <3>1. CASE Fails(by, s)
      BY <2>1, <3>1 DEF Fails, MayFault
    <3>2. CASE Loses(by, s)
      BY <2>1, <3>2 DEF Loses, MayFault
    <3> QED
      BY <3>1, <3>2
  <2> QED
    BY <1>3, <2>2 DEF PageInv, CountsTyped
<1> QED
  BY <1>3, <1>4, <1>6, <1>7 DEF PageInv

\* An answer arrives: the ticket stays, and the page asks again or has its answer.
LEMMA ArrivalKeepsPage ==
  ASSUME PageInv, NEW by \in Pages, NEW s \in Slots, NEW call \in CallRec, Truthful(call, Size), Start(by, s, call),
         UNCHANGED <<ticket, upload, botStep, heard, written, faults, lost>>,
         ViewsTyped', draft' \in [Pages -> DraftRec]
  PROVE  PageInv'
<1>1. Size' = Size /\ Size \in Nat /\ RowsTyped'
  BY DEF PageInv, RowsTyped, Size
<1>2. CallsTyped'
  BY <1>1, SlotWritten DEF PageInv
<1> QED
  BY <1>1, <1>2 DEF PageInv, CountsTyped

\* What a page asks next, when an answer arrives.
LEMMA NextAsked ==
  ASSUME PageInv
  PROVE  /\ NoCall \in CallRec /\ Truthful(NoCall, Size)
         /\ Call("poll", NoPlan) \in CallRec /\ Truthful(Call("poll", NoPlan), Size)
         /\ Call("status", [NoPlan EXCEPT !.status = "RESOLVED"]) \in CallRec
         /\ Truthful(Call("status", [NoPlan EXCEPT !.status = "RESOLVED"]), Size)
<1>1. Size \in Nat
  BY DEF PageInv, RowsTyped
<1>2. NoCall \in CallRec /\ Truthful(NoCall, Size)
  BY <1>1, NoCallTyped DEF Truthful
<1>3. "poll" \in Requests /\ "status" \in Requests /\ "RESOLVED" \in Statuses
  BY DEF Requests, Statuses
<1>4. NoPlan \in PlanRec /\ [NoPlan EXCEPT !.status = "RESOLVED"] \in PlanRec
  BY <1>3, PlansTyped
<1>5. ASSUME NEW kind \in Requests, NEW plan \in PlanRec PROVE Call(kind, plan) \in CallRec /\ Truthful(Call(kind, plan), Size)
  BY <1>1, NewCallTyped DEF Truthful
<1> QED
  BY <1>2, <1>3, <1>4, <1>5

\* What a page shows of an answer.
LEMMA ViewWritten ==
  ASSUME ViewsTyped, Size' = Size, NEW by \in Pages, NEW v \in ViewRec, \A i \in DOMAIN v.shown : v.shown[i] <= Size,
         view' = [view EXCEPT ![by] = v]
  PROVE  ViewsTyped'
<1>1. view' \in [Pages -> ViewRec]
  BY DEF ViewsTyped
<1>2. \A b \in Pages : view'[b] = IF b = by THEN v ELSE view[b]
  BY DEF ViewsTyped
<1> QED
  BY <1>1, <1>2 DEF ViewsTyped

LEMMA ShownTyped ==
  ASSUME PageInv, NEW by \in Pages, NEW n \in 0..Size
  PROVE  Messages(by, n) \in Seq(1..MaxLog) /\ \A i \in DOMAIN Messages(by, n) : Messages(by, n)[i] <= Size
<1>1. Size \in 1..MaxLog /\ n \in Nat
  BY DEF PageInv, RowsTyped
<1>2. PICK list \in Seq(1..n) : list = Messages(by, n)
  BY <1>1, MessagesTyped
<1>3. 1..n \subseteq 1..MaxLog
  BY <1>1, PageAssumption
<1>4. list \in Seq(1..MaxLog)
  BY <1>3, WiderLists, Zenon
<1>5. \A i \in DOMAIN list : list[i] \in 1..n
  BY ListItems, Zenon
<1>6. \A i \in DOMAIN list : list[i] <= Size
  BY <1>1, <1>5
<1> QED
  BY <1>2, <1>4, <1>6

LEMMA LastTyped ==
  ASSUME PageInv, NEW by \in Pages, NEW got, got.n \in 0..Size
  PROVE  LastOf(by, got) \in 0..MaxLog
<1>1. PICK list \in Seq(1..MaxLog) : list = Messages(by, got.n)
  BY ShownTyped
<1>2. LastOf(by, got) = IF list = <<>> THEN 0 ELSE list[Len(list)]
  BY <1>1 DEF LastOf
<1>3. list # <<>> => Len(list) \in DOMAIN list
  OBVIOUS
<1>4. list # <<>> => list[Len(list)] \in 1..MaxLog
  BY <1>3, ListItems, Zenon
<1> QED
  BY <1>2, <1>4, PageAssumption

LEMMA ShowsTyped ==
  ASSUME PageInv, NEW by \in Pages, NEW got \in GotRec, got.n \in 0..Size
  PROVE  Shows(by, got) \in ViewRec /\ Shows(by, got).shown = Messages(by, got.n)
<1>1. PICK v \in ViewRec : v = view[by]
  BY DEF PageInv, ViewsTyped
<1>2. PICK list \in Seq(1..MaxLog) : list = Messages(by, got.n)
  BY ShownTyped
<1>3. PICK last \in 0..MaxLog : last = IF by = "portal" THEN got.n ELSE 0
  BY PageAssumption DEF GotRec
<1>4. Shows(by, got) = [v EXCEPT !.shown = list, !.status = got.status, !.tags = got.tags, !.last = last]
  BY <1>1, <1>2, <1>3 DEF Shows
<1>5. got.status \in Statuses \union {"NONE"} /\ got.tags \in SUBSET Tags
  BY DEF GotRec
<1>6. PICK st \in Statuses \union {"NONE"}, tags \in SUBSET Tags : st = got.status /\ tags = got.tags
  BY <1>5
<1>7. \A l \in Seq(1..MaxLog) :
        [v EXCEPT !.shown = l, !.status = st, !.tags = tags, !.last = last] \in ViewRec
        /\ [v EXCEPT !.shown = l, !.status = st, !.tags = tags, !.last = last].shown = l
  BY DEF ViewRec
<1> QED
  BY <1>2, <1>4, <1>6, <1>7

\* The answer that arrives, as it is in its slot.
LEMMA Arriving ==
  ASSUME PageInv, NEW by \in Pages, NEW s \in Slots, calls[by][s].pc = "answered"
  PROVE  calls[by][s].got \in GotRec /\ calls[by][s].got.n \in 1..Size /\ calls[by][s].plan \in PlanRec /\ Size \in 1..MaxLog
<1>1. PICK c \in CallRec : c = calls[by][s] /\ Truthful(c, Size)
  BY DEF PageInv, CallsTyped
<1>2. c.got \in GotRec /\ c.got.n \in 0..MaxLog /\ c.plan \in PlanRec
  BY DEF CallRec, GotRec
<1>3. Size \in 1..MaxLog
  BY DEF PageInv, RowsTyped
<1> QED
  BY <1>1, <1>2, <1>3 DEF Truthful

LEMMA TakeReadKeepsPage ==
  ASSUME PageInv, NEW by \in Pages, NEW s \in Slots, calls[by][s].pc = "answered", TakeRead(by, s),
         UNCHANGED <<ticket, upload, botStep, heard, written, faults, lost>>
  PROVE  PageInv'
<1>1. PICK got \in GotRec : got = calls[by][s].got /\ got.n \in 0..Size
  BY Arriving
<1>2. Size' = Size /\ Size \in Nat
  BY DEF Size, PageInv, RowsTyped
<1>3. PICK shows \in ViewRec : shows = Shows(by, got) /\ shows.shown = Messages(by, got.n)
  BY <1>1, ShowsTyped
<1>4. LastOf(by, got) \in 0..MaxLog /\ 0 \in 0..MaxLog
  BY <1>1, LastTyped, PageAssumption
<1>5. view' = view \/ \E last \in 0..MaxLog : view' = [view EXCEPT ![by] = [shows EXCEPT !.last = last]]
  BY <1>1, <1>3, <1>4 DEF TakeRead
<1>6. ViewsTyped'
  <2>1. CASE view' = view
    BY <1>2, <2>1, ViewsStay DEF PageInv
  <2>2. ASSUME NEW last \in 0..MaxLog, view' = [view EXCEPT ![by] = [shows EXCEPT !.last = last]] PROVE ViewsTyped'
    <3>1. PICK v \in ViewRec : v = [shows EXCEPT !.last = last] /\ v.shown = shows.shown
      <4>1. [shows EXCEPT !.last = last] \in ViewRec /\ [shows EXCEPT !.last = last].shown = shows.shown
        BY DEF ViewRec
      <4> QED
        BY <4>1, Zenon
    <3>2. \A i \in DOMAIN v.shown : v.shown[i] <= Size
      BY <1>1, <1>3, <3>1, ShownTyped
    <3> QED
      BY <1>2, <2>2, <3>1, <3>2, ViewWritten DEF PageInv
  <2> QED
    BY <1>5, <2>1, <2>2
<1>7. draft' \in [Pages -> DraftRec]
  <2>1. PICK cc \in SUBSET People : cc = got.cc
    BY DEF GotRec
  <2>2. draft \in [Pages -> DraftRec]
    BY DEF PageInv
  <2>3. PICK r \in DraftRec : r = draft[by]
    BY <2>2
  <2>4. draft' = draft \/ draft' = [draft EXCEPT ![by] = [r EXCEPT !.cc = cc]]
    BY <1>1, <2>1, <2>2, <2>3 DEF TakeRead
  <2>5. [r EXCEPT !.cc = cc] \in DraftRec
    BY DEF DraftRec
  <2> QED
    BY <2>2, <2>4, <2>5
<1>8. Start(by, s, NoCall)
  BY DEF TakeRead
<1> QED
  BY <1>6, <1>7, <1>8, NextAsked, ArrivalKeepsPage

LEMMA TakeSendKeepsPage ==
  ASSUME PageInv, NEW by \in Pages, NEW s \in Slots, calls[by][s].pc = "answered", TakeSend(by, s),
         UNCHANGED <<ticket, upload, botStep, heard, written, faults, lost>>
  PROVE  PageInv'
<1>1. PICK got \in GotRec : got = calls[by][s].got /\ got.n \in 1..Size /\ got.n \in 1..MaxLog
  <2>1. calls[by][s].got \in GotRec /\ calls[by][s].got.n \in 1..Size /\ Size \in 1..MaxLog
    BY Arriving
  <2> QED
    BY <2>1, PageAssumption
<1>2. Size' = Size /\ Size \in Nat
  BY DEF Size, PageInv, RowsTyped
<1>3. ViewsTyped'
  <2>1. PICK v \in ViewRec : v = view[by] /\ \A i \in DOMAIN v.shown : v.shown[i] <= Size
    BY DEF PageInv, ViewsTyped
  <2>2. view' = [view EXCEPT ![by] = [v EXCEPT !.shown = Append(v.shown, got.n)]]
    BY <1>1, <2>1 DEF TakeSend, PageInv, ViewsTyped
  <2>3. PICK n \in 1..MaxLog : n = got.n /\ n <= Size
    BY <1>1
  <2>4. PICK list \in Seq(1..MaxLog) : list = v.shown
    BY DEF ViewRec
  <2>5. Append(list, n) \in Seq(1..MaxLog) /\ \A i \in DOMAIN Append(list, n) : Append(list, n)[i] <= Size
    BY <2>1, <2>3, <2>4
  <2>6. PICK longer \in Seq(1..MaxLog) : longer = Append(list, n) /\ \A i \in DOMAIN longer : longer[i] <= Size
    BY <2>5, Zenon
  <2>7. PICK w \in ViewRec : w = [v EXCEPT !.shown = longer] /\ w.shown = longer
    <3>1. [v EXCEPT !.shown = longer] \in ViewRec /\ [v EXCEPT !.shown = longer].shown = longer
      BY DEF ViewRec
    <3> QED
      BY <3>1, Zenon
  <2>8. view' = [view EXCEPT ![by] = w]
    BY <2>2, <2>3, <2>4, <2>6, <2>7
  <2> QED
    BY <1>2, <2>6, <2>7, <2>8, ViewWritten DEF PageInv
<1>4. draft' \in [Pages -> DraftRec]
  <2>1. PICK r \in DraftRec : r = draft[by]
    BY DEF PageInv
  <2>2. PICK cc \in SUBSET People : cc = IF by = "agent" /\ ~calls[by][s].plan.note THEN got.cc ELSE r.cc
    BY DEF GotRec, DraftRec
  <2>3. draft' = [draft EXCEPT ![by] = [r EXCEPT !.text = FALSE, !.files = {}, !.sending = FALSE, !.cc = cc]]
    BY <1>1, <2>1, <2>2 DEF TakeSend, PageInv
  <2>4. [r EXCEPT !.text = FALSE, !.files = {}, !.sending = FALSE, !.cc = cc] \in DraftRec
    BY DEF DraftRec
  <2>5. draft \in [Pages -> DraftRec]
    BY DEF PageInv
  <2> QED
    BY <2>3, <2>4, <2>5
<1>5. \/ Start(by, s, NoCall)
      \/ Start(by, s, Call("status", [NoPlan EXCEPT !.status = "RESOLVED"]))
  BY DEF TakeSend
<1> QED
  BY <1>3, <1>4, <1>5, NextAsked, ArrivalKeepsPage

LEMMA TakePatchKeepsPage ==
  ASSUME PageInv, NEW by \in Pages, NEW s \in Slots, calls[by][s].pc = "answered", TakePatch(by, s),
         UNCHANGED <<ticket, upload, botStep, heard, written, faults, lost>>
  PROVE  PageInv'
<1>1. PICK got \in GotRec : got = calls[by][s].got /\ got.n \in 0..Size
  BY Arriving
<1>2. Size' = Size /\ Size \in Nat
  BY DEF Size, PageInv, RowsTyped
<1>3. \E v \in ViewRec : view' \in {view, [view EXCEPT ![by] = v]} /\ \A i \in DOMAIN v.shown : v.shown[i] <= Size
  <2>1. PICK v \in ViewRec : v = view[by] /\ \A i \in DOMAIN v.shown : v.shown[i] <= Size
    BY DEF PageInv, ViewsTyped
  <2>2. CASE calls[by][s].kind = "tags"
    <3>1. PICK tags \in SUBSET Tags : tags = calls[by][s].plan.tags
      BY Arriving DEF PlanRec
    <3>2. view' = [view EXCEPT ![by] = [v EXCEPT !.tags = tags]]
      BY <2>1, <2>2, <3>1 DEF TakePatch, PageInv, ViewsTyped
    <3>3. PICK w \in ViewRec : w = [v EXCEPT !.tags = tags] /\ w.shown = v.shown
      <4>1. [v EXCEPT !.tags = tags] \in ViewRec /\ [v EXCEPT !.tags = tags].shown = v.shown
        BY DEF ViewRec
      <4> QED
        BY <4>1, Zenon
    <3> QED
      BY <2>1, <3>2, <3>3
  <2>3. CASE calls[by][s].kind = "convert"
    <3>1. PICK w \in ViewRec : w = Shows(by, got) /\ w.shown = Messages(by, got.n)
      BY <1>1, ShowsTyped
    <3>2. view' = [view EXCEPT ![by] = w]
      BY <1>1, <2>3, <3>1 DEF TakePatch
    <3>3. \A i \in DOMAIN w.shown : w.shown[i] <= Size
      BY <1>1, <3>1, ShownTyped
    <3> QED
      BY <3>2, <3>3
  <2>4. CASE calls[by][s].kind = "status"
    BY <2>1, <2>4 DEF TakePatch
  <2> QED
    BY <2>2, <2>3, <2>4 DEF TakePatch
<1>4. ViewsTyped'
  BY <1>2, <1>3, ViewWritten, ViewsStay DEF PageInv
<1>5. draft' \in [Pages -> DraftRec]
  BY DEF PageInv, TakePatch
<1>6. Start(by, s, NoCall) \/ Start(by, s, Call("poll", NoPlan))
  BY DEF TakePatch
<1> QED
  BY <1>4, <1>5, <1>6, NextAsked, ArrivalKeepsPage

LEMMA TakeOthersKeepPage ==
  ASSUME PageInv, NEW by \in Pages, NEW s \in Slots, TakeFailure(by, s) \/ (calls[by][s].pc = "answered" /\ TakeUpload(by, s)),
         UNCHANGED <<ticket, upload, botStep, heard, written, faults, lost>>
  PROVE  PageInv'
<1>1. draft \in [Pages -> DraftRec]
  BY DEF PageInv
<1>2. PICK r \in DraftRec : r = draft[by]
  BY <1>1
<1>3. Size' = Size /\ Size \in Nat /\ view' = view
  BY DEF Size, PageInv, RowsTyped, TakeFailure, TakeUpload
<1>4. ViewsTyped'
  BY <1>3, ViewsStay DEF PageInv
<1>5. CASE TakeFailure(by, s)
  <2>1. draft' = draft \/ draft' = [draft EXCEPT ![by] = [r EXCEPT !.sending = FALSE]]
    BY <1>1, <1>2, <1>5 DEF TakeFailure
  <2>2. [r EXCEPT !.sending = FALSE] \in DraftRec
    BY DEF DraftRec
  <2>3. draft' \in [Pages -> DraftRec]
    BY <1>1, <2>1, <2>2
  <2>4. \/ Start(by, s, NoCall)
        \/ Start(by, s, Call("status", [NoPlan EXCEPT !.status = "RESOLVED"]))
    BY <1>5 DEF TakeFailure
  <2> QED
    BY <1>4, <2>3, <2>4, NextAsked, ArrivalKeepsPage
<1>6. CASE calls[by][s].pc = "answered" /\ TakeUpload(by, s)
  <2>1. PICK files \in SUBSET Files : files = calls[by][s].plan.files
    BY <1>6, Arriving DEF PlanRec
  <2>2. draft' = [draft EXCEPT ![by] = [r EXCEPT !.files = r.files \union files]]
    BY <1>1, <1>2, <1>6, <2>1 DEF TakeUpload
  <2>3. [r EXCEPT !.files = r.files \union files] \in DraftRec
    BY DEF DraftRec
  <2>4. draft' \in [Pages -> DraftRec]
    BY <1>1, <2>2, <2>3
  <2>5. Start(by, s, NoCall)
    BY <1>6 DEF TakeUpload
  <2> QED
    BY <1>4, <2>4, <2>5, NextAsked, ArrivalKeepsPage
<1> QED
  BY <1>5, <1>6

LEMMA ArriveKeepsPage ==
  ASSUME PageInv, NEW by \in Pages, NEW s \in Slots, Arrive(by, s)
  PROVE  PageInv'
BY TakeReadKeepsPage, TakeSendKeepsPage, TakePatchKeepsPage, TakeOthersKeepPage DEF Arrive

LEMMA PageStep ==
  ASSUME PageInv, [Next]_deskVars
  PROVE  PageInv'
<1>1. CASE PageNext
  <2>1. CASE MailArrives \/ BotPosts \/ BotWaits
    BY <2>1, MailKeepsPage, BotKeepsPage
  <2>2. CASE \E by \in Pages : Write(by) \/ RemoveChip(by)
    BY <2>2, WriteKeepsPage, RemoveChipKeepsPage
  <2>3. ASSUME NEW by \in Pages, NEW s \in Slots,
               \/ Send(by, s) \/ Poll(by, s) \/ Serve(by, s) \/ Fails(by, s) \/ Loses(by, s) \/ Arrive(by, s)
               \/ \E f \in Files : Attach(by, s, f)
               \/ \E status \in Statuses \ {"NEW"} : SetStatus(by, s, status)
        PROVE PageInv'
    BY <2>3, SendKeepsPage, OthersAskKeepPage, ServeKeepsPage, FaultsKeepPage, ArriveKeepsPage
  <2>4. CASE \E s \in Slots : Convert(s) \/ Reload(s) \/ \E t \in Tags : ToggleTag(s, t)
    BY <2>4, AgentAsksKeepsPage
  <2> QED
    BY <1>1, <2>1, <2>2, <2>3, <2>4 DEF PageNext
<1>2. CASE UNCHANGED pageVars
  <2>1. UNCHANGED <<ticket, upload, view, calls, botStep, heard, faults, lost>> /\ UNCHANGED <<draft, written>>
    BY <1>2 DEF pageVars
  <2>2. draft' \in [Pages -> DraftRec] /\ written' \in [Pages \union {"mail"} -> 0..MaxDrafts]
    BY <2>1 DEF PageInv, CountsTyped
  <2> QED
    BY <2>1, <2>2, PageWrites
<1> QED
  BY <1>1, <1>2 DEF Next, deskVars

LEMMA PageTypes == PageInv => PageTypeOK
<1> SUFFICES ASSUME PageInv PROVE PageTypeOK
  OBVIOUS
<1>1. Len(ticket.log) \in 1..MaxLog
  BY DEF PageInv, RowsTyped, Size
<1>2. ticket.log \in Seq(Kinds) /\ ticket.status \in Statuses /\ ticket.tags \subseteq Tags /\ ticket.cc \subseteq People
  BY DEF PageInv, RowsTyped, TicketRec
<1>3. \A i \in DOMAIN ticket.log : ticket.log[i] \in Kinds
  BY <1>2, ListItems, Zenon
<1>4. upload \in [Files -> [stored : BOOLEAN, on : 0..MaxLog]] /\ botStep \in {"none", "posted", "done"} /\ heard \in BOOLEAN
  BY DEF PageInv, RowsTyped
<1>5. ASSUME NEW by \in Pages
      PROVE /\ view[by].status \in Statuses \union {"NONE"} /\ view[by].last \in 0..MaxLog
            /\ \A i \in DOMAIN view[by].shown : view[by].shown[i] \in 1..Len(ticket.log)
            /\ draft[by] \in [text : BOOLEAN, note : BOOLEAN, files : SUBSET Files, cc : SUBSET People, sending : BOOLEAN]
            /\ \A s \in Slots : calls[by][s].kind \in Requests /\ calls[by][s].pc \in {"idle", "sent", "answered", "failed"}
  <2>1. PICK v \in ViewRec : v = view[by] /\ \A i \in DOMAIN v.shown : v.shown[i] <= Size
    BY DEF PageInv, ViewsTyped
  <2>2. v.status \in Statuses \union {"NONE"} /\ v.last \in 0..MaxLog /\ v.shown \in Seq(1..MaxLog)
    BY DEF ViewRec
  <2>3. \A i \in DOMAIN v.shown : v.shown[i] \in 1..MaxLog
    BY <2>2, ListItems, Zenon
  <2>4. Size \in 1..MaxLog /\ Size = Len(ticket.log)
    BY <1>1 DEF Size
  <2>5. \A i \in DOMAIN v.shown : v.shown[i] \in 1..Size
    BY <2>1, <2>3, <2>4
  <2>6. draft[by] \in [text : BOOLEAN, note : BOOLEAN, files : SUBSET Files, cc : SUBSET People, sending : BOOLEAN]
    BY DEF PageInv, DraftRec
  <2>7. \A s \in Slots : calls[by][s].kind \in Requests /\ calls[by][s].pc \in {"idle", "sent", "answered", "failed"}
    BY DEF PageInv, CallsTyped, CallRec
  <2> QED
    BY <2>1, <2>2, <2>4, <2>5, <2>6, <2>7
<1>6. \A by \in DOMAIN written : written[by] \in 0..MaxDrafts
  BY DEF PageInv, CountsTyped
<1>7. faults \in 0..MaxFaults /\ lost \in 0..MaxFaults
  BY PageAssumption DEF PageInv, CountsTyped
<1> QED
  BY <1>1, <1>2, <1>3, <1>4, <1>5, <1>6, <1>7 DEF PageTypeOK

-----------------------------------------------------------------------------
\* Every browser stays within its types: a page shows messages the ticket has and no
\* other, whatever overtook what; no ticket is in an inbox twice, however its pages,
\* refreshes and scrolls meet; and the bells, cards and streams of the shell are what
\* the code counts them for.
THEOREM DeskIsTyped == Spec => []TypeOK
<1> DEFINE IInv == PageInv /\ ListInv /\ ShellInv
<1>1. Init => IInv
  BY PageStart, ListStart, ShellStart
<1>2. IInv /\ [Next]_deskVars => IInv'
  BY PageStep, ListStep, ShellStep
<1>3. IInv => TypeOK
  BY PageTypes, ListTypes, ShellTypes DEF TypeOK
<1> QED
  BY <1>1, <1>2, <1>3, PTL DEF Spec
=============================================================================
