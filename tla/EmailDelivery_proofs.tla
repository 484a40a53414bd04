------------------------ MODULE EmailDelivery_proofs ------------------------
(***************************************************************************)
(* Proofs about EmailDelivery, for any messages, switches, retry limit and *)
(* any bounds on answers and faults.                                       *)
(***************************************************************************)
EXTENDS EmailDelivery, WellFoundedInduction, TLAPS

-----------------------------------------------------------------------------
(***************************************************************************)
(* Numbers and the order of the calls.                                     *)
(***************************************************************************)

LessThan == OpToRel(<, Nat)

\* The order of the numbers, as the theorems about well-founded relations want it.
LEMMA LessThanIsWellFounded == IsWellFoundedOn(LessThan, Nat)
BY NatLessThanWellFounded DEF LessThan, OpToRel

LEMMA LessThanMembers == LessThan = {p \in Nat \X Nat : p[1] < p[2]}
BY DEF LessThan, OpToRel

\* A set of numbers with a bound that is not empty has a greatest one.
LEMMA GreatestExists ==
  ASSUME NEW n \in Nat, NEW T, \A x \in T : x \in 0..n, T # {}
  PROVE  \E x \in T : \A y \in T : y <= x
<1> DEFINE U == {n - x : x \in T}
<1>1. U \subseteq Nat /\ U # {}
  <2>1. \A x \in T : n - x \in Nat
    OBVIOUS
  <2>2. QED
    BY <2>1
<1>2. PICK u \in U : \A v \in U : <<v, u>> \notin LessThan
  <2> HIDE DEF U
  <2>1. QED
    BY <1>1, LessThanIsWellFounded, WFMin
<1>3. ASSUME NEW v \in U PROVE u <= v
  <2>1. u \in Nat /\ v \in Nat
    BY <1>1
  <2>2. <<v, u>> \in Nat \X Nat /\ <<v, u>> \notin LessThan
    BY <1>2, <2>1
  <2>3. ~(v < u)
    BY <2>2, LessThanMembers
  <2>4. QED
    BY <2>1, <2>3
<1>4. PICK x \in T : u = n - x
  BY <1>2
<1>5. \A y \in T : y <= x
  <2> SUFFICES ASSUME NEW y \in T PROVE y <= x
    OBVIOUS
  <2>1. u <= n - y
    BY <1>3
  <2>2. x \in Int /\ y \in Int
    OBVIOUS
  <2>3. QED
    BY <1>4, <2>1, <2>2
<1>6. QED
  BY <1>5

\* CHOOSE finds the only place of a call.
LEMMA OnlyPlace ==
  ASSUME NEW steps, NEW n \in DOMAIN steps, \A m \in DOMAIN steps : steps[m] = steps[n] => m = n
  PROVE  (CHOOSE m \in DOMAIN steps : steps[m] = steps[n]) = n
OBVIOUS

\* The calls of each kind of mail.
LEMMA StepsOf ==
  /\ Steps("confirmation") = <<"send", "stamp", "record", "mark", "done">>
  /\ Steps("agentReply") = <<"send", "stamp", "mark", "record", "done">>
  /\ Steps("portalReply") = <<"send", "stamp", "record", "done">>
  /\ \A kind : kind \notin {"confirmation", "agentReply", "portalReply"}
       => Steps(kind) = <<"send", "stamp", "mark", "done">>
BY DEF Steps

\* The calls a mail of a kind goes through.
Path(kind) == {Steps(kind)[n] : n \in DOMAIN Steps(kind)} \ {"done"}

LEMMA PathOf ==
  ASSUME NEW kind
  PROVE  /\ Path(kind) \subseteq {"send", "stamp", "mark", "record"}
         /\ "send" \in Path(kind) /\ "stamp" \in Path(kind)
         /\ "record" \in Path(kind) <=> kind \in {"confirmation", "agentReply", "portalReply"}
         /\ "mark" \in Path(kind) <=> kind # "portalReply"
<1>1. CASE kind = "confirmation"
  BY <1>1, StepsOf DEF Path
<1>2. CASE kind = "agentReply"
  BY <1>2, StepsOf DEF Path
<1>3. CASE kind = "portalReply"
  BY <1>3, StepsOf DEF Path
<1>4. CASE kind \notin {"confirmation", "agentReply", "portalReply"}
  BY <1>4, StepsOf DEF Path
<1>5. QED
  BY <1>1, <1>2, <1>3, <1>4

\* What a sender does after a call.
LEMMA AfterStep ==
  ASSUME NEW s, sender[s].pc \in Path(Kind(s))
  PROVE  /\ sender[s].pc = "send" => StepAfter(s) = "stamp"
         /\ sender[s].pc = "stamp" =>
              StepAfter(s) = IF Kind(s) \in {"confirmation", "portalReply"} THEN "record" ELSE "mark"
         /\ sender[s].pc = "record" =>
              StepAfter(s) = IF Kind(s) = "confirmation" THEN "mark" ELSE "done"
         /\ sender[s].pc = "mark" =>
              StepAfter(s) = IF Kind(s) = "agentReply" THEN "record" ELSE "done"
<1> DEFINE steps == Steps(Kind(s))
           pc == sender[s].pc
<1>1. ASSUME NEW n \in DOMAIN steps, pc = steps[n], \A m \in DOMAIN steps : steps[m] = steps[n] => m = n
      PROVE  StepAfter(s) = steps[n + 1]
  <2>1. (CHOOSE m \in DOMAIN steps : steps[m] = steps[n]) = n
    BY <1>1, OnlyPlace
  <2>2. StepAfter(s) = steps[1 + n]
    BY <1>1, <2>1 DEF StepAfter
  <2>3. QED
    BY <1>1, <2>2, StepsOf
<1>2. pc \in {"send", "stamp", "mark", "record"}
  BY PathOf
<1>3. CASE Kind(s) = "confirmation"
  <2>1. steps = <<"send", "stamp", "record", "mark", "done">>
    BY <1>3, StepsOf
  <2> HIDE DEF steps, pc
  <2>2. /\ pc = "send" => StepAfter(s) = steps[2]
        /\ pc = "stamp" => StepAfter(s) = steps[3]
        /\ pc = "record" => StepAfter(s) = steps[4]
        /\ pc = "mark" => StepAfter(s) = steps[5]
    BY <1>1, <2>1
  <2>3. QED
    BY <1>3, <2>1, <2>2 DEF pc
<1>4. CASE Kind(s) = "agentReply"
  <2>1. steps = <<"send", "stamp", "mark", "record", "done">>
    BY <1>4, StepsOf
  <2> HIDE DEF steps, pc
  <2>2. /\ pc = "send" => StepAfter(s) = steps[2]
        /\ pc = "stamp" => StepAfter(s) = steps[3]
        /\ pc = "mark" => StepAfter(s) = steps[4]
        /\ pc = "record" => StepAfter(s) = steps[5]
    BY <1>1, <2>1
  <2>3. QED
    BY <1>4, <2>1, <2>2 DEF pc
<1>5. CASE Kind(s) = "portalReply"
  <2>1. steps = <<"send", "stamp", "record", "done">>
    BY <1>5, StepsOf
  <2>4. pc # "mark"
    BY <1>5, PathOf
  <2> HIDE DEF steps, pc
  <2>2. /\ pc = "send" => StepAfter(s) = steps[2]
        /\ pc = "stamp" => StepAfter(s) = steps[3]
        /\ pc = "record" => StepAfter(s) = steps[4]
    BY <1>1, <2>1
  <2>3. QED
    BY <1>5, <2>1, <2>2, <2>4 DEF pc
<1>6. CASE Kind(s) \notin {"confirmation", "agentReply", "portalReply"}
  <2>1. steps = <<"send", "stamp", "mark", "done">>
    BY <1>6, StepsOf
  <2>4. pc # "record"
    BY <1>6, PathOf
  <2> HIDE DEF steps, pc
  <2>2. /\ pc = "send" => StepAfter(s) = steps[2]
        /\ pc = "stamp" => StepAfter(s) = steps[3]
        /\ pc = "mark" => StepAfter(s) = steps[4]
    BY <1>1, <2>1
  <2>3. QED
    BY <1>6, <2>1, <2>2, <2>4 DEF pc
<1>7. QED
  BY <1>3, <1>4, <1>5, <1>6

\* Whatever comes after a call is on the same path, and is not another send.
LEMMA AdvanceMoves ==
  ASSUME NEW s, sender[s].pc \in Path(Kind(s))
  PROVE  StepAfter(s) \in (Path(Kind(s)) \ {"send"}) \union {"done"}
BY AfterStep, PathOf

-----------------------------------------------------------------------------
(***************************************************************************)
(* What the work of a sender is about: jobs exist for rows that are        *)
(* mailed, a sender holds such a row and is on the path of its kind, and   *)
(* behind the send the mail it remembers is on the wire.                   *)
(***************************************************************************)
Mailed(kind) == kind \in {"portalReply", "agentReply"}

HoldsItem(s) ==
  CASE s = "confirm" -> sender[s].item = Confirm
    [] s = "reply"   -> sender[s].item \in Msgs /\ Mailed(rows[sender[s].item].kind)
    [] OTHER         -> sender[s].item \in Msgs /\ rows[sender[s].item].kind = "botReply"

OnPath(s) == sender[s].pc \in {"load", "done"} \union Path(Kind(s))

Sent(s) == sender[s].pc \in {"stamp", "mark", "record"}

HasSent(s) ==
  /\ sender[s].mail \in DOMAIN wire
  /\ wire[sender[s].mail].item = sender[s].item
  /\ wire[sender[s].mail].quotes = sender[s].quotes

WorkInv ==
  /\ \A m \in Msgs : jobs[m].state # "none" => Mailed(rows[m].kind)
  /\ \A s \in Senders : sender[s].pc # "idle" =>
       HoldsItem(s) /\ OnPath(s) /\ (Sent(s) => HasSent(s))

BaseInv == TypeOK /\ WorkInv

\* The mails on the wire.
LEMMA WireType ==
  ASSUME TypeOK
  PROVE  /\ Len(wire) \in Nat /\ DOMAIN wire = 1..Len(wire)
         /\ \A i \in DOMAIN wire : wire[i] \in Mails /\ wire[i].thread \in 0..Len(wire)
<1>1. Len(wire) \in Nat /\ DOMAIN wire = 1..Len(wire)
  BY DEF TypeOK
<1>2. ASSUME NEW i \in DOMAIN wire PROVE wire[i] \in Mails /\ wire[i].thread \in 0..Len(wire)
  <2>1. wire[i] \in Mails
    BY <1>2 DEF TypeOK
  <2>2. wire[i].thread \in Nat /\ wire[i].thread <= i
    BY <2>1 DEF TypeOK, Mails
  <2>3. QED
    BY <1>1, <2>1, <2>2
<1>3. QED
  BY <1>1, <1>2

\* An idle sender, and the retry of a job, have the types of senders and jobs.
LEMMA NoSendType == Len(wire) \in Nat => NoSend \in Sends
BY DEF NoSend, Sends, Items, NoMail

Jobs == [state : {"none", "queued", "active", "done", "failed", "lost"}, tries : 0..MaxRetries]

LEMMA FailedType ==
  ASSUME NEW j \in Jobs
  PROVE  Failed(j) \in Jobs /\ Failed(j).state \in {"queued", "failed"}
BY BoundAssumption DEF Failed, Jobs

\* The last Message-ID stored on the ticket is one of a mail on the wire, or none.
LEMMA LastStoredType == ASSUME TypeOK PROVE LastStored \in 0..Len(wire)
<1> DEFINE T == Stored \union {NoMail}
           n == Len(wire)
<1>1. n \in Nat
  BY DEF TypeOK
<1>2. \A i \in T : i \in 0..n
  <2>1. \A m \in Msgs : rows[m].id \in 0..n
    BY DEF TypeOK
  <2>2. \A i \in markers : i \in 0..n
    BY DEF TypeOK
  <2>3. \A i \in copies : i \in 0..n
    <3>1. DOMAIN wire = 1..n
      BY DEF TypeOK
    <3>2. QED
      BY <3>1 DEF TypeOK
  <2> HIDE DEF n
  <2>4. QED
    BY <1>1, <2>1, <2>2, <2>3 DEF Stored, NoMail
<1>3. \E i \in T : \A j \in T : j <= i
  <2>1. T # {}
    OBVIOUS
  <2> HIDE DEF T, n
  <2>2. QED
    BY <1>1, <1>2, <2>1, GreatestExists
<1>4. LastStored \in T
  BY <1>3 DEF LastStored
<1>5. QED
  BY <1>2, <1>4

\* Gmail takes a mail: the wire is longer by it.
LEMMA Accepted ==
  ASSUME TypeOK, NEW s \in Senders, Accept(s)
  PROVE  /\ wire' \in Seq(Mails) /\ Len(wire') = NextMail
         /\ \A i \in DOMAIN wire : i \in DOMAIN wire' /\ wire'[i] = wire[i]
         /\ \A i \in DOMAIN wire' : i # NextMail => i \in DOMAIN wire
         /\ NextMail \in DOMAIN wire'
         /\ wire'[NextMail].item = sender[s].item /\ wire'[NextMail].quotes = sender[s].quotes
         /\ wire'[NextMail].thread = IF sender[s].thread = NoThread THEN NextMail
                                     ELSE sender[s].thread
         /\ \A i \in DOMAIN wire' : wire'[i].thread <= i /\ wire'[i].cites < i
         /\ fresh' \subseteq 0..Len(wire')
<1> DEFINE th == IF sender[s].thread = NoThread THEN NextMail ELSE sender[s].thread
           new == [item |-> sender[s].item, quotes |-> sender[s].quotes,
                   thread |-> th, cites |-> sender[s].cites]
<1>1. sender[s] \in Sends /\ Len(wire) \in Nat
  BY DEF TypeOK
<1>2. th \in 0..NextMail /\ sender[s].cites \in 0..Len(wire)
  BY <1>1 DEF Sends, NextMail
<1>3. new \in Mails
  BY <1>1, <1>2 DEF Sends, Mails, NextMail
<1>4. wire' = Append(wire, new) /\ wire \in Seq(Mails)
  BY DEF Accept, TypeOK
<1>5. /\ new.item = sender[s].item /\ new.quotes = sender[s].quotes
      /\ new.thread = th /\ new.cites = sender[s].cites
  OBVIOUS
<1>9. fresh' \subseteq fresh \union {th}
  BY DEF Accept
<1> HIDE DEF new, th
<1>6. /\ wire' \in Seq(Mails) /\ Len(wire') = Len(wire) + 1
      /\ \A i \in 1..Len(wire) : wire'[i] = wire[i]
      /\ wire'[Len(wire) + 1] = new
      /\ DOMAIN wire = 1..Len(wire) /\ DOMAIN wire' = 1..(Len(wire) + 1)
  BY <1>3, <1>4
<1>7. \A i \in DOMAIN wire' : wire'[i].thread <= i /\ wire'[i].cites < i
  BY <1>1, <1>2, <1>5, <1>6 DEF TypeOK, NextMail
<1>8. fresh' \subseteq 0..Len(wire')
  BY <1>1, <1>2, <1>6, <1>9 DEF TypeOK, NextMail
<1>10. QED
  BY <1>1, <1>5, <1>6, <1>7, <1>8 DEF NextMail, th

-----------------------------------------------------------------------------
(***************************************************************************)
(* Type correctness.                                                       *)
(***************************************************************************)

\* Nothing is mailed or queued at first.
LEMMA InitBase == Init => BaseInv
<1> SUFFICES ASSUME Init PROVE BaseInv
  OBVIOUS
<1>1. wire \in Seq(Mails) /\ Len(wire) = 0 /\ DOMAIN wire = {}
  BY DEF Init
<1>2. sender \in [Senders -> Sends] /\ \A s \in Senders : sender[s].pc = "idle"
  BY <1>1, NoSendType DEF Init, NoSend
<1>3. jobs \in [Items -> Jobs] /\ \A i \in Items : jobs[i].state = "none"
  BY BoundAssumption DEF Init, Jobs
<1>4. faults \in 0..MaxFaults
  BY BoundAssumption DEF Init
<1>5. TypeOK
  BY <1>1, <1>2, <1>3, <1>4 DEF Init, TypeOK, Jobs, NoThread, NoMail
<1>6. WorkInv
  BY <1>2, <1>3 DEF WorkInv, Items
<1>7. QED
  BY <1>5, <1>6 DEF BaseInv

\* A sender that leaves or goes on, and a job that is queued, taken or given back.
LEMMA SenderMoves ==
  ASSUME TypeOK, NEW s \in Senders,
         NEW x \in Sends, sender' = [sender EXCEPT ![s] = x]
  PROVE  sender' \in [Senders -> Sends]
BY DEF TypeOK

LEMMA JobMoves ==
  ASSUME TypeOK, NEW i \in Items, NEW j \in Jobs, jobs' = [jobs EXCEPT ![i] = j]
  PROVE  jobs' \in [Items -> Jobs]
BY DEF TypeOK, Jobs

LEMMA EnqueueType ==
  ASSUME TypeOK, NEW i \in Items, Enqueue(i)
  PROVE  jobs' \in [Items -> Jobs] /\ faults' \in 0..MaxFaults
BY BoundAssumption DEF Enqueue, Fault, TypeOK, Jobs

LEMMA CaughtType ==
  ASSUME TypeOK, NEW s \in Senders, Caught(s)
  PROVE  /\ jobs' \in [Items -> Jobs] /\ announced' = announced
         /\ sender' = [sender EXCEPT ![s] = NoSend]
         /\ jobs' = IF s = "bot" THEN jobs ELSE [jobs EXCEPT ![sender[s].item] = Failed(@)]
<1>1. /\ sender' = [sender EXCEPT ![s] = NoSend]
      /\ jobs' = IF s = "bot" THEN jobs ELSE [jobs EXCEPT ![sender[s].item] = Failed(@)]
      /\ announced' = announced
  BY DEF Caught, IsFinalAttempt, Throws, Leave
<1>2. sender[s].item \in Items /\ jobs[sender[s].item] \in Jobs /\ jobs \in [Items -> Jobs]
  BY DEF TypeOK, Sends, Jobs
<1>3. jobs' \in [Items -> Jobs]
  BY <1>1, <1>2, FailedType
<1>4. QED
  BY <1>1, <1>3

LEMMA ThrowsType ==
  ASSUME TypeOK, NEW s \in Senders, Throws(s)
  PROVE  Caught(s)
BY DEF Throws, Caught, IsFinalAttempt

LEMMA FaultType == ASSUME TypeOK, Fault PROVE faults' \in 0..MaxFaults
BY BoundAssumption DEF TypeOK, Fault

LEMMA AdvanceType ==
  ASSUME TypeOK, NEW s \in Senders, sender[s].pc \in Path(Kind(s)), Advance(s)
  PROVE  /\ sender' \in [Senders -> Sends]
         /\ \A z \in Senders : z # s => sender'[z] = sender[z]
         /\ sender'[s] = [sender[s] EXCEPT !.pc = StepAfter(s)]
         /\ sender'[s].pc = StepAfter(s)
<1>1. StepAfter(s) \in {"stamp", "mark", "record", "done"}
  BY AdvanceMoves, PathOf
<1>2. [sender[s] EXCEPT !.pc = StepAfter(s)] \in Sends /\ sender[s] \in Sends
  BY <1>1 DEF TypeOK, Sends
<1>3. sender' = [sender EXCEPT ![s] = [sender[s] EXCEPT !.pc = StepAfter(s)]]
  BY DEF Advance
<1> HIDE DEF Sends
<1>4. [sender[s] EXCEPT !.pc = StepAfter(s)].pc = StepAfter(s)
  BY <1>2 DEF Sends
<1>5. QED
  BY <1>2, <1>3, <1>4 DEF TypeOK

\* The types, while nothing is put on the wire.
LEMMA TypeWhileSilent ==
  ASSUME TypeOK, wire' = wire,
         thread' \in {NoThread} \union (0..Len(wire)),
         rows' \in [Msgs -> [kind : Kinds \union {"none"}, emailed : BOOLEAN, id : 0..Len(wire)]],
         markers' \subseteq 0..Len(wire),
         copies' \union strays' \union answered' \subseteq DOMAIN wire,
         split' \union fresh' \subseteq 0..Len(wire),
         jobs' \in [Items -> Jobs], sender' \in [Senders -> Sends],
         announced' \subseteq Items, faults' \in 0..MaxFaults
  PROVE  TypeOK'
BY DEF TypeOK, Jobs, Sends

\* Whoever writes a message keeps the types.
LEMMA WritersType ==
  ASSUME TypeOK,
         \/ Activate
         \/ \E m \in Msgs : Post(m) \/ BotPost(m)
         \/ \E i \in DOMAIN wire : Answer(i)
         \/ \E th \in fresh : Ingest(th)
  PROVE  TypeOK' /\ wire' = wire
<1> USE DEF mailbox
<1>1. ASSUME NEW m \in Msgs, NEW kind \in Kinds, Write(m, kind)
      PROVE  rows' \in [Msgs -> [kind : Kinds \union {"none"}, emailed : BOOLEAN, id : 0..Len(wire)]]
  BY <1>1 DEF Write, TypeOK
<1>2. CASE Activate
  <2>1. jobs' \in [Items -> Jobs] /\ faults' \in 0..MaxFaults
    BY <1>2, EnqueueType DEF Activate, Items
  <2>2. rows' \in [Msgs -> [kind : Kinds \union {"none"}, emailed : BOOLEAN, id : 0..Len(wire)]]
    BY <1>1, <1>2 DEF Activate, Unwritten, Kinds, TypeOK
  <2>3. QED
    BY <1>2, <2>1, <2>2, TypeWhileSilent DEF Activate, TypeOK
<1>3. ASSUME NEW m \in Msgs, Post(m) PROVE TypeOK' /\ wire' = wire
  <2>1. jobs' \in [Items -> Jobs] /\ faults' \in 0..MaxFaults
    <3>1. CASE Enqueue(m)
      BY <3>1, EnqueueType DEF Items
    <3>2. CASE UNCHANGED <<jobs, faults>>
      BY <3>2 DEF TypeOK, Jobs
    <3>3. QED
      BY <1>3, <3>1, <3>2 DEF Post
  <2>2. rows' \in [Msgs -> [kind : Kinds \union {"none"}, emailed : BOOLEAN, id : 0..Len(wire)]]
    BY <1>1, <1>3 DEF Post, Kinds
  <2>3. QED
    BY <1>3, <2>1, <2>2, TypeWhileSilent DEF Post, TypeOK
<1>4. ASSUME NEW m \in Msgs, BotPost(m) PROVE TypeOK' /\ wire' = wire
  <2>1. rows' \in [Msgs -> [kind : Kinds \union {"none"}, emailed : BOOLEAN, id : 0..Len(wire)]]
    BY <1>1, <1>4 DEF BotPost, Kinds
  <2>2. sender' \in [Senders -> Sends]
    <3>1. Len(wire) \in Nat
      BY DEF TypeOK
    <3>2. [NoSend EXCEPT !.pc = "load", !.item = m] \in Sends
      BY <3>1, NoSendType DEF Sends, Items
    <3>3. QED
      BY <1>4, <3>2, SenderMoves DEF BotPost, Senders
  <2>3. QED
    BY <1>4, <2>1, <2>2, TypeWhileSilent DEF BotPost, TypeOK, Jobs
<1>5. ASSUME NEW i \in DOMAIN wire, Answer(i) PROVE TypeOK' /\ wire' = wire
  <2>1. wire[i].thread \in 0..Len(wire)
    BY WireType
  <2>2. QED
    BY <1>5, <2>1, TypeWhileSilent DEF Answer, TypeOK, Jobs
<1>6. ASSUME NEW th \in fresh, Ingest(th) PROVE TypeOK' /\ wire' = wire
  <2>1. th \in 0..Len(wire) /\ InThread(th) \subseteq DOMAIN wire
    BY DEF TypeOK, InThread
  <2>2. /\ thread' \in {thread, th} /\ split' \subseteq split \union {th}
        /\ copies' \subseteq copies \union InThread(th)
        /\ strays' \subseteq strays \union InThread(th)
        /\ fresh' \subseteq fresh
        /\ UNCHANGED <<rows, markers, wire, answered, jobs, sender, announced, faults>>
    BY <1>6 DEF Ingest
  <2>3. QED
    BY <2>1, <2>2, TypeWhileSilent DEF TypeOK, Jobs
<1>7. QED
  BY <1>2, <1>3, <1>4, <1>5, <1>6

\* A sender that puts nothing on the wire keeps the types.
LEMMA QuietSenderType ==
  ASSUME BaseInv, NEW s \in Senders,
         \/ Take(s) \/ Load(s) \/ Stamp(s) \/ Mark(s) \/ Record(s) \/ Complete(s) \/ CallFails(s)
  PROVE  TypeOK' /\ wire' = wire
<1> USE DEF mailbox
<1>1. TypeOK /\ Len(wire) \in Nat /\ sender[s] \in Sends /\ NoSend \in Sends
  BY NoSendType DEF BaseInv, TypeOK
<1>2. sender[s].pc \in {"send", "stamp", "mark", "record"} => sender[s].pc \in Path(Kind(s))
  BY DEF BaseInv, WorkInv, OnPath
<1>3. ASSUME Caught(s) PROVE jobs' \in [Items -> Jobs] /\ sender' \in [Senders -> Sends]
                             /\ announced' \subseteq Items
  BY <1>1, <1>3, CaughtType, SenderMoves DEF TypeOK
<1>4. CASE Take(s)
  <2>1. PICK i \in Queue(s) : /\ jobs' = [jobs EXCEPT ![i].state = "active"]
                              /\ sender' = [sender EXCEPT ![s] = [NoSend EXCEPT !.pc = "load", !.item = i]]
    BY <1>4 DEF Take
  <2>2. i \in Items
    BY <2>1 DEF Queue, Items
  <2>3. [NoSend EXCEPT !.pc = "load", !.item = i] \in Sends
    BY <1>1, <2>2 DEF Sends
  <2>4. jobs' \in [Items -> Jobs]
    BY <1>1, <2>1, <2>2 DEF TypeOK, Jobs
  <2>5. sender' \in [Senders -> Sends]
    BY <1>1, <2>1, <2>3, SenderMoves
  <2>6. QED
    BY <1>1, <1>4, <2>4, <2>5, TypeWhileSilent DEF Take, TypeOK
<1>5. CASE Load(s)
  <2>1. /\ LastStored \in 0..Len(wire) /\ History \subseteq Msgs
        /\ NoMail \in 0..Len(wire) /\ thread \in {NoThread} \union (0..Len(wire))
    BY <1>1, LastStoredType DEF History, NoMail, TypeOK
  <2>2. Steps(Kind(s))[1] = "send"
    BY StepsOf
  <2>3. PICK x \in Sends : sender' = [sender EXCEPT ![s] = x]
    <3>1. CASE Skips(s)
      <4>1. [sender[s] EXCEPT !.pc = "done"] \in Sends
        BY <1>1 DEF Sends
      <4>2. sender' = [sender EXCEPT ![s] = [sender[s] EXCEPT !.pc = "done"]]
        BY <1>5, <3>1 DEF Load
      <4>3. QED
        BY <4>1, <4>2
    <3>2. CASE ~Skips(s)
      <4> DEFINE c == IF s = "confirm" THEN NoMail ELSE LastStored
                 q == IF s = "confirm" THEN History ELSE {}
                 x == [sender[s] EXCEPT !.pc = "send", !.thread = thread, !.cites = c, !.quotes = q]
      <4>1. c \in 0..Len(wire) /\ q \in SUBSET Msgs
        BY <2>1
      <4>2. sender' = [sender EXCEPT ![s] = x]
        BY <1>5, <2>2, <3>2 DEF Load
      <4> HIDE DEF c, q
      <4>3. x \in Sends
        BY <1>1, <2>1, <4>1 DEF Sends
      <4>4. QED
        BY <4>2, <4>3
    <3>3. QED
      BY <3>1, <3>2
  <2>4. sender' \in [Senders -> Sends]
    BY <1>1, <2>3, SenderMoves
  <2>5. QED
    BY <1>1, <1>5, <2>4, TypeWhileSilent DEF Load, TypeOK, Jobs
<1>6. CASE Stamp(s)
  <2>1. sender[s].pc \in Path(Kind(s)) /\ sender[s].mail \in DOMAIN wire
    BY <1>2, <1>6 DEF Stamp, BaseInv, WorkInv, Sent, HasSent
  <2>2. wire[sender[s].mail].thread \in 0..Len(wire)
    BY <1>1, <2>1, WireType
  <2>3. thread' \in {NoThread} \union (0..Len(wire))
    BY <1>1, <1>6, <2>2 DEF Stamp, TypeOK
  <2>4. jobs' \in [Items -> Jobs] /\ sender' \in [Senders -> Sends] /\ announced' \subseteq Items
    <3>1. CASE Advance(s) /\ UNCHANGED <<jobs, announced>>
      BY <1>1, <2>1, <3>1, AdvanceType DEF TypeOK, Jobs
    <3>2. QED
      BY <1>3, <1>6, <3>1 DEF Stamp
  <2>5. QED
    BY <1>1, <1>6, <2>3, <2>4, TypeWhileSilent DEF Stamp, TypeOK
<1>7. CASE Mark(s)
  <2>1. sender' \in [Senders -> Sends]
    BY <1>1, <1>2, <1>7, AdvanceType DEF Mark
  <2>2. rows' \in [Msgs -> [kind : Kinds \union {"none"}, emailed : BOOLEAN, id : 0..Len(wire)]]
    BY <1>1, <1>7 DEF Mark, TypeOK
  <2>3. QED
    BY <1>1, <1>7, <2>1, <2>2, TypeWhileSilent DEF Mark, TypeOK, Jobs
<1>8. CASE Record(s)
  <2>1. sender[s].id \in 0..Len(wire)
    BY <1>1 DEF Sends
  <2>2. /\ rows' \in [Msgs -> [kind : Kinds \union {"none"}, emailed : BOOLEAN, id : 0..Len(wire)]]
        /\ markers' \subseteq 0..Len(wire)
    <3>1. /\ rows' \in {rows, [rows EXCEPT ![sender[s].item].id = sender[s].id]}
          /\ markers' \in {markers, markers \union {sender[s].id}}
      BY <1>8 DEF Record
    <3>2. \A x \in 0..Len(wire) : [rows EXCEPT ![sender[s].item].id = x]
            \in [Msgs -> [kind : Kinds \union {"none"}, emailed : BOOLEAN, id : 0..Len(wire)]]
      BY <1>1 DEF TypeOK
    <3>3. QED
      BY <1>1, <2>1, <3>1, <3>2 DEF TypeOK
  <2>3. jobs' \in [Items -> Jobs] /\ sender' \in [Senders -> Sends] /\ announced' \subseteq Items
    <3>1. CASE Advance(s) /\ UNCHANGED <<jobs, announced>>
      BY <1>1, <1>2, <1>8, <3>1, AdvanceType DEF Record, TypeOK, Jobs
    <3>2. QED
      BY <1>3, <1>8, <3>1 DEF Record
  <2>4. QED
    BY <1>1, <1>8, <2>2, <2>3, TypeWhileSilent DEF Record, TypeOK
<1>9. CASE Complete(s)
  <2>1. jobs' \in [Items -> Jobs]
    BY <1>1, <1>9 DEF Complete, TypeOK, Sends, Jobs
  <2>2. sender' \in [Senders -> Sends]
    BY <1>1, <1>9, SenderMoves DEF Complete, Leave
  <2>3. QED
    BY <1>1, <1>9, <2>1, <2>2, TypeWhileSilent DEF Complete, TypeOK
<1>10. CASE CallFails(s)
  <2>1. Caught(s)
    BY <1>1, <1>10, ThrowsType DEF CallFails
  <2>2. faults' \in 0..MaxFaults
    BY <1>1, <1>10, FaultType DEF CallFails
  <2>3. QED
    BY <1>1, <1>3, <1>10, <2>1, <2>2, TypeWhileSilent DEF CallFails, TypeOK
<1>11. QED
  BY <1>4, <1>5, <1>6, <1>7, <1>8, <1>9, <1>10

\* The types, when a mail goes on the wire.
LEMMA TypeWhileSending ==
  ASSUME TypeOK, NEW s \in Senders, Accept(s),
         jobs' \in [Items -> Jobs], sender' \in [Senders -> Sends'],
         announced' \subseteq Items, faults' \in 0..MaxFaults,
         UNCHANGED <<thread, rows, markers, mailbox>>
  PROVE  TypeOK'
<1>1. Len(wire) \in Nat /\ Len(wire') = Len(wire) + 1
  BY Accepted DEF TypeOK, NextMail
<1>2. 0..Len(wire) \subseteq 0..Len(wire') /\ DOMAIN wire \subseteq DOMAIN wire'
  BY <1>1, Accepted
<1>3. rows \in [Msgs -> [kind : Kinds \union {"none"}, emailed : BOOLEAN, id : 0..Len(wire')]]
  <2>1. \A m \in Msgs : rows[m] \in [kind : Kinds \union {"none"}, emailed : BOOLEAN, id : 0..Len(wire)]
    BY DEF TypeOK
  <2>2. \A m \in Msgs : rows[m] \in [kind : Kinds \union {"none"}, emailed : BOOLEAN, id : 0..Len(wire')]
    BY <1>2, <2>1
  <2>3. QED
    BY <2>2 DEF TypeOK
<1>4. thread \in {NoThread} \union (0..Len(wire')) /\ markers \subseteq 0..Len(wire')
  BY <1>2 DEF TypeOK
<1>5. copies \union strays \union answered \subseteq DOMAIN wire' /\ split \subseteq 0..Len(wire')
  BY <1>2 DEF TypeOK
<1>6. QED
  BY <1>3, <1>4, <1>5, Accepted DEF TypeOK, Jobs, mailbox, NoThread

\* A sender that was typed stays so when the wire grows.
LEMMA SendsGrow ==
  ASSUME TypeOK, NEW s \in Senders, Accept(s)
  PROVE  Sends \subseteq Sends'
<1>1. Len(wire) \in Nat /\ Len(wire') = Len(wire) + 1
  BY Accepted DEF TypeOK, NextMail
<1>2. 0..Len(wire) \subseteq 0..Len(wire')
  BY <1>1
<1>3. QED
  BY <1>2 DEF Sends, NoThread

\* A mail that is accepted, whether or not the sender learns of it.
LEMMA SendersType ==
  ASSUME BaseInv, NEW s \in Senders, Send(s) \/ SendFails(s)
  PROVE  TypeOK'
<1> USE DEF mailbox
<1>1. TypeOK /\ sender[s] \in Sends /\ Len(wire) \in Nat
  BY DEF BaseInv, TypeOK
<1>2. CASE Send(s)
  <2>1. Accept(s) /\ sender[s].pc \in Path(Kind(s)) /\ sender[s].pc = "send"
    BY <1>2 DEF Send, BaseInv, WorkInv, OnPath
  <2>2. Len(wire') = NextMail /\ NextMail \in 1..Len(wire') /\ sender[s] \in Sends'
    BY <1>1, <2>1, Accepted, SendsGrow DEF NextMail
  <2>3. StepAfter(s) = "stamp"
    BY <2>1, AfterStep
  <2>4. /\ [sender[s] EXCEPT !.pc = StepAfter(s), !.mail = NextMail, !.id = NextMail] \in Sends'
        /\ [sender[s] EXCEPT !.pc = StepAfter(s), !.mail = NextMail] \in Sends'
    <3>1. ASSUME NEW n \in 0..Len(wire')
          PROVE  /\ [sender[s] EXCEPT !.pc = "stamp", !.mail = n, !.id = n] \in Sends'
                 /\ [sender[s] EXCEPT !.pc = "stamp", !.mail = n] \in Sends'
      BY <2>2 DEF Sends
    <3>2. NextMail \in 0..Len(wire')
      BY <1>1, <2>2 DEF NextMail
    <3>3. QED
      BY <2>3, <3>1, <3>2
  <2>5. sender \in [Senders -> Sends']
    BY <1>1, <2>1, SendsGrow DEF TypeOK
  <2>6. sender' \in [Senders -> Sends'] /\ faults' \in 0..MaxFaults
    <3>1. faults' \in 0..MaxFaults
      BY <1>1, <1>2, FaultType DEF Send, TypeOK
    <3>2. \E x \in Sends' : sender' = [sender EXCEPT ![s] = x]
      BY <1>2, <2>4 DEF Send
    <3>3. QED
      BY <2>5, <3>1, <3>2
  <2>7. QED
    BY <1>1, <1>2, <2>1, <2>6, TypeWhileSending DEF Send, TypeOK, Jobs
<1>3. CASE SendFails(s)
  <2>1. /\ jobs' \in [Items -> Jobs] /\ announced' = announced
        /\ sender' = [sender EXCEPT ![s] = NoSend] /\ faults' \in 0..MaxFaults
    BY <1>1, <1>3, CaughtType, FaultType DEF SendFails
  <2>2. CASE Accept(s)
    <3>1. NoSend \in Sends' /\ sender \in [Senders -> Sends']
      BY <1>1, <2>2, SendsGrow, NoSendType DEF TypeOK
    <3>2. sender' \in [Senders -> Sends']
      BY <2>1, <3>1
    <3>3. QED
      BY <1>1, <1>3, <2>1, <2>2, <3>2, TypeWhileSending DEF SendFails, TypeOK
  <2>3. CASE UNCHANGED <<wire, fresh>>
    <3>1. sender' \in [Senders -> Sends]
      BY <1>1, <2>1, SenderMoves, NoSendType
    <3>2. QED
      BY <1>1, <1>3, <2>1, <2>3, <3>1, TypeWhileSilent DEF SendFails, TypeOK
  <2>4. QED
    BY <1>3, <2>2, <2>3 DEF SendFails
<1>4. QED
  BY <1>2, <1>3

\* A restart.
LEMMA CrashType == ASSUME TypeOK, Crash PROVE TypeOK' /\ wire' = wire
<1>1. sender' \in [Senders -> Sends]
  BY NoSendType DEF Crash, TypeOK
<1>2. jobs' \in [Items -> Jobs]
  <2>1. jobs \in [Items -> Jobs]
    BY DEF TypeOK, Jobs
  <2>2. jobs' = [i \in Items |-> IF jobs[i].state = "active" THEN Failed(jobs[i]) ELSE jobs[i]]
    BY DEF Crash
  <2> HIDE DEF Jobs
  <2>3. QED
    BY <2>1, <2>2, FailedType
<1>3. QED
  BY <1>1, <1>2, TypeWhileSilent, FaultType DEF Crash, TypeOK, mailbox

\* Every step keeps the types.
LEMMA TypeStep == ASSUME BaseInv, [Next]_vars PROVE TypeOK'
<1>1. CASE UNCHANGED vars
  BY <1>1, TypeWhileSilent DEF vars, mailbox, BaseInv, TypeOK, Jobs
<1>2. CASE Next
  BY <1>2, WritersType, QuietSenderType, SendersType, CrashType DEF Next, Step, BaseInv
<1>3. QED
  BY <1>1, <1>2

-----------------------------------------------------------------------------
(***************************************************************************)
(* The work of the senders.                                                *)
(***************************************************************************)

\* A mail on the wire stays as it is.
WireKept == \A i \in DOMAIN wire : i \in DOMAIN wire' /\ wire'[i] = wire[i]

\* The kind of a row is written once.
KindsKept == \A m \in Msgs : rows[m].kind # "none" => rows'[m].kind = rows[m].kind

Working(s) == sender[s].pc # "idle" => HoldsItem(s) /\ OnPath(s) /\ (Sent(s) => HasSent(s))

\* A job is queued for a row that is mailed.
JobsOfMailed == \A m \in Msgs : jobs'[m].state # "none" => jobs[m].state # "none" \/ Mailed(rows'[m].kind)

LEMMA WorkIs == WorkInv <=> /\ \A m \in Msgs : jobs[m].state # "none" => Mailed(rows[m].kind)
                            /\ \A s \in Senders : Working(s)
BY DEF WorkInv, Working

\* What a sender is about, with its calls spelled out.
OnPathAs(pc, kind) ==
  \/ pc \in {"load", "done", "send", "stamp"}
  \/ pc = "record" /\ kind \in {"confirmation", "agentReply", "portalReply"}
  \/ pc = "mark" /\ kind # "portalReply"

LEMMA OnPathIs == ASSUME NEW s PROVE OnPath(s) <=> OnPathAs(sender[s].pc, Kind(s))
BY PathOf DEF OnPath, OnPathAs

LEMMA OnPathNext == ASSUME NEW s PROVE OnPath(s)' <=> OnPathAs(sender'[s].pc, Kind(s)')
BY PathOf DEF OnPath, OnPathAs

\* A sender that does not move keeps its work.
LEMMA RestsWorking ==
  ASSUME BaseInv, WireKept, KindsKept, NEW z \in Senders, sender'[z] = sender[z]
  PROVE  Working(z)'
<1> SUFFICES ASSUME sender[z].pc # "idle"
             PROVE  HoldsItem(z)' /\ OnPath(z)' /\ (Sent(z)' => HasSent(z)')
  BY DEF Working
<1>1. HoldsItem(z) /\ OnPath(z) /\ (Sent(z) => HasSent(z))
  BY DEF BaseInv, WorkInv
<1>2. HoldsItem(z)' /\ (z # "confirm" => rows'[sender[z].item].kind = rows[sender[z].item].kind)
  BY <1>1 DEF HoldsItem, Mailed, KindsKept
<1>3. Kind(z)' = Kind(z)
  BY <1>2 DEF Kind
<1>4. OnPath(z)'
  BY <1>1, <1>3, OnPathIs, OnPathNext
<1>5. Sent(z)' => HasSent(z)'
  BY <1>1 DEF Sent, HasSent, WireKept
<1>6. QED
  BY <1>2, <1>4, <1>5

\* The work, when one sender moves.
LEMMA WorkMoves ==
  ASSUME BaseInv, WireKept, KindsKept, JobsOfMailed, NEW s \in Senders, Working(s)',
         \A z \in Senders : z # s => sender'[z] = sender[z]
  PROVE  WorkInv'
<1>1. \A z \in Senders : Working(z)'
  BY RestsWorking
<1>2. \A m \in Msgs : jobs'[m].state # "none" => Mailed(rows'[m].kind)
  BY DEF BaseInv, WorkInv, JobsOfMailed, KindsKept, Mailed
<1>3. QED
  BY <1>1, <1>2 DEF WorkInv, Working

\* A sender that has left has no work; one that goes on keeps it.
LEMMA IdleWorking ==
  ASSUME NEW s \in Senders, TypeOK, sender' = [sender EXCEPT ![s] = NoSend]
  PROVE  Working(s)' /\ \A z \in Senders : z # s => sender'[z] = sender[z]
BY DEF Working, NoSend, TypeOK

LEMMA GoesOnWorking ==
  ASSUME BaseInv, WireKept, KindsKept, NEW s \in Senders,
         sender[s].pc \in {"stamp", "mark", "record"}, Advance(s)
  PROVE  Working(s)' /\ \A z \in Senders : z # s => sender'[z] = sender[z]
<1>1. HoldsItem(s) /\ OnPath(s) /\ HasSent(s) /\ TypeOK
  BY DEF BaseInv, WorkInv, Sent
<1>2. sender[s].pc \in Path(Kind(s))
  BY <1>1 DEF OnPath
<1>3. /\ \A z \in Senders : z # s => sender'[z] = sender[z]
      /\ sender'[s] = [sender[s] EXCEPT !.pc = StepAfter(s)]
      /\ sender'[s].pc = StepAfter(s)
  BY <1>1, <1>2, AdvanceType
<1>4. /\ sender'[s].item = sender[s].item /\ sender'[s].mail = sender[s].mail
      /\ sender'[s].quotes = sender[s].quotes
  <2>1. sender[s] \in Sends
    BY <1>1 DEF TypeOK
  <2>2. QED
    BY <1>3, <2>1 DEF Sends
<1>5. HoldsItem(s)' /\ (s # "confirm" => rows'[sender[s].item].kind = rows[sender[s].item].kind)
  BY <1>1, <1>4 DEF HoldsItem, Mailed, KindsKept
<1>6. Kind(s)' = Kind(s)
  BY <1>4, <1>5 DEF Kind
<1>7. StepAfter(s) \in Path(Kind(s)) \union {"done"}
  BY <1>2, AdvanceMoves
<1>8. OnPath(s)'
  <2>1. OnPathAs(StepAfter(s), Kind(s))
    BY <1>7, PathOf DEF OnPathAs
  <2>2. QED
    BY <1>3, <1>6, <2>1, OnPathNext DEF OnPathAs
<1>9. HasSent(s)'
  BY <1>1, <1>4 DEF HasSent, WireKept
<1>10. QED
  BY <1>3, <1>5, <1>8, <1>9 DEF Working

\* What a sender that gives up leaves of the jobs.
LEMMA CaughtWork ==
  ASSUME BaseInv, KindsKept, NEW s \in Senders, sender[s].pc # "idle", Caught(s)
  PROVE  /\ JobsOfMailed /\ Working(s)'
         /\ \A z \in Senders : z # s => sender'[z] = sender[z]
<1>1. TypeOK /\ HoldsItem(s)
  BY DEF BaseInv, WorkInv
<1>2. /\ sender' = [sender EXCEPT ![s] = NoSend]
      /\ jobs' = IF s = "bot" THEN jobs ELSE [jobs EXCEPT ![sender[s].item] = Failed(@)]
  BY <1>1, CaughtType
<1>3. \A m \in Msgs : m = sender[s].item /\ s # "bot" => Mailed(rows'[m].kind)
  BY <1>1, ItemAssumption DEF HoldsItem, KindsKept, Mailed, Senders
<1>4. JobsOfMailed
  BY <1>1, <1>2, <1>3 DEF JobsOfMailed, TypeOK, Items
<1>5. QED
  BY <1>1, <1>2, <1>4, IdleWorking

\* What a sender has read, and what it knows of the mail it has sent.
LEMMA LoadMoves ==
  ASSUME TypeOK, NEW s \in Senders, Load(s)
  PROVE  /\ sender'[s].pc = IF Skips(s) THEN "done" ELSE "send"
         /\ sender'[s].item = sender[s].item /\ sender'[s].mail = sender[s].mail
         /\ ~Skips(s) => sender'[s].quotes = IF s = "confirm" THEN History ELSE {}
         /\ ~Skips(s) => sender'[s].thread = thread
         /\ \A z \in Senders : z # s => sender'[z] = sender[z]
<1>1. sender \in [Senders -> Sends] /\ sender[s] \in Sends
  BY DEF TypeOK
<1>2. Steps(Kind(s))[1] = "send"
  BY StepsOf
<1>3. ASSUME NEW r, sender' = [sender EXCEPT ![s] = r]
      PROVE  sender'[s] = r /\ \A z \in Senders : z # s => sender'[z] = sender[z]
  BY <1>1, <1>3
<1>4. CASE Skips(s)
  <2>1. sender' = [sender EXCEPT ![s] = [sender[s] EXCEPT !.pc = "done"]]
    BY <1>4 DEF Load
  <2>2. QED
    BY <1>1, <1>3, <1>4, <2>1 DEF Sends
<1>5. CASE ~Skips(s)
  <2> DEFINE c == IF s = "confirm" THEN NoMail ELSE LastStored
             q == IF s = "confirm" THEN History ELSE {}
  <2>1. sender' = [sender EXCEPT ![s] =
          [sender[s] EXCEPT !.pc = "send", !.thread = thread, !.cites = c, !.quotes = q]]
    BY <1>2, <1>5 DEF Load
  <2> HIDE DEF c, q
  <2>2. sender'[s].quotes = q
    BY <1>1, <1>3, <2>1 DEF Sends
  <2>3. /\ sender'[s].pc = "send" /\ sender'[s].item = sender[s].item
        /\ sender'[s].mail = sender[s].mail /\ sender'[s].thread = thread
    BY <1>1, <1>3, <2>1 DEF Sends
  <2>4. QED
    BY <1>3, <1>5, <2>1, <2>2, <2>3 DEF q
<1>6. QED
  BY <1>4, <1>5

LEMMA SendMoves ==
  ASSUME TypeOK, NEW s \in Senders, Send(s)
  PROVE  /\ sender'[s].pc = StepAfter(s) /\ sender'[s].item = sender[s].item
         /\ sender'[s].quotes = sender[s].quotes /\ sender'[s].mail = NextMail
         /\ sender'[s].id = NextMail \/ (sender'[s].id = sender[s].id /\ Fault)
         /\ \A z \in Senders : z # s => sender'[z] = sender[z]
<1>1. sender \in [Senders -> Sends] /\ sender[s] \in Sends
  BY DEF TypeOK
<1> DEFINE p == StepAfter(s)
           n == NextMail
<1>2. \/ sender' = [sender EXCEPT ![s] = [sender[s] EXCEPT !.pc = p, !.mail = n, !.id = n]]
      \/ sender' = [sender EXCEPT ![s] = [sender[s] EXCEPT !.pc = p, !.mail = n]] /\ Fault
  BY DEF Send
<1> HIDE DEF p, n
<1>3. ASSUME NEW r, sender' = [sender EXCEPT ![s] = r]
      PROVE  sender'[s] = r /\ \A z \in Senders : z # s => sender'[z] = sender[z]
  BY <1>1, <1>3
<1>4. /\ sender'[s].pc = p /\ sender'[s].item = sender[s].item
      /\ sender'[s].quotes = sender[s].quotes /\ sender'[s].mail = n
      /\ \A z \in Senders : z # s => sender'[z] = sender[z]
  <2>1. CASE sender' = [sender EXCEPT ![s] = [sender[s] EXCEPT !.pc = p, !.mail = n, !.id = n]]
    <3>1. sender'[s] = [sender[s] EXCEPT !.pc = p, !.mail = n, !.id = n]
      BY <1>3, <2>1
    <3>2. QED
      BY <1>1, <1>3, <2>1, <3>1 DEF Sends
  <2>2. CASE sender' = [sender EXCEPT ![s] = [sender[s] EXCEPT !.pc = p, !.mail = n]]
    <3>1. sender'[s] = [sender[s] EXCEPT !.pc = p, !.mail = n]
      BY <1>3, <2>2
    <3>2. QED
      BY <1>1, <1>3, <2>2, <3>1 DEF Sends
  <2>3. QED
    BY <1>2, <2>1, <2>2
<1>5. sender'[s].id = n \/ (sender'[s].id = sender[s].id /\ Fault)
  <2>1. CASE sender' = [sender EXCEPT ![s] = [sender[s] EXCEPT !.pc = p, !.mail = n, !.id = n]]
    BY <1>1, <1>3, <2>1 DEF Sends
  <2>2. CASE sender' = [sender EXCEPT ![s] = [sender[s] EXCEPT !.pc = p, !.mail = n]] /\ Fault
    BY <1>1, <1>3, <2>2 DEF Sends
  <2>3. QED
    BY <1>2, <2>1, <2>2
<1>6. QED
  BY <1>4, <1>5 DEF p, n

\* Whatever a sender does, its work and that of the others stays right.
LEMMA SenderWork ==
  ASSUME BaseInv, NEW s \in Senders, Step(s) \/ SendFails(s) \/ CallFails(s)
  PROVE  WorkInv'
<1> USE DEF mailbox
<1>1. TypeOK /\ sender[s] \in Sends /\ sender \in [Senders -> Sends]
  BY DEF BaseInv, TypeOK
<1>2. ASSUME UNCHANGED wire PROVE WireKept
  BY <1>2 DEF WireKept
<1>3. ASSUME UNCHANGED rows PROVE KindsKept
  BY <1>3 DEF KindsKept
<1>4. ASSUME UNCHANGED jobs PROVE JobsOfMailed
  BY <1>4 DEF JobsOfMailed
<1>5. sender[s].pc # "idle" => HoldsItem(s) /\ OnPath(s) /\ (Sent(s) => HasSent(s))
  BY DEF BaseInv, WorkInv
<1>6. CASE Take(s)
  <2>1. PICK i \in Queue(s) : /\ jobs[i].state = "queued"
                              /\ jobs' = [jobs EXCEPT ![i].state = "active"]
                              /\ sender' = [sender EXCEPT ![s] = [NoSend EXCEPT !.pc = "load", !.item = i]]
    BY <1>6 DEF Take
  <2>2. /\ i \in Items /\ UNCHANGED <<wire, rows>>
        /\ IF s = "confirm" THEN i = Confirm ELSE s = "reply" /\ i \in Msgs
    BY <1>6, <2>1 DEF Queue, Items, Take, Senders
  <2>3. sender'[s].pc = "load" /\ sender'[s].item = i /\ \A z \in Senders : z # s => sender'[z] = sender[z]
    BY <1>1, <2>1 DEF NoSend
  <2>4. s = "reply" => Mailed(rows'[i].kind)
    BY <2>1, <2>2 DEF BaseInv, WorkInv
  <2>5. Working(s)'
    <3>1. OnPath(s)' /\ HoldsItem(s)' /\ ~Sent(s)'
      BY <2>2, <2>3, <2>4 DEF OnPath, HoldsItem, Sent
    <3>2. QED
      BY <3>1 DEF Working
  <2>6. JobsOfMailed
    BY <1>1, <2>1, <2>2 DEF JobsOfMailed, TypeOK, Items
  <2>7. QED
    BY <1>2, <1>3, <2>2, <2>3, <2>5, <2>6, WorkMoves
<1>7. CASE Load(s)
  <2>1. /\ sender'[s].pc \in {"send", "done"} /\ sender'[s].item = sender[s].item
        /\ \A z \in Senders : z # s => sender'[z] = sender[z]
    BY <1>1, <1>7, LoadMoves
  <2>2. UNCHANGED <<wire, rows, jobs>> /\ HoldsItem(s)
    BY <1>5, <1>7 DEF Load
  <2>3. HoldsItem(s)'
    BY <2>1, <2>2 DEF HoldsItem
  <2>4. OnPath(s)' /\ ~Sent(s)'
    BY <2>1, OnPathNext DEF OnPathAs, Sent
  <2>5. QED
    BY <1>2, <1>3, <1>4, <2>1, <2>2, <2>3, <2>4, WorkMoves DEF Working
<1>8. CASE Send(s)
  <2>1. Accept(s) /\ UNCHANGED <<rows, jobs>> /\ sender[s].pc = "send"
    BY <1>8 DEF Send
  <2>2. StepAfter(s) = "stamp"
    <3>1. sender[s].pc \in Path(Kind(s))
      BY <1>5, <2>1 DEF OnPath
    <3>2. QED
      BY <2>1, <3>1, AfterStep
  <2>3. /\ sender'[s].pc = "stamp" /\ sender'[s].item = sender[s].item
        /\ sender'[s].quotes = sender[s].quotes /\ sender'[s].mail = NextMail
        /\ \A z \in Senders : z # s => sender'[z] = sender[z]
    BY <1>1, <1>8, <2>2, SendMoves
  <2>4. HoldsItem(s)' /\ OnPath(s)'
    BY <1>5, <2>1, <2>3, OnPathNext DEF HoldsItem, OnPathAs
  <2>5. HasSent(s)' /\ WireKept
    BY <1>1, <2>1, <2>3, Accepted DEF HasSent, WireKept
  <2>6. QED
    BY <1>3, <1>4, <2>1, <2>3, <2>4, <2>5, WorkMoves DEF Working
<1>9. CASE SendFails(s)
  <2>1. WireKept /\ UNCHANGED rows /\ Caught(s) /\ sender[s].pc # "idle"
    BY <1>1, <1>2, <1>9, Accepted DEF SendFails, WireKept
  <2>2. QED
    BY <1>3, <2>1, CaughtWork, WorkMoves
<1>10. ASSUME sender[s].pc \in {"stamp", "mark", "record"}, KindsKept, UNCHANGED wire,
              Caught(s) \/ (Advance(s) /\ UNCHANGED jobs)
       PROVE  WorkInv'
  <2>1. CASE Caught(s)
    BY <1>2, <1>10, <2>1, CaughtWork, WorkMoves
  <2>2. CASE Advance(s) /\ UNCHANGED jobs
    BY <1>2, <1>4, <1>10, <2>2, GoesOnWorking, WorkMoves
  <2>3. QED
    BY <1>10, <2>1, <2>2
<1>11. CASE Stamp(s)
  <2>1. /\ sender[s].pc \in {"stamp", "mark", "record"} /\ UNCHANGED <<rows, wire>>
        /\ Caught(s) \/ (Advance(s) /\ UNCHANGED jobs)
    BY <1>11 DEF Stamp
  <2>2. QED
    BY <1>3, <1>10, <2>1
<1>12. CASE Mark(s)
  <2>1. KindsKept
    BY <1>1, <1>12 DEF Mark, KindsKept, TypeOK
  <2>2. QED
    BY <1>10, <1>12, <2>1 DEF Mark
<1>13. CASE Record(s)
  <2>1. /\ rows' \in {rows, [rows EXCEPT ![sender[s].item].id = sender[s].id]}
        /\ Caught(s) \/ (Advance(s) /\ UNCHANGED jobs)
        /\ sender[s].pc = "record" /\ UNCHANGED wire
    BY <1>13 DEF Record
  <2>2. ASSUME NEW m \in Msgs PROVE rows'[m].kind = rows[m].kind
    <3>1. rows[m] \in [kind : Kinds \union {"none"}, emailed : BOOLEAN, id : 0..Len(wire)]
      BY <1>1 DEF TypeOK
    <3>2. rows'[m] = rows[m] \/ rows'[m] = [rows[m] EXCEPT !.id = sender[s].id]
      BY <1>1, <2>1 DEF TypeOK
    <3>3. QED
      BY <3>1, <3>2
  <2>3. KindsKept
    BY <2>2 DEF KindsKept
  <2>4. QED
    BY <1>10, <2>1, <2>3
<1>14. CASE Complete(s)
  <2>1. sender' = [sender EXCEPT ![s] = NoSend] /\ UNCHANGED <<wire, rows>> /\ sender[s].pc # "idle"
    BY <1>14 DEF Complete, Leave
  <2>2. \A m \in Msgs : m = sender[s].item /\ s # "bot" => Mailed(rows'[m].kind)
    BY <1>5, <2>1, ItemAssumption DEF HoldsItem, Senders
  <2>3. JobsOfMailed
    BY <1>1, <1>14, <2>2 DEF Complete, JobsOfMailed, TypeOK, Items
  <2>4. QED
    BY <1>1, <1>2, <1>3, <2>1, <2>3, IdleWorking, WorkMoves
<1>15. CASE CallFails(s)
  <2>1. Caught(s) /\ UNCHANGED <<wire, rows>> /\ sender[s].pc # "idle"
    BY <1>1, <1>15, ThrowsType DEF CallFails
  <2>2. QED
    BY <1>2, <1>3, <2>1, CaughtWork, WorkMoves
<1>16. QED
  BY <1>6, <1>7, <1>8, <1>9, <1>11, <1>12, <1>13, <1>14, <1>15 DEF Step

\* The rows and the senders of every step.
LEMMA WorkStep == ASSUME BaseInv, [Next]_vars PROVE WorkInv'
<1> USE DEF mailbox
<1>1. TypeOK
  BY DEF BaseInv
<1>2. ASSUME UNCHANGED wire PROVE WireKept
  BY <1>2 DEF WireKept
<1>3. ASSUME UNCHANGED rows PROVE KindsKept
  BY <1>3 DEF KindsKept
<1>4. ASSUME UNCHANGED jobs PROVE JobsOfMailed
  BY <1>4 DEF JobsOfMailed
<1>5. ASSUME WireKept, KindsKept, JobsOfMailed, UNCHANGED sender PROVE WorkInv'
  <2>1. \A z \in Senders : Working(z)'
    BY <1>5, RestsWorking
  <2>2. QED
    BY <1>5, <2>1, WorkMoves DEF Senders
<1>6. ASSUME NEW m \in Unwritten, NEW kind, Write(m, kind)
      PROVE  KindsKept /\ rows'[m].kind = kind
  BY <1>1, <1>6 DEF KindsKept, Write, Unwritten, TypeOK
<1>7. CASE UNCHANGED vars
  BY <1>2, <1>3, <1>4, <1>5, <1>7 DEF vars
<1>8. CASE Activate
  <2>1. WireKept /\ KindsKept /\ UNCHANGED sender
    BY <1>2, <1>3, <1>6, <1>8 DEF Activate
  <2>2. JobsOfMailed
    BY <1>1, <1>8, ItemAssumption DEF Activate, Enqueue, JobsOfMailed, TypeOK, Items
  <2>3. QED
    BY <1>5, <2>1, <2>2
<1>9. ASSUME NEW m \in Msgs, Post(m) PROVE WorkInv'
  <2>1. PICK kind \in {"portalReply", "agentReply", "note"} :
          /\ Write(m, kind)
          /\ IF kind = "note" THEN UNCHANGED <<jobs, faults>> ELSE Enqueue(m)
    BY <1>9 DEF Post
  <2>2. KindsKept /\ rows'[m].kind = kind
    BY <1>6, <1>9, <2>1 DEF Post
  <2>3. JobsOfMailed
    BY <1>1, <2>1, <2>2 DEF Enqueue, JobsOfMailed, TypeOK, Items, Mailed
  <2>4. QED
    BY <1>2, <1>5, <1>9, <2>2, <2>3 DEF Post
<1>10. ASSUME NEW m \in Msgs, BotPost(m) PROVE WorkInv'
  <2>1. KindsKept /\ rows'[m].kind = "botReply" /\ WireKept /\ JobsOfMailed
    BY <1>2, <1>4, <1>6, <1>10 DEF BotPost
  <2>2. /\ sender'["bot"] = [NoSend EXCEPT !.pc = "load", !.item = m]
        /\ \A z \in Senders : z # "bot" => sender'[z] = sender[z]
    BY <1>1, <1>10 DEF BotPost, TypeOK, Senders
  <2>3. Working("bot")'
    <3>1. sender'["bot"].pc = "load" /\ sender'["bot"].item = m
      BY <2>2 DEF NoSend
    <3>2. OnPath("bot")' /\ HoldsItem("bot")' /\ ~Sent("bot")'
      BY <2>1, <3>1 DEF OnPath, HoldsItem, Sent
    <3>3. QED
      BY <3>2 DEF Working
  <2>4. QED
    BY <2>1, <2>2, <2>3, WorkMoves DEF Senders
<1>11. CASE Crash
  <2>1. \A s \in Senders : sender'[s].pc = "idle"
    BY <1>11 DEF Crash, NoSend
  <2>2. \A i \in Items : jobs'[i].state # "none" => jobs[i].state # "none"
    BY <1>11 DEF Crash
  <2>3. UNCHANGED rows
    BY <1>11 DEF Crash
  <2>4. QED
    BY <2>1, <2>2, <2>3 DEF WorkInv, BaseInv, Items
<1>12. ASSUME NEW i \in DOMAIN wire, Answer(i) PROVE WorkInv'
  BY <1>2, <1>3, <1>4, <1>5, <1>12 DEF Answer
<1>13. ASSUME NEW th \in fresh, Ingest(th) PROVE WorkInv'
  <2>1. UNCHANGED <<rows, wire, jobs, sender>>
    BY <1>13 DEF Ingest
  <2>2. QED
    BY <1>2, <1>3, <1>4, <1>5, <2>1
<1>14. ASSUME NEW s \in Senders, Step(s) \/ SendFails(s) \/ CallFails(s) PROVE WorkInv'
  BY <1>14, SenderWork
<1>15. QED
  BY <1>7, <1>8, <1>9, <1>10, <1>11, <1>12, <1>13, <1>14 DEF Next

\* The base is an invariant.
LEMMA BaseStep == BaseInv /\ [Next]_vars => BaseInv'
<1> SUFFICES ASSUME BaseInv, [Next]_vars PROVE BaseInv'
  OBVIOUS
<1>1. TypeOK' /\ WorkInv'
  BY TypeStep, WorkStep
<1>2. QED
  BY <1>1 DEF BaseInv

LEMMA BaseAlways == Spec => []BaseInv
BY InitBase, BaseStep, PTL DEF Spec

\* The values of the variables in every reachable state: no job is retried beyond
\* the limit of its queue, and no mail cites a later one.
THEOREM TypeCorrect == Spec => []TypeOK
<1>1. BaseInv => TypeOK
  BY DEF BaseInv
<1>2. QED
  BY <1>1, BaseAlways, PTL

-----------------------------------------------------------------------------
(***************************************************************************)
(* What a step may change.                                                 *)
(***************************************************************************)

\* The rows: kinds are written once, and the watermark is set by Mark alone.
LEMMA RowsStep ==
  ASSUME BaseInv, [Next]_vars
  PROVE  /\ KindsKept
         /\ \A m \in Msgs : rows'[m].emailed =>
              rows[m].emailed \/ \E s \in Senders : Mark(s) /\
                m \in IF s = "confirm" THEN sender[s].quotes ELSE {sender[s].item}
<1> USE DEF mailbox
<1>1. \A m \in Msgs : rows[m] \in [kind : Kinds \union {"none"}, emailed : BOOLEAN, id : 0..Len(wire)]
  BY DEF BaseInv, TypeOK
<1>2. rows \in [Msgs -> [kind : Kinds \union {"none"}, emailed : BOOLEAN, id : 0..Len(wire)]]
  BY DEF BaseInv, TypeOK
<1> DEFINE Kept == \A m \in Msgs : /\ rows[m].kind # "none" => rows'[m].kind = rows[m].kind
                                   /\ rows'[m].emailed = rows[m].emailed
<1>3. ASSUME UNCHANGED rows PROVE Kept
  BY <1>3
<1>4. ASSUME NEW m \in Unwritten, NEW kind, Write(m, kind) PROVE Kept
  BY <1>1, <1>2, <1>4 DEF Write, Unwritten
<1>5. ASSUME NEW s \in Senders, Record(s) PROVE Kept
  <2>1. CASE UNCHANGED rows
    BY <1>3, <2>1
  <2>2. CASE rows' = [rows EXCEPT ![sender[s].item].id = sender[s].id]
    <3>1. \A m \in Msgs : rows'[m] = rows[m] \/ rows'[m] = [rows[m] EXCEPT !.id = sender[s].id]
      BY <1>2, <2>2
    <3>2. QED
      BY <1>1, <3>1
  <2>3. QED
    BY <1>5, <2>1, <2>2 DEF Record
<1>6. ASSUME NEW s \in Senders, Mark(s)
      PROVE  \A m \in Msgs : /\ rows'[m].kind = rows[m].kind
                             /\ rows'[m].emailed => rows[m].emailed
                                  \/ m \in IF s = "confirm" THEN sender[s].quotes ELSE {sender[s].item}
  BY <1>1, <1>6 DEF Mark
<1>7. Kept \/ \E s \in Senders : Mark(s)
  <2>1. CASE UNCHANGED rows
    BY <1>3, <2>1
  <2>2. CASE Activate
    BY <1>3, <1>4, <2>2 DEF Activate
  <2>3. CASE \E m \in Msgs : Post(m) \/ BotPost(m)
    BY <1>4, <2>3 DEF Post, BotPost
  <2>4. ASSUME NEW s \in Senders, Step(s) \/ SendFails(s) \/ CallFails(s), rows' # rows
        PROVE  Kept \/ Mark(s)
    BY <1>5, <2>4 DEF Step, Take, Load, Send, Stamp, Complete, SendFails, CallFails
  <2>5. CASE Crash \/ (\E i \in DOMAIN wire : Answer(i)) \/ (\E th \in fresh : Ingest(th))
    <3>1. UNCHANGED rows
      BY <2>5 DEF Crash, Answer, Ingest
    <3>2. QED
      BY <1>3, <3>1
  <2> QED
    BY <2>4, <2>5, <2>1, <2>2, <2>3 DEF vars, Next
<1>8. QED
  BY <1>6, <1>7 DEF KindsKept

\* The wire: a mail is put on it by a sender at its send.
LEMMA WireStep ==
  ASSUME BaseInv, [Next]_vars
  PROVE  /\ WireKept
         /\ \/ UNCHANGED wire
            \/ \E s \in Senders : (Send(s) \/ SendFails(s)) /\ Accept(s)
<1> USE DEF mailbox
<1>1. \/ UNCHANGED wire
      \/ \E s \in Senders : (Send(s) \/ SendFails(s)) /\ Accept(s)
  <2>1. CASE Next
    <3>1. CASE Crash
      BY <3>1 DEF Crash
    <3>2. ASSUME NEW s \in Senders, Send(s) \/ SendFails(s)
          PROVE  UNCHANGED wire \/ Accept(s)
      BY <3>2 DEF Send, SendFails
    <3>3. QED
      BY <2>1, <3>1, <3>2, WritersType, QuietSenderType DEF Next, Step, BaseInv
  <2>2. QED
    BY <2>1 DEF vars
<1>2. WireKept
  BY <1>1, Accepted DEF WireKept, BaseInv
<1>3. QED
  BY <1>1, <1>2

\* A sender: it rests, leaves, takes an item, or makes its next call.
LEMMA SenderStep ==
  ASSUME BaseInv, [Next]_vars, NEW s \in Senders
  PROVE  \/ sender'[s] = sender[s]
         \/ sender'[s] = NoSend
         \/ \E i \in Items :
              /\ sender[s].pc = "idle" /\ sender'[s] = [NoSend EXCEPT !.pc = "load", !.item = i]
              /\ IF s = "bot" THEN i \in Msgs /\ rows[i].kind = "none"
                 ELSE jobs[i].state = "queued" /\ jobs'[i].state = "active"
         \/ Load(s)
         \/ Send(s)
         \/ /\ Stamp(s) \/ Mark(s) \/ Record(s)
            /\ Advance(s)
<1> USE DEF mailbox
<1>1. sender \in [Senders -> Sends] /\ TypeOK
  BY DEF BaseInv, TypeOK
<1>2. CASE UNCHANGED sender
  BY <1>2
<1>3. ASSUME NEW z \in Senders, Leave(z) PROVE sender'[s] \in {sender[s], NoSend}
  BY <1>1, <1>3 DEF Leave
<1>4. ASSUME NEW z \in Senders, Caught(z) PROVE sender'[s] \in {sender[s], NoSend}
  BY <1>1, <1>4, CaughtType
<1>5. CASE Activate \/ (\E i \in DOMAIN wire : Answer(i)) \/ (\E th \in fresh : Ingest(th))
  BY <1>2, <1>5 DEF Activate, Answer, Ingest
<1>6. CASE Crash
  BY <1>6 DEF Crash
<1>7. ASSUME NEW m \in Msgs, Post(m) \/ BotPost(m)
      PROVE  \/ sender'[s] = sender[s]
             \/ /\ s = "bot" /\ m \in Items /\ rows[m].kind = "none" /\ sender[s].pc = "idle"
                /\ sender'[s] = [NoSend EXCEPT !.pc = "load", !.item = m]
  BY <1>1, <1>7 DEF Post, BotPost, Items, Unwritten
<1>8. ASSUME NEW z \in Senders, z # s, Step(z) \/ SendFails(z) \/ CallFails(z)
      PROVE  sender'[s] = sender[s]
  <2>1. \E r : sender' = [sender EXCEPT ![z] = r]
    <3>1. Caught(z) => \E r : sender' = [sender EXCEPT ![z] = r]
      BY <1>1, CaughtType
    <3>2. Advance(z) \/ Leave(z) => \E r : sender' = [sender EXCEPT ![z] = r]
      BY DEF Advance, Leave
    <3>3. CASE Take(z)
      BY <3>3 DEF Take
    <3>4. CASE Load(z)
      BY <3>4 DEF Load
    <3>5. CASE Send(z)
      BY <3>5 DEF Send
    <3>6. CASE Stamp(z) \/ Mark(z) \/ Record(z) \/ Complete(z) \/ SendFails(z)
      BY <3>1, <3>2, <3>6 DEF Stamp, Mark, Record, Complete, SendFails
    <3>7. CASE CallFails(z)
      BY <1>1, <3>1, <3>7, ThrowsType DEF CallFails
    <3>8. QED
      BY <1>8, <3>3, <3>4, <3>5, <3>6, <3>7 DEF Step
  <2>2. QED
    BY <1>1, <1>8, <2>1
<1>9. CASE Take(s)
  <2>1. PICK i \in Queue(s) : /\ jobs[i].state = "queued"
                              /\ jobs' = [jobs EXCEPT ![i].state = "active"]
                              /\ sender' = [sender EXCEPT ![s] = [NoSend EXCEPT !.pc = "load", !.item = i]]
    BY <1>9 DEF Take
  <2>2. i \in Items /\ s # "bot" /\ sender[s].pc = "idle"
    BY <1>9, <2>1 DEF Queue, Items, Take
  <2>3. jobs'[i].state = "active"
    BY <1>1, <2>1, <2>2 DEF TypeOK
  <2>4. sender'[s] = [NoSend EXCEPT !.pc = "load", !.item = i]
    BY <1>1, <2>1
  <2>5. QED
    BY <2>1, <2>2, <2>3, <2>4
<1>10. CASE Stamp(s) \/ Mark(s) \/ Record(s)
  BY <1>4, <1>10 DEF Stamp, Mark, Record
<1>11. CASE Complete(s) \/ SendFails(s)
  BY <1>3, <1>4, <1>11 DEF Complete, SendFails
<1>12. CASE CallFails(s)
  BY <1>1, <1>4, <1>12, ThrowsType DEF CallFails
<1>13. CASE Next
  BY <1>5, <1>6, <1>7, <1>8, <1>9, <1>10, <1>11, <1>12, <1>13 DEF Next, Step
<1>14. QED
  BY <1>2, <1>13 DEF vars

-----------------------------------------------------------------------------
(***************************************************************************)
(* A thread is of one conversation.                                        *)
(***************************************************************************)
LEMMA ThreadStep ==
  ASSUME BaseInv, ThreadNotShared, [Next]_vars
  PROVE  ThreadNotShared'
<1> USE DEF mailbox
<1>1. NoThread \notin split /\ TypeOK
  BY DEF BaseInv, TypeOK, NoThread
<1>2. ASSUME NEW s \in Senders, Stamp(s) PROVE ThreadNotShared'
  BY <1>1, <1>2 DEF Stamp, ThreadNotShared
<1>3. ASSUME NEW th \in fresh, Ingest(th) PROVE ThreadNotShared'
  <2>1. PICK o \in Owners(th) :
          IF o = "ticket" THEN thread' = th /\ UNCHANGED split
          ELSE split' = split \union {th} /\ UNCHANGED thread
    BY <1>3 DEF Ingest
  <2>2. CASE o = "ticket"
    BY <2>1, <2>2 DEF Owners, ThreadNotShared
  <2>3. CASE o # "ticket"
    BY <2>1, <2>3 DEF Owners, ThreadNotShared
  <2>4. QED
    BY <2>2, <2>3
<1>4. CASE UNCHANGED <<thread, split>>
  BY <1>4 DEF ThreadNotShared
<1>5. CASE Next
  <2>1. \/ \E s \in Senders : Stamp(s)
        \/ \E th \in fresh : Ingest(th)
        \/ UNCHANGED <<thread, split>>
    BY <1>5 DEF Next, Step, Activate, Post, BotPost, Take, Load, Send, Mark, Record,
                Complete, SendFails, CallFails, Crash, Answer
  <2>2. QED
    BY <1>2, <1>3, <1>4, <2>1
<1>6. QED
  BY <1>4, <1>5 DEF vars

\* One Gmail thread never belongs to two conversations, in whatever order the
\* senders stamp what they sent and the poller ingests.
THEOREM ThreadStaysOne == Spec => []ThreadNotShared
<1>1. Init => ThreadNotShared
  BY DEF Init, ThreadNotShared
<1>2. BaseInv /\ ThreadNotShared /\ [Next]_vars => ThreadNotShared'
  BY ThreadStep
<1>3. QED
  BY <1>1, <1>2, BaseAlways, PTL DEF Spec

-----------------------------------------------------------------------------
(***************************************************************************)
(* What is on the wire and what the rows say.                              *)
(***************************************************************************)
Sendable(m) == rows[m].kind \notin {"none", "note"}

\* Nobody holds, quotes or has mailed a note or a row that is not written.
KnownInv ==
  /\ \A i \in DOMAIN wire : \A m \in Msgs :
       m = wire[i].item \/ m \in wire[i].quotes => Sendable(m)
  /\ \A s \in Senders : sender[s].pc # "idle" => \A m \in sender[s].quotes \intersect Msgs : Sendable(m)

\* A row that may be mailed may be mailed for ever.
LEMMA StaysSendable ==
  ASSUME BaseInv, [Next]_vars, NEW m \in Msgs, Sendable(m)
  PROVE  Sendable(m)'
BY RowsStep DEF KindsKept, Sendable

\* A sender that has taken an item has read nothing yet.
LEMMA NewWork ==
  ASSUME NEW i
  PROVE  LET new == [NoSend EXCEPT !.pc = "load", !.item = i]
         IN new.pc = "load" /\ new.item = i /\ new.quotes = {} /\ new.mail = NoMail
BY DEF NoSend

LEMMA QuotesStep ==
  ASSUME BaseInv, KnownInv, [Next]_vars, NEW s \in Senders, sender'[s].pc # "idle",
         NEW m \in Msgs, m \in sender'[s].quotes
  PROVE  Sendable(m)'
<1>1. TypeOK
  BY DEF BaseInv
<1>2. CASE sender'[s] = sender[s]
  BY <1>2, StaysSendable DEF KnownInv
<1>3. CASE sender'[s] = NoSend \/ \E i \in Items : sender'[s] = [NoSend EXCEPT !.pc = "load", !.item = i]
  <2>1. sender'[s].quotes = {}
    BY <1>3, NewWork DEF NoSend
  <2>2. QED
    BY <2>1
<1>4. CASE Load(s)
  <2>1. CASE Skips(s)
    <3>1. sender' = [sender EXCEPT ![s] = [sender[s] EXCEPT !.pc = "done"]] /\ sender[s].pc = "load"
      BY <1>4, <2>1 DEF Load
    <3>2. sender'[s].quotes = sender[s].quotes
      BY <1>1, <3>1 DEF TypeOK, Sends
    <3>3. QED
      BY <3>1, <3>2, StaysSendable DEF KnownInv
  <2>2. CASE ~Skips(s)
    <3>1. sender'[s].quotes \subseteq History
      BY <1>1, <1>4, <2>2, LoadMoves
    <3>2. Sendable(m)
      BY <3>1 DEF History, Sendable
    <3>3. QED
      BY <3>2, StaysSendable
  <2>3. QED
    BY <2>1, <2>2
<1>5. CASE Send(s)
  <2>1. sender'[s].quotes = sender[s].quotes /\ sender[s].pc # "idle"
    BY <1>1, <1>5, SendMoves DEF Send
  <2>2. QED
    BY <2>1, StaysSendable DEF KnownInv
<1>6. CASE (Stamp(s) \/ Mark(s) \/ Record(s)) /\ Advance(s)
  <2>1. sender[s].pc # "idle"
    BY <1>6 DEF Stamp, Mark, Record
  <2>2. sender'[s].quotes = sender[s].quotes
    BY <1>1, <1>6 DEF Advance, TypeOK, Sends
  <2>3. QED
    BY <2>1, <2>2, StaysSendable DEF KnownInv
<1>7. QED
  BY <1>2, <1>3, <1>4, <1>5, <1>6, SenderStep

\* A new mail carries the item of its sender and what it quotes.
LEMMA NewMail ==
  ASSUME BaseInv, NEW s \in Senders, Send(s) \/ SendFails(s), Accept(s), NEW i \in DOMAIN wire'
  PROVE  \/ i \in DOMAIN wire /\ wire'[i] = wire[i]
         \/ /\ i = NextMail /\ wire'[i].item = sender[s].item
            /\ wire'[i].quotes = sender[s].quotes
            /\ HoldsItem(s) /\ sender[s].pc = "send"
<1>1. HoldsItem(s) /\ sender[s].pc = "send"
  BY DEF Send, SendFails, BaseInv, WorkInv
<1>2. TypeOK
  BY DEF BaseInv
<1>3. QED
  BY <1>1, <1>2, Accepted

LEMMA KnownStep == ASSUME BaseInv, KnownInv, [Next]_vars PROVE KnownInv'
<1>1. ASSUME NEW i \in DOMAIN wire', NEW m \in Msgs, m = wire'[i].item \/ m \in wire'[i].quotes
      PROVE  Sendable(m)'
  <2>1. CASE i \in DOMAIN wire /\ wire'[i] = wire[i]
    BY <1>1, <2>1, StaysSendable DEF KnownInv
  <2>2. ASSUME NEW s \in Senders, wire'[i].item = sender[s].item, wire'[i].quotes = sender[s].quotes,
               HoldsItem(s), sender[s].pc = "send"
        PROVE  Sendable(m)
    <3>1. CASE m = sender[s].item
      BY <2>2, <3>1, ItemAssumption DEF HoldsItem, Mailed, Sendable, Senders
    <3>2. CASE m \in sender[s].quotes
      BY <2>2, <3>2 DEF KnownInv
    <3>3. QED
      BY <1>1, <2>2, <3>1, <3>2
  <2>3. QED
    BY <1>1, <2>1, <2>2, WireStep, NewMail, StaysSendable
<1>2. \A s \in Senders : sender'[s].pc # "idle" => \A m \in sender'[s].quotes \intersect Msgs : Sendable(m)'
  BY QuotesStep
<1>3. QED
  BY <1>1, <1>2 DEF KnownInv, Sendable

\* The watermark follows the mail.
LEMMA WatermarkStep ==
  ASSUME BaseInv, WatermarkMeansMailed, [Next]_vars
  PROVE  WatermarkMeansMailed'
<1> SUFFICES ASSUME NEW m \in Msgs, rows'[m].emailed
             PROVE  \E i \in DOMAIN wire' : m = wire'[i].item \/ m \in wire'[i].quotes
  BY DEF WatermarkMeansMailed
<1>1. WireKept
  BY WireStep
<1>2. CASE rows[m].emailed
  BY <1>1, <1>2 DEF WatermarkMeansMailed, WireKept
<1>3. ASSUME NEW s \in Senders, Mark(s),
             m \in IF s = "confirm" THEN sender[s].quotes ELSE {sender[s].item}
      PROVE  \E i \in DOMAIN wire' : m = wire'[i].item \/ m \in wire'[i].quotes
  <2>1. HasSent(s)
    BY <1>3 DEF Mark, BaseInv, WorkInv, Sent
  <2>2. QED
    BY <1>1, <1>3, <2>1 DEF HasSent, WireKept
<1>4. QED
  BY <1>2, <1>3, RowsStep

\* A row that is marked as delivered was on the wire, and no note ever is.
THEOREM RowsMatchWire == Spec => []WireMatchesRows
<1> DEFINE Inv == KnownInv /\ WatermarkMeansMailed
<1>1. Init => Inv
  BY DEF Init, KnownInv, WatermarkMeansMailed, NoSend
<1>2. BaseInv /\ Inv /\ [Next]_vars => Inv'
  BY KnownStep, WatermarkStep
<1>3. Inv => WireMatchesRows
  BY DEF KnownInv, WireMatchesRows, NotesStayInside, Sendable
<1> HIDE DEF Inv
<1>4. QED
  BY <1>1, <1>2, <1>3, BaseAlways, PTL DEF Spec

-----------------------------------------------------------------------------
(***************************************************************************)
(* A recorded confirmation is not sent again.                              *)
(***************************************************************************)
MarkedInv == markers # {} => sender["confirm"].pc # "send"

LEMMA MarkedStep == ASSUME BaseInv, MarkedInv, [Next]_vars PROVE MarkedInv'
<1> USE DEF mailbox
<1>1. "confirm" \in Senders /\ TypeOK
  BY DEF Senders, BaseInv
<1>2. ASSUME NEW s \in Senders, Record(s), markers' # markers PROVE sender'["confirm"].pc # "send"
  <2>1. s = "confirm" /\ Advance(s) /\ sender[s].pc = "record"
    BY <1>2 DEF Record
  <2>2. sender[s].pc \in Path(Kind(s))
    BY <1>2, <2>1 DEF BaseInv, WorkInv, OnPath
  <2>3. sender'[s].pc # "send"
    BY <1>1, <1>2, <2>1, <2>2, AdvanceType, AfterStep
  <2>4. QED
    BY <2>1, <2>3
<1>3. markers' = markers \/ \E s \in Senders : Record(s) /\ markers' # markers
  BY DEF Next, Step, Activate, Post, BotPost, Take, Load, Send, Stamp, Mark, vars,
         Complete, SendFails, CallFails, Crash, Answer, Ingest
<1>4. ASSUME markers' = markers, markers # {} PROVE sender'["confirm"].pc # "send"
  <2>1. sender["confirm"].pc # "send"
    BY <1>4 DEF MarkedInv
  <2>2. CASE Load("confirm")
    BY <1>1, <1>4, <2>2, LoadMoves DEF Skips
  <2>3. CASE Advance("confirm") /\ (Stamp("confirm") \/ Mark("confirm") \/ Record("confirm"))
    <3>1. sender["confirm"].pc \in {"stamp", "mark", "record"}
      BY <2>3 DEF Stamp, Mark, Record
    <3>2. sender["confirm"].pc \in Path(Kind("confirm"))
      BY <1>1, <3>1 DEF BaseInv, WorkInv, OnPath
    <3>3. QED
      BY <1>1, <2>3, <3>1, <3>2, AdvanceType, AdvanceMoves
  <2>4. CASE sender'["confirm"] = NoSend
          \/ \E i \in Items : sender'["confirm"] = [NoSend EXCEPT !.pc = "load", !.item = i]
    <3>1. CASE sender'["confirm"] = NoSend
      BY <3>1 DEF NoSend
    <3>2. ASSUME NEW i \in Items, sender'["confirm"] = [NoSend EXCEPT !.pc = "load", !.item = i]
          PROVE  sender'["confirm"].pc = "load"
      BY <3>2, NewWork
    <3>3. QED
      BY <2>4, <3>1, <3>2
  <2>5. ~Send("confirm")
    BY <2>1 DEF Send
  <2>6. QED
    BY <1>1, <2>1, <2>2, <2>3, <2>4, <2>5, SenderStep
<1>5. QED
  BY <1>2, <1>3, <1>4 DEF MarkedInv

\* Once the confirmation_sent row is stored, no retry, crash or failing call makes
\* the worker send the confirmation again.
THEOREM ConfirmedOnce == Spec => ConfirmationStaysSent
<1> DEFINE Once == markers # {} => \A i \in (DOMAIN wire)' \ DOMAIN wire : wire'[i].item # Confirm
<1>1. Init => MarkedInv
  BY DEF Init, MarkedInv
<1>2. BaseInv /\ MarkedInv /\ [Next]_vars => MarkedInv'
  BY MarkedStep
<1>3. BaseInv /\ MarkedInv /\ [Next]_vars => Once
  <2> SUFFICES ASSUME BaseInv, MarkedInv, [Next]_vars, markers # {},
                      NEW i \in DOMAIN wire' \ DOMAIN wire
               PROVE  wire'[i].item # Confirm
    OBVIOUS
  <2>1. PICK s \in Senders : (Send(s) \/ SendFails(s)) /\ Accept(s)
    BY WireStep
  <2>2. wire'[i].item = sender[s].item /\ HoldsItem(s) /\ sender[s].pc = "send"
    BY <2>1, NewMail
  <2>3. s # "confirm"
    BY <2>2 DEF MarkedInv
  <2>4. QED
    BY <2>2, <2>3, ItemAssumption DEF HoldsItem
<1>4. QED
  BY <1>1, <1>2, <1>3, BaseAlways, PTL DEF Spec, ConfirmationStaysSent

-----------------------------------------------------------------------------
(***************************************************************************)
(* While nothing fails, a mail is sent twice only for its ingested copy.   *)
(***************************************************************************)

\* Two senders never hold the same item.
LEMMA ItemsDiffer ==
  ASSUME BaseInv, NEW s \in Senders, NEW z \in Senders, s # z,
         sender[s].pc # "idle", sender[z].pc # "idle"
  PROVE  sender[s].item # sender[z].item
<1>1. HoldsItem(s) /\ HoldsItem(z)
  BY DEF BaseInv, WorkInv
<1>2. QED
  BY <1>1, ItemAssumption DEF HoldsItem, Mailed, Senders

\* A sender that stays at work stays with its item.
LEMMA ItemStep ==
  ASSUME BaseInv, [Next]_vars, NEW s \in Senders, sender[s].pc # "idle", sender'[s].pc # "idle"
  PROVE  sender'[s].item = sender[s].item
<1>1. sender \in [Senders -> Sends] /\ TypeOK
  BY DEF BaseInv, TypeOK
<1>2. CASE Load(s)
  BY <1>1, <1>2, LoadMoves
<1>3. CASE Send(s)
  BY <1>1, <1>3, SendMoves
<1>4. CASE Advance(s)
  BY <1>1, <1>4 DEF Advance, Sends
<1>5. sender'[s] # NoSend
  BY DEF NoSend
<1>6. QED
  BY <1>2, <1>3, <1>4, <1>5, SenderStep

\* Behind its send a sender has rested, has just sent, or has made a call.
LEMMA SentStep ==
  ASSUME BaseInv, [Next]_vars, NEW s \in Senders, Sent(s)'
  PROVE  \/ sender'[s] = sender[s] /\ Sent(s)
         \/ Send(s)
         \/ /\ Stamp(s) \/ Mark(s) \/ Record(s)
            /\ Sent(s) /\ Advance(s) /\ sender[s].pc \in Path(Kind(s))
            /\ sender'[s].pc = StepAfter(s) /\ sender'[s].item = sender[s].item
            /\ sender'[s].mail = sender[s].mail /\ sender'[s].id = sender[s].id
<1>1. sender \in [Senders -> Sends] /\ TypeOK
  BY DEF BaseInv, TypeOK
<1>2. sender'[s].pc \in {"stamp", "mark", "record"}
  BY DEF Sent
<1>3. CASE sender'[s] = sender[s]
  BY <1>2, <1>3 DEF Sent
<1>4. CASE sender'[s] = NoSend
  BY <1>2, <1>4 DEF NoSend
<1>5. ASSUME NEW i \in Items, sender'[s] = [NoSend EXCEPT !.pc = "load", !.item = i] PROVE FALSE
  BY <1>2, <1>5, NewWork
<1>6. CASE Load(s)
  BY <1>1, <1>2, <1>6, LoadMoves
<1>7. CASE (Stamp(s) \/ Mark(s) \/ Record(s)) /\ Advance(s)
  <2>1. sender[s].pc \in {"stamp", "mark", "record"}
    BY <1>7 DEF Stamp, Mark, Record
  <2>2. sender[s].pc \in Path(Kind(s))
    BY <2>1 DEF BaseInv, WorkInv, OnPath
  <2>3. sender'[s].pc = StepAfter(s)
    BY <1>1, <1>7, <2>2, AdvanceType
  <2>4. /\ sender'[s].item = sender[s].item /\ sender'[s].mail = sender[s].mail
        /\ sender'[s].id = sender[s].id
    BY <1>1, <1>7 DEF Advance, Sends
  <2>5. QED
    BY <1>7, <2>1, <2>2, <2>3, <2>4 DEF Sent
<1>8. QED
  BY <1>3, <1>4, <1>5, <1>6, <1>7, SenderStep

\* The stored Message-IDs: only Record stores one, of a reply or of the confirmation.
LEMMA IdsStep ==
  ASSUME BaseInv, [Next]_vars
  PROVE  /\ \A m \in Msgs : \/ rows'[m].id = rows[m].id
                            \/ /\ m = sender["reply"].item /\ rows'[m].id = sender["reply"].id
                               /\ Record("reply") /\ Advance("reply")
         /\ \/ markers' = markers
            \/ /\ markers' = markers \union {sender["confirm"].id}
               /\ Record("confirm") /\ Advance("confirm")
<1> USE DEF mailbox
<1>1. rows \in [Msgs -> [kind : Kinds \union {"none"}, emailed : BOOLEAN, id : 0..Len(wire)]] /\ TypeOK
  BY DEF BaseInv, TypeOK
<1>2. ASSUME NEW s \in Senders, Record(s) PROVE s # "bot"
  <2>1. HoldsItem(s) /\ OnPath(s)
    BY <1>2 DEF Record, BaseInv, WorkInv
  <2>2. s = "bot" => Kind(s) = "botReply"
    BY <2>1 DEF HoldsItem, Kind
  <2>3. QED
    BY <1>2, <2>1, <2>2, OnPathIs DEF OnPathAs, Record
<1>3. ASSUME NEW s \in Senders, Record(s)
      PROVE  /\ UNCHANGED rows \/ /\ s = "reply" /\ Advance(s)
                                  /\ rows' = [rows EXCEPT ![sender[s].item].id = sender[s].id]
             /\ UNCHANGED markers \/ /\ s = "confirm" /\ Advance(s)
                                     /\ markers' = markers \union {sender[s].id}
  BY <1>2, <1>3 DEF Record, Senders
<1>4. ASSUME NEW s \in Senders, Mark(s) PROVE \A m \in Msgs : rows'[m].id = rows[m].id
  BY <1>1, <1>4 DEF Mark
<1>5. ASSUME NEW m \in Unwritten, NEW kind, Write(m, kind) PROVE \A n \in Msgs : rows'[n].id = rows[n].id
  BY <1>1, <1>5 DEF Write, Unwritten
<1>6. \/ UNCHANGED <<rows, markers>>
      \/ UNCHANGED markers /\ \E m \in Unwritten : \E kind \in Kinds : Write(m, kind)
      \/ UNCHANGED markers /\ \E s \in Senders : Mark(s)
      \/ \E s \in Senders : Record(s)
  <2>1. CASE Activate
    BY <2>1 DEF Activate, Kinds
  <2>2. ASSUME NEW m \in Msgs, Post(m) \/ BotPost(m)
        PROVE  UNCHANGED markers /\ \E n \in Unwritten : \E kind \in Kinds : Write(n, kind)
    BY <2>2 DEF Post, BotPost, Kinds
  <2>3. ASSUME NEW s \in Senders, Step(s) \/ SendFails(s) \/ CallFails(s)
        PROVE  UNCHANGED <<rows, markers>> \/ (UNCHANGED markers /\ Mark(s)) \/ Record(s)
    BY <2>3 DEF Step, Take, Load, Send, Stamp, Mark, Complete, SendFails, CallFails
  <2>4. ASSUME Crash \/ (\E i \in DOMAIN wire : Answer(i)) \/ (\E th \in fresh : Ingest(th)) \/ UNCHANGED vars
        PROVE  UNCHANGED <<rows, markers>>
    BY <2>4 DEF Crash, Answer, Ingest, vars
  <2> QED
    BY <2>1, <2>2, <2>3, <2>4 DEF Next
<1>7. ASSUME NEW s \in Senders, Record(s), NEW m \in Msgs
      PROVE  \/ rows'[m].id = rows[m].id
             \/ m = sender["reply"].item /\ rows'[m].id = sender["reply"].id
                /\ Record("reply") /\ Advance("reply")
  <2>1. CASE UNCHANGED rows
    BY <2>1
  <2>2. CASE /\ s = "reply" /\ Advance(s)
             /\ rows' = [rows EXCEPT ![sender[s].item].id = sender[s].id]
    <3>1. CASE m = sender[s].item
      <4>1. rows'[m].id = sender[s].id
        BY <1>1, <2>2, <3>1
      <4>2. Record("reply") /\ Advance("reply")
        BY <1>7, <2>2
      <4>3. QED
        BY <2>2, <3>1, <4>1, <4>2
    <3>2. CASE m # sender[s].item
      BY <1>1, <2>2, <3>2
    <3>3. QED
      BY <3>1, <3>2
  <2>3. QED
    BY <1>3, <1>7, <2>1, <2>2
<1>8. QED
  BY <1>3, <1>4, <1>5, <1>6, <1>7

\* A job: it rests, is queued for what was just written, is taken, or its sender
\* leaves it.
LEMMA JobsStep ==
  ASSUME BaseInv, [Next]_vars, NEW x \in Items
  PROVE  \/ jobs'[x] = jobs[x]
         \/ jobs[x].state = "none" /\ (x \in Msgs => rows[x].kind = "none")
         \/ jobs[x].state = "queued" /\ jobs'[x].state = "active"
         \/ Fault
         \/ \E s \in Senders \ {"bot"} :
              /\ sender[s].pc # "idle" /\ sender[s].item = x
              /\ sender'[s] = NoSend
              /\ \/ jobs'[x].state = "done"
                 \/ Caught(s) /\ (Stamp(s) \/ Record(s)) /\ jobs'[x].state # "none"
<1> USE DEF mailbox
<1>1. TypeOK /\ sender \in [Senders -> Sends] /\ jobs \in [Items -> Jobs]
  BY DEF BaseInv, TypeOK, Jobs
<1>2. ASSUME NEW i \in Items, Enqueue(i), i # x PROVE jobs'[x] = jobs[x]
  BY <1>1, <1>2 DEF Enqueue
<1>3. CASE Activate
  BY <1>2, <1>3, ItemAssumption DEF Activate, Active, Items
<1>4. ASSUME NEW m \in Msgs, Post(m) PROVE jobs'[x] = jobs[x] \/ (jobs[x].state = "none" /\ rows[x].kind = "none" /\ x \in Msgs)
  <2>1. rows[m].kind = "none" /\ jobs[m].state = "none"
    BY <1>4 DEF Post, Unwritten, BaseInv, WorkInv, Mailed
  <2>2. UNCHANGED jobs \/ Enqueue(m)
    BY <1>4 DEF Post
  <2>3. QED
    BY <1>2, <2>1, <2>2 DEF Items
<1>5. ASSUME NEW s \in Senders, Take(s)
      PROVE  jobs'[x] = jobs[x] \/ (jobs[x].state = "queued" /\ jobs'[x].state = "active")
  BY <1>1, <1>5 DEF Take, Queue, Items, Jobs
<1>6. ASSUME NEW s \in Senders, Complete(s), jobs'[x] # jobs[x]
      PROVE  /\ s # "bot" /\ sender[s].pc # "idle" /\ sender[s].item = x
             /\ sender'[s] = NoSend /\ jobs'[x].state = "done"
  BY <1>1, <1>6 DEF Complete, Leave, Sends, Jobs
<1>7. ASSUME NEW s \in Senders, Stamp(s) \/ Record(s), jobs'[x] # jobs[x]
      PROVE  /\ s # "bot" /\ sender[s].pc # "idle" /\ sender[s].item = x
             /\ sender'[s] = NoSend /\ Caught(s) /\ jobs'[x].state # "none"
  <2>1. Caught(s) /\ sender[s].pc # "idle"
    BY <1>7 DEF Stamp, Record
  <2>2. /\ sender' = [sender EXCEPT ![s] = NoSend]
        /\ jobs' = IF s = "bot" THEN jobs ELSE [jobs EXCEPT ![sender[s].item] = Failed(@)]
    BY <1>1, <2>1, CaughtType
  <2>3. s # "bot" /\ sender[s].item = x
    BY <1>1, <1>7, <2>2
  <2>4. jobs'[x] = Failed(jobs[x])
    BY <1>1, <2>2, <2>3
  <2>5. QED
    BY <1>1, <2>1, <2>2, <2>3, <2>4, FailedType
<1>8. ASSUME NEW s \in Senders, Load(s) \/ Send(s) \/ Mark(s) PROVE jobs' = jobs
  BY <1>8 DEF Load, Send, Mark
<1>9. ASSUME Crash \/ \E s \in Senders : SendFails(s) \/ CallFails(s) PROVE Fault
  BY <1>9 DEF Crash, SendFails, CallFails
<1>10. ASSUME \/ \E m \in Msgs : BotPost(m)
              \/ \E i \in DOMAIN wire : Answer(i)
              \/ \E th \in fresh : Ingest(th)
              \/ UNCHANGED vars
       PROVE  jobs' = jobs
  BY <1>10 DEF BotPost, Answer, Ingest, vars
<1>11. CASE \E s \in Senders : Complete(s) \/ Stamp(s) \/ Record(s)
  BY <1>6, <1>7, <1>11
<1>12. CASE Next
  BY <1>3, <1>4, <1>5, <1>8, <1>9, <1>10, <1>11, <1>12 DEF Next, Step
<1>13. QED
  BY <1>10, <1>12

\* An ingested copy, or an ingested thread, of a mail.
Excused(i) == i \in copies \union strays \/ wire[i].thread \in split

\* An item that may still be sent.
Open(x) ==
  \/ jobs[x].state = "queued"
  \/ \E s \in Senders : sender[s].pc \in {"load", "send"} /\ sender[s].item = x

\* A sender at work has its job.
ActiveInv == \A s \in Senders \ {"bot"} : sender[s].pc # "idle" => jobs[sender[s].item].state = "active"

\* Behind the send it knows the Message-ID of the last mail of its item.
LatestInv ==
  \A s \in Senders : Sent(s) =>
    /\ sender[s].id = sender[s].mail
    /\ \A j \in DOMAIN wire : j > sender[s].mail => wire[j].item # sender[s].item

\* A stored Message-ID is that of a mail of the row, or of the confirmation.
IdsInv ==
  /\ \A m \in Msgs : rows[m].id # NoMail => rows[m].id \in DOMAIN wire /\ wire[rows[m].id].item = m
  /\ \A i \in markers : i \in DOMAIN wire /\ wire[i].item = Confirm

\* What is still to be recorded is not stored yet.
UnrecordedInv ==
  /\ Sent("reply") => rows[sender["reply"].item].id # sender["reply"].mail
  /\ sender["confirm"].pc \in {"stamp", "record"} => sender["confirm"].mail \notin markers

\* The confirmation is sent by a job.
ConfirmInv == \A i \in DOMAIN wire : wire[i].item = Confirm => Active

\* The item of a mail that is not excused is not sent again.
ClosedInv == \A i \in DOMAIN wire : Excused(i) \/ ~Open(wire[i].item)

RepeatInv == \A i, j \in DOMAIN wire : i < j /\ wire[i].item = wire[j].item => Excused(i)

CalmInv ==
  /\ ActiveInv /\ LatestInv /\ IdsInv /\ UnrecordedInv
  /\ ConfirmInv /\ ClosedInv /\ RepeatInv

\* Nothing has failed, and nothing fails.
Calm == faults = 0 /\ faults' = 0

LEMMA CalmStep ==
  ASSUME BaseInv, [Next]_vars, faults' = 0
  PROVE  Calm /\ ~Fault
<1> USE DEF mailbox
<1>1. faults \in Nat
  BY BoundAssumption DEF BaseInv, TypeOK
<1>2. ~Fault
  BY <1>1 DEF Fault
<1>3. UNCHANGED faults
  BY <1>2 DEF Next, Step, Activate, Post, BotPost, Enqueue, Take, Load, Send, Stamp, Mark, Record,
        Complete, SendFails, CallFails, Crash, Answer, Ingest, vars
<1>4. QED
  BY <1>2, <1>3 DEF Calm

\* While nothing fails a mail goes on the wire by Send.
LEMMA CalmWire ==
  ASSUME BaseInv, [Next]_vars, ~Fault
  PROVE  UNCHANGED wire \/ \E s \in Senders : Send(s) /\ Accept(s)
BY WireStep DEF SendFails

LEMMA ExcusedStep ==
  ASSUME BaseInv, [Next]_vars, NEW i \in DOMAIN wire, Excused(i)
  PROVE  Excused(i)'
<1> USE DEF mailbox
<1>1. copies \subseteq copies' /\ strays \subseteq strays' /\ split \subseteq split'
  <2>1. ASSUME NEW th \in fresh, Ingest(th)
        PROVE  copies \subseteq copies' /\ strays \subseteq strays' /\ split \subseteq split'
    BY <2>1 DEF Ingest
  <2>2. (\E th \in fresh : Ingest(th)) \/ UNCHANGED <<copies, strays, split>>
    BY DEF Next, Step, Activate, Post, BotPost, Take, Load, Send, Stamp, Mark, Record,
         Complete, SendFails, CallFails, Crash, Answer, vars
  <2>3. QED
    BY <2>1, <2>2
<1>2. wire'[i] = wire[i]
  BY WireStep DEF WireKept
<1>3. QED
  BY <1>1, <1>2 DEF Excused

LEMMA ActiveStep ==
  ASSUME BaseInv, ActiveInv, [Next]_vars, ~Fault
  PROVE  ActiveInv'
<1> SUFFICES ASSUME NEW s \in Senders \ {"bot"}, sender'[s].pc # "idle"
             PROVE  jobs'[sender'[s].item].state = "active"
  BY DEF ActiveInv
<1>1. sender[s].item \in Items /\ sender'[s] # NoSend
  BY DEF BaseInv, TypeOK, Sends, NoSend
<1>2. CASE sender[s].pc # "idle"
  <2>1. sender'[s].item = sender[s].item
    BY <1>2, ItemStep
  <2>2. jobs[sender[s].item].state = "active"
    BY <1>2 DEF ActiveInv
  <2>3. ASSUME NEW z \in Senders, sender[z].pc # "idle", sender[z].item = sender[s].item PROVE z = s
    BY <1>2, <2>3, ItemsDiffer
  <2>4. jobs'[sender[s].item] = jobs[sender[s].item]
    BY <1>1, <2>2, <2>3, JobsStep
  <2>5. QED
    BY <2>1, <2>2, <2>4
<1>3. CASE sender[s].pc = "idle"
  <2>1. ~Load(s) /\ ~Send(s) /\ ~Stamp(s) /\ ~Mark(s) /\ ~Record(s)
    BY <1>3 DEF Load, Send, Stamp, Mark, Record
  <2>2. PICK i \in Items : /\ sender'[s] = [NoSend EXCEPT !.pc = "load", !.item = i]
                           /\ jobs'[i].state = "active"
    BY <1>1, <1>3, <2>1, SenderStep
  <2>3. QED
    BY <2>2, NewWork
<1>4. QED
  BY <1>2, <1>3

LEMMA LatestStep ==
  ASSUME BaseInv, LatestInv, [Next]_vars, ~Fault
  PROVE  LatestInv'
<1> SUFFICES ASSUME NEW s \in Senders, Sent(s)'
             PROVE  /\ sender'[s].id = sender'[s].mail
                    /\ \A j \in DOMAIN wire' : j > sender'[s].mail => wire'[j].item # sender'[s].item
  BY DEF LatestInv
<1>1. TypeOK /\ Len(wire) \in Nat
  BY DEF BaseInv, TypeOK
<1>2. CASE sender'[s] = sender[s] /\ Sent(s)
  <2>1. ASSUME NEW j \in DOMAIN wire', j > sender[s].mail PROVE wire'[j].item # sender[s].item
    <3>1. CASE j \in DOMAIN wire /\ wire'[j] = wire[j]
      BY <1>2, <2>1, <3>1 DEF LatestInv
    <3>2. ASSUME NEW z \in Senders, Send(z), wire'[j].item = sender[z].item
          PROVE  wire'[j].item # sender[s].item
      <4>1. z # s /\ sender[z].pc # "idle" /\ sender[s].pc # "idle"
        BY <1>2, <3>2 DEF Send, Sent
      <4>2. QED
        BY <3>2, <4>1, ItemsDiffer
    <3>3. CASE UNCHANGED wire
      BY <2>1, <3>1, <3>3
    <3>4. QED
      BY <2>1, <3>1, <3>2, <3>3, CalmWire, NewMail
  <2>2. QED
    BY <1>2, <2>1 DEF LatestInv
<1>3. CASE Send(s)
  <2>1. sender'[s].id = NextMail /\ sender'[s].mail = NextMail
    BY <1>1, <1>3, SendMoves
  <2>2. Len(wire') = NextMail /\ DOMAIN wire' = 1..Len(wire')
    BY <1>1, <1>3, Accepted DEF Send
  <2>3. QED
    BY <1>1, <2>1, <2>2 DEF NextMail
<1>4. CASE /\ Stamp(s) \/ Mark(s) \/ Record(s)
           /\ Sent(s) /\ sender'[s].item = sender[s].item
           /\ sender'[s].mail = sender[s].mail /\ sender'[s].id = sender[s].id
  <2>1. UNCHANGED wire
    BY <1>4 DEF Stamp, Mark, Record
  <2>2. QED
    BY <1>4, <2>1 DEF LatestInv
<1>5. QED
  BY <1>2, <1>3, <1>4, SentStep

LEMMA IdsInvStep ==
  ASSUME BaseInv, IdsInv, LatestInv, [Next]_vars
  PROVE  IdsInv'
<1>1. WireKept
  BY WireStep
<1>2. ASSUME NEW s \in Senders, Record(s)
      PROVE  sender[s].id \in DOMAIN wire /\ wire[sender[s].id].item = sender[s].item /\ HoldsItem(s)
  <2>1. HasSent(s) /\ HoldsItem(s) /\ sender[s].id = sender[s].mail
    BY <1>2 DEF Record, BaseInv, WorkInv, LatestInv, Sent
  <2>2. QED
    BY <2>1 DEF HasSent
<1>3. ASSUME NEW m \in Msgs, rows'[m].id # NoMail
      PROVE  rows'[m].id \in DOMAIN wire' /\ wire'[rows'[m].id].item = m
  <2>1. CASE rows'[m].id = rows[m].id
    BY <1>1, <1>3, <2>1 DEF IdsInv, WireKept
  <2>2. CASE m = sender["reply"].item /\ rows'[m].id = sender["reply"].id /\ Record("reply")
    BY <1>1, <1>2, <2>2 DEF WireKept, Senders
  <2>3. QED
    BY <2>1, <2>2, IdsStep
<1>4. ASSUME NEW i \in markers' PROVE i \in DOMAIN wire' /\ wire'[i].item = Confirm
  <2>1. CASE i \in markers
    BY <1>1, <2>1 DEF IdsInv, WireKept
  <2>2. CASE i = sender["confirm"].id /\ Record("confirm")
    BY <1>1, <1>2, <2>2 DEF WireKept, Senders, HoldsItem
  <2>3. QED
    BY <2>1, <2>2, IdsStep
<1>5. QED
  BY <1>3, <1>4 DEF IdsInv

\* What follows a call, for the two workers.
LEMMA WorkerSteps ==
  ASSUME BaseInv, NEW s \in {"confirm", "reply"}, Sent(s)
  PROVE  /\ sender[s].pc = "record" => StepAfter(s) = IF s = "confirm" THEN "mark" ELSE "done"
         /\ sender[s].pc = "mark" /\ s = "confirm" => StepAfter(s) = "done"
<1>1. HoldsItem(s) /\ OnPath(s) /\ s \in Senders
  BY DEF BaseInv, WorkInv, Sent, Senders
<1>2. sender[s].pc \in Path(Kind(s))
  BY <1>1 DEF OnPath, Sent
<1>3. (Kind(s) = "confirmation") <=> (s = "confirm")
  BY <1>1 DEF HoldsItem, Mailed, Kind
<1>4. s = "confirm" => Kind(s) # "agentReply"
  BY <1>3
<1>5. QED
  BY <1>2, <1>3, <1>4, AfterStep

LEMMA UnrecordedStep ==
  ASSUME BaseInv, UnrecordedInv, [Next]_vars
  PROVE  UnrecordedInv'
<1>1. TypeOK /\ Len(wire) \in Nat /\ "reply" \in Senders /\ "confirm" \in Senders
  BY DEF BaseInv, TypeOK, Senders
<1>2. ASSUME Sent("reply")'
      PROVE  rows'[sender'["reply"].item].id # sender'["reply"].mail
  <2>1. ~(Record("reply") /\ Advance("reply"))
    <3> SUFFICES ASSUME Record("reply"), Advance("reply") PROVE FALSE
      OBVIOUS
    <3>1. sender["reply"].pc = "record" /\ Sent("reply")
      BY DEF Record, Sent
    <3>2. StepAfter("reply") = "done" /\ sender["reply"].pc \in Path(Kind("reply"))
      BY <1>1, <3>1, WorkerSteps DEF BaseInv, WorkInv, OnPath
    <3>3. sender'["reply"].pc = "done"
      BY <1>1, <3>2, AdvanceType
    <3>4. QED
      BY <1>2, <3>3 DEF Sent
  <2>2. \A m \in Msgs : rows'[m].id = rows[m].id
    BY <2>1, IdsStep
  <2>3. sender["reply"].pc # "idle" => sender["reply"].item \in Msgs
    BY <1>1 DEF BaseInv, WorkInv, HoldsItem
  <2>4. CASE Send("reply")
    <3>1. sender'["reply"].mail = NextMail /\ sender'["reply"].item = sender["reply"].item
      BY <1>1, <2>4, SendMoves
    <3>2. rows[sender["reply"].item].id \in 0..Len(wire)
      BY <1>1, <2>3, <2>4 DEF Send, TypeOK
    <3>3. rows'[sender["reply"].item].id # NextMail
      BY <1>1, <2>2, <2>3, <2>4, <3>2 DEF Send, NextMail
    <3>4. QED
      BY <3>1, <3>3
  <2>5. CASE /\ Sent("reply") /\ sender'["reply"].item = sender["reply"].item
             /\ sender'["reply"].mail = sender["reply"].mail
    <3>1. sender["reply"].item \in Msgs
      BY <2>3, <2>5 DEF Sent
    <3>2. QED
      BY <2>2, <2>5, <3>1 DEF UnrecordedInv
  <2>6. QED
    BY <1>1, <1>2, <2>4, <2>5, SentStep
<1>3. ASSUME sender'["confirm"].pc \in {"stamp", "record"}
      PROVE  sender'["confirm"].mail \notin markers'
  <2>1. Sent("confirm")'
    BY <1>3 DEF Sent
  <2>2. ASSUME Sent("confirm"), Advance("confirm"), sender["confirm"].pc \in Path(Kind("confirm")),
               sender["confirm"].pc # "stamp"
        PROVE  FALSE
    <3>1. StepAfter("confirm") \in {"mark", "done"}
      BY <2>2, WorkerSteps DEF Sent
    <3>2. sender'["confirm"].pc = StepAfter("confirm")
      BY <1>1, <2>2, AdvanceType
    <3>3. QED
      BY <1>3, <3>1, <3>2
  <2>3. ~(Record("confirm") /\ Advance("confirm"))
    <3> SUFFICES ASSUME Record("confirm"), Advance("confirm") PROVE FALSE
      OBVIOUS
    <3>1. sender["confirm"].pc = "record" /\ Sent("confirm")
      BY DEF Record, Sent
    <3>2. sender["confirm"].pc \in Path(Kind("confirm"))
      BY <1>1, <3>1 DEF BaseInv, WorkInv, OnPath
    <3>3. QED
      BY <2>2, <3>1, <3>2
  <2>4. markers' = markers
    BY <2>3, IdsStep
  <2>5. CASE sender'["confirm"] = sender["confirm"]
    BY <1>3, <2>4, <2>5 DEF UnrecordedInv
  <2>6. CASE Send("confirm")
    <3>1. sender'["confirm"].mail = NextMail /\ markers \subseteq 0..Len(wire)
      BY <1>1, <2>6, SendMoves DEF TypeOK
    <3>2. QED
      BY <1>1, <2>4, <3>1 DEF NextMail
  <2>7. CASE /\ Sent("confirm") /\ Advance("confirm") /\ sender["confirm"].pc \in Path(Kind("confirm"))
             /\ sender'["confirm"].mail = sender["confirm"].mail
    BY <2>2, <2>4, <2>7 DEF UnrecordedInv
  <2>8. QED
    BY <1>1, <2>1, <2>5, <2>6, <2>7, SentStep
<1>4. QED
  BY <1>2, <1>3 DEF UnrecordedInv

LEMMA ConfirmStep ==
  ASSUME BaseInv, ActiveInv, ConfirmInv, [Next]_vars, ~Fault
  PROVE  ConfirmInv'
<1> SUFFICES ASSUME NEW i \in DOMAIN wire', wire'[i].item = Confirm
             PROVE  jobs'[Confirm].state # "none"
  BY DEF ConfirmInv, Active
<1>1. Confirm \in Items
  BY DEF Items
<1>2. jobs[Confirm].state # "none"
  <2>1. CASE i \in DOMAIN wire /\ wire'[i] = wire[i]
    BY <2>1 DEF ConfirmInv, Active
  <2>2. ASSUME NEW s \in Senders, wire'[i].item = sender[s].item, HoldsItem(s), sender[s].pc = "send"
        PROVE  jobs[Confirm].state # "none"
    <3>1. s = "confirm"
      BY <2>2, ItemAssumption DEF HoldsItem
    <3>2. QED
      BY <2>2, <3>1 DEF ActiveInv, Senders
  <2>3. CASE UNCHANGED wire
    BY <2>1, <2>3
  <2>4. QED
    BY <2>1, <2>2, <2>3, CalmWire, NewMail
<1>3. QED
  BY <1>1, <1>2, JobsStep

\* Only an ingested copy or thread sends a sender back after it has sent.
LEMMA CaughtExcuse ==
  ASSUME BaseInv, CalmInv, NEW s \in Senders \ {"bot"}, Caught(s), Stamp(s) \/ Record(s),
         sender'[s] = NoSend
  PROVE  Excused(sender[s].mail) /\ Sent(s)
<1>1. /\ Sent(s) /\ HasSent(s) /\ HoldsItem(s) /\ OnPath(s) /\ sender[s].id = sender[s].mail
      /\ TypeOK /\ sender \in [Senders -> Sends]
  BY DEF Stamp, Record, Sent, BaseInv, WorkInv, CalmInv, LatestInv, TypeOK
<1>2. ~Advance(s)
  <2>1. sender[s].pc \in Path(Kind(s))
    BY <1>1 DEF OnPath, Sent
  <2>2. Advance(s) => sender'[s].pc \in {"stamp", "mark", "record", "done"}
    BY <1>1, <2>1, AdvanceType, AdvanceMoves, PathOf
  <2>3. sender'[s].pc = "idle"
    BY DEF NoSend
  <2>4. QED
    BY <2>2, <2>3
<1>3. CASE Stamp(s)
  BY <1>1, <1>2, <1>3 DEF Stamp, Excused
<1>4. CASE Record(s)
  <2>1. sender[s].mail \in Held /\ sender[s].pc = "record"
    BY <1>1, <1>2, <1>4 DEF Record
  <2>2. ASSUME NEW m \in Msgs, rows[m].id = sender[s].mail PROVE FALSE
    <3>1. wire[sender[s].mail].item = m
      BY <2>1, <2>2 DEF CalmInv, IdsInv, Held
    <3>2. sender[s].item = m /\ s = "reply"
      BY <1>1, <3>1, ItemAssumption DEF HasSent, HoldsItem, Senders
    <3>3. QED
      BY <1>1, <2>2, <3>2 DEF CalmInv, UnrecordedInv
  <2>3. sender[s].mail \notin markers
    <3>1. CASE s = "confirm"
      BY <2>1, <3>1 DEF CalmInv, UnrecordedInv
    <3>2. CASE s # "confirm"
      <4>1. wire[sender[s].mail].item # Confirm
        BY <1>1, <3>2, ItemAssumption DEF HasSent, HoldsItem, Senders
      <4>2. QED
        BY <4>1 DEF CalmInv, IdsInv
    <3>3. QED
      BY <3>1, <3>2
  <2>4. QED
    BY <1>1, <2>1, <2>2, <2>3 DEF Held, Stored, Excused
<1>5. QED
  BY <1>1, <1>3, <1>4

\* A mail of the item of a sender behind its send, when that sender's is excused.
LEMMA MailsExcused ==
  ASSUME BaseInv, CalmInv, NEW s \in Senders, Sent(s), Excused(sender[s].mail),
         NEW i \in DOMAIN wire, wire[i].item = sender[s].item
  PROVE  Excused(i)
<1>1. HasSent(s) /\ DOMAIN wire = 1..Len(wire) /\ Len(wire) \in Nat
  <2>1. HasSent(s)
    BY DEF BaseInv, WorkInv, Sent
  <2>2. QED
    BY <2>1, WireType DEF BaseInv
<1>2. ~(i > sender[s].mail)
  BY DEF CalmInv, LatestInv
<1>3. CASE i = sender[s].mail
  BY <1>3
<1>4. CASE i < sender[s].mail
  BY <1>1, <1>4 DEF CalmInv, RepeatInv, HasSent
<1>5. QED
  BY <1>1, <1>2, <1>3, <1>4 DEF HasSent

\* An item is not open after the step.
ClosesAs(x) ==
  /\ jobs'[x].state # "queued"
  /\ \A s \in Senders : sender'[s].pc \in {"load", "send"} => sender'[s].item # x

\* The item of a mail that is not excused stays closed: what is opened was not on
\* the wire, or all its mails are excused.
LEMMA OpenStep ==
  ASSUME BaseInv, KnownInv, CalmInv, [Next]_vars, ~Fault,
         NEW i \in DOMAIN wire, ~Excused(i), ~Open(wire[i].item)
  PROVE  ClosesAs(wire[i].item)
<1> DEFINE x == wire[i].item
<1>1. /\ x \in Items
      /\ x \in Msgs => rows[x].kind # "none"
      /\ x = Confirm => jobs[Confirm].state # "none"
  <2>1. x \in Items
    BY WireType DEF Mails, BaseInv
  <2>2. QED
    BY <2>1 DEF KnownInv, Sendable, CalmInv, ConfirmInv, Active
<1>2. x \in Msgs \/ x = Confirm
  BY <1>1 DEF Items
<1>3. wire[i].item = x
  OBVIOUS
<1> HIDE DEF x
<1>4. jobs[x].state # "queued" /\ \A s \in Senders : sender[s].item = x => sender[s].pc \notin {"load", "send"}
  BY <1>3 DEF Open
<1>5. jobs'[x].state # "queued"
  <2>1. ASSUME NEW s \in Senders \ {"bot"}, sender[s].item = x, sender'[s] = NoSend,
               Caught(s), Stamp(s) \/ Record(s)
        PROVE  FALSE
    <3>1. Excused(sender[s].mail) /\ Sent(s)
      BY <2>1, CaughtExcuse
    <3>2. QED
      BY <1>3, <2>1, <3>1, MailsExcused
  <2>2. ~(jobs[x].state = "none" /\ (x \in Msgs => rows[x].kind = "none"))
    BY <1>1, <1>2
  <2>3. QED
    BY <1>1, <1>4, <2>1, <2>2, JobsStep
<1>6. ASSUME NEW s \in Senders, sender'[s].item = x, sender'[s].pc \in {"load", "send"} PROVE FALSE
  <2>1. TypeOK /\ sender[s] \in Sends
    BY DEF BaseInv, TypeOK
  <2>2. CASE sender'[s] = sender[s]
    BY <1>4, <1>6, <2>2
  <2>3. CASE sender'[s] = NoSend
    BY <1>6, <2>3 DEF NoSend
  <2>4. ASSUME NEW n \in Items, sender'[s] = [NoSend EXCEPT !.pc = "load", !.item = n],
               IF s = "bot" THEN n \in Msgs /\ rows[n].kind = "none" ELSE jobs[n].state = "queued"
        PROVE  FALSE
    <3>1. n = x
      BY <1>6, <2>4, NewWork
    <3>2. QED
      BY <1>1, <1>4, <2>4, <3>1
  <2>5. CASE Load(s)
    <3>1. sender'[s].item = sender[s].item /\ sender[s].pc = "load"
      BY <2>1, <2>5, LoadMoves DEF Load
    <3>2. QED
      BY <1>4, <1>6, <3>1
  <2>6. CASE Send(s)
    <3>1. sender'[s].item = sender[s].item /\ sender[s].pc = "send"
      BY <2>1, <2>6, SendMoves DEF Send
    <3>2. QED
      BY <1>4, <1>6, <3>1
  <2>7. CASE (Stamp(s) \/ Mark(s) \/ Record(s)) /\ Advance(s)
    <3>1. sender[s].pc \in {"stamp", "mark", "record"}
      BY <2>7 DEF Stamp, Mark, Record
    <3>2. sender[s].pc \in Path(Kind(s))
      BY <3>1 DEF BaseInv, WorkInv, OnPath
    <3>3. sender'[s].pc = StepAfter(s) /\ StepAfter(s) \in {"stamp", "mark", "record", "done"}
      BY <2>1, <2>7, <3>2, AdvanceType, AdvanceMoves, PathOf
    <3>4. QED
      BY <1>6, <3>3
  <2>8. QED
    BY <2>2, <2>3, <2>4, <2>5, <2>6, <2>7, SenderStep
<1>7. QED
  BY <1>3, <1>5, <1>6 DEF ClosesAs

\* The item of a mail that is sent was open, and is not any more.
LEMMA SentCloses ==
  ASSUME BaseInv, CalmInv, NEW s \in Senders, Send(s)
  PROVE  Open(sender[s].item) /\ ClosesAs(sender[s].item)
<1>1. /\ TypeOK /\ HoldsItem(s) /\ OnPath(s) /\ sender[s].pc = "send" /\ sender[s].item \in Items
  BY DEF Send, BaseInv, WorkInv, TypeOK, Sends
<1>2. /\ sender'[s].pc = "stamp" /\ jobs' = jobs
      /\ \A z \in Senders : z # s => sender'[z] = sender[z]
  BY <1>1, SendMoves, AfterStep DEF Send, OnPath
<1>3. jobs[sender[s].item].state # "queued"
  <2>1. CASE s = "bot"
    BY <1>1, <2>1 DEF HoldsItem, BaseInv, WorkInv, Mailed
  <2>2. CASE s # "bot"
    BY <1>1, <2>2 DEF CalmInv, ActiveInv
  <2>3. QED
    BY <2>1, <2>2
<1>4. ASSUME NEW z \in Senders, sender'[z].pc \in {"load", "send"}
      PROVE  sender'[z].item # sender[s].item
  BY <1>1, <1>2, <1>4, ItemsDiffer
<1>5. ClosesAs(sender[s].item)
  BY <1>2, <1>3, <1>4 DEF ClosesAs
<1>6. QED
  BY <1>1, <1>5 DEF Open

LEMMA ClosedStep ==
  ASSUME BaseInv, KnownInv, CalmInv, [Next]_vars, ~Fault
  PROVE  ClosedInv'
<1>1. ASSUME NEW i \in DOMAIN wire', ~Excused(i)' PROVE ClosesAs(wire'[i].item)
  <2>1. CASE i \in DOMAIN wire /\ wire'[i] = wire[i]
    <3>1. ~Excused(i) /\ ~Open(wire[i].item)
      BY <1>1, <2>1, ExcusedStep DEF CalmInv, ClosedInv
    <3>2. ClosesAs(wire[i].item)
      BY <2>1, <3>1, OpenStep
    <3>3. QED
      BY <2>1, <3>2
  <2>2. CASE UNCHANGED wire
    BY <1>1, <2>1, <2>2
  <2>3. ASSUME NEW s \in Senders, Send(s), wire'[i].item = sender[s].item
        PROVE  ClosesAs(wire'[i].item)
    BY <2>3, SentCloses
  <2>4. QED
    BY <1>1, <2>1, <2>2, <2>3, CalmWire, NewMail
<1>2. QED
  BY <1>1 DEF ClosedInv, Open, ClosesAs

LEMMA RepeatStep ==
  ASSUME BaseInv, CalmInv, [Next]_vars, ~Fault
  PROVE  RepeatInv'
<1> SUFFICES ASSUME NEW i \in DOMAIN wire', NEW j \in DOMAIN wire',
                    i < j, wire'[i].item = wire'[j].item
             PROVE  Excused(i)'
  BY DEF RepeatInv
<1>1. Len(wire) \in Nat /\ DOMAIN wire = 1..Len(wire) /\ TypeOK
  BY WireType DEF BaseInv
<1>2. ASSUME i \in DOMAIN wire, j \in DOMAIN wire, wire'[i] = wire[i], wire'[j] = wire[j]
      PROVE  Excused(i)'
  BY <1>2, ExcusedStep DEF CalmInv, RepeatInv
<1>3. CASE UNCHANGED wire
  BY <1>2, <1>3
<1>4. ASSUME NEW s \in Senders, Send(s), Accept(s) PROVE Excused(i)'
  <2>1. \A n \in DOMAIN wire' : n \in 1..NextMail
    BY <1>1, <1>4, Accepted
  <2>2. i \in DOMAIN wire /\ wire'[i] = wire[i]
    <3>1. i # NextMail
      BY <1>1, <2>1 DEF NextMail
    <3>2. QED
      BY <1>4, <3>1, NewMail
  <2>3. CASE j \in DOMAIN wire /\ wire'[j] = wire[j]
    BY <1>2, <2>2, <2>3
  <2>4. CASE wire'[j].item = sender[s].item
    <3>1. Open(wire[i].item)
      BY <1>4, <2>2, <2>4, SentCloses
    <3>2. QED
      BY <2>2, <3>1, ExcusedStep DEF CalmInv, ClosedInv
  <2>5. QED
    BY <1>4, <2>3, <2>4, NewMail
<1>5. QED
  BY <1>3, <1>4, CalmWire

\* While nothing fails, a message is mailed twice only when its sent copy was
\* ingested before the sender could store the Message-ID, or when its thread was.
THEOREM RepeatsHaveCopies == Spec => []DuplicateNeedsCopy
<1> DEFINE Inv == KnownInv /\ (faults = 0 => CalmInv)
<1>1. Init => Inv
  BY DEF Init, KnownInv, CalmInv, ActiveInv, LatestInv, IdsInv, UnrecordedInv, ConfirmInv,
         ClosedInv, RepeatInv, NoSend, Sent, Senders
<1>2. BaseInv /\ Inv /\ [Next]_vars => Inv'
  <2> SUFFICES ASSUME BaseInv, Inv, [Next]_vars PROVE Inv'
    OBVIOUS
  <2>1. KnownInv'
    BY KnownStep
  <2>2. ASSUME faults' = 0 PROVE CalmInv'
    <3>1. CalmInv /\ ~Fault
      BY <2>2, CalmStep DEF Calm
    <3>2. ActiveInv' /\ LatestInv' /\ IdsInv' /\ UnrecordedInv'
      BY <3>1, ActiveStep, LatestStep, IdsInvStep, UnrecordedStep DEF CalmInv
    <3>3. ConfirmInv' /\ ClosedInv' /\ RepeatInv'
      BY <3>1, ConfirmStep, ClosedStep, RepeatStep DEF CalmInv
    <3>4. QED
      BY <3>2, <3>3 DEF CalmInv
  <2>3. QED
    BY <2>1, <2>2
<1>3. Inv => DuplicateNeedsCopy
  BY DEF CalmInv, RepeatInv, Excused, DuplicateNeedsCopy
<1> HIDE DEF Inv
<1>4. QED
  BY <1>1, <1>2, <1>3, BaseAlways, PTL DEF Spec
=============================================================================
