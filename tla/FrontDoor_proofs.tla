--------------------------- MODULE FrontDoor_proofs ---------------------------
(***************************************************************************)
(* Proofs about FrontDoor, for any tabs, links, files and bounds: what a   *)
(* customer does once happens twice, or is missing, for the named causes   *)
(* only, and the variables keep their types.  The account and the form     *)
(* share no variable, so each has an inductive invariant of its own.       *)
(***************************************************************************)
EXTENDS FrontDoor, TLAPS, FiniteSetTheorems

-----------------------------------------------------------------------------
(***************************************************************************)
(* The form for a new ticket.                                              *)
(***************************************************************************)
Callings   == {"none", "guest", "upload", "create"}
FormSteps  == {"idle", "sent", "stored", "made", "answered", "refused", "lost"}
Attachment == [paper : Papers \ TooBig, ticket : Nat]
FormRow    == [papers : SUBSET Papers, calling : Callings, step : FormSteps, plan : SUBSET Papers, got : SUBSET Nat, shown : Nat,
               tries : Nat, confirmed : Nat, late : SUBSET Papers, missed : SUBSET Papers]

FormShape ==
  /\ form \in FormRow /\ form.got \subseteq DOMAIN rows
  /\ rows \in Seq(Attachment)
  /\ tickets \in Nat /\ objects \in Nat /\ failures \in Nat

\* Where the handler is: which request it awaits says what is still to upload, and
\* a confirmed form awaits nothing.
FormPlace ==
  /\ form.calling = "none" <=> form.step = "idle"
  /\ form.step = "stored" => form.calling = "upload" /\ Takes(Now)
  /\ form.step = "made" => form.calling = "create"
  /\ form.calling = "upload" => form.plan # {}
  /\ form.calling = "create" => form.plan = {}
  /\ form.shown > 0 => form.calling = "none"

\* The ticket of this attempt is not created yet; it is created and not confirmed.
Unmade == form.calling \in {"guest", "upload"} \/ At("create", "sent")
Owed   == form.calling = "create" /\ form.step \in {"made", "answered"}

\* An attempt creates one ticket, and one that is not confirmed has failed since.
FormCounts ==
  /\ form.tries <= MaxForms /\ failures <= MaxFailures
  /\ tickets <= form.tries /\ form.confirmed <= form.tries /\ form.shown <= tickets
  /\ Unmade => tickets < form.tries
  /\ form.calling # "none" => form.confirmed < form.tries
  /\ tickets <= form.confirmed + failures + (IF Owed THEN 1 ELSE 0)

FileRows == {i \in DOMAIN rows : rows[i].paper \notin Links}
FormObjects == Cardinality(FileRows) + (IF At("upload", "stored") THEN 1 ELSE 0) <= objects

\* A paper of the form is still to upload, or among the rows the handler holds; and
\* those rows are nobody's until the ticket is made, then the new ticket's.
FormClaims ==
  /\ \A i \in DOMAIN rows : rows[i].ticket <= tickets
  /\ form.calling # "none" =>
       \A p \in form.papers \ (form.late \union form.missed) :
         p \in form.plan \/ \E i \in form.got : rows[i].paper = p
  /\ At("upload", "answered") => \E i \in form.got : rows[i].paper = Now
  /\ Unmade => \A i \in form.got : rows[i].ticket = 0
  /\ Owed => \A i \in form.got : rows[i].ticket = tickets

FormInv == FormShape /\ FormPlace /\ FormCounts /\ FormObjects /\ FormClaims /\ MissingHasCause


\* What is uploaded next is one of the papers still to upload.
NowOf(plan) == CHOOSE p \in plan : p \in Links => plan \subseteq Links

LEMMA NowIsPlanned == ASSUME form.plan # {} PROVE Now \in form.plan
<1>1. CASE form.plan \subseteq Links
  BY <1>1 DEF Now
<1>2. CASE ~(form.plan \subseteq Links)
  <2>1. PICK p \in form.plan : p \notin Links
    BY <1>2
  <2>2. \E q \in form.plan : q \in Links => form.plan \subseteq Links
    BY <2>1
  <2>3. QED
    BY <2>2 DEF Now
<1>3. QED
  BY <1>1, <1>2

LEMMA NowFollowsPlan == ASSUME form'.plan = form.plan PROVE Now' = Now
<1>1. Now = NowOf(form.plan) /\ Now' = NowOf(form'.plan)
  BY DEF Now, NowOf
<1>2. QED
  BY <1>1

LEMMA FormStarts == ASSUME FormInit PROVE FormInv
<1>1. FormShape
  BY DEF FormInit, FormShape, FormRow, Blank, Callings, FormSteps
<1>2. FormPlace
  BY DEF FormInit, FormPlace, Blank
<1>3. FormCounts
  BY FormAssumption DEF FormInit, FormCounts, Blank, Unmade, Owed, At
<1>4. FormObjects
  <2>1. FileRows = {}
    BY DEF FormInit, FileRows
  <2>2. QED
    BY <2>1, FS_EmptySet DEF FormInit, FormObjects, Blank, At
<1>5. FormClaims /\ MissingHasCause
  BY DEF FormInit, FormClaims, MissingHasCause, Blank, Unmade, Owed, At
<1>6. QED
  BY <1>1, <1>2, <1>3, <1>4, <1>5 DEF FormInv

\* The request goes on, and nothing else of the page changes.
LEMMA ComesKeeps ==
  ASSUME FormShape, NEW s \in FormSteps, Comes(s)
  PROVE  /\ form' \in FormRow /\ form'.step = s /\ Now' = Now
         /\ form'.papers = form.papers /\ form'.calling = form.calling /\ form'.plan = form.plan /\ form'.got = form.got
         /\ form'.shown = form.shown /\ form'.tries = form.tries /\ form'.confirmed = form.confirmed
         /\ form'.late = form.late /\ form'.missed = form.missed
<1>1. form' = [form EXCEPT !.step = s] /\ form \in FormRow
  BY DEF Comes, FormShape
<1>2. /\ form' \in FormRow /\ form'.step = s
      /\ form'.papers = form.papers /\ form'.calling = form.calling /\ form'.plan = form.plan /\ form'.got = form.got
      /\ form'.shown = form.shown /\ form'.tries = form.tries /\ form'.confirmed = form.confirmed
      /\ form'.late = form.late /\ form'.missed = form.missed
  BY <1>1 DEF FormRow
<1>3. QED
  BY <1>2, NowFollowsPlan

\* While the rows stand, so does the number of files among them.
LEMMA SameFiles == ASSUME rows' = rows PROVE FileRows' = FileRows
BY DEF FileRows

\* The customer adds and removes papers.
LEMMA PapersKept ==
  ASSUME FormInv, NEW p \in Papers, AddPaper(p) \/ RemovePaper(p)
  PROVE  FormInv'
<1> USE DEF FormInv
<1>1. UNCHANGED <<rows, tickets, objects, failures>>
  BY DEF AddPaper, RemovePaper
<1>2. /\ form' \in FormRow
      /\ form'.calling = form.calling /\ form'.step = form.step /\ form'.plan = form.plan /\ form'.got = form.got
      /\ form'.shown = form.shown /\ form'.tries = form.tries /\ form'.confirmed = form.confirmed /\ form'.missed = form.missed
      /\ \A q \in form'.papers : q \in form.papers \/ (Busy => q \in form'.late)
      /\ form.late \subseteq form'.late
  <2>1. CASE AddPaper(p)
    <3> DEFINE late == IF Busy THEN form.late \union {p} ELSE form.late
    <3>1. late \subseteq Papers /\ form.papers \union {p} \subseteq Papers /\ form.late \subseteq late /\ (Busy => p \in late)
      BY DEF FormShape, FormRow
    <3>2. form' = [form EXCEPT !.papers = @ \union {p}, !.late = late]
      BY <2>1 DEF AddPaper
    <3> HIDE DEF late
    <3>3. QED
      BY <3>1, <3>2 DEF FormShape, FormRow
  <2>2. CASE RemovePaper(p)
    BY <2>2 DEF RemovePaper, FormShape, FormRow
  <2>3. QED
    BY <2>1, <2>2
<1>3. Now' = Now
  BY <1>2, NowFollowsPlan
<1>4. form.shown = 0
  BY DEF AddPaper, RemovePaper, Filling
<1>5. FormShape' /\ FormPlace'
  BY <1>1, <1>2, <1>3 DEF FormShape, FormPlace, Takes
<1>6. FormCounts' /\ FormObjects'
  BY <1>1, <1>2, SameFiles DEF FormCounts, FormObjects, Unmade, Owed, At
<1>7. FormClaims'
  BY <1>1, <1>2, <1>3 DEF FormClaims, Unmade, Owed, At, Busy
<1>8. MissingHasCause'
  BY <1>2, <1>4 DEF MissingHasCause
<1>9. QED
  BY <1>5, <1>6, <1>7, <1>8


\* The button begins an attempt with nothing in hand.
LEMMA PressKept == ASSUME FormInv, PressSubmit PROVE FormInv'
<1> USE DEF FormInv
<1> DEFINE next == IF "guest" \in story THEN "guest" ELSE Ahead(form.papers)
<1>1. UNCHANGED <<rows, tickets, objects, failures>>
  BY DEF PressSubmit
<1>2. /\ next \in Callings \ {"none"}
      /\ next = "upload" => form.papers # {}
      /\ next = "create" => form.papers = {}
  BY DEF Ahead, Callings
<1> DEFINE all == form.papers
           n   == form.tries + 1
<1>3. /\ form' = [form EXCEPT !.calling = next, !.step = "sent", !.plan = all, !.got = {}, !.tries = n, !.late = {}, !.missed = {}]
      /\ all \subseteq Papers /\ n \in Nat /\ {} \subseteq Nat /\ form \in FormRow
  BY DEF PressSubmit, FormShape, FormRow
<1> HIDE DEF next, all, n
<1>4. /\ form' \in FormRow
      /\ form'.calling = next /\ form'.step = "sent" /\ form'.plan = form'.papers /\ form'.got = {}
      /\ form'.shown = form.shown /\ form'.tries = form.tries + 1 /\ form'.confirmed = form.confirmed
      /\ form'.papers = form.papers
  <2>1. /\ form' \in FormRow
        /\ form'.calling = next /\ form'.step = "sent" /\ form'.plan = all /\ form'.got = {} /\ form'.tries = n
        /\ form'.shown = form.shown /\ form'.confirmed = form.confirmed /\ form'.papers = form.papers
    BY <1>2, <1>3 DEF FormRow, FormSteps
  <2>2. QED
    BY <2>1 DEF all, n
<1>5. form.shown = 0 /\ form.calling = "none" /\ form.tries < MaxForms
  BY DEF PressSubmit, Filling, Busy
<1>6. FormShape' /\ FormPlace'
  BY <1>1, <1>2, <1>4, <1>5 DEF FormShape, FormPlace, Callings
<1>7. FormCounts' /\ FormObjects'
  <2>1. form.tries \in Nat /\ tickets \in Nat /\ form.confirmed \in Nat /\ MaxForms \in Nat /\ failures \in Nat /\ MaxFailures \in Nat
    BY FormAssumption DEF FormShape, FormRow
  <2>2. FormCounts'
    BY <1>1, <1>4, <1>5, <2>1 DEF FormCounts, Owed
  <2>3. At("upload", "stored") = FALSE /\ At("upload", "stored")' = FALSE
    BY <1>4, <1>5 DEF At
  <2>4. QED
    BY <1>1, <2>2, <2>3, SameFiles DEF FormObjects
<1>8. FormClaims'
  BY <1>1, <1>4 DEF FormClaims, Owed, At
<1>9. MissingHasCause'
  BY <1>4, <1>5 DEF MissingHasCause
<1>10. QED
  BY <1>6, <1>7, <1>8, <1>9

\* "Submit another" shows an empty form.
LEMMA AnotherKept == ASSUME FormInv, SubmitAnother PROVE FormInv'
<1> USE DEF FormInv
<1>1. UNCHANGED <<rows, tickets, objects, failures>>
  BY DEF SubmitAnother
<1>2. /\ form' \in FormRow /\ form'.calling = "none" /\ form'.step = "idle" /\ form'.got = {} /\ form'.shown = 0
      /\ form'.tries = form.tries /\ form'.confirmed = form.confirmed
  BY DEF SubmitAnother, Blank, FormShape, FormRow, Callings, FormSteps
<1>3. form.calling = "none"
  BY DEF SubmitAnother, FormPlace
<1>4. FormShape' /\ FormPlace' /\ FormClaims' /\ MissingHasCause'
  BY <1>1, <1>2 DEF FormShape, FormPlace, FormClaims, MissingHasCause, Unmade, Owed, At
<1>5. FormCounts' /\ FormObjects'
  BY <1>1, <1>2, <1>3, SameFiles DEF FormCounts, FormObjects, Unmade, Owed, At, FormShape
<1>6. QED
  BY <1>4, <1>5

\* The API's steps that write no row: the guest's token, the object of a file, the
\* activation, and whatever fails.
LEMMA ApiKept ==
  ASSUME FormInv, ServeGuest \/ StoresObject \/ Activates \/ \E how \in {"refused", "lost"} : FormCallFails(how)
  PROVE  FormInv'
<1> USE DEF FormInv
<1>1. PICK s \in FormSteps :
        /\ Comes(s) /\ UNCHANGED <<rows, tickets>>
        /\ \/ form.calling = "guest" /\ form.step = "sent" /\ s = "answered" /\ UNCHANGED <<objects, failures>>
           \/ form.calling = "upload" /\ form.step = "sent" /\ s = "stored" /\ Takes(Now) /\ objects' = objects + 1 /\ UNCHANGED failures
           \/ form.calling = "upload" /\ form.step = "sent" /\ s = "refused" /\ UNCHANGED <<objects, failures>>
           \/ form.calling = "create" /\ form.step = "made" /\ s = "answered" /\ UNCHANGED <<objects, failures>>
           \/ /\ form.step \in {"sent", "stored", "made", "answered"} /\ s \in {"refused", "lost"}
              /\ failures < MaxFailures /\ failures' = failures + 1 /\ UNCHANGED objects
  <2>1. CASE ServeGuest
    BY <2>1 DEF ServeGuest, At, FormSteps
  <2>2. CASE StoresObject
    BY <2>2 DEF StoresObject, At, FormSteps
  <2>3. CASE Activates
    BY <2>3 DEF Activates, At, FormSteps
  <2>4. CASE \E how \in {"refused", "lost"} : FormCallFails(how)
    BY <2>4 DEF FormCallFails, FormSteps
  <2>5. QED
    BY <2>1, <2>2, <2>3, <2>4
<1>2. /\ form' \in FormRow /\ form'.step = s /\ Now' = Now
      /\ form'.papers = form.papers /\ form'.calling = form.calling /\ form'.plan = form.plan /\ form'.got = form.got
      /\ form'.shown = form.shown /\ form'.tries = form.tries /\ form'.confirmed = form.confirmed
      /\ form'.late = form.late /\ form'.missed = form.missed
  BY <1>1, ComesKeeps
<1>3. form.tries \in Nat /\ tickets \in Nat /\ form.confirmed \in Nat /\ MaxForms \in Nat /\ failures \in Nat /\ MaxFailures \in Nat /\ objects \in Nat
  BY FormAssumption DEF FormShape, FormRow
<1>4. FormShape' /\ FormPlace'
  BY <1>1, <1>2, <1>3 DEF FormShape, FormPlace, Takes
<1>5. FormCounts'
  <2>1. Unmade' => Unmade
    BY <1>1, <1>2 DEF Unmade, At
  <2>2. \/ Owed' = Owed /\ failures' = failures
        \/ failures' = failures + 1 /\ failures < MaxFailures
    BY <1>1, <1>2 DEF Owed
  <2>3. QED
    BY <1>1, <1>2, <1>3, <2>1, <2>2 DEF FormCounts
<1>6. FormObjects'
  <2>1. FileRows' = FileRows
    BY <1>1, SameFiles
  <2>2. \/ objects' = objects + 1 /\ ~At("upload", "stored")
        \/ objects' = objects /\ ~At("upload", "stored")'
    BY <1>1, <1>2 DEF At
  <2>3. Cardinality(FileRows) \in Nat
    <3>1. IsFiniteSet(DOMAIN rows)
      BY FS_Interval DEF FormShape
    <3>2. QED
      BY <3>1, FS_Subset, FS_CardinalityType DEF FileRows
  <2>4. QED
    BY <1>3, <2>1, <2>2, <2>3 DEF FormObjects
<1>7. FormClaims' /\ MissingHasCause'
  BY <1>1, <1>2 DEF FormClaims, MissingHasCause, Unmade, Owed, At
<1>8. QED
  BY <1>4, <1>5, <1>6, <1>7


\* The files among the rows, once a row is added at their end.
LEMMA FilesGrow ==
  ASSUME rows \in Seq(Attachment), NEW a \in Attachment, rows' = Append(rows, a)
  PROVE  /\ IsFiniteSet(FileRows) /\ Cardinality(FileRows) \in Nat
         /\ a.paper \in Links => FileRows' = FileRows
         /\ a.paper \notin Links => Cardinality(FileRows') = Cardinality(FileRows) + 1
<1>1. DOMAIN rows = 1..Len(rows) /\ Len(rows) \in Nat
  OBVIOUS
<1>2. IsFiniteSet(FileRows) /\ Cardinality(FileRows) \in Nat
  <2>1. IsFiniteSet(DOMAIN rows) /\ FileRows \subseteq DOMAIN rows
    BY <1>1, FS_Interval DEF FileRows
  <2>2. IsFiniteSet(FileRows)
    BY <2>1, FS_Subset
  <2>3. QED
    BY <2>2, FS_CardinalityType
<1>3. /\ DOMAIN rows' = 1..(Len(rows) + 1) /\ rows'[Len(rows) + 1] = a
      /\ \A i \in DOMAIN rows : rows'[i] = rows[i]
  OBVIOUS
<1>4. a.paper \in Links => FileRows' = FileRows
  BY <1>1, <1>3 DEF FileRows
<1>5. ASSUME a.paper \notin Links PROVE Cardinality(FileRows') = Cardinality(FileRows) + 1
  <2>1. FileRows' = FileRows \union {Len(rows) + 1} /\ Len(rows) + 1 \notin FileRows
    BY <1>1, <1>3, <1>5 DEF FileRows
  <2>2. QED
    BY <1>2, <2>1, FS_AddElement
<1>6. QED
  BY <1>2, <1>4, <1>5

\* An upload that gets through is a row that nobody has claimed.
LEMMA RowKept == ASSUME FormInv, StoresLink \/ StoresRow PROVE FormInv'
<1> USE DEF FormInv
<1> DEFINE a  == [paper |-> Now, ticket |-> 0]
           id == Len(rows) + 1
           got == form.got \union {id}
<1>1. /\ form.calling = "upload" /\ form.step \in {"sent", "stored"}
      /\ RowStored /\ UNCHANGED <<tickets, objects, failures>>
      /\ form.step = "sent" => Now \in Links
  BY DEF StoresLink, StoresRow, At, RowStored
<1>2. Now \in Papers \ TooBig
  <2>1. Now \in form.plan
    BY <1>1, NowIsPlanned DEF FormPlace
  <2>2. Now \in Papers
    BY <2>1 DEF FormShape, FormRow
  <2>3. QED
    BY <1>1, <2>2, FormAssumption DEF FormPlace, Takes
<1>3. a \in Attachment /\ a.paper = Now /\ a.ticket = 0
  BY <1>2 DEF Attachment
<1>4. rows' = Append(rows, a) /\ rows \in Seq(Attachment) /\ Len(rows) \in Nat /\ DOMAIN rows = 1..Len(rows)
  BY <1>1 DEF RowStored, FormShape
<1>5. /\ form' = [form EXCEPT !.step = "answered", !.got = got]
      /\ got \subseteq Nat /\ form \in FormRow
  BY <1>1, <1>4 DEF RowStored, FormShape, FormRow
<1> HIDE DEF got
<1>6. /\ form' \in FormRow /\ form'.step = "answered" /\ form'.got = got
      /\ form'.papers = form.papers /\ form'.calling = form.calling /\ form'.plan = form.plan
      /\ form'.shown = form.shown /\ form'.tries = form.tries /\ form'.confirmed = form.confirmed
      /\ form'.late = form.late /\ form'.missed = form.missed
  BY <1>5 DEF FormRow, FormSteps
<1>7. Now' = Now
  BY <1>6, NowFollowsPlan
<1>8. form'.got = form.got \union {id}
  BY <1>6 DEF got
<1> HIDE DEF a
<1>9. /\ rows' \in Seq(Attachment) /\ DOMAIN rows' = DOMAIN rows \union {id} /\ rows'[id] = a
      /\ \A i \in DOMAIN rows : rows'[i] = rows[i]
  BY <1>3, <1>4
<1> HIDE DEF id
<1>10. FormShape' /\ FormPlace'
  BY <1>1, <1>6, <1>7, <1>8, <1>9 DEF FormShape, FormPlace
<1>11. FormCounts'
  BY <1>1, <1>6 DEF FormCounts, Unmade, Owed, At
<1>12. FormObjects'
  <2>1. At("upload", "stored") <=> form.step = "stored"
    BY <1>1 DEF At
  <2>2. ~At("upload", "stored")'
    BY <1>6 DEF At
  <2>3. /\ Cardinality(FileRows) \in Nat /\ objects \in Nat
        /\ Now \in Links => FileRows' = FileRows
        /\ Now \notin Links => Cardinality(FileRows') = Cardinality(FileRows) + 1
    BY <1>3, <1>4, FilesGrow DEF FormShape
  <2>4. QED
    BY <1>1, <2>1, <2>2, <2>3 DEF FormObjects
<1>13. FormClaims'
  <2>1. \A i \in DOMAIN rows' : rows'[i].ticket <= tickets'
    BY <1>1, <1>3, <1>9 DEF FormClaims, FormShape
  <2>2. \A p \in form'.papers \ (form'.late \union form'.missed) : p \in form'.plan \/ \E i \in form'.got : rows'[i].paper = p
    BY <1>1, <1>6, <1>8, <1>9 DEF FormClaims, FormShape
  <2>3. \E i \in form'.got : rows'[i].paper = Now'
    BY <1>3, <1>7, <1>8, <1>9
  <2>4. \A i \in form'.got : rows'[i].ticket = 0
    BY <1>1, <1>3, <1>8, <1>9 DEF FormClaims, FormShape, Unmade
  <2>5. ~Owed'
    BY <1>1, <1>6 DEF Owed
  <2> QED
    BY <2>1, <2>2, <2>3, <2>4, <2>5 DEF FormClaims
<1>14. MissingHasCause'
  BY <1>1, <1>6 DEF MissingHasCause, FormPlace, FormShape, FormRow
<1>15. QED
  BY <1>10, <1>11, <1>12, <1>13, <1>14

\* The transaction of TicketsService.create claims exactly the rows in hand.
LEMMA CreateKept == ASSUME FormInv, CreatesTicket PROVE FormInv'
<1> USE DEF FormInv
<1>1. /\ form.calling = "create" /\ form.step = "sent" /\ Comes("made")
      /\ tickets' = tickets + 1 /\ UNCHANGED <<objects, failures>>
  BY DEF CreatesTicket, At
<1>2. /\ form' \in FormRow /\ form'.step = "made" /\ Now' = Now
      /\ form'.papers = form.papers /\ form'.calling = form.calling /\ form'.plan = form.plan /\ form'.got = form.got
      /\ form'.shown = form.shown /\ form'.tries = form.tries /\ form'.confirmed = form.confirmed
      /\ form'.late = form.late /\ form'.missed = form.missed
  BY <1>1, ComesKeeps DEF FormSteps
<1>3. /\ rows \in Seq(Attachment) /\ Len(rows) \in Nat /\ DOMAIN rows = 1..Len(rows) /\ tickets \in Nat
      /\ form.got \subseteq DOMAIN rows
  BY DEF FormShape
<1>4. \A i \in DOMAIN rows : rows[i] \in Attachment
  BY <1>3
<1> DEFINE now(i) == IF i \in form.got /\ rows[i].ticket = 0 THEN [rows[i] EXCEPT !.ticket = tickets + 1] ELSE rows[i]
<1>5. \A i \in DOMAIN rows : /\ now(i) \in Attachment /\ now(i).paper = rows[i].paper
                             /\ now(i).ticket = IF i \in form.got /\ rows[i].ticket = 0 THEN tickets + 1 ELSE rows[i].ticket
  BY <1>3, <1>4 DEF Attachment
<1>6. rows' = [i \in DOMAIN rows |-> now(i)]
  BY DEF CreatesTicket
<1> HIDE DEF now
<1>7. rows' \in Seq(Attachment) /\ DOMAIN rows' = DOMAIN rows /\ \A i \in DOMAIN rows : rows'[i] = now(i)
  BY <1>3, <1>5, <1>6
<1>8. \A i \in DOMAIN rows : /\ rows'[i].paper = rows[i].paper
                             /\ rows'[i].ticket = IF i \in form.got /\ rows[i].ticket = 0 THEN tickets + 1 ELSE rows[i].ticket
  BY <1>5, <1>7
<1>9. \A i \in form.got : rows[i].ticket = 0
  BY <1>1 DEF FormClaims, Unmade, At
<1>10. FormShape' /\ FormPlace'
  BY <1>1, <1>2, <1>3, <1>7 DEF FormShape, FormPlace
<1>11. FormCounts'
  <2>1. Unmade /\ ~Unmade' /\ ~Owed /\ Owed'
    BY <1>1, <1>2 DEF Unmade, Owed, At
  <2>2. form.tries \in Nat /\ form.confirmed \in Nat /\ form.shown \in Nat /\ failures \in Nat
    BY DEF FormShape, FormRow
  <2>3. QED
    BY <1>1, <1>2, <1>3, <2>1, <2>2 DEF FormCounts
<1>12. FormObjects'
  <2>1. FileRows' = FileRows
    BY <1>7, <1>8 DEF FileRows
  <2>2. ~At("upload", "stored") /\ ~At("upload", "stored")'
    BY <1>1, <1>2 DEF At
  <2>3. QED
    BY <1>1, <2>1, <2>2 DEF FormObjects
<1>13. FormClaims'
  <2>1. \A i \in DOMAIN rows' : rows'[i].ticket <= tickets'
    BY <1>1, <1>3, <1>4, <1>7, <1>8 DEF FormClaims, Attachment
  <2>2. \A p \in form'.papers \ (form'.late \union form'.missed) : p \in form'.plan \/ \E i \in form'.got : rows'[i].paper = p
    BY <1>1, <1>2, <1>3, <1>8 DEF FormClaims
  <2>3. \A i \in form'.got : rows'[i].ticket = tickets'
    BY <1>1, <1>2, <1>3, <1>8, <1>9
  <2>4. ~At("upload", "answered")' /\ ~Unmade'
    BY <1>1, <1>2 DEF At, Unmade
  <2>5. QED
    BY <2>1, <2>2, <2>3, <2>4 DEF FormClaims
<1>14. MissingHasCause'
  BY <1>1, <1>2 DEF MissingHasCause, FormPlace, FormShape, FormRow
<1>15. QED
  BY <1>10, <1>11, <1>12, <1>13, <1>14


\* The handler goes on with what is still to upload.
LEMMA GoesOnTo ==
  ASSUME FormShape, NEW plan \in SUBSET form.plan, NEW missed \in SUBSET Papers, GoesOn(plan, form.got, missed)
  PROVE  /\ form' \in FormRow /\ form'.step = "sent" /\ form'.calling = Ahead(plan) /\ form'.plan = plan /\ form'.got = form.got
         /\ form'.missed = missed /\ form'.papers = form.papers /\ form'.late = form.late
         /\ form'.shown = form.shown /\ form'.tries = form.tries /\ form'.confirmed = form.confirmed
<1> DEFINE next == Ahead(plan)
           got  == form.got
<1>1. next \in Callings /\ got \subseteq Nat /\ plan \subseteq Papers /\ form \in FormRow
  BY DEF Ahead, Callings, FormShape, FormRow
<1>2. form' = [form EXCEPT !.calling = next, !.step = "sent", !.plan = plan, !.got = got, !.missed = missed]
  BY DEF GoesOn
<1> HIDE DEF next, got
<1>3. /\ form' \in FormRow /\ form'.step = "sent" /\ form'.calling = next /\ form'.plan = plan /\ form'.got = got
      /\ form'.missed = missed /\ form'.papers = form.papers /\ form'.late = form.late
      /\ form'.shown = form.shown /\ form'.tries = form.tries /\ form'.confirmed = form.confirmed
  BY <1>1, <1>2 DEF FormRow, FormSteps
<1>4. QED
  BY <1>3 DEF next, got

\* The attempt ends; it is shown when a ticket came of it.
LEMMA EndsAttempt ==
  ASSUME FormShape, NEW shown \in Nat, NEW confirmed \in Nat,
         form' = [form EXCEPT !.calling = "none", !.step = "idle", !.shown = shown, !.confirmed = confirmed]
  PROVE  /\ form' \in FormRow /\ form'.step = "idle" /\ form'.calling = "none" /\ form'.shown = shown /\ form'.confirmed = confirmed
         /\ form'.plan = form.plan /\ form'.got = form.got /\ form'.missed = form.missed /\ form'.papers = form.papers
         /\ form'.late = form.late /\ form'.tries = form.tries
<1>1. form \in FormRow
  BY DEF FormShape
<1>2. QED
  BY <1>1 DEF FormRow, Callings, FormSteps

\* Every way in which the handler goes on.
LEMMA ContinueKept == ASSUME FormInv, Continues PROVE FormInv'
<1> USE DEF FormInv
<1>1. UNCHANGED <<rows, tickets, objects, failures>>
  BY DEF Continues
<1>2. /\ form.tries \in Nat /\ tickets \in Nat /\ form.confirmed \in Nat /\ failures \in Nat /\ form.shown \in Nat
      /\ form.plan \subseteq Papers /\ form.missed \subseteq Papers /\ form.papers \subseteq Papers
  BY DEF FormShape, FormRow
<1>3. FileRows' = FileRows
  BY <1>1, SameFiles
<1>4. ASSUME NEW plan \in SUBSET form.plan, NEW missed \in SUBSET Papers, GoesOn(plan, form.got, missed),
             form.calling \in {"guest", "upload"}, form.step # "stored",
             \A p \in form.papers \ (form.late \union missed) : p \in plan \/ \E i \in form.got : rows[i].paper = p
      PROVE  FormInv'
  <2>1. /\ form' \in FormRow /\ form'.step = "sent" /\ form'.calling = Ahead(plan) /\ form'.plan = plan /\ form'.got = form.got
        /\ form'.missed = missed /\ form'.papers = form.papers /\ form'.late = form.late
        /\ form'.shown = form.shown /\ form'.tries = form.tries /\ form'.confirmed = form.confirmed
    BY <1>4, GoesOnTo
  <2>2. Ahead(plan) = IF plan = {} THEN "create" ELSE "upload"
    BY DEF Ahead
  <2>3. form.shown = 0
    BY <1>2, <1>4 DEF FormPlace
  <2>4. FormShape' /\ FormPlace'
    BY <1>1, <2>1, <2>2, <2>3 DEF FormShape, FormPlace
  <2>5. Unmade /\ ~Owed /\ ~Owed' /\ form.calling # "none"
    BY <1>4, <2>1 DEF Unmade, Owed
  <2>6. FormCounts'
    BY <1>1, <2>1, <2>5 DEF FormCounts
  <2>7. FormObjects'
    BY <1>1, <1>3, <1>4, <2>1 DEF FormObjects, At
  <2>8. FormClaims'
    <3>1. \A i \in form'.got : rows'[i].ticket = 0
      BY <1>1, <2>1, <2>5 DEF FormClaims
    <3>2. \A p \in form'.papers \ (form'.late \union form'.missed) : p \in form'.plan \/ \E i \in form'.got : rows'[i].paper = p
      BY <1>1, <1>4, <2>1
    <3>3. QED
      BY <1>1, <2>1, <2>5, <3>1, <3>2 DEF FormClaims, At
  <2>9. MissingHasCause'
    BY <2>1, <2>3 DEF MissingHasCause
  <2>10. QED
    BY <2>4, <2>6, <2>7, <2>8, <2>9
<1>5. CASE At("guest", "answered") /\ GoesOn(form.plan, form.got, form.missed)
  <2>1. \A p \in form.papers \ (form.late \union form.missed) : p \in form.plan \/ \E i \in form.got : rows[i].paper = p
    BY <1>5 DEF FormClaims, At
  <2>2. QED
    BY <1>2, <1>4, <1>5, <2>1 DEF At
<1>6. CASE At("upload", "answered") /\ GoesOn(form.plan \ {Now}, form.got, form.missed)
  <2>1. \E i \in form.got : rows[i].paper = Now
    BY <1>6 DEF FormClaims
  <2>2. \A p \in form.papers \ (form.late \union form.missed) : p \in form.plan \/ \E i \in form.got : rows[i].paper = p
    BY <1>6 DEF FormClaims, At
  <2>3. \A p \in form.papers \ (form.late \union form.missed) : p \in form.plan \ {Now} \/ \E i \in form.got : rows[i].paper = p
    BY <2>1, <2>2
  <2>4. QED
    BY <1>2, <1>4, <1>6, <2>3 DEF At
<1>7. CASE At("upload", "refused") /\ GoesOn(form.plan \ {Now}, form.got, form.missed \union {Now})
  <2>1. Now \in Papers
    BY <1>2, <1>7, NowIsPlanned DEF At, FormPlace
  <2>2. \A p \in form.papers \ (form.late \union form.missed) : p \in form.plan \/ \E i \in form.got : rows[i].paper = p
    BY <1>7 DEF FormClaims, At
  <2>3. \A p \in form.papers \ (form.late \union (form.missed \union {Now})) :
          p \in form.plan \ {Now} \/ \E i \in form.got : rows[i].paper = p
    BY <2>2
  <2>4. QED
    BY <1>2, <1>4, <1>7, <2>1, <2>3 DEF At
<1>8. ASSUME NEW shown \in Nat, NEW confirmed \in Nat, form.calling # "none",
             form' = [form EXCEPT !.calling = "none", !.step = "idle", !.shown = shown, !.confirmed = confirmed],
             \/ shown = form.shown /\ confirmed = form.confirmed /\ ~Owed /\ form.step # "stored"
             \/ shown = tickets /\ confirmed = form.confirmed + 1 /\ Owed
      PROVE  FormInv'
  <2>1. /\ form' \in FormRow /\ form'.step = "idle" /\ form'.calling = "none" /\ form'.shown = shown /\ form'.confirmed = confirmed
        /\ form'.plan = form.plan /\ form'.got = form.got /\ form'.missed = form.missed /\ form'.papers = form.papers
        /\ form'.late = form.late /\ form'.tries = form.tries
    BY <1>8, EndsAttempt
  <2>2. FormShape' /\ FormPlace'
    BY <1>1, <2>1 DEF FormShape, FormPlace
  <2>3. ~Owed' /\ ~Unmade'
    BY <2>1 DEF Owed, Unmade, At
  <2>4. FormCounts'
    BY <1>1, <1>2, <1>8, <2>1, <2>3 DEF FormCounts
  <2>5. FormObjects'
    <3>1. ~At("upload", "stored") /\ ~At("upload", "stored")'
      BY <1>8, <2>1 DEF At, Owed
    <3>2. QED
      BY <1>1, <1>3, <3>1 DEF FormObjects
  <2>6. FormClaims'
    BY <1>1, <2>1, <2>3 DEF FormClaims, At
  <2>7. MissingHasCause'
    <3>1. CASE Owed
      <4>1. \A p \in form.papers \ (form.late \union form.missed) : \E i \in form.got : rows[i].paper = p
        BY <1>8, <3>1 DEF FormClaims, FormPlace, Owed
      <4>2. \A i \in form.got : rows[i].ticket = tickets /\ i \in DOMAIN rows
        BY <3>1 DEF FormClaims, FormShape
      <4>3. shown = tickets
        BY <1>8, <3>1
      <4>4. QED
        BY <1>1, <2>1, <4>1, <4>2, <4>3 DEF MissingHasCause
    <3>2. CASE ~Owed
      <4>1. form'.shown = 0
        BY <1>2, <1>8, <2>1, <3>2 DEF FormPlace
      <4>2. QED
        BY <4>1 DEF MissingHasCause
    <3>3. QED
      BY <3>1, <3>2
  <2>8. QED
    BY <2>2, <2>4, <2>5, <2>6, <2>7
<1>9. CASE /\ At("create", "answered")
           /\ form' = [form EXCEPT !.calling = "none", !.step = "idle", !.shown = tickets, !.confirmed = @ + 1]
  <2>1. Owed /\ form.confirmed + 1 \in Nat /\ form.calling # "none"
    BY <1>2, <1>9 DEF Owed, At
  <2>2. QED
    BY <1>2, <1>8, <1>9, <2>1
<1>10. CASE /\ form.step = "lost" \/ (form.step = "refused" /\ form.calling # "upload")
            /\ form' = [form EXCEPT !.calling = "none", !.step = "idle"]
  <2>1. form.calling # "none" /\ ~Owed /\ form.step # "stored"
    BY <1>10 DEF FormPlace, Owed
  <2>2. form' = [form EXCEPT !.calling = "none", !.step = "idle", !.shown = form.shown, !.confirmed = form.confirmed]
    BY <1>10 DEF FormShape, FormRow
  <2>3. QED
    BY <1>2, <1>8, <2>1, <2>2
<1>11. QED
  BY <1>5, <1>6, <1>7, <1>9, <1>10 DEF Continues

\* Every step of the form keeps its invariant.
LEMMA FormKept == ASSUME FormInv, [FormNext]_formVars PROVE FormInv'
<1>1. CASE UNCHANGED formVars
  <2>1. form' = form /\ UNCHANGED <<rows, tickets, objects, failures>>
    BY <1>1 DEF formVars
  <2>2. Now' = Now /\ FileRows' = FileRows
    BY <2>1, NowFollowsPlan, SameFiles
  <2>3. QED
    BY <2>1, <2>2 DEF FormInv, FormShape, FormPlace, FormCounts, FormObjects, FormClaims, MissingHasCause, Unmade, Owed, At
<1>2. CASE FormNext
  BY <1>2, PapersKept, PressKept, AnotherKept, ContinueKept, ApiKept, RowKept, CreateKept DEF FormNext
<1>3. QED
  BY <1>1, <1>2

\* What the customer's form shows is on his ticket, and a ticket too many is due to
\* a request that failed.
LEMMA FormPromises == ASSUME FormInv PROVE TwinHasCause /\ MissingHasCause /\ FormTypeOK
<1>1. TwinHasCause
  <2>1. form.confirmed \in Nat /\ tickets \in Nat /\ failures \in Nat
    BY DEF FormInv, FormShape, FormRow
  <2>2. Owed => form.calling = "create" /\ form.step # "sent"
    BY DEF Owed
  <2>3. QED
    BY <2>1, <2>2 DEF FormInv, FormCounts, TwinHasCause
<1>2. FormTypeOK
  <2>1. /\ form \in FormRow /\ form.got \subseteq DOMAIN rows /\ form.shown <= MaxForms /\ form.tries <= MaxForms
        /\ form.confirmed <= MaxForms /\ tickets <= MaxForms /\ tickets \in Nat
    BY FormAssumption DEF FormInv, FormShape, FormRow, FormCounts
  <2>2. form.shown \in 0..MaxForms /\ form.tries \in 0..MaxForms /\ form.confirmed \in 0..MaxForms /\ tickets \in 0..MaxForms
    BY <2>1, FormAssumption DEF FormRow
  <2>3. form \in [papers : SUBSET Papers, calling : {"none", "guest", "upload", "create"},
               step : {"idle", "sent", "stored", "made", "answered", "refused", "lost"}, plan : SUBSET Papers,
               got : SUBSET (DOMAIN rows), shown : 0..MaxForms, tries : 0..MaxForms, confirmed : 0..MaxForms,
               late : SUBSET Papers, missed : SUBSET Papers]
    BY <2>1, <2>2 DEF FormRow, Callings, FormSteps
  <2>4. \A i \in DOMAIN rows : rows[i].paper \in Papers \ TooBig /\ rows[i].ticket \in 0..tickets
    <3>1. \A i \in DOMAIN rows : rows[i] \in Attachment /\ rows[i].ticket <= tickets
      BY DEF FormInv, FormShape, FormClaims
    <3>2. QED
      BY <2>1, <3>1 DEF Attachment
  <2>5. Cardinality(FileRows) <= objects
    <3>1. IsFiniteSet(DOMAIN rows) /\ FileRows \subseteq DOMAIN rows
      BY FS_Interval DEF FileRows, FormInv, FormShape
    <3>2. IsFiniteSet(FileRows)
      BY <3>1, FS_Subset
    <3>3. Cardinality(FileRows) \in Nat /\ objects \in Nat
      BY <3>2, FS_CardinalityType DEF FormInv, FormShape
    <3>4. QED
      BY <3>3 DEF FormInv, FormObjects
  <2>6. QED
    BY <2>2, <2>3, <2>4, <2>5 DEF FormTypeOK, FileRows
<1>3. QED
  BY <1>1, <1>2 DEF FormInv


-----------------------------------------------------------------------------
(***************************************************************************)
(* The account, its links and the tabs.                                    *)
(***************************************************************************)
UserRow  == [exists : BOOLEAN, verified : BOOLEAN, password : Passwords]
LinkRow  == [kind : {"verify", "reset"}, valid : BOOLEAN, mail : {"queued", "sent", "dropped"}, honoured : Nat, together : BOOLEAN]
AskSteps == {"idle", "sent", "burnt", "looked", "made", "answered", "refused"}
AskRow   == [op : Ops, step : AskSteps, link : Nat, password : Passwords, found : BOOLEAN, session : Sessions]
TabRow   == [page : DoorPages, loaded : BOOLEAN, session : Sessions, stale : BOOLEAN, state : {"idle", "busy", "error", "done"},
             link : Nat, had : Sessions, cut : BOOLEAN, timer : BOOLEAN]

DoorShape ==
  /\ row \in UserRow /\ links \in Seq(LinkRow) /\ burnt \in BOOLEAN /\ breaks \in 0..MaxBreaks
  /\ ask \in [Tabs -> AskRow] /\ tab \in [Tabs -> TabRow]
  /\ stored \in [{"here", "away"} -> Sessions] /\ asked \in 0..MaxAsks

\* A user is never deleted: who was found, or mailed, still has a row.
RowLives ==
  /\ ~row.exists => ~row.verified /\ row.password = "none"
  /\ DOMAIN links # {} => row.exists
  /\ \A t \in Tabs : ask[t].found \/ (ask[t].op = "signup" /\ ask[t].step = "made") => row.exists

Linked == {"verify", "reset"}
PageOf(op) == CASE op \in {"signin", "signup"} -> "auth" [] op = "resend" -> "home" [] OTHER -> op

\* A call is of the page its tab shows, and only the pages of links carry a link.
Placed ==
  \A t \in Tabs :
    /\ ask[t].op = "none" <=> ask[t].step = "idle"
    /\ ask[t].op # "none" => tab[t].page = PageOf(ask[t].op)
    /\ IF ask[t].op \in Linked THEN ask[t].link \in DOMAIN links ELSE ask[t].link = 0
    /\ IF tab[t].page \in Linked THEN tab[t].link \in DOMAIN links ELSE tab[t].link = 0

\* The calls that have read a link and not marked it yet.
Readers(i) == {t \in Tabs : ask[t].step = "looked" /\ ask[t].link = i}

\* A link that was never read by two calls at once has one reader or was used once.
LinkUse ==
  \A i \in DOMAIN links :
    /\ links[i].valid => links[i].honoured = 0
    /\ links[i].honoured + Cardinality(Readers(i)) <= Cardinality(Tabs)
    /\ ~links[i].together =>
         \/ links[i].honoured = 0 /\ \A t, u \in Readers(i) : t = u
         \/ links[i].honoured = 1 /\ ~links[i].valid /\ Readers(i) = {}

\* The calls that may still mail a link have their place.
Mailers == {"signup", "resend", "forgot"}
Mailing == {t \in Tabs : ask[t].op \in Mailers /\ ask[t].step \in {"sent", "looked", "made"}}
RoomLeft == Len(links) + Cardinality(Mailing) <= MaxLinks

DoorInv == DoorShape /\ RowLives /\ Placed /\ LinkUse /\ RoomLeft


LEMMA DoorStarts == ASSUME ScenarioInit, DoorInit PROVE DoorInv
<1> USE DEF DoorInit, AccountsInit
<1>1. \A t \in Tabs : \E p \in DoorPages \ {"closed", "verify", "reset"} : tab[t] \in {NewTab("closed"), NewTab("auth"), NewTab(p)}
  <2>1. ASSUME NEW t \in Tabs, t = First, "door" \in story
        PROVE  \E p \in DoorPages \ {"closed", "verify", "reset"} : tab[t] = NewTab(p)
    <3>1. PICK p \in DoorPages \ {"closed", "verify", "reset"} : DoorPages \intersect story = {p}
      BY <2>1, StoryAssumption DEF ScenarioInit
    <3>2. (CHOOSE q \in DoorPages : q \in story) = p
      BY <3>1
    <3>3. QED
      BY <2>1, <3>2
  <2>2. ASSUME NEW t \in Tabs, t # First \/ "door" \notin story
        PROVE  tab[t] \in {NewTab("closed"), NewTab("auth")}
    BY <2>2
  <2>3. "auth" \in DoorPages \ {"closed", "verify", "reset"}
    BY DEF DoorPages
  <2>4. QED
    BY <2>1, <2>2, <2>3
<1>2. ASSUME NEW p \in DoorPages PROVE NewTab(p) \in TabRow /\ NewTab(p).page = p /\ NewTab(p).link = 0
  BY DEF NewTab, TabRow, Sessions
<1>3. \A t \in Tabs : tab[t] \in TabRow /\ tab[t].page \notin Linked /\ tab[t].link = 0
  BY <1>1, <1>2 DEF DoorPages, Linked
<1>4. NoAsk \in AskRow
  BY DEF NoAsk, AskRow, Ops, AskSteps, Passwords, Sessions
<1>5. DoorShape
  <2>1. tab \in [Tabs -> TabRow]
    BY <1>3
  <2>2. row \in UserRow
    BY DEF UserRow, Passwords
  <2>3. ask \in [Tabs -> AskRow] /\ stored \in [{"here", "away"} -> Sessions]
    BY <1>4 DEF Sessions
  <2>4. links \in Seq(LinkRow) /\ burnt \in BOOLEAN /\ breaks \in 0..MaxBreaks /\ asked \in 0..MaxAsks
    <3>1. MaxBreaks \in Nat /\ MaxAsks \in Nat
      BY AccountsAssumption, DoorAssumption
    <3>2. links = <<>> /\ burnt = FALSE /\ breaks = 0 /\ asked = 0
      OBVIOUS
    <3> HIDE DEF DoorInit, AccountsInit
    <3>3. links \in Seq(LinkRow) /\ breaks \in 0..MaxBreaks /\ asked \in 0..MaxAsks
      BY <3>1, <3>2
    <3>4. QED
      BY <3>2, <3>3
  <2>5. QED
    BY <2>1, <2>2, <2>3, <2>4 DEF DoorShape
<1>6. RowLives
  <2>1. DOMAIN links = {}
    OBVIOUS
  <2>2. \A t \in Tabs : ~ask[t].found /\ ask[t].op = "none"
    BY DEF NoAsk
  <2>3. ~row.exists => ~row.verified /\ row.password = "none"
    OBVIOUS
  <2>4. QED
    BY <2>1, <2>2, <2>3 DEF RowLives
<1>7. Placed
  BY <1>3 DEF Placed, NoAsk, Linked
<1>8. LinkUse
  BY DEF LinkUse
<1>9. RoomLeft
  <2>1. Mailing = {}
    BY DEF Mailing, NoAsk, Mailers
  <2>2. QED
    BY <2>1, FS_EmptySet, AccountsAssumption DEF RoomLeft
<1>10. QED
  BY <1>5, <1>6, <1>7, <1>8, <1>9 DEF DoorInv

-----------------------------------------------------------------------------
(***************************************************************************)
(* How readers, mailers and calls change.                                  *)
(***************************************************************************)
\* Sets of tabs are finite.
LEMMA TabSets ==
  ASSUME NEW S \in SUBSET Tabs
  PROVE  IsFiniteSet(S) /\ Cardinality(S) \in Nat /\ \A T \in SUBSET S : Cardinality(T) <= Cardinality(S)
<1>1. IsFiniteSet(S)
  BY AccountsAssumption, FS_Subset
<1>2. Cardinality(S) \in Nat
  BY <1>1, FS_CardinalityType
<1>3. ASSUME NEW T \in SUBSET S PROVE Cardinality(T) <= Cardinality(S)
  BY <1>1, FS_Subset
<1>4. QED
  BY <1>1, <1>2, <1>3

\* Readers that only leave, and links that only lose their validity, keep LinkUse;
\* a link that is new has no reader.
LEMMA ReadersLeave ==
  ASSUME LinkUse, links \in Seq(LinkRow), links' \in Seq(LinkRow),
         \A i \in DOMAIN links' :
           IF i \in DOMAIN links
             THEN /\ Readers(i)' \subseteq Readers(i)
                  /\ links'[i].honoured = links[i].honoured /\ links'[i].together = links[i].together
                  /\ links'[i].valid => links[i].valid
             ELSE Readers(i)' = {} /\ links'[i].honoured = 0
  PROVE  LinkUse'
<1> SUFFICES ASSUME NEW i \in DOMAIN links'
             PROVE  /\ links'[i].valid => links'[i].honoured = 0
                    /\ links'[i].honoured + Cardinality(Readers(i)') <= Cardinality(Tabs)
                    /\ ~links'[i].together =>
                         \/ links'[i].honoured = 0 /\ \A t, u \in Readers(i)' : t = u
                         \/ links'[i].honoured = 1 /\ ~links'[i].valid /\ Readers(i)' = {}
  BY DEF LinkUse
<1>1. CASE i \in DOMAIN links
  <2>1. Readers(i) \subseteq Tabs /\ Readers(i)' \subseteq Readers(i)
    BY <1>1 DEF Readers
  <2>2. Cardinality(Readers(i)') <= Cardinality(Readers(i)) /\ Cardinality(Readers(i)) \in Nat /\ Cardinality(Readers(i)') \in Nat
        /\ Cardinality(Tabs) \in Nat
    BY <2>1, TabSets
  <2>3. links[i].honoured \in Nat
    <3>1. links[i] \in LinkRow
      BY <1>1
    <3>2. QED
      BY <3>1 DEF LinkRow
  <2>4. /\ links[i].valid => links[i].honoured = 0
        /\ links[i].honoured + Cardinality(Readers(i)) <= Cardinality(Tabs)
        /\ ~links[i].together =>
             \/ links[i].honoured = 0 /\ \A t, u \in Readers(i) : t = u
             \/ links[i].honoured = 1 /\ ~links[i].valid /\ Readers(i) = {}
    BY <1>1 DEF LinkUse
  <2>5. links'[i].honoured + Cardinality(Readers(i)') <= Cardinality(Tabs)
    BY <1>1, <2>2, <2>3, <2>4
  <2>6. QED
    BY <1>1, <2>1, <2>4, <2>5
<1>2. CASE i \notin DOMAIN links
  <2>1. Readers(i)' = {} /\ links'[i].honoured = 0
    BY <1>2
  <2>2. Cardinality(Tabs) \in Nat
    BY TabSets
  <2>3. QED
    BY <2>1, <2>2, FS_EmptySet
<1>3. QED
  BY <1>1, <1>2


-----------------------------------------------------------------------------
(***************************************************************************)
(* The steps of a call.  Each moves the call of one tab on.                *)
(***************************************************************************)
Walks(t, step) ==
  /\ ask' \in [Tabs -> AskRow]
  /\ ask'[t].step = step /\ ask'[t].op = ask[t].op /\ ask'[t].link = ask[t].link
  /\ \A u \in Tabs \ {t} : ask'[u] = ask[u]

LEMMA StepWalks ==
  ASSUME ask \in [Tabs -> AskRow], NEW t \in Tabs, NEW step \in AskSteps, Step(t, step)
  PROVE  Walks(t, step) /\ ask'[t].found = ask[t].found
<1>1. [ask[t] EXCEPT !.step = step] \in AskRow /\ ask[t] \in AskRow
  BY DEF AskRow
<1>2. ask' = [ask EXCEPT ![t] = [ask[t] EXCEPT !.step = step]]
  BY DEF Step
<1>3. ask' \in [Tabs -> AskRow] /\ ask'[t] = [ask[t] EXCEPT !.step = step] /\ \A u \in Tabs \ {t} : ask'[u] = ask[u]
  BY <1>1, <1>2
<1>4. QED
  BY <1>1, <1>3 DEF Walks, AskRow

LEMMA AnswerWalks ==
  ASSUME ask \in [Tabs -> AskRow], NEW t \in Tabs, NEW session \in Sessions, Answer(t, session)
  PROVE  Walks(t, "answered") /\ ask'[t].found = ask[t].found
<1>1. [ask[t] EXCEPT !.step = "answered", !.session = session] \in AskRow /\ ask[t] \in AskRow
  BY DEF AskRow, AskSteps
<1>2. ask' = [ask EXCEPT ![t] = [ask[t] EXCEPT !.step = "answered", !.session = session]]
  BY DEF Answer
<1>3. /\ ask' \in [Tabs -> AskRow] /\ ask'[t] = [ask[t] EXCEPT !.step = "answered", !.session = session]
      /\ \A u \in Tabs \ {t} : ask'[u] = ask[u]
  BY <1>1, <1>2
<1>4. QED
  BY <1>1, <1>3 DEF Walks, AskRow

LEMMA LooksUp ==
  ASSUME ask \in [Tabs -> AskRow], NEW t \in Tabs, NEW found \in BOOLEAN,
         ask' = [ask EXCEPT ![t].step = "looked", ![t].found = found]
  PROVE  Walks(t, "looked") /\ ask'[t].found = found
<1>1. [ask[t] EXCEPT !.step = "looked", !.found = found] \in AskRow /\ ask[t] \in AskRow
  BY DEF AskRow, AskSteps
<1>2. ask' = [ask EXCEPT ![t] = [ask[t] EXCEPT !.step = "looked", !.found = found]]
  OBVIOUS
<1>3. /\ ask' \in [Tabs -> AskRow] /\ ask'[t] = [ask[t] EXCEPT !.step = "looked", !.found = found]
      /\ \A u \in Tabs \ {t} : ask'[u] = ask[u]
  BY <1>1, <1>2
<1>4. QED
  BY <1>1, <1>3 DEF Walks, AskRow

\* The calls stay where their tabs are while one of them moves on.
LEMMA PlacesStay ==
  ASSUME Placed, NEW t \in Tabs, NEW step, Walks(t, step), ask[t].step # "idle", step # "idle",
         tab' = tab, DOMAIN links \subseteq DOMAIN links'
  PROVE  Placed'
BY DEF Placed, Walks

\* A user's row, once there, stays; who is found or mailed then has one.
LEMMA RowStays ==
  ASSUME RowLives, NEW t \in Tabs, NEW step, Walks(t, step),
         \/ row' = row
         \/ row'.exists,
         ask'[t].found \/ (ask[t].op = "signup" /\ step = "made") => row'.exists,
         DOMAIN links' = DOMAIN links \/ row'.exists
  PROVE  RowLives'
BY DEF RowLives, Walks

\* The readers of a link while a call moves on: nobody comes but by looking.
LEMMA ReadersOf ==
  ASSUME NEW t \in Tabs, NEW step, Walks(t, step), NEW i
  PROVE  Readers(i)' = IF step = "looked" /\ ask[t].link = i THEN Readers(i) \union {t} ELSE Readers(i) \ {t}
BY DEF Readers, Walks

\* The links stand, or gain one at their end that nobody has read, while a call moves
\* on that does not look at a link.
LEMMA UseStays ==
  ASSUME Placed, LinkUse, links \in Seq(LinkRow), NEW t \in Tabs, NEW step, Walks(t, step),
         step = "looked" => ask[t].link = 0,
         \/ links' = links
         \/ \E a \in LinkRow : a.honoured = 0 /\ links' = Append(links, a)
  PROVE  LinkUse'
<1>1. links' \in Seq(LinkRow) /\ DOMAIN links \subseteq DOMAIN links' /\ \A i \in DOMAIN links : links'[i] = links[i]
  OBVIOUS
<1>2. \A i \in DOMAIN links' \ DOMAIN links : links'[i].honoured = 0
  OBVIOUS
<1>3. \A i \in DOMAIN links' : i # 0
  BY <1>1
<1>4. \A i \in DOMAIN links' : Readers(i)' \subseteq Readers(i)
  BY <1>3, ReadersOf
<1>5. \A i \in DOMAIN links' \ DOMAIN links : Readers(i) = {}
  BY <1>3 DEF Readers, Placed
<1>6. \A i \in DOMAIN links' :
        IF i \in DOMAIN links
          THEN /\ Readers(i)' \subseteq Readers(i)
               /\ links'[i].honoured = links[i].honoured /\ links'[i].together = links[i].together
               /\ links'[i].valid => links[i].valid
          ELSE Readers(i)' = {} /\ links'[i].honoured = 0
  BY <1>1, <1>2, <1>4, <1>5
<1>7. QED
  BY <1>1, <1>6, ReadersLeave

\* A call that mails a link gives its place up, and no other call takes one.
LEMMA RoomStays ==
  ASSUME RoomLeft, MaxLinks \in Nat, Len(links) \in Nat, NEW t \in Tabs, NEW step, Walks(t, step),
         step \in {"sent", "looked", "made"} /\ ask[t].op \in Mailers => ask[t].step \in {"sent", "looked", "made"},
         \/ Len(links') = Len(links)
         \/ Len(links') = Len(links) + 1 /\ t \in Mailing /\ step \notin {"sent", "looked", "made"}
  PROVE  RoomLeft'
<1>1. Mailing \subseteq Tabs /\ Mailing' \subseteq Mailing
  BY DEF Mailing, Walks
<1>2. Cardinality(Mailing) \in Nat /\ Cardinality(Mailing') \in Nat /\ Cardinality(Mailing') <= Cardinality(Mailing) /\ IsFiniteSet(Mailing)
  BY <1>1, TabSets
<1>3. CASE Len(links') = Len(links)
  BY <1>2, <1>3 DEF RoomLeft
<1>4. CASE Len(links') = Len(links) + 1 /\ t \in Mailing /\ step \notin {"sent", "looked", "made"}
  <2>1. Mailing' \subseteq Mailing \ {t}
    BY <1>1, <1>4 DEF Mailing, Walks
  <2>2. Cardinality(Mailing \ {t}) = Cardinality(Mailing) - 1
    BY <1>2, <1>4, FS_RemoveElement
  <2>3. Cardinality(Mailing') <= Cardinality(Mailing \ {t})
    BY <1>1, <2>1, TabSets
  <2>4. QED
    BY <1>2, <1>4, <2>2, <2>3 DEF RoomLeft
<1>5. QED
  BY <1>3, <1>4


\* What the handlers have in common, but for those that find and use a link.
Serves(t, step) ==
  /\ Walks(t, step) /\ ask[t].step # "idle" /\ step \in AskSteps \ {"idle"}
  /\ UNCHANGED <<stored, tab, asked>>
  /\ row' \in UserRow /\ (row' = row \/ row'.exists)
  /\ burnt' \in BOOLEAN /\ breaks' \in 0..MaxBreaks
  /\ ask'[t].found \/ (ask[t].op = "signup" /\ step = "made") => row'.exists
  /\ step = "looked" => ask[t].link = 0
  /\ step \in {"sent", "looked", "made"} /\ ask[t].op \in Mailers => ask[t].step \in {"sent", "looked", "made"}
  /\ \/ links' = links
     \/ /\ row'.exists /\ t \in Mailing /\ step \notin {"sent", "looked", "made"}
        /\ \E a \in LinkRow : a.honoured = 0 /\ links' = Append(links, a)

LEMMA ServesKeeps == ASSUME DoorInv, NEW t \in Tabs, NEW step, Serves(t, step) PROVE DoorInv'
<1> USE DEF DoorInv
<1>1. Walks(t, step) /\ ask[t].step # "idle" /\ step # "idle" /\ tab' = tab
  BY DEF Serves
<1>2. /\ links \in Seq(LinkRow) /\ links' \in Seq(LinkRow) /\ DOMAIN links \subseteq DOMAIN links'
      /\ Len(links) \in Nat /\ Len(links') \in {Len(links), Len(links) + 1}
      /\ links' = links => Len(links') = Len(links)
      /\ Len(links') = Len(links) => DOMAIN links' = DOMAIN links
  <2>1. links \in Seq(LinkRow) /\ (links' = links \/ \E a \in LinkRow : links' = Append(links, a))
    BY DEF Serves, DoorShape
  <2>2. QED
    BY <2>1
<1>3. DoorShape'
  BY <1>1, <1>2 DEF Serves, DoorShape, Walks
<1>4. RowLives'
  <2>1. row' = row \/ row'.exists
    BY DEF Serves
  <2>2. ask'[t].found \/ (ask[t].op = "signup" /\ step = "made") => row'.exists
    BY DEF Serves
  <2>3. DOMAIN links' = DOMAIN links \/ row'.exists
    BY DEF Serves
  <2>4. QED
    BY <1>1, <2>1, <2>2, <2>3, RowStays
<1>5. Placed'
  BY <1>1, <1>2, PlacesStay
<1>6. LinkUse'
  <2>1. step = "looked" => ask[t].link = 0
    BY DEF Serves
  <2>2. links' = links \/ \E a \in LinkRow : a.honoured = 0 /\ links' = Append(links, a)
    BY DEF Serves
  <2>3. QED
    BY <1>1, <1>2, <2>1, <2>2, UseStays
<1>7. RoomLeft'
  <2>1. step \in {"sent", "looked", "made"} /\ ask[t].op \in Mailers => ask[t].step \in {"sent", "looked", "made"}
    BY DEF Serves
  <2>2. \/ Len(links') = Len(links)
        \/ Len(links') = Len(links) + 1 /\ t \in Mailing /\ step \notin {"sent", "looked", "made"}
    BY <1>2 DEF Serves
  <2>3. MaxLinks \in Nat
    BY AccountsAssumption
  <2>4. QED
    BY <1>1, <1>2, <2>1, <2>2, <2>3, RoomStays
<1>8. QED
  BY <1>3, <1>4, <1>5, <1>6, <1>7

\* A step that only looks at the account.
LEMMA LooksServe ==
  ASSUME DoorInv, NEW t \in Tabs, UNCHANGED <<stored, tab, asked>>,
         HandoffExpires(t) \/ Burn(t) \/ SigninChecks(t) \/ FindsUser(t) \/ Breaks(t)
  PROVE  \E step : Serves(t, step)
<1> USE DEF DoorInv
<1>1. /\ ask \in [Tabs -> AskRow] /\ row \in UserRow /\ links \in Seq(LinkRow) /\ burnt \in BOOLEAN /\ breaks \in 0..MaxBreaks
      /\ ask[t].found => row.exists
  BY DEF DoorShape, RowLives
<1>2. ASSUME NEW step \in AskSteps \ {"idle"}, Walks(t, step), ask'[t].found => row.exists, ask[t].step # "idle",
             UNCHANGED <<row, links>>, burnt' \in BOOLEAN, breaks' \in 0..MaxBreaks, step \notin {"sent", "made"},
             step = "looked" => ask[t].link = 0 /\ ask[t].step \in {"sent", "burnt"} /\ (ask[t].step = "burnt" => ask[t].op = "sso")
      PROVE  Serves(t, step)
  BY <1>1, <1>2 DEF Serves, Mailers
<1>3. CASE HandoffExpires(t)
  <2>1. Step(t, "refused") /\ ask[t].step = "sent" /\ UNCHANGED <<row, links, burnt, breaks>>
    BY <1>3 DEF HandoffExpires
  <2>2. Walks(t, "refused") /\ ask'[t].found = ask[t].found
    BY <1>1, <2>1, StepWalks DEF AskSteps
  <2>3. Serves(t, "refused")
    BY <1>1, <1>2, <2>1, <2>2 DEF AskSteps
  <2>4. QED
    BY <2>3
<1>4. CASE Burn(t)
  <2> DEFINE step == IF burnt THEN "refused" ELSE "burnt"
  <2>1. Step(t, step) /\ ask[t].step = "sent" /\ UNCHANGED <<row, links, breaks>> /\ burnt' = TRUE
    BY <1>4 DEF Burn
  <2>2. step \in {"refused", "burnt"} /\ step \in AskSteps \ {"idle"}
    BY DEF AskSteps
  <2> HIDE DEF step
  <2>3. PICK s \in {"refused", "burnt"} : s = step
    BY <2>2
  <2>4. Walks(t, s) /\ ask'[t].found = ask[t].found
    BY <1>1, <2>1, <2>2, <2>3, StepWalks
  <2>5. Serves(t, s)
    BY <1>1, <1>2, <2>1, <2>2, <2>3, <2>4
  <2>6. QED
    BY <2>5
<1>5. CASE SigninChecks(t)
  <2>1. ask[t].step = "sent" /\ UNCHANGED <<row, links, burnt, breaks>> /\ (Answer(t, Session) \/ Step(t, "refused"))
    BY <1>5 DEF SigninChecks
  <2>2. PICK z \in Sessions : z = Session
    BY DEF Session, Sessions
  <2>3. PICK s \in {"refused", "answered"} : Walks(t, s) /\ ask'[t].found = ask[t].found
    <3>1. CASE Answer(t, Session)
      BY <1>1, <2>2, <3>1, AnswerWalks
    <3>2. CASE Step(t, "refused")
      BY <1>1, <3>2, StepWalks DEF AskSteps
    <3>3. QED
      BY <2>1, <3>1, <3>2
  <2>4. Serves(t, s)
    BY <1>1, <1>2, <2>1, <2>3 DEF AskSteps
  <2>5. QED
    BY <2>4
<1>6. CASE FindsUser(t)
  <2>1. /\ UNCHANGED <<row, links, burnt, breaks>>
        /\ ask[t].step \in {"sent", "burnt"} /\ (ask[t].step = "burnt" => ask[t].op = "sso") /\ ask[t].op \notin Linked
    BY <1>6 DEF FindsUser, Linked
  <2>2. ask[t].link = 0
    BY <2>1 DEF Placed
  <2>3. row.exists \in BOOLEAN
    BY <1>1 DEF UserRow
  <2>4. CASE Step(t, "refused")
    <3>1. Walks(t, "refused") /\ ask'[t].found = ask[t].found
      BY <1>1, <2>4, StepWalks DEF AskSteps
    <3>2. Serves(t, "refused")
      BY <1>1, <1>2, <2>1, <3>1 DEF AskSteps
    <3>3. QED
      BY <3>2
  <2>5. CASE ask' = [ask EXCEPT ![t].step = "looked", ![t].found = row.exists]
    <3>1. Walks(t, "looked") /\ ask'[t].found = row.exists
      BY <1>1, <2>3, <2>5, LooksUp
    <3>2. Serves(t, "looked")
      BY <1>1, <1>2, <2>1, <2>2, <3>1 DEF AskSteps
    <3>3. QED
      BY <3>2
  <2>6. QED
    BY <1>6, <2>4, <2>5 DEF FindsUser
<1>7. CASE Breaks(t)
  <2>1. Step(t, "refused") /\ ask[t].step # "idle" /\ UNCHANGED <<row, links, burnt>> /\ breaks < MaxBreaks /\ breaks' = breaks + 1
    BY <1>7 DEF Breaks
  <2>2. breaks' \in 0..MaxBreaks
    BY <1>1, <2>1, AccountsAssumption
  <2>3. Walks(t, "refused") /\ ask'[t].found = ask[t].found
    BY <1>1, <2>1, StepWalks DEF AskSteps
  <2>4. Serves(t, "refused")
    BY <1>1, <1>2, <2>1, <2>2, <2>3 DEF AskSteps
  <2>5. QED
    BY <2>4
<1>8. QED
  BY <1>3, <1>4, <1>5, <1>6, <1>7


\* A new row is a user's row that exists.
LEMMA CreatedRow ==
  ASSUME NEW password \in Passwords, NEW verified \in BOOLEAN
  PROVE  Created(password, verified) \in UserRow /\ Created(password, verified).exists
BY DEF Created, UserRow

\* The first write of a sign-up of any kind.
LEMMA WriteServes ==
  ASSUME DoorInv, NEW t \in Tabs, UNCHANGED <<stored, tab, asked>>, WritesUser(t)
  PROVE  \E step : Serves(t, step)
<1> USE DEF DoorInv
<1>1. /\ ask \in [Tabs -> AskRow] /\ row \in UserRow /\ links \in Seq(LinkRow) /\ burnt \in BOOLEAN /\ breaks \in 0..MaxBreaks
      /\ ask[t].found => row.exists
  BY DEF DoorShape, RowLives
<1>2. /\ UNCHANGED <<links, burnt, breaks>> /\ ask[t].step = "looked"
  BY DEF WritesUser
<1>3. ASSUME NEW step \in {"refused", "made", "answered"}, Walks(t, step), ask'[t].found = ask[t].found,
             row' \in UserRow, row' = row \/ row'.exists, step = "made" => row'.exists
      PROVE  Serves(t, step)
  BY <1>1, <1>2, <1>3 DEF Serves, AskSteps
<1>4. CASE ~ask[t].found /\ row.exists
  <2>1. Step(t, "refused") /\ row' = row
    BY <1>4 DEF WritesUser
  <2>2. Walks(t, "refused") /\ ask'[t].found = ask[t].found
    BY <1>1, <2>1, StepWalks DEF AskSteps
  <2>3. QED
    BY <1>1, <1>3, <2>1, <2>2
<1>5. CASE ~(~ask[t].found /\ row.exists)
  <2>1. ask[t].password \in Passwords
    BY <1>1 DEF AskRow
  <2>2. "none" \in Passwords /\ TRUE \in BOOLEAN /\ FALSE \in BOOLEAN
    BY DEF Passwords
  <2>3. CASE row' = RowAfterSignup(t) /\ Step(t, "made")
    <3>1. row' \in UserRow /\ row'.exists
      BY <2>1, <2>2, <2>3, CreatedRow DEF RowAfterSignup
    <3>2. Walks(t, "made") /\ ask'[t].found = ask[t].found
      BY <1>1, <2>3, StepWalks DEF AskSteps
    <3>3. QED
      BY <1>3, <3>1, <3>2
  <2>4. ASSUME NEW z \in Sessions, Answer(t, z), row' \in UserRow, row' = row \/ row'.exists
        PROVE  \E step : Serves(t, step)
    <3>1. Walks(t, "answered") /\ ask'[t].found = ask[t].found
      BY <1>1, <2>4, AnswerWalks
    <3>2. QED
      BY <1>3, <2>4, <3>1
  <2>5. CASE row' = RowAfterGuest(t) /\ Answer(t, "none")
    <3>1. row' \in UserRow /\ (row' = row \/ row'.exists)
      BY <1>1, <2>2, <2>5, CreatedRow DEF RowAfterGuest
    <3>2. QED
      BY <2>4, <2>5, <3>1 DEF Sessions
  <2>6. CASE row' = RowAfterGoogle(t) /\ Answer(t, "verified")
    <3>1. row' \in UserRow /\ (row' = row \/ row'.exists)
      <4>1. CASE ask[t].found
        <5>1. row' = [row EXCEPT !.verified = TRUE] /\ row.exists
          BY <1>1, <2>6, <4>1 DEF RowAfterGoogle
        <5>2. QED
          BY <1>1, <5>1 DEF UserRow
      <4>2. CASE ~ask[t].found
        BY <2>2, <2>6, <4>2, CreatedRow DEF RowAfterGoogle
      <4>3. QED
        BY <4>1, <4>2
    <3>2. QED
      BY <2>4, <2>6, <3>1 DEF Sessions
  <2>7. CASE row' = RowAfterHandoff(t) /\ Answer(t, IF row'.verified THEN "verified" ELSE "unverified")
    <3>1. row' \in UserRow /\ (row' = row \/ row'.exists)
      BY <1>1, <2>2, <2>7, CreatedRow DEF RowAfterHandoff
    <3>2. (IF row'.verified THEN "verified" ELSE "unverified") \in Sessions
      BY DEF Sessions
    <3>3. QED
      BY <2>4, <2>7, <3>1, <3>2
  <2>8. QED
    BY <1>5, <2>3, <2>5, <2>6, <2>7 DEF WritesUser
<1>6. QED
  BY <1>4, <1>5

\* A mail makes a link that is valid and has not been used.
LEMMA MailableLink ==
  ASSUME NEW kind \in {"verify", "reset"}, Mailable(kind)
  PROVE  \E a \in LinkRow : a.honoured = 0 /\ links' = Append(links, a)
<1> DEFINE a == [kind |-> kind, valid |-> TRUE, mail |-> "queued", honoured |-> 0, together |-> FALSE]
<1>1. a \in LinkRow /\ a.honoured = 0
  BY DEF LinkRow
<1>2. links' = Append(links, a)
  BY DEF Mailable
<1>3. QED
  BY <1>1, <1>2

\* The handlers that mail a link, and those that do its work.
LEMMA MailServes ==
  ASSUME DoorInv, NEW t \in Tabs, UNCHANGED <<stored, tab, asked>>,
         SignupMails(t) \/ Resends(t) \/ Forgot(t) \/ Verifies(t) \/ Resets(t)
  PROVE  \E step : Serves(t, step)
<1> USE DEF DoorInv
<1>1. /\ ask \in [Tabs -> AskRow] /\ row \in UserRow /\ links \in Seq(LinkRow) /\ burnt \in BOOLEAN /\ breaks \in 0..MaxBreaks
      /\ (ask[t].found => row.exists) /\ ask[t].password \in Passwords
  BY DEF DoorShape, RowLives, AskRow
<1>2. ASSUME NEW z \in Sessions, Answer(t, z), ask[t].step # "idle", UNCHANGED <<burnt, breaks>>,
             row' \in UserRow, row' = row \/ row'.exists,
             \/ links' = links
             \/ row'.exists /\ t \in Mailing /\ \E a \in LinkRow : a.honoured = 0 /\ links' = Append(links, a)
      PROVE  Serves(t, "answered")
  <2>1. Walks(t, "answered") /\ ask'[t].found = ask[t].found
    BY <1>1, <1>2, AnswerWalks
  <2>2. QED
    BY <1>1, <1>2, <2>1 DEF Serves, AskSteps
<1>3. "none" \in Sessions /\ "verified" \in Sessions /\ "unverified" \in Sessions
  BY DEF Sessions
<1>4. CASE SignupMails(t)
  <2>1. /\ ask[t].op = "signup" /\ ask[t].step = "made" /\ Mailable("verify") /\ Answer(t, "unverified")
        /\ UNCHANGED <<row, burnt, breaks>>
    BY <1>4 DEF SignupMails
  <2>2. row.exists /\ t \in Mailing
    BY <2>1 DEF RowLives, Mailing, Mailers
  <2>3. QED
    BY <1>1, <1>2, <1>3, <2>1, <2>2, MailableLink
<1>5. CASE Resends(t)
  <2>1. /\ ask[t].op = "resend" /\ ask[t].step = "sent" /\ Answer(t, "none") /\ UNCHANGED <<row, burnt, breaks>>
        /\ links' = links \/ (row.exists /\ Mailable("verify"))
    BY <1>5 DEF Resends
  <2>2. t \in Mailing
    BY <2>1 DEF Mailing, Mailers
  <2>3. links' = links \/ (row'.exists /\ \E a \in LinkRow : a.honoured = 0 /\ links' = Append(links, a))
    BY <2>1, MailableLink
  <2>4. QED
    BY <1>1, <1>2, <1>3, <2>1, <2>2, <2>3
<1>6. CASE Forgot(t)
  <2>1. /\ ask[t].op = "forgot" /\ ask[t].step = "sent" /\ Answer(t, "none") /\ UNCHANGED <<row, burnt, breaks>>
        /\ links' = links \/ (row.exists /\ Mailable("reset"))
    BY <1>6 DEF Forgot
  <2>2. t \in Mailing
    BY <2>1 DEF Mailing, Mailers
  <2>3. links' = links \/ (row'.exists /\ \E a \in LinkRow : a.honoured = 0 /\ links' = Append(links, a))
    BY <2>1, MailableLink
  <2>4. QED
    BY <1>1, <1>2, <1>3, <2>1, <2>2, <2>3
<1>7. ASSUME ask[t].op \in Linked PROVE row.exists
  <2>1. ask[t].link \in DOMAIN links
    BY <1>7 DEF Placed
  <2>2. QED
    BY <2>1 DEF RowLives
<1>8. CASE Verifies(t)
  <2>1. /\ ask[t].op = "verify" /\ ask[t].step = "made" /\ Answer(t, "verified") /\ UNCHANGED <<links, burnt, breaks>>
        /\ row' = [row EXCEPT !.verified = TRUE]
    BY <1>8 DEF Verifies
  <2>2. row' \in UserRow /\ row'.exists
    BY <1>1, <1>7, <2>1 DEF UserRow, Linked
  <2>3. QED
    BY <1>2, <1>3, <2>1, <2>2
<1>9. CASE Resets(t)
  <2>1. /\ ask[t].op = "reset" /\ ask[t].step = "made" /\ Answer(t, "verified") /\ UNCHANGED <<links, burnt, breaks>>
        /\ row' = [row EXCEPT !.verified = TRUE, !.password = ask[t].password]
    BY <1>9 DEF Resets
  <2>2. row.exists
    BY <1>7, <2>1 DEF Linked
  <2> DEFINE p == ask[t].password
  <2>3. p \in Passwords /\ row' = [row EXCEPT !.verified = TRUE, !.password = p]
    BY <1>1, <2>1
  <2> HIDE DEF p
  <2>4. row' \in UserRow /\ row'.exists
    BY <1>1, <2>2, <2>3 DEF UserRow
  <2>5. QED
    BY <1>2, <1>3, <2>1, <2>4
<1>10. QED
  BY <1>4, <1>5, <1>6, <1>8, <1>9


\* A link between its being found and used: the other links, and who reads them, stay.
LEMMA LinkSteps ==
  ASSUME DoorInv, NEW t \in Tabs, NEW step \in {"looked", "made"}, Walks(t, step), ask'[t].found = ask[t].found,
         ask[t].op \in Linked, ask[t].step # "idle", UNCHANGED <<row, burnt, breaks, stored, tab, asked>>,
         NEW n \in DOMAIN links, n = ask[t].link, NEW to \in LinkRow, links' = [links EXCEPT ![n] = to],
         to.valid => to.honoured = 0,
         to.honoured + Cardinality(Readers(n)') <= Cardinality(Tabs),
         ~to.together =>
           \/ to.honoured = 0 /\ \A u, v \in Readers(n)' : u = v
           \/ to.honoured = 1 /\ ~to.valid /\ Readers(n)' = {}
  PROVE  DoorInv'
<1> USE DEF DoorInv
<1>1. links \in Seq(LinkRow) /\ Len(links) \in Nat
  BY DEF DoorShape
<1>2. /\ links' \in Seq(LinkRow) /\ DOMAIN links' = DOMAIN links /\ Len(links') = Len(links) /\ links'[n] = to
      /\ \A i \in DOMAIN links \ {n} : links'[i] = links[i]
  BY <1>1
<1>3. DoorShape'
  BY <1>2 DEF DoorShape, Walks
<1>4. RowLives'
  <2>1. row.exists
    BY <1>1 DEF RowLives
  <2>2. QED
    BY <1>2, <2>1, RowStays
<1>5. Placed'
  BY <1>2, PlacesStay
<1>6. LinkUse'
  <2> SUFFICES ASSUME NEW i \in DOMAIN links'
               PROVE  /\ links'[i].valid => links'[i].honoured = 0
                      /\ links'[i].honoured + Cardinality(Readers(i)') <= Cardinality(Tabs)
                      /\ ~links'[i].together =>
                           \/ links'[i].honoured = 0 /\ \A u, v \in Readers(i)' : u = v
                           \/ links'[i].honoured = 1 /\ ~links'[i].valid /\ Readers(i)' = {}
    BY DEF LinkUse
  <2>1. CASE i = n
    BY <1>2, <2>1
  <2>2. CASE i # n
    <3>1. Readers(i)' = Readers(i)
      BY <2>2, ReadersOf DEF Readers
    <3>2. i \in DOMAIN links /\ links'[i] = links[i]
      BY <1>2, <2>2
    <3>3. QED
      BY <3>1, <3>2 DEF LinkUse
  <2>3. QED
    BY <2>1, <2>2
<1>7. RoomLeft'
  <2>1. ask[t].op \notin Mailers
    BY DEF Linked, Mailers
  <2>2. QED
    BY <1>1, <1>2, <2>1, AccountsAssumption, RoomStays
<1>8. QED
  BY <1>3, <1>4, <1>5, <1>6, <1>7

\* consumeMagicToken: two calls may find a link valid together, and each then uses it.
LEMMA LinkKept ==
  ASSUME DoorInv, NEW t \in Tabs, UNCHANGED <<stored, tab, asked>>, FindsLink(t) \/ UsesLink(t)
  PROVE  DoorInv'
<1> USE DEF DoorInv
<1>1. PICK i \in DOMAIN links : i = ask[t].link
  BY DEF FindsLink, UsesLink, Placed, Linked
<1>2. ask \in [Tabs -> AskRow] /\ links \in Seq(LinkRow) /\ links[i] \in LinkRow /\ (ask[t].found => row.exists) /\ ask[t].op \in Linked
  BY <1>1 DEF DoorShape, RowLives, FindsLink, UsesLink, Linked
<1>3. /\ links[i].valid \in BOOLEAN /\ links[i].honoured \in Nat /\ links[i].together \in BOOLEAN
  BY <1>2 DEF LinkRow
<1>4. /\ links[i].valid => links[i].honoured = 0
      /\ links[i].honoured + Cardinality(Readers(i)) <= Cardinality(Tabs)
      /\ ~links[i].together =>
           \/ links[i].honoured = 0 /\ \A u, v \in Readers(i) : u = v
           \/ links[i].honoured = 1 /\ ~links[i].valid /\ Readers(i) = {}
  BY DEF LinkUse
<1>5. Readers(i) \subseteq Tabs /\ IsFiniteSet(Readers(i)) /\ Cardinality(Readers(i)) \in Nat /\ Cardinality(Tabs) \in Nat
      /\ Cardinality(Readers(i) \union {t}) <= Cardinality(Tabs)
  <2>1. Readers(i) \in SUBSET Tabs /\ Readers(i) \union {t} \in SUBSET Tabs
    BY DEF Readers
  <2>2. QED
    BY <2>1, TabSets
<1>6. CASE FindsLink(t)
  <2>1. ask[t].step = "sent" /\ UNCHANGED <<row, burnt, breaks>>
    BY <1>6 DEF FindsLink
  <2>2. CASE links[i].valid /\ links[i].kind = ask[t].op
    <3> DEFINE others == {u \in Tabs \ {t} : ask[u].step = "looked" /\ ask[u].link = i}
               to == [links[i] EXCEPT !.together = @ \/ others # {}]
    <3>1. Step(t, "looked") /\ links' = [links EXCEPT ![i] = to]
      BY <1>1, <1>6, <2>2 DEF FindsLink
    <3>2. Walks(t, "looked") /\ ask'[t].found = ask[t].found
      BY <1>2, <3>1, StepWalks DEF AskSteps
    <3>3. Readers(i)' = Readers(i) \union {t}
      BY <1>1, <3>2, ReadersOf
    <3>4. to \in LinkRow /\ to.honoured = 0 /\ (~to.together => others = {})
      <4> DEFINE met == links[i].together \/ others # {}
      <4>1. to = [links[i] EXCEPT !.together = met] /\ met \in BOOLEAN
        OBVIOUS
      <4>2. links[i].honoured = 0
        BY <1>4, <2>2
      <4>3. ~met => others = {}
        OBVIOUS
      <4> HIDE DEF met, to, others
      <4>4. QED
        BY <1>2, <4>1, <4>2, <4>3 DEF LinkRow
    <3>5. others = Readers(i) \ {t}
      BY DEF Readers
    <3> HIDE DEF others
    <3>6. others = {} => \A u, v \in Readers(i)' : u = v
      BY <3>3, <3>5
    <3> HIDE DEF to
    <3>7. PICK z \in LinkRow : z = to
      BY <3>4
    <3>8. /\ z.valid => z.honoured = 0
          /\ z.honoured + Cardinality(Readers(i)') <= Cardinality(Tabs)
          /\ ~z.together => z.honoured = 0 /\ \A u, v \in Readers(i)' : u = v
      <4>1. z.honoured = 0 /\ (~z.together => others = {})
        BY <3>4, <3>7
      <4>2. Cardinality(Readers(i)') \in Nat /\ Cardinality(Readers(i)') <= Cardinality(Tabs)
        <5>1. Readers(i) \union {t} \in SUBSET Tabs
          BY <1>5
        <5>2. QED
          BY <1>5, <3>3, <5>1, TabSets
      <4>3. QED
        BY <1>5, <3>6, <4>1, <4>2
    <3>9. links' = [links EXCEPT ![i] = z]
      BY <1>1, <3>1, <3>7
    <3>10. QED
      BY <1>1, <1>2, <2>1, <3>2, <3>8, <3>9, LinkSteps
  <2>3. CASE ~(links[i].valid /\ links[i].kind = ask[t].op)
    <3>1. Step(t, "refused") /\ links' = links
      BY <1>1, <1>6, <2>3 DEF FindsLink
    <3>2. Walks(t, "refused") /\ ask'[t].found = ask[t].found
      BY <1>2, <3>1, StepWalks DEF AskSteps
    <3>3. row \in UserRow /\ burnt \in BOOLEAN /\ breaks \in 0..MaxBreaks
      BY DEF DoorShape
    <3>4. Serves(t, "refused")
      BY <1>2, <2>1, <3>1, <3>2, <3>3 DEF Serves, AskSteps
    <3>5. QED
      BY <3>4, ServesKeeps
  <2>4. QED
    BY <2>2, <2>3
<1>7. CASE UsesLink(t)
  <2>1. ask[t].step = "looked" /\ UNCHANGED <<row, burnt, breaks>> /\ Step(t, "made")
    BY <1>7 DEF UsesLink
  <2> DEFINE to == [links[i] EXCEPT !.valid = FALSE, !.honoured = @ + 1]
  <2>2. links' = [links EXCEPT ![i] = to]
    <3>1. links' = [links EXCEPT ![i].valid = FALSE, ![i].honoured = @ + 1]
      BY <1>1, <1>7 DEF UsesLink
    <3>2. QED
      BY <1>2, <3>1 DEF LinkRow
  <2>3. Walks(t, "made") /\ ask'[t].found = ask[t].found
    BY <1>2, <2>1, StepWalks DEF AskSteps
  <2>4. Readers(i)' = Readers(i) \ {t} /\ t \in Readers(i)
    BY <1>1, <2>1, <2>3, ReadersOf DEF Readers
  <2>5. to \in LinkRow /\ ~to.valid /\ to.honoured = links[i].honoured + 1 /\ to.together = links[i].together
    <3> DEFINE n == links[i].honoured + 1
    <3>1. to = [links[i] EXCEPT !.valid = FALSE, !.honoured = n] /\ n \in Nat /\ n = links[i].honoured + 1
      BY <1>2, <1>3 DEF LinkRow
    <3> HIDE DEF n, to
    <3>2. QED
      BY <1>2, <3>1 DEF LinkRow
  <2> HIDE DEF to
  <2>6. PICK z \in LinkRow : z = to
    BY <2>5
  <2>7. Cardinality(Readers(i)') = Cardinality(Readers(i)) - 1
    BY <1>5, <2>4, FS_RemoveElement
  <2>8. z.honoured + Cardinality(Readers(i)') <= Cardinality(Tabs)
    BY <1>3, <1>4, <1>5, <2>5, <2>6, <2>7
  <2>9. ~z.together => z.honoured = 1 /\ ~z.valid /\ Readers(i)' = {}
    <3>1. ~z.together => links[i].honoured = 0 /\ \A u, v \in Readers(i) : u = v
      BY <1>4, <2>4, <2>5, <2>6
    <3>2. ~z.together => Readers(i)' = {}
      BY <2>4, <3>1
    <3>3. QED
      BY <2>5, <2>6, <3>1, <3>2
  <2>10. links' = [links EXCEPT ![i] = z] /\ ~z.valid
    BY <1>1, <2>2, <2>5, <2>6
  <2>11. QED
    BY <1>1, <1>2, <2>1, <2>3, <2>8, <2>9, <2>10, LinkSteps
<1>8. QED
  BY <1>6, <1>7

-----------------------------------------------------------------------------
(***************************************************************************)
(* The worker that sends the mails, time, and thread ingestion.            *)
(***************************************************************************)
LEMMA WorkerKept ==
  ASSUME DoorInv, UNCHANGED <<stored, tab, asked>>, NEW i \in DOMAIN links,
         SendsVerification(i) \/ SendsReset(i) \/ Expires(i)
  PROVE  DoorInv'
<1> USE DEF DoorInv
<1>1. links \in Seq(LinkRow) /\ links[i] \in LinkRow /\ breaks \in 0..MaxBreaks /\ MaxBreaks \in Nat
  BY AccountsAssumption DEF DoorShape
<1>2. UNCHANGED <<row, burnt, ask>>
  BY DEF SendsVerification, SendsReset, Expires
<1>3. /\ \/ \E m \in {"sent", "dropped"} : links' = [links EXCEPT ![i].mail = m]
         \/ links' = [links EXCEPT ![i].valid = FALSE]
      /\ breaks' = breaks \/ (breaks < MaxBreaks /\ breaks' = breaks + 1)
  BY DEF SendsVerification, SendsReset, Expires, Goes
<1>4. PICK to \in LinkRow : /\ links' = [links EXCEPT ![i] = to]
                            /\ to.honoured = links[i].honoured /\ to.together = links[i].together
                            /\ to.valid => links[i].valid
  <2>1. ASSUME NEW m \in {"sent", "dropped"}, links' = [links EXCEPT ![i].mail = m]
        PROVE  \E to \in LinkRow : /\ links' = [links EXCEPT ![i] = to]
                                   /\ to.honoured = links[i].honoured /\ to.together = links[i].together
                                   /\ to.valid => links[i].valid
    <3> DEFINE to == [links[i] EXCEPT !.mail = m]
    <3>1. to \in LinkRow /\ to.honoured = links[i].honoured /\ to.together = links[i].together /\ to.valid = links[i].valid
      BY <1>1 DEF LinkRow
    <3>2. links' = [links EXCEPT ![i] = to]
      BY <1>1, <2>1
    <3>3. QED
      BY <3>1, <3>2
  <2>2. CASE links' = [links EXCEPT ![i].valid = FALSE]
    <3> DEFINE to == [links[i] EXCEPT !.valid = FALSE]
    <3>1. to \in LinkRow /\ to.honoured = links[i].honoured /\ to.together = links[i].together /\ ~to.valid
      BY <1>1 DEF LinkRow
    <3>2. links' = [links EXCEPT ![i] = to]
      BY <1>1, <2>2
    <3>3. QED
      BY <3>1, <3>2
  <2>3. QED
    BY <1>3, <2>1, <2>2
<1>5. /\ links' \in Seq(LinkRow) /\ DOMAIN links' = DOMAIN links /\ Len(links') = Len(links)
      /\ \A j \in DOMAIN links' : /\ links'[j].honoured = links[j].honoured /\ links'[j].together = links[j].together
                                  /\ links'[j].valid => links[j].valid
  BY <1>1, <1>4
<1>6. DoorShape'
  BY <1>1, <1>2, <1>3, <1>5 DEF DoorShape
<1>7. RowLives' /\ Placed'
  BY <1>2, <1>5 DEF RowLives, Placed
<1>8. LinkUse'
  <2>1. \A j \in DOMAIN links' : Readers(j)' = Readers(j)
    BY <1>2 DEF Readers
  <2>2. QED
    BY <1>1, <1>5, <2>1, ReadersLeave
<1>9. RoomLeft'
  BY <1>2, <1>5 DEF RoomLeft, Mailing
<1>10. QED
  BY <1>6, <1>7, <1>8, <1>9

LEMMA MailRowKept == ASSUME DoorInv, UNCHANGED <<stored, tab, asked>>, MailMakesRow PROVE DoorInv'
<1> USE DEF DoorInv
<1>1. UNCHANGED <<links, burnt, ask, breaks>> /\ row' = Created("none", FALSE)
  BY DEF MailMakesRow
<1>2. row' \in UserRow /\ row'.exists
  BY <1>1, CreatedRow DEF Passwords
<1>3. DoorShape'
  BY <1>1, <1>2 DEF DoorShape
<1>4. RowLives'
  BY <1>1, <1>2 DEF RowLives
<1>5. Placed'
  BY <1>1 DEF Placed
<1>6. LinkUse'
  <2>1. \A j : Readers(j)' = Readers(j)
    BY <1>1 DEF Readers
  <2>2. QED
    BY <1>1, <2>1 DEF LinkUse
<1>7. RoomLeft'
  BY <1>1 DEF RoomLeft, Mailing
<1>8. QED
  BY <1>3, <1>4, <1>5, <1>6, <1>7

\* Every step of AuthService keeps the invariant.
LEMMA AccountsKept == ASSUME DoorInv, AccountsNext, UNCHANGED <<stored, tab, asked>> PROVE DoorInv'
<1>1. ASSUME NEW t \in Tabs, Serve(t) \/ Breaks(t) PROVE DoorInv'
  <2>1. CASE FindsLink(t) \/ UsesLink(t)
    BY <2>1, LinkKept
  <2>2. CASE ~(FindsLink(t) \/ UsesLink(t))
    <3>1. \E step : Serves(t, step)
      <4>1. CASE HandoffExpires(t) \/ Burn(t) \/ SigninChecks(t) \/ FindsUser(t) \/ Breaks(t)
        BY <4>1, LooksServe
      <4>2. CASE WritesUser(t)
        BY <4>2, WriteServes
      <4>3. CASE SignupMails(t) \/ Resends(t) \/ Forgot(t) \/ Verifies(t) \/ Resets(t)
        BY <4>3, MailServes
      <4>4. QED
        BY <1>1, <2>2, <4>1, <4>2, <4>3 DEF Serve
    <3>2. QED
      BY <3>1, ServesKeeps
  <2>3. QED
    BY <2>1, <2>2
<1>2. QED
  BY <1>1, WorkerKept, MailRowKept DEF AccountsNext

-----------------------------------------------------------------------------
(***************************************************************************)
(* The tabs.  A step of one tab moves that tab and its call; the others    *)
(* hear of a change of storage at most.                                    *)
(***************************************************************************)
PlacedAt(t) ==
  /\ ask[t].op = "none" <=> ask[t].step = "idle"
  /\ ask[t].op # "none" => tab[t].page = PageOf(ask[t].op)
  /\ IF ask[t].op \in Linked THEN ask[t].link \in DOMAIN links ELSE ask[t].link = 0
  /\ IF tab[t].page \in Linked THEN tab[t].link \in DOMAIN links ELSE tab[t].link = 0

TabsTyped ==
  /\ ask \in [Tabs -> AskRow] /\ tab \in [Tabs -> TabRow] /\ stored \in [{"here", "away"} -> Sessions] /\ asked \in 0..MaxAsks

Moves(t) ==
  /\ UNCHANGED <<row, links, burnt, breaks>>
  /\ TabsTyped'
  /\ \A u \in Tabs \ {t} : ask'[u] = ask[u] /\ tab'[u].page = tab[u].page /\ tab'[u].link = tab[u].link
  /\ PlacedAt(t)'
  /\ \/ ask'[t] = ask[t]
     \/ /\ ask'[t].step \in {"idle", "sent"} /\ ~ask'[t].found
        /\ t \in Mailing' => Len(links) + Cardinality(Mailing) < MaxLinks

LEMMA MovesKeep == ASSUME DoorInv, NEW t \in Tabs, Moves(t) PROVE DoorInv'
<1> USE DEF DoorInv
<1>1. UNCHANGED <<row, links, burnt, breaks>> /\ \A u \in Tabs \ {t} : ask'[u] = ask[u]
  BY DEF Moves
<1>2. ask'[t] = ask[t] \/ (ask'[t].step \in {"idle", "sent"} /\ ~ask'[t].found)
  BY DEF Moves
<1>3. DoorShape'
  BY DEF Moves, DoorShape, TabsTyped
<1>4. RowLives'
  <2>1. ASSUME NEW u \in Tabs, ask'[u].found \/ (ask'[u].op = "signup" /\ ask'[u].step = "made")
        PROVE  ask'[u] = ask[u]
    BY <1>1, <1>2, <2>1
  <2>2. QED
    BY <1>1, <2>1 DEF RowLives
<1>5. Placed'
  <2>1. PlacedAt(t)'
    BY DEF Moves
  <2>2. \A u \in Tabs \ {t} : tab'[u].page = tab[u].page /\ tab'[u].link = tab[u].link
    BY DEF Moves
  <2>3. QED
    BY <1>1, <2>1, <2>2 DEF Placed, PlacedAt
<1>6. LinkUse'
  <2>1. \A i : Readers(i)' \subseteq Readers(i)
    BY <1>1, <1>2 DEF Readers
  <2>2. links \in Seq(LinkRow) /\ links' \in Seq(LinkRow) /\ links' = links
    BY <1>1 DEF DoorShape
  <2>3. QED
    BY <2>1, <2>2, ReadersLeave
<1>7. RoomLeft'
  <2>1. Mailing \subseteq Tabs /\ Mailing' \subseteq Tabs /\ Len(links) \in Nat /\ MaxLinks \in Nat
    BY AccountsAssumption DEF Mailing, DoorShape
  <2>2. IsFiniteSet(Mailing) /\ Cardinality(Mailing) \in Nat /\ Cardinality(Mailing') \in Nat
    BY <2>1, TabSets
  <2>3. CASE Mailing' \subseteq Mailing
    <3>1. Cardinality(Mailing') <= Cardinality(Mailing)
      BY <2>1, <2>3, TabSets
    <3>2. QED
      BY <1>1, <2>1, <2>2, <3>1 DEF RoomLeft
  <2>4. CASE ~(Mailing' \subseteq Mailing)
    <3>1. t \in Mailing' /\ Mailing' \subseteq Mailing \union {t} /\ t \notin Mailing
      BY <1>1, <2>4 DEF Mailing
    <3>2. Len(links) + Cardinality(Mailing) < MaxLinks
      BY <3>1, <1>1 DEF Moves, Mailing
    <3>3. Cardinality(Mailing \union {t}) = Cardinality(Mailing) + 1
      BY <2>2, <3>1, FS_AddElement
    <3>4. Cardinality(Mailing') <= Cardinality(Mailing \union {t})
      <4>1. Mailing \union {t} \in SUBSET Tabs
        BY <2>1
      <4>2. QED
        BY <3>1, <4>1, TabSets
    <3>5. QED
      BY <1>1, <2>1, <2>2, <3>2, <3>3, <3>4 DEF RoomLeft
  <2>5. QED
    BY <2>3, <2>4
<1>8. QED
  BY <1>3, <1>4, <1>5, <1>6, <1>7

\* A tab's own step, seen at its fields.
LEMMA TabMoves ==
  ASSUME DoorInv, NEW t \in Tabs, NEW z \in TabRow, tab' = [tab EXCEPT ![t] = z],
         UNCHANGED <<row, links, burnt, breaks, ask>>, stored' = stored, asked' = asked,
         IF z.page \in Linked THEN z.link \in DOMAIN links ELSE z.link = 0,
         ask[t].op # "none" => z.page = tab[t].page
  PROVE  DoorInv'
<1>1. ask \in [Tabs -> AskRow] /\ tab \in [Tabs -> TabRow] /\ stored \in [{"here", "away"} -> Sessions] /\ asked \in 0..MaxAsks
  BY DEF DoorInv, DoorShape
<1>2. tab' \in [Tabs -> TabRow] /\ tab'[t] = z /\ \A u \in Tabs \ {t} : tab'[u] = tab[u]
  BY <1>1
<1>3. TabsTyped'
  BY <1>1, <1>2 DEF TabsTyped
<1>4. PlacedAt(t)'
  <2>1. PlacedAt(t)
    BY DEF DoorInv, Placed, PlacedAt
  <2>2. QED
    BY <1>2, <2>1 DEF PlacedAt
<1>5. Moves(t)
  BY <1>2, <1>3, <1>4 DEF Moves
<1>6. QED
  BY <1>5, MovesKeep

\* What a tab knows of itself.
LEMMA TabFacts ==
  ASSUME DoorInv, NEW t \in Tabs
  PROVE  /\ tab \in [Tabs -> TabRow] /\ tab[t] \in TabRow /\ ask \in [Tabs -> AskRow] /\ ask[t] \in AskRow
         /\ stored \in [{"here", "away"} -> Sessions] /\ stored[Browser(t)] \in Sessions
         /\ PlacedAt(t)
<1>1. Browser(t) \in {"here", "away"}
  BY DEF Browser
<1>2. QED
  BY <1>1 DEF DoorInv, DoorShape, Placed, PlacedAt

\* The provider loads and follows its browser; links are opened, pages left, timers run.
LEMMA ProviderKept == ASSUME DoorInv, NEW t \in Tabs, Load(t) \/ Rehydrate(t) \/ TimesOut(t) PROVE DoorInv'
<1>1. /\ tab \in [Tabs -> TabRow] /\ tab[t] \in TabRow /\ PlacedAt(t)
  BY TabFacts
<1>2. UNCHANGED <<row, links, burnt, breaks, ask>> /\ stored' = stored /\ asked' = asked
  BY DEF Load, Rehydrate, TimesOut, accountVars
<1>3. ASSUME NEW z \in TabRow, tab' = [tab EXCEPT ![t] = z], z.page = tab[t].page, z.link = tab[t].link PROVE DoorInv'
  BY <1>1, <1>2, <1>3, TabMoves DEF PlacedAt
<1>4. PICK s \in Sessions : s = stored[Browser(t)]
  BY TabFacts
<1>5. CASE Load(t)
  <2> DEFINE z == [tab[t] EXCEPT !.loaded = TRUE, !.session = s]
  <2>1. z \in TabRow /\ z.page = tab[t].page /\ z.link = tab[t].link
    BY <1>1 DEF TabRow
  <2>2. tab' = [tab EXCEPT ![t] = z]
    BY <1>1, <1>4, <1>5 DEF Load
  <2>3. QED
    BY <1>3, <2>1, <2>2
<1>6. CASE Rehydrate(t)
  <2> DEFINE renders == s # "none" \/ tab[t].session # "none"
             cut == tab[t].cut \/ (renders /\ tab[t].page \in Handoffs /\ tab[t].state = "busy")
             timer == tab[t].timer /\ ~renders
             z == [tab[t] EXCEPT !.stale = FALSE, !.session = s, !.cut = cut, !.timer = timer]
  <2>1. tab' = [tab EXCEPT ![t] = z]
    BY <1>1, <1>4, <1>6 DEF Rehydrate, TabRow
  <2>2. cut \in BOOLEAN /\ timer \in BOOLEAN
    OBVIOUS
  <2> HIDE DEF cut, timer
  <2>3. z \in TabRow /\ z.page = tab[t].page /\ z.link = tab[t].link
    BY <1>1, <2>2 DEF TabRow
  <2>4. QED
    BY <1>3, <2>1, <2>3
<1>7. CASE TimesOut(t)
  <2> DEFINE z == [tab[t] EXCEPT !.timer = FALSE, !.state = "error"]
  <2>1. z \in TabRow /\ z.page = tab[t].page /\ z.link = tab[t].link
    BY <1>1 DEF TabRow
  <2>2. tab' = [tab EXCEPT ![t] = z]
    BY <1>1, <1>7 DEF TimesOut
  <2>3. QED
    BY <1>3, <2>1, <2>2
<1>8. QED
  BY <1>5, <1>6, <1>7

LEMMA PagesKept == ASSUME DoorInv, NEW t \in Tabs, OpenLink(t) \/ GoOn(t) PROVE DoorInv'
<1>1. /\ tab \in [Tabs -> TabRow] /\ tab[t] \in TabRow /\ ask[t] \in AskRow /\ PlacedAt(t)
  BY TabFacts
<1>2. UNCHANGED <<row, links, burnt, breaks, ask>> /\ stored' = stored /\ asked' = asked
  BY DEF OpenLink, GoOn, accountVars
<1>3. CASE OpenLink(t)
  <2>1. PICK i \in DOMAIN links : tab' = [tab EXCEPT ![t] = [NewTab(links[i].kind) EXCEPT !.link = i]]
    BY <1>3 DEF OpenLink
  <2>2. links \in Seq(LinkRow) /\ links[i] \in LinkRow /\ i \in Nat
    BY DEF DoorInv, DoorShape
  <2> DEFINE z == [NewTab(links[i].kind) EXCEPT !.link = i]
  <2>3. links[i].kind \in Linked
    BY <2>2 DEF LinkRow, Linked
  <2>4. z \in TabRow /\ z.link = i /\ z.page \in Linked
    BY <2>2, <2>3 DEF NewTab, TabRow, Sessions, DoorPages, Linked
  <2>5. ask[t].op = "none"
    BY <1>1, <1>3 DEF OpenLink, PlacedAt, PageOf, AskRow, Ops
  <2> HIDE DEF z
  <2>6. PICK y \in TabRow : y = z
    BY <2>4
  <2>7. tab' = [tab EXCEPT ![t] = y]
    BY <2>1, <2>6 DEF z
  <2>8. QED
    BY <1>2, <2>4, <2>5, <2>6, <2>7, TabMoves
<1>4. CASE GoOn(t)
  <2> DEFINE page == IF tab[t].session = "none" THEN "auth" ELSE "home"
             z == [tab[t] EXCEPT !.page = page, !.state = "idle", !.link = 0, !.cut = FALSE, !.timer = FALSE, !.had = "none"]
  <2>1. tab' = [tab EXCEPT ![t] = z] /\ ask[t].op = "none"
    BY <1>4 DEF GoOn
  <2>2. page \in {"auth", "home"}
    OBVIOUS
  <2> HIDE DEF page
  <2>3. z \in TabRow /\ z.page \notin Linked /\ z.link = 0
    BY <1>1, <2>2 DEF TabRow, DoorPages, Sessions, Linked
  <2>4. QED
    BY <1>2, <2>1, <2>3, TabMoves
<1>5. QED
  BY <1>3, <1>4

\* localStorage and the tab that changes it; its siblings hear of it.
LEMMA EnterMoves ==
  ASSUME DoorInv, NEW t \in Tabs, NEW session \in Sessions, NEW shows \in TabRow, Enter(t, session, shows)
  PROVE  /\ stored' \in [{"here", "away"} -> Sessions] /\ tab' \in [Tabs -> TabRow]
         /\ tab'[t].page = shows.page /\ tab'[t].link = shows.link
         /\ \A u \in Tabs \ {t} : tab'[u].page = tab[u].page /\ tab'[u].link = tab[u].link
<1>1. stored \in [{"here", "away"} -> Sessions] /\ tab \in [Tabs -> TabRow]
  BY TabFacts
<1> DEFINE z == [shows EXCEPT !.session = session]
           tabs == [tab EXCEPT ![t] = z]
<1>2. z \in TabRow /\ z.page = shows.page /\ z.link = shows.link
  BY DEF TabRow
<1>3. tabs \in [Tabs -> TabRow] /\ tabs[t] = z /\ \A u \in Tabs \ {t} : tabs[u] = tab[u]
  BY <1>1, <1>2
<1>4. stored' = [stored EXCEPT ![Browser(t)] = session] /\ tab' = Told(tabs, t)
  BY DEF Enter
<1> HIDE DEF z, tabs
<1>5. ASSUME NEW u \in Tabs
      PROVE  /\ Told(tabs, t)[u] \in TabRow
             /\ Told(tabs, t)[u].page = tabs[u].page /\ Told(tabs, t)[u].link = tabs[u].link
  <2>1. tabs[u] \in TabRow
    BY <1>3
  <2>2. [tabs[u] EXCEPT !.stale = TRUE] \in TabRow
    BY <2>1 DEF TabRow
  <2>3. Told(tabs, t)[u] \in {tabs[u], [tabs[u] EXCEPT !.stale = TRUE]}
    BY DEF Told
  <2>4. QED
    BY <2>1, <2>2, <2>3 DEF TabRow
<1>6. Told(tabs, t) \in [Tabs -> TabRow]
  <2>1. Told(tabs, t) = [u \in Tabs |-> Told(tabs, t)[u]]
    BY DEF Told
  <2>2. QED
    BY <1>5, <2>1
<1>7. stored' \in [{"here", "away"} -> Sessions]
  BY <1>1, <1>4
<1>8. QED
  BY <1>2, <1>3, <1>4, <1>5, <1>6, <1>7

LEMMA SignOutKept == ASSUME DoorInv, NEW t \in Tabs, SignOutHere(t) PROVE DoorInv'
<1>1. /\ tab[t] \in TabRow /\ ask \in [Tabs -> AskRow] /\ PlacedAt(t)
  BY TabFacts
<1>2. UNCHANGED <<row, links, burnt, breaks, ask, asked>> /\ Enter(t, "none", tab[t])
  BY DEF SignOutHere, accountVars
<1>3. PICK shows \in TabRow : shows = tab[t]
  BY <1>1
<1>4. Enter(t, "none", shows)
  BY <1>2, <1>3
<1>5. /\ stored' \in [{"here", "away"} -> Sessions] /\ tab' \in [Tabs -> TabRow]
      /\ tab'[t].page = tab[t].page /\ tab'[t].link = tab[t].link
      /\ \A u \in Tabs \ {t} : tab'[u].page = tab[u].page /\ tab'[u].link = tab[u].link
  BY <1>3, <1>4, EnterMoves DEF Sessions
<1>6. TabsTyped'
  BY <1>1, <1>2, <1>5 DEF TabsTyped, DoorInv, DoorShape
<1>7. PlacedAt(t)'
  BY <1>1, <1>2, <1>5 DEF PlacedAt
<1>8. Moves(t)
  BY <1>2, <1>5, <1>6, <1>7 DEF Moves
<1>9. QED
  BY <1>8, MovesKeep

-----------------------------------------------------------------------------
(***************************************************************************)
(* Calls and answers.                                                      *)
(***************************************************************************)
LEMMA CallMoves ==
  ASSUME DoorInv, NEW t \in Tabs, NEW call \in AskRow, call.step = "sent", ~call.found, Calls(t, call)
  PROVE  /\ ask[t].op = "none" /\ ask' \in [Tabs -> AskRow] /\ ask'[t] = call /\ \A u \in Tabs \ {t} : ask'[u] = ask[u]
         /\ asked' \in 0..MaxAsks
         /\ t \in Mailing' => Len(links) + Cardinality(Mailing) < MaxLinks
<1>1. ask \in [Tabs -> AskRow] /\ asked \in 0..MaxAsks /\ MaxAsks \in Nat
  BY DoorAssumption DEF DoorInv, DoorShape
<1>2. ask[t].op = "none" /\ asked < MaxAsks /\ asked' = asked + 1 /\ ask' = [ask EXCEPT ![t] = call]
  BY DEF Calls
<1>3. call.op \in Mailers => Len(links) + Cardinality(Mailing) < MaxLinks
  BY DEF Calls, Room, Mailing, Mailers
<1>4. ask' \in [Tabs -> AskRow] /\ ask'[t] = call /\ \A u \in Tabs \ {t} : ask'[u] = ask[u]
  BY <1>1, <1>2
<1>5. t \in Mailing' => call.op \in Mailers
  BY <1>4 DEF Mailing
<1>6. asked' \in 0..MaxAsks
  BY <1>1, <1>2
<1>7. QED
  BY <1>2, <1>3, <1>4, <1>5, <1>6

\* A call is made from the page it belongs to.
LEMMA SentKeeps ==
  ASSUME DoorInv, NEW t \in Tabs, NEW call \in AskRow, call.step = "sent", ~call.found, Calls(t, call),
         call.op # "none", tab[t].page = PageOf(call.op),
         IF call.op \in Linked THEN call.link = tab[t].link ELSE call.link = 0,
         NEW z \in TabRow, tab' = [tab EXCEPT ![t] = z], z.page = tab[t].page, z.link = tab[t].link,
         UNCHANGED <<row, links, burnt, breaks, stored>>
  PROVE  DoorInv'
<1>1. /\ tab \in [Tabs -> TabRow] /\ stored \in [{"here", "away"} -> Sessions] /\ PlacedAt(t)
  BY TabFacts
<1>2. /\ ask' \in [Tabs -> AskRow] /\ ask'[t] = call /\ \A u \in Tabs \ {t} : ask'[u] = ask[u]
      /\ asked' \in 0..MaxAsks
      /\ t \in Mailing' => Len(links) + Cardinality(Mailing) < MaxLinks
  BY CallMoves
<1>3. tab' \in [Tabs -> TabRow] /\ tab'[t] = z /\ \A u \in Tabs \ {t} : tab'[u] = tab[u]
  BY <1>1
<1>4. TabsTyped'
  BY <1>1, <1>2, <1>3 DEF TabsTyped
<1>5. call.op \in Linked => tab[t].page \in Linked
  BY DEF PageOf, Linked
<1>6. PlacedAt(t)'
  BY <1>1, <1>2, <1>3, <1>5 DEF PlacedAt
<1>7. Moves(t)
  BY <1>2, <1>3, <1>4, <1>6 DEF Moves
<1>8. QED
  BY <1>7, MovesKeep

\* A call as it is sent.
LEMMA AskIsCall ==
  ASSUME NEW op \in Ops \ {"none"}
  PROVE  /\ Ask(op) \in AskRow /\ Ask(op).step = "sent" /\ ~Ask(op).found /\ Ask(op).op = op /\ Ask(op).link = 0
BY DEF Ask, NoAsk, AskRow, AskSteps, Passwords, Sessions, Ops

LEMMA SubmitKept == ASSUME DoorInv, NEW t \in Tabs, SubmitForm(t) PROVE DoorInv'
<1>1. /\ tab[t] \in TabRow /\ tab[t].link \in Nat
  BY TabFacts DEF TabRow
<1>2. PICK call \in FormOf(t) : Calls(t, call)
  BY DEF SubmitForm
<1>3. PICK z \in TabRow : tab' = [tab EXCEPT ![t] = z] /\ z.page = tab[t].page /\ z.link = tab[t].link
  <2> DEFINE z == [tab[t] EXCEPT !.state = "busy"]
  <2>1. z \in TabRow /\ z.page = tab[t].page /\ z.link = tab[t].link
    BY <1>1 DEF TabRow
  <2>2. tab' = [tab EXCEPT ![t] = z]
    BY DEF SubmitForm
  <2>3. QED
    BY <2>1, <2>2
<1>4. UNCHANGED <<row, links, burnt, breaks, stored>>
  BY DEF SubmitForm
<1>5. /\ call \in AskRow /\ call.step = "sent" /\ ~call.found /\ call.op # "none" /\ tab[t].page = PageOf(call.op)
      /\ IF call.op \in Linked THEN call.link = tab[t].link ELSE call.link = 0
  <2>1. CASE tab[t].page = "auth" /\ call \in SignInForm
    <3>1. PICK p \in {"old", "new"} : call = [Ask("signin") EXCEPT !.password = p]
      BY <2>1 DEF SignInForm
    <3>2. call \in AskRow /\ call.step = "sent" /\ ~call.found /\ call.op = "signin" /\ call.link = 0
      BY <3>1, AskIsCall DEF AskRow, Passwords, Ops
    <3>3. QED
      BY <2>1, <3>2 DEF PageOf, Linked
  <2>2. CASE tab[t].page = "auth" /\ call \in SignUpForm
    <3>1. call = [Ask("signup") EXCEPT !.password = "old"]
      BY <2>2 DEF SignUpForm
    <3>2. call \in AskRow /\ call.step = "sent" /\ ~call.found /\ call.op = "signup" /\ call.link = 0
      BY <3>1, AskIsCall DEF AskRow, Passwords, Ops
    <3>3. QED
      BY <2>2, <3>2 DEF PageOf, Linked
  <2>3. CASE tab[t].page = "forgot"
    <3>1. call = Ask("forgot")
      BY <1>2, <2>3 DEF FormOf, ForgotForm
    <3>2. call \in AskRow /\ call.step = "sent" /\ ~call.found /\ call.op = "forgot" /\ call.link = 0
      BY <3>1, AskIsCall DEF Ops
    <3>3. QED
      BY <2>3, <3>2 DEF PageOf, Linked
  <2>4. CASE tab[t].page = "reset"
    <3>1. call = [Ask("reset") EXCEPT !.password = "new", !.link = tab[t].link]
      BY <1>2, <2>4 DEF FormOf, ResetForm
    <3>2. PICK n \in Nat : n = tab[t].link
      BY <1>1
    <3>3. call = [Ask("reset") EXCEPT !.password = "new", !.link = n]
      BY <3>1, <3>2
    <3>4. call \in AskRow /\ call.step = "sent" /\ ~call.found /\ call.op = "reset" /\ call.link = n
      <4>1. PICK a \in AskRow : a = Ask("reset") /\ a.step = "sent" /\ ~a.found /\ a.op = "reset"
        BY AskIsCall DEF Ops
      <4>2. call = [a EXCEPT !.password = "new", !.link = n] /\ "new" \in Passwords
        BY <3>3, <4>1 DEF Passwords
      <4>3. QED
        BY <4>1, <4>2 DEF AskRow
    <3>5. QED
      BY <2>4, <3>2, <3>4 DEF PageOf, Linked
  <2>5. QED
    BY <1>2, <2>1, <2>2, <2>3, <2>4 DEF FormOf
<1>6. QED
  BY <1>2, <1>3, <1>4, <1>5, SentKeeps

LEMMA EffectKept == ASSUME DoorInv, NEW t \in Tabs, RunEffect(t) PROVE DoorInv'
<1>1. /\ tab[t] \in TabRow /\ tab[t].link \in Nat /\ tab[t].session \in Sessions /\ PlacedAt(t)
  BY TabFacts DEF TabRow
<1>2. PICK page \in {"verify", "google", "sso"}, timer \in BOOLEAN : Acts(t, page, timer)
  BY DEF RunEffect, VerifyEffect, GoogleEffect, HandoffEffect
<1>3. PICK n \in Nat : n = tab[t].link
  BY <1>1
<1> DEFINE call == [Ask(page) EXCEPT !.link = n]
<1>4. /\ tab[t].page = page /\ Calls(t, call) /\ UNCHANGED <<row, links, burnt, breaks, stored>>
      /\ tab' = [tab EXCEPT ![t].state = "busy", ![t].had = tab[t].session, ![t].timer = timer]
  BY <1>2, <1>3 DEF Acts
<1>5. PICK z \in TabRow : tab' = [tab EXCEPT ![t] = z] /\ z.page = tab[t].page /\ z.link = tab[t].link
  <2>1. PICK s \in Sessions : s = tab[t].session
    BY <1>1
  <2> DEFINE z == [tab[t] EXCEPT !.state = "busy", !.had = s, !.timer = timer]
  <2>2. z \in TabRow /\ z.page = tab[t].page /\ z.link = tab[t].link
    BY <1>1 DEF TabRow
  <2>3. tab' = [tab EXCEPT ![t] = z]
    BY <1>4, <2>1
  <2>4. QED
    BY <2>2, <2>3
<1>6. page \in Ops \ {"none"} /\ PageOf(page) = page
  BY DEF Ops, PageOf
<1>7. call \in AskRow /\ call.step = "sent" /\ ~call.found /\ call.op = page /\ call.link = n
  BY <1>6, AskIsCall DEF AskRow
<1>8. IF page \in Linked THEN n = tab[t].link ELSE n = 0
  BY <1>1, <1>3, <1>4 DEF PlacedAt
<1>9. page # "none"
  BY <1>6
<1> HIDE DEF call
<1>10. QED
  BY <1>4, <1>5, <1>6, <1>7, <1>8, <1>9, SentKeeps

LEMMA ResendKept == ASSUME DoorInv, NEW t \in Tabs, PressResend(t) PROVE DoorInv'
<1>1. tab \in [Tabs -> TabRow] /\ tab[t] \in TabRow
  BY TabFacts
<1>2. PICK z \in TabRow : z = tab[t]
  BY <1>1
<1>3. /\ tab[t].page = "home" /\ Calls(t, Ask("resend")) /\ UNCHANGED <<row, links, burnt, breaks, stored>>
      /\ tab' = [tab EXCEPT ![t] = z]
  BY <1>1, <1>2 DEF PressResend
<1>4. PICK call \in AskRow : call = Ask("resend")
  BY AskIsCall DEF Ops
<1>5. call.step = "sent" /\ ~call.found /\ call.op = "resend" /\ call.link = 0
  BY <1>4, AskIsCall DEF Ops
<1>6. Calls(t, call) /\ tab[t].page = PageOf(call.op) /\ call.op \notin Linked /\ call.op # "none"
  BY <1>3, <1>4, <1>5 DEF PageOf, Linked
<1>7. z.page = tab[t].page /\ z.link = tab[t].link
  BY <1>2
<1>8. QED
  BY <1>3, <1>5, <1>6, <1>7, SentKeeps

\* A call hangs up.
LEMMA HangMoves ==
  ASSUME DoorInv, NEW t \in Tabs, Hangs(t), UNCHANGED <<row, links, burnt, breaks, asked>>,
         stored' \in [{"here", "away"} -> Sessions], tab' \in [Tabs -> TabRow],
         IF tab'[t].page \in Linked THEN tab'[t].link \in DOMAIN links ELSE tab'[t].link = 0,
         \A u \in Tabs \ {t} : tab'[u].page = tab[u].page /\ tab'[u].link = tab[u].link
  PROVE  DoorInv'
<1>1. ask \in [Tabs -> AskRow] /\ asked \in 0..MaxAsks
  BY DEF DoorInv, DoorShape
<1>2. NoAsk \in AskRow /\ NoAsk.step = "idle" /\ NoAsk.op = "none" /\ NoAsk.link = 0 /\ ~NoAsk.found
  BY DEF NoAsk, AskRow, Ops, AskSteps, Passwords, Sessions
<1>3. ask' \in [Tabs -> AskRow] /\ ask'[t] = NoAsk /\ \A u \in Tabs \ {t} : ask'[u] = ask[u]
  BY <1>1, <1>2 DEF Hangs
<1>4. TabsTyped'
  BY <1>1, <1>3 DEF TabsTyped
<1>5. PlacedAt(t)'
  BY <1>2, <1>3 DEF PlacedAt, Linked
<1>6. t \notin Mailing'
  BY <1>2, <1>3 DEF Mailing
<1>7. Moves(t)
  BY <1>2, <1>3, <1>4, <1>5, <1>6 DEF Moves
<1>8. QED
  BY <1>7, MovesKeep

LEMMA HangKeeps ==
  ASSUME DoorInv, NEW t \in Tabs, Hangs(t), UNCHANGED <<row, links, burnt, breaks, asked, stored>>,
         NEW z \in TabRow, tab' = [tab EXCEPT ![t] = z], z.page = tab[t].page, z.link = tab[t].link
  PROVE  DoorInv'
<1>1. tab \in [Tabs -> TabRow] /\ stored \in [{"here", "away"} -> Sessions] /\ PlacedAt(t)
  BY TabFacts
<1>2. tab' \in [Tabs -> TabRow] /\ tab'[t] = z /\ \A u \in Tabs \ {t} : tab'[u] = tab[u]
  BY <1>1
<1>3. QED
  BY <1>1, <1>2, HangMoves DEF PlacedAt

LEMMA BadKept == ASSUME DoorInv, NEW t \in Tabs, Bad(t) PROVE DoorInv'
<1>1. tab[t] \in TabRow /\ tab[t].state \in {"idle", "busy", "error", "done"}
  BY TabFacts DEF TabRow
<1> DEFINE state == CASE tab[t].cut \/ ask[t].op = "resend" -> tab[t].state
                      [] ask[t].op = "forgot" -> "done"
                      [] OTHER -> "error"
           z == [tab[t] EXCEPT !.timer = FALSE, !.state = state]
<1>2. Hangs(t) /\ UNCHANGED <<row, links, burnt, breaks, asked, stored>>
  BY DEF Bad
<1>3. tab' = [tab EXCEPT ![t] = z]
  <2>1. tab \in [Tabs -> TabRow]
    BY TabFacts
  <2>2. tab' = [tab EXCEPT ![t].timer = FALSE, ![t].state = state]
    BY <1>1, <2>1 DEF Bad, TabRow
  <2> HIDE DEF state
  <2>3. QED
    BY <2>1, <2>2
<1>4. state \in {"idle", "busy", "error", "done"}
  BY <1>1
<1> HIDE DEF state
<1>5. z \in TabRow /\ z.page = tab[t].page /\ z.link = tab[t].link
  BY <1>1, <1>4 DEF TabRow
<1> HIDE DEF z
<1>6. PICK y \in TabRow : y = z
  BY <1>5
<1>7. QED
  BY <1>2, <1>3, <1>5, <1>6, HangKeeps

LEMMA GoodKept == ASSUME DoorInv, NEW t \in Tabs, Good(t) PROVE DoorInv'
<1>1. /\ tab \in [Tabs -> TabRow] /\ tab[t] \in TabRow /\ PlacedAt(t) /\ ask[t].session \in Sessions
  BY TabFacts DEF AskRow
<1>2. Hangs(t) /\ UNCHANGED <<row, links, burnt, breaks, asked>> /\ ask[t].op # "none"
  BY <1>1 DEF Good, PlacedAt
<1>3. PICK old \in TabRow : old = tab[t]
  BY <1>1
<1>4. PICK s \in Sessions : s = ask[t].session
  BY <1>1
<1>5. ASSUME NEW session \in Sessions, NEW shows \in TabRow, Enter(t, session, shows),
             IF shows.page \in Linked THEN shows.link \in DOMAIN links ELSE shows.link = 0
      PROVE  DoorInv'
  <2>1. /\ stored' \in [{"here", "away"} -> Sessions] /\ tab' \in [Tabs -> TabRow]
        /\ tab'[t].page = shows.page /\ tab'[t].link = shows.link
        /\ \A u \in Tabs \ {t} : tab'[u].page = tab[u].page /\ tab'[u].link = tab[u].link
    BY <1>5, EnterMoves
  <2>2. QED
    BY <1>2, <1>5, <2>1, HangMoves
<1>6. [old EXCEPT !.state = "done"] \in TabRow /\ [old EXCEPT !.timer = FALSE] \in TabRow
  BY DEF TabRow
<1>7. CASE SignsIn(t)
  <2>1. Enter(t, s, [old EXCEPT !.page = "home", !.state = "idle", !.timer = FALSE])
    BY <1>3, <1>4, <1>7 DEF SignsIn
  <2> DEFINE shows == [old EXCEPT !.page = "home", !.state = "idle", !.timer = FALSE]
  <2>2. old.page \notin Linked
    BY <1>1, <1>2, <1>3, <1>7 DEF SignsIn, PlacedAt, PageOf, Linked, Handoffs
  <2>3. old.link = 0
    BY <1>1, <1>3, <2>2 DEF PlacedAt
  <2>4. shows \in TabRow /\ shows.page \notin Linked /\ shows.link = 0
    BY <2>3 DEF TabRow, DoorPages, Linked
  <2> HIDE DEF shows
  <2>5. Enter(t, s, shows)
    BY <2>1 DEF shows
  <2>6. QED
    BY <1>5, <2>4, <2>5
<1>8. CASE ShowsVerified(t) /\ tab[t].had # "none"
  <2>1. Enter(t, "verified", [old EXCEPT !.state = "done"])
    BY <1>3, <1>8 DEF ShowsVerified
  <2> DEFINE shows == [old EXCEPT !.state = "done"]
  <2>2. shows \in TabRow /\ shows.page = tab[t].page /\ shows.link = tab[t].link
    BY <1>3, <1>6 DEF TabRow
  <2>3. "verified" \in Sessions
    BY DEF Sessions
  <2> HIDE DEF shows
  <2>4. Enter(t, "verified", shows)
    BY <2>1 DEF shows
  <2>5. QED
    BY <1>1, <1>5, <2>2, <2>3, <2>4 DEF PlacedAt
<1>9. CASE tab' = [tab EXCEPT ![t].state = "done"] /\ UNCHANGED stored
  <2> DEFINE z == [old EXCEPT !.state = "done"]
  <2>1. tab' = [tab EXCEPT ![t] = z]
    BY <1>3, <1>9
  <2>2. z \in TabRow /\ z.page = tab[t].page /\ z.link = tab[t].link
    BY <1>3, <1>6 DEF TabRow
  <2> HIDE DEF z
  <2>3. QED
    BY <1>2, <1>9, <2>1, <2>2, HangKeeps
<1>10. CASE Nothing(t)
  <2> DEFINE z == [old EXCEPT !.timer = FALSE]
  <2>1. tab' = [tab EXCEPT ![t] = z] /\ UNCHANGED stored
    BY <1>3, <1>10 DEF Nothing
  <2>2. z \in TabRow /\ z.page = tab[t].page /\ z.link = tab[t].link
    BY <1>3, <1>6 DEF TabRow
  <2> HIDE DEF z
  <2>3. QED
    BY <1>2, <2>1, <2>2, HangKeeps
<1>11. QED
  BY <1>7, <1>8, <1>9, <1>10 DEF Good, ShowsVerified, ShowsReset, ShowsMailed

\* Every step of the account and the tabs keeps the invariant.
LEMMA DoorKept == ASSUME DoorInv, [DoorNext]_doorVars PROVE DoorInv'
<1>1. CASE AccountsNext /\ UNCHANGED <<stored, tab, asked>>
  BY <1>1, AccountsKept
<1>2. ASSUME NEW t \in Tabs,
             Load(t) \/ Rehydrate(t) \/ SignOutHere(t) \/ SubmitForm(t) \/ RunEffect(t) \/ PressResend(t)
             \/ OpenLink(t) \/ GoOn(t) \/ TimesOut(t) \/ Good(t) \/ Bad(t)
      PROVE  DoorInv'
  BY <1>2, ProviderKept, PagesKept, SignOutKept, SubmitKept, EffectKept, ResendKept, GoodKept, BadKept
<1>3. CASE UNCHANGED doorVars
  <2>1. UNCHANGED <<row, links, burnt, ask, breaks, stored, tab, asked>>
    BY <1>3 DEF doorVars, accountVars
  <2>2. DoorShape' /\ RowLives'
    BY <2>1 DEF DoorInv, DoorShape, RowLives
  <2>3. Placed'
    BY <2>1 DEF DoorInv, Placed
  <2>4. LinkUse'
    <3>1. \A i : Readers(i)' = Readers(i)
      BY <2>1 DEF Readers
    <3>2. QED
      BY <2>1, <3>1 DEF DoorInv, LinkUse
  <2>5. RoomLeft'
    BY <2>1 DEF DoorInv, RoomLeft, Mailing
  <2>6. QED
    BY <2>2, <2>3, <2>4, <2>5 DEF DoorInv
<1>4. QED
  BY <1>1, <1>2, <1>3 DEF DoorNext

LEMMA DoorPromises == ASSUME DoorInv PROVE LinkOnce /\ DoorTypeOK
<1> USE DEF DoorInv
<1>1. /\ row \in UserRow /\ links \in Seq(LinkRow) /\ burnt \in BOOLEAN /\ breaks \in 0..MaxBreaks
      /\ ask \in [Tabs -> AskRow] /\ tab \in [Tabs -> TabRow]
      /\ stored \in [{"here", "away"} -> Sessions] /\ asked \in 0..MaxAsks
  BY DEF DoorShape
<1>2. Cardinality(Tabs) \in Nat /\ Len(links) \in Nat /\ MaxLinks \in Nat
  BY <1>1, TabSets, AccountsAssumption
<1>3. Len(links) <= MaxLinks
  <2>1. Mailing \in SUBSET Tabs
    BY DEF Mailing
  <2>2. Cardinality(Mailing) \in Nat
    BY <2>1, TabSets
  <2>3. QED
    BY <1>2, <2>2 DEF RoomLeft
<1>4. ASSUME NEW i \in DOMAIN links
      PROVE  /\ links[i].honoured > 1 => links[i].together
             /\ links[i] \in [kind : {"verify", "reset"}, valid : BOOLEAN, mail : {"queued", "sent", "dropped"},
                              honoured : 0..Cardinality(Tabs), together : BOOLEAN]
  <2>1. links[i] \in LinkRow
    BY <1>1
  <2>2. links[i].honoured \in Nat
    BY <2>1 DEF LinkRow
  <2>3. links[i].honoured > 1 => links[i].together
    BY <2>2 DEF LinkUse
  <2>4. Readers(i) \in SUBSET Tabs
    BY DEF Readers
  <2>5. Cardinality(Readers(i)) \in Nat
    BY <2>4, TabSets
  <2>6. links[i].honoured \in 0..Cardinality(Tabs)
    BY <1>2, <2>2, <2>5 DEF LinkUse
  <2> DEFINE h == 0..Cardinality(Tabs)
  <2> HIDE DEF h
  <2>7. links[i].honoured \in h
    BY <2>6 DEF h
  <2>8. links[i] \in [kind : {"verify", "reset"}, valid : BOOLEAN, mail : {"queued", "sent", "dropped"},
                      honoured : h, together : BOOLEAN]
    BY <2>1, <2>7 DEF LinkRow
  <2>9. QED
    BY <2>3, <2>8 DEF h
<1>5. \A i \in DOMAIN links \union {0} : i \in 0..MaxLinks
  BY <1>1, <1>2, <1>3
<1> DEFINE n == 0..MaxLinks
<1> HIDE DEF n
<1>6. ask \in [Tabs -> [op : Ops, step : AskSteps, link : n, password : Passwords, found : BOOLEAN, session : Sessions]]
  <2> SUFFICES ASSUME NEW t \in Tabs
               PROVE  ask[t] \in [op : Ops, step : AskSteps, link : n, password : Passwords, found : BOOLEAN, session : Sessions]
    BY <1>1
  <2>1. ask[t].link \in n /\ ask[t] \in AskRow
    BY <1>1, <1>5 DEF Placed, n
  <2>2. QED
    BY <2>1 DEF AskRow
<1>7. tab \in [Tabs -> [page : DoorPages, loaded : BOOLEAN, session : Sessions, stale : BOOLEAN, state : {"idle", "busy", "error", "done"},
                        link : n, had : Sessions, cut : BOOLEAN, timer : BOOLEAN]]
  <2> SUFFICES ASSUME NEW t \in Tabs
               PROVE  tab[t] \in [page : DoorPages, loaded : BOOLEAN, session : Sessions, stale : BOOLEAN,
                                  state : {"idle", "busy", "error", "done"}, link : n, had : Sessions, cut : BOOLEAN, timer : BOOLEAN]
    BY <1>1
  <2>1. tab[t].link \in n /\ tab[t] \in TabRow
    BY <1>1, <1>5 DEF Placed, n
  <2>2. QED
    BY <2>1 DEF TabRow
<1>8. LinkOnce
  BY <1>4 DEF LinkOnce
<1>9. AccountsTypeOK
  <2>1. ~row.exists => ~row.verified /\ row.password = "none"
    BY DEF RowLives
  <2>2. QED
    BY <1>1, <1>3, <1>4, <1>6, <2>1 DEF AccountsTypeOK, UserRow, AskSteps, n
<1>10. DoorTypeOK
  BY <1>1, <1>7, <1>9 DEF DoorTypeOK, n
<1>11. QED
  BY <1>8, <1>10

-----------------------------------------------------------------------------
(***************************************************************************)
(* The two together.                                                       *)
(***************************************************************************)
LEMMA FrontKept == ASSUME DoorInv, FormInv, [FrontNext]_frontVars PROVE DoorInv' /\ FormInv'
<1>1. [DoorNext]_doorVars /\ [FormNext]_formVars
  BY DEF FrontNext, frontVars
<1>2. QED
  BY <1>1, DoorKept, FormKept

LEMMA FrontAlways == FrontSpec => [](DoorInv /\ FormInv)
<1>1. FrontInit => DoorInv /\ FormInv
  BY DoorStarts, FormStarts DEF FrontInit
<1>2. DoorInv /\ FormInv /\ [FrontNext]_frontVars => (DoorInv /\ FormInv)'
  BY FrontKept
<1>3. QED
  BY <1>1, <1>2, PTL DEF FrontSpec

\* What a customer does once happens twice, or is missing, for the named causes only:
\* a mailed link does its work a second time only if two requests had both found it
\* valid (consumeMagicToken reads and marks in two statements), there are more tickets
\* than confirmed forms only after a failure, and a paper of a confirmed form is missing
\* from the ticket only if it was added after the press or the API did not take it.
THEOREM DoorIsOnce == FrontSpec => []OnceOrCaused
<1>1. DoorInv /\ FormInv => OnceOrCaused
  BY DoorPromises, FormPromises DEF OnceOrCaused
<1>2. QED
  BY <1>1, FrontAlways, PTL

\* The account, its links, the tabs and the form keep their types; with it, a row that
\* does not exist is neither verified nor has a password, and the links stay in bound.
THEOREM FrontIsTyped == FrontSpec => []FrontTypeOK
<1>1. DoorInv /\ FormInv => FrontTypeOK
  BY DoorPromises, FormPromises DEF FrontTypeOK
<1>2. QED
  BY <1>1, FrontAlways, PTL
=============================================================================
