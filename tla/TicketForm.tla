----------------------------- MODULE TicketForm -----------------------------
(***************************************************************************)
(* The portal's form for a new ticket: a guest asks for a token first, the *)
(* files and the link are uploaded one after the other, and the ticket is  *)
(* created with the attachments that got through.  The customer can change *)
(* his files all the while.  The link is one of Files.                     *)
(***************************************************************************)
EXTENDS Integers, FiniteSets, Sequences, Scenario

CONSTANTS
  Papers,      \* files, and the link, that a customer may add
  TooBig,      \* those the API refuses
  Links,       \* those that are links, not files
  MaxForms,    \* bound: forms confirmed, and attempts
  MaxFailures  \* bound: requests that fail

ASSUME FormAssumption == TooBig \subseteq Papers /\ Links \subseteq Papers \ TooBig /\ MaxForms \in Nat \ {0} /\ MaxFailures \in Nat

VARIABLES
  form,      \* the page
  rows,      \* Attachment rows: the file and the ticket (0: none yet)
  tickets,   \* tickets created
  objects,   \* objects in storage
  failures

formVars == <<form, rows, tickets, objects, failures>>

\* calling: the request the handler awaits; plan: what is still to upload, as the
\* handler captured it; got: the ids it has collected.  late, missed: papers added
\* after the press, and those whose upload was refused.
Blank == [papers |-> {}, calling |-> "none", step |-> "idle", plan |-> {}, got |-> {}, shown |-> 0, tries |-> 0, confirmed |-> 0,
          late |-> {}, missed |-> {}]

FormInit ==
  /\ form = Blank /\ rows = <<>> /\ tickets = 0 /\ objects = 0 /\ failures = 0

Busy == form.calling # "none"
Filling == "submit" \in story /\ form.shown = 0

\* What is uploaded next; the link comes last.
Now == CHOOSE p \in form.plan : p \in Links => form.plan \subseteq Links
Takes(p) == p \notin TooBig

-----------------------------------------------------------------------------
(***************************************************************************)
(* The customer.                                                           *)
(***************************************************************************)
AddPaper(p) ==
  /\ Filling /\ p \notin form.papers
  /\ form' = [form EXCEPT !.papers = @ \union {p}, !.late = IF Busy THEN @ \union {p} ELSE @]
  /\ UNCHANGED <<rows, tickets, objects, failures>>

RemovePaper(p) ==
  /\ Filling /\ p \in form.papers
  /\ form' = [form EXCEPT !.papers = @ \ {p}]
  /\ UNCHANGED <<rows, tickets, objects, failures>>

\* The request the handler makes next.
Ahead(plan) == IF plan = {} THEN "create" ELSE "upload"

\* The button; it is disabled while the form is being sent.
PressSubmit ==
  /\ Filling /\ ~Busy /\ form.tries < MaxForms
  /\ form' = [form EXCEPT !.calling = IF "guest" \in story THEN "guest" ELSE Ahead(form.papers), !.step = "sent",
                          !.plan = form.papers, !.got = {}, !.tries = @ + 1, !.late = {}, !.missed = {}]
  /\ UNCHANGED <<rows, tickets, objects, failures>>

SubmitAnother ==
  /\ form.shown > 0 /\ form.tries < MaxForms
  /\ form' = [Blank EXCEPT !.tries = form.tries, !.confirmed = form.confirmed]
  /\ UNCHANGED <<rows, tickets, objects, failures>>

-----------------------------------------------------------------------------
(***************************************************************************)
(* The API.                                                                *)
(***************************************************************************)
At(calling, step) == form.calling = calling /\ form.step = step
Comes(step) == form' = [form EXCEPT !.step = step]

ServeGuest == At("guest", "sent") /\ Comes("answered") /\ UNCHANGED <<rows, tickets, objects, failures>>

\* A link is a row at once; of a file, the object comes first and its row second.
RowStored ==
  /\ rows' = Append(rows, [paper |-> Now, ticket |-> 0])
  /\ form' = [form EXCEPT !.step = "answered", !.got = @ \union {Len(rows) + 1}]
  /\ UNCHANGED <<tickets, objects, failures>>

StoresLink == At("upload", "sent") /\ Now \in Links /\ RowStored

\* A mutant: the row does not wait for the object.
StoresNothing ==
  /\ At("upload", "sent") /\ Now \notin Links
  /\ IF Takes(Now) THEN Comes("stored") ELSE Comes("refused")
  /\ UNCHANGED <<rows, objects, tickets, failures>>

StoresObject ==
  /\ At("upload", "sent") /\ Now \notin Links
  /\ IF Takes(Now) THEN Comes("stored") /\ objects' = objects + 1 ELSE Comes("refused") /\ objects' = objects
  /\ UNCHANGED <<rows, tickets, failures>>

StoresRow == At("upload", "stored") /\ RowStored

\* One transaction: the ticket, its description, and the attachments nobody has
\* claimed.  What follows it (activation) may still fail.
CreatesTicket ==
  /\ At("create", "sent")
  /\ tickets' = tickets + 1
  /\ rows' = [i \in DOMAIN rows |-> IF i \in form.got /\ rows[i].ticket = 0 THEN [rows[i] EXCEPT !.ticket = tickets + 1] ELSE rows[i]]
  /\ Comes("made")
  /\ UNCHANGED <<objects, failures>>

Activates ==
  /\ At("create", "made")
  /\ Comes("answered")
  /\ UNCHANGED <<rows, tickets, objects, failures>>

\* Storage, database, queue or network fail: an answer that is not ok, or none.
FormCallFails(how) ==
  /\ "fault" \in story /\ failures < MaxFailures /\ form.step \in {"sent", "stored", "made", "answered"}
  /\ Comes(how) /\ failures' = failures + 1
  /\ UNCHANGED <<rows, tickets, objects>>

-----------------------------------------------------------------------------
(***************************************************************************)
(* The handler goes on.                                                    *)
(***************************************************************************)
GoesOn(plan, got, missed) ==
  form' = [form EXCEPT !.calling = Ahead(plan), !.step = "sent", !.plan = plan, !.got = got, !.missed = missed]

\* An upload that is not ok is passed over in silence; one without an answer, and a
\* failure of the other requests, end the attempt with an error.
Continues ==
  /\ \/ At("guest", "answered") /\ GoesOn(form.plan, form.got, form.missed)
     \/ At("upload", "answered") /\ GoesOn(form.plan \ {Now}, form.got, form.missed)
     \/ At("upload", "refused") /\ GoesOn(form.plan \ {Now}, form.got, form.missed \union {Now})
     \/ At("create", "answered") /\ form' = [form EXCEPT !.calling = "none", !.step = "idle", !.shown = tickets, !.confirmed = @ + 1]
     \/ /\ form.step = "lost" \/ (form.step = "refused" /\ form.calling # "upload")
        /\ form' = [form EXCEPT !.calling = "none", !.step = "idle"]
  /\ UNCHANGED <<rows, tickets, objects, failures>>

FormNext ==
  \/ \E p \in Papers : AddPaper(p) \/ RemovePaper(p)
  \/ PressSubmit \/ SubmitAnother \/ Continues
  \/ ServeGuest \/ StoresLink \/ StoresObject \/ StoresRow \/ CreatesTicket \/ Activates
  \/ \E how \in {"refused", "lost"} : FormCallFails(how)

FormTypeOK ==
  /\ form \in [papers : SUBSET Papers, calling : {"none", "guest", "upload", "create"},
               step : {"idle", "sent", "stored", "made", "answered", "refused", "lost"}, plan : SUBSET Papers,
               got : SUBSET (DOMAIN rows), shown : 0..MaxForms, tries : 0..MaxForms, confirmed : 0..MaxForms, late : SUBSET Papers, missed : SUBSET Papers]
  /\ \A i \in DOMAIN rows : rows[i].paper \in Papers \ TooBig /\ rows[i].ticket \in 0..tickets
  /\ tickets \in 0..MaxForms /\ Cardinality({i \in DOMAIN rows : rows[i].paper \notin Links}) <= objects

\* What the customer sees on the form when his ticket is confirmed is on the ticket,
\* except for what he added after the press and what the API did not take.
MissingHasCause ==
  form.shown > 0 => \A p \in form.papers \ (form.late \union form.missed) :
                      \E i \in DOMAIN rows : rows[i].paper = p /\ rows[i].ticket = form.shown

\* A ticket that no confirmation stands for is due to a request that failed after it
\* was created: the customer sends the form again and has two.
TwinHasCause ==
  tickets <= form.confirmed + failures + (IF form.calling = "create" /\ form.step # "sent" THEN 1 ELSE 0)
=============================================================================
