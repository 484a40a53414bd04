------------------------------ MODULE Accounts ------------------------------
(***************************************************************************)
(* The account of one customer, as AuthService keeps it: the user row of   *)
(* his address, the links mailed to him and the handoff token of the host  *)
(* application.  A row is found first and written later, so that calls     *)
(* from several tabs interleave between the two.                           *)
(*                                                                         *)
(* A call walks through "sent", "burnt" (the handoff's jti is taken),      *)
(* "looked" (found or not), "made" (the first write is done) to "answered" *)
(* or "refused".  Google, the host and the mail service are outside.       *)
(***************************************************************************)
EXTENDS Integers, Sequences, FiniteSets, Scenario

CONSTANTS
  Tabs,      \* tabs of the portal
  MaxLinks,  \* bound: links mailed
  MaxBreaks  \* bound: calls and mails that fail half-way

ASSUME AccountsAssumption == IsFiniteSet(Tabs) /\ MaxLinks \in Nat /\ MaxBreaks \in Nat

VARIABLES
  row,     \* User: whether it exists, its password, isVerified
  links,   \* MagicToken rows, with the fate of their mail
  burnt,   \* the handoff's jti is in SsoUsedToken
  ask,     \* the call each tab has on its way
  breaks

accountVars == <<row, links, burnt, ask, breaks>>

Sessions == {"none", "unverified", "verified"}
Passwords == {"none", "old", "new"}
Ops == {"none", "signup", "signin", "google", "sso", "guest", "verify", "reset", "resend", "forgot"}

NoAsk == [op |-> "none", step |-> "idle", link |-> 0, password |-> "none", found |-> FALSE, session |-> "none"]
Ask(op) == [NoAsk EXCEPT !.op = op, !.step = "sent"]

AccountsInit ==
  /\ row = [exists |-> story \intersect {"member", "known"} # {}, verified |-> FALSE,
            password |-> IF "member" \in story THEN "old" ELSE "none"]
  /\ links = <<>> /\ burnt = FALSE /\ breaks = 0

\* The user in the answer, as far as the portal uses it.
Session == IF row.verified THEN "verified" ELSE "unverified"

\* A new row; Google and the host vouch for the address.
Created(password, verified) == [exists |-> TRUE, password |-> password, verified |-> verified]

Step(t, step) == ask' = [ask EXCEPT ![t].step = step]
Answer(t, session) == ask' = [ask EXCEPT ![t].step = "answered", ![t].session = session]
Mailable(kind) ==
  links' = Append(links, [kind |-> kind, valid |-> TRUE, mail |-> "queued", honoured |-> 0, together |-> FALSE])

\* The bound on links: a call that may mail one is made only while there is room.
Room(op) ==
  LET mailing == {"signup", "resend", "forgot"}
  IN op \in mailing => Len(links) + Cardinality({t \in Tabs : ask[t].op \in mailing /\ ask[t].step \in {"sent", "looked", "made"}}) < MaxLinks

-----------------------------------------------------------------------------
(***************************************************************************)
(* The handlers.                                                           *)
(***************************************************************************)
\* The host's signature, and the minutes it vouches for.
HandoffExpires(t) ==
  /\ "expire" \in story /\ ask[t].op = "sso" /\ ask[t].step = "sent"
  /\ Step(t, "refused")
  /\ UNCHANGED <<row, links, burnt, breaks>>

\* The unique insert of the jti: a handoff is used once, whatever becomes of it.
Burn(t) ==
  /\ ask[t].op = "sso" /\ ask[t].step = "sent"
  /\ Step(t, IF burnt THEN "refused" ELSE "burnt")
  /\ burnt' = TRUE
  /\ UNCHANGED <<row, links, breaks>>

SigninChecks(t) ==
  /\ ask[t].op = "signin" /\ ask[t].step = "sent"
  /\ IF row.exists /\ row.password = ask[t].password THEN Answer(t, Session) ELSE Step(t, "refused")
  /\ UNCHANGED <<row, links, burnt, breaks>>

\* Who signs up, by whichever way, is looked up first.
FindsUser(t) ==
  /\ \/ ask[t].op \in {"signup", "google", "guest"} /\ ask[t].step = "sent"
     \/ ask[t].op = "sso" /\ ask[t].step = "burnt"
  /\ IF ask[t].op = "signup" /\ row.exists
       THEN Step(t, "refused")
       ELSE ask' = [ask EXCEPT ![t].step = "looked", ![t].found = row.exists]
  /\ UNCHANGED <<row, links, burnt, breaks>>

\* The row after each of them: the one that was found, or a new one.
RowAfterSignup(t) == Created(ask[t].password, FALSE)
RowAfterGoogle(t) == IF ask[t].found THEN [row EXCEPT !.verified = TRUE] ELSE Created("none", TRUE)
RowAfterHandoff(t) == IF ask[t].found THEN row ELSE Created("none", TRUE)
RowAfterGuest(t) == IF ask[t].found THEN row ELSE Created("none", FALSE)

\* A row that appeared since the look trips the unique index on the address.
WritesUser(t) ==
  /\ ask[t].op \in {"signup", "google", "guest", "sso"} /\ ask[t].step = "looked"
  /\ IF ~ask[t].found /\ row.exists
       THEN Step(t, "refused") /\ row' = row
       ELSE \/ ask[t].op = "signup" /\ row' = RowAfterSignup(t) /\ Step(t, "made")
            \/ ask[t].op = "guest" /\ row' = RowAfterGuest(t) /\ Answer(t, "none")
            \/ ask[t].op = "google" /\ row' = RowAfterGoogle(t) /\ Answer(t, "verified")
            \/ ask[t].op = "sso" /\ row' = RowAfterHandoff(t) /\ Answer(t, IF row'.verified THEN "verified" ELSE "unverified")
  /\ UNCHANGED <<links, burnt, breaks>>

\* The last part of a signup, a resend and a forgotten password: a token row and a
\* job.  Who is verified, or has no password, is not mailed.
SignupMails(t) ==
  /\ ask[t].op = "signup" /\ ask[t].step = "made"
  /\ Mailable("verify") /\ Answer(t, "unverified")
  /\ UNCHANGED <<row, burnt, breaks>>

Resends(t) ==
  /\ ask[t].op = "resend" /\ ask[t].step = "sent"
  /\ IF row.exists /\ ~row.verified THEN Mailable("verify") ELSE UNCHANGED links
  /\ Answer(t, "none")
  /\ UNCHANGED <<row, burnt, breaks>>

Forgot(t) ==
  /\ ask[t].op = "forgot" /\ ask[t].step = "sent"
  /\ IF row.exists /\ row.password # "none" THEN Mailable("reset") ELSE UNCHANGED links
  /\ Answer(t, "none")
  /\ UNCHANGED <<row, burnt, breaks>>

\* A mutant: the use of a link is not recorded.
FindsLinkAgain(t) ==
  /\ ask[t].op \in {"verify", "reset"} /\ ask[t].step = "sent"
  /\ Step(t, IF links[ask[t].link].kind = ask[t].op THEN "looked" ELSE "refused")
  /\ UNCHANGED <<row, links, burnt, breaks>>

\* consumeMagicToken reads the token and marks it as used in two statements.
FindsLink(t) ==
  /\ ask[t].op \in {"verify", "reset"} /\ ask[t].step = "sent"
  /\ LET i == ask[t].link
         others == {u \in Tabs \ {t} : ask[u].step = "looked" /\ ask[u].link = i}
     IN IF links[i].valid /\ links[i].kind = ask[t].op
          THEN Step(t, "looked") /\ links' = [links EXCEPT ![i].together = @ \/ others # {}]
          ELSE Step(t, "refused") /\ UNCHANGED links
  /\ UNCHANGED <<row, burnt, breaks>>

UsesLink(t) ==
  /\ ask[t].op \in {"verify", "reset"} /\ ask[t].step = "looked"
  /\ Step(t, "made")
  /\ links' = [links EXCEPT ![ask[t].link].valid = FALSE, ![ask[t].link].honoured = @ + 1]
  /\ UNCHANGED <<row, burnt, breaks>>

\* The effect of a link; a new password counts as a proof of the address.
Verifies(t) ==
  /\ ask[t].op = "verify" /\ ask[t].step = "made"
  /\ row' = [row EXCEPT !.verified = TRUE]
  /\ Answer(t, "verified")
  /\ UNCHANGED <<links, burnt, breaks>>

Resets(t) ==
  /\ ask[t].op = "reset" /\ ask[t].step = "made"
  /\ row' = [row EXCEPT !.verified = TRUE, !.password = ask[t].password]
  /\ Answer(t, "verified")
  /\ UNCHANGED <<links, burnt, breaks>>

\* An error of the mail service is caught in EmailService, so that the worker's job
\* ends well and is not tried again.
Goes(i) ==
  \/ links' = [links EXCEPT ![i].mail = "sent"] /\ UNCHANGED breaks
  \/ /\ "fault" \in story /\ breaks < MaxBreaks
     /\ links' = [links EXCEPT ![i].mail = "dropped"] /\ breaks' = breaks + 1

SendsVerification(i) ==
  /\ links[i].mail = "queued" /\ links[i].kind = "verify"
  /\ IF row.verified THEN links' = [links EXCEPT ![i].mail = "dropped"] /\ UNCHANGED breaks ELSE Goes(i)
  /\ UNCHANGED <<row, burnt, ask>>

SendsReset(i) ==
  /\ links[i].mail = "queued" /\ links[i].kind = "reset"
  /\ Goes(i)
  /\ UNCHANGED <<row, burnt, ask>>

\* The 24 hours, or the hour, of a link are over.
Expires(i) ==
  /\ "expire" \in story /\ links[i].valid
  /\ links' = [links EXCEPT ![i].valid = FALSE]
  /\ UNCHANGED <<row, burnt, ask, breaks>>

\* A database error or a restart between two statements, or an answer that is lost.
Breaks(t) ==
  /\ "fault" \in story /\ breaks < MaxBreaks /\ ask[t].step \in {"sent", "burnt", "looked", "made", "answered"}
  /\ Step(t, "refused") /\ breaks' = breaks + 1
  /\ UNCHANGED <<row, links, burnt>>

\* A mail from the address makes its row (thread ingestion).
MailMakesRow ==
  /\ "mail" \in story /\ ~row.exists
  /\ row' = Created("none", FALSE)
  /\ UNCHANGED <<links, burnt, ask, breaks>>

Serve(t) ==
  \/ HandoffExpires(t) \/ Burn(t) \/ SigninChecks(t) \/ FindsUser(t) \/ WritesUser(t)
  \/ SignupMails(t) \/ Resends(t) \/ Forgot(t) \/ FindsLink(t) \/ UsesLink(t) \/ Verifies(t) \/ Resets(t)

AccountsNext ==
  \/ \E t \in Tabs : Serve(t) \/ Breaks(t)
  \/ \E i \in DOMAIN links : SendsVerification(i) \/ SendsReset(i) \/ Expires(i)
  \/ MailMakesRow

AccountsTypeOK ==
  /\ row \in [exists : BOOLEAN, verified : BOOLEAN, password : Passwords]
  /\ ~row.exists => ~row.verified /\ row.password = "none"
  /\ \A i \in DOMAIN links : links[i] \in [kind : {"verify", "reset"}, valid : BOOLEAN, mail : {"queued", "sent", "dropped"},
                                           honoured : 0..Cardinality(Tabs), together : BOOLEAN]
  /\ Len(links) <= MaxLinks /\ burnt \in BOOLEAN /\ breaks \in 0..MaxBreaks
  /\ ask \in [Tabs -> [op : Ops, step : {"idle", "sent", "burnt", "looked", "made", "answered", "refused"}, link : 0..MaxLinks,
                       password : Passwords, found : BOOLEAN, session : Sessions]]

\* A link does its work a second time only when two requests with it had both read
\* it before either marked it as used.
LinkOnce == \A i \in DOMAIN links : links[i].honoured > 1 => links[i].together
=============================================================================
