----------------------------- MODULE TicketList -----------------------------
(***************************************************************************)
(* The lists of tickets: the bridge's inbox, which is filled once, renewed *)
(* in the background and extended by scrolling, and the lists that are     *)
(* replaced as a whole, the customer's and the one of a mail domain.       *)
(***************************************************************************)
EXTENDS Integers, FiniteSets, Sequences, SequencesExt, Scenario, Orders

CONSTANTS
  Tickets,
  PageSize,    \* rows the API returns at a time (100)
  MaxUpdates,  \* bound: changes of tickets
  MaxLoads     \* bound: requests of a list on their way

\* No more than a page of tickets changes while the inbox is open: a row that is
\* pushed off the first page by later ones is not renewed.
ASSUME ListAssumption ==
  /\ IsFiniteSet(Tickets) /\ PageSize \in Nat \ {0} /\ MaxLoads \in Nat \ {0} /\ MaxUpdates \in 0..PageSize

VARIABLES
  row,     \* the tickets of the database: status and updatedAt
  clock,   \* changes so far
  inbox,   \* the inbox page
  loads,   \* its requests
  whole    \* a list that is replaced as a whole: what it shows, what it asked for last, its requests

listVars == <<row, clock, inbox, loads, whole>>

RowStatuses == {"NEW", "OPEN", "RESOLVED", "DISMISSED"}
Filters == {"any", "OPEN"}
Modes == {"full", "background", "append"}

ListInit ==
  /\ LET order == SetToSeq(Tickets)
     IN row = [t \in Tickets |-> [status |-> "NEW", at |-> CHOOSE i \in DOMAIN order : order[i] = t]]
  /\ clock = Cardinality(Tickets)
  /\ inbox = [rows |-> <<>>, total |-> 0, offset |-> 0, filter |-> "any", more |-> FALSE, loading |-> TRUE,
              watched |-> FALSE, due |-> "inbox" \in story, mixed |-> FALSE]
  /\ loads = {}
  /\ whole = [shown |-> "none", asked |-> "none", sent |-> {}, answered |-> {}]

-----------------------------------------------------------------------------
(***************************************************************************)
(* TicketsService.list.                                                    *)
(***************************************************************************)
Selects(filter, t) == row[t].status # "DISMISSED" /\ (filter = "any" \/ row[t].status = filter)

Selected(filter) == {t \in Tickets : Selects(filter, t)}

\* The rows by updatedAt, the latest first.
Ordered(tickets) == InOrder(tickets, [t \in tickets |-> -row[t].at])

Copy(t) == [id |-> t, status |-> row[t].status, at |-> row[t].at]

\* The slice from an offset on, and the number of all rows.
Answered(filter, offset) ==
  LET all == Ordered(Selected(filter))
      last == IF Len(all) < offset + PageSize THEN Len(all) ELSE offset + PageSize
  IN [rows |-> [i \in 1..(IF last > offset THEN last - offset ELSE 0) |-> Copy(all[offset + i])], total |-> Len(all)]

-----------------------------------------------------------------------------
(***************************************************************************)
(* Tickets change: a message, a new status, a conversion or a dismissal.   *)
(***************************************************************************)
Change(t, status) ==
  /\ "inbox" \in story /\ clock < Cardinality(Tickets) + MaxUpdates
  /\ status \in (CASE "dismiss" \in story -> {"OPEN", "DISMISSED"} [] "filter" \in story -> {"OPEN", "RESOLVED"} [] OTHER -> {"OPEN"})
  /\ status = "DISMISSED" => row[t].status = "NEW"
  /\ clock' = clock + 1
  /\ row' = [row EXCEPT ![t] = [status |-> status, at |-> clock + 1]]
  /\ UNCHANGED <<inbox, loads, whole>>

-----------------------------------------------------------------------------
(***************************************************************************)
(* The inbox.                                                              *)
(***************************************************************************)
Asks(mode) ==
  loads' = loads \union {[mode |-> mode, filter |-> inbox.filter, offset |-> IF mode = "append" THEN inbox.offset ELSE 0,
                          pc |-> "sent", got |-> [rows |-> <<>>, total |-> 0]]}

HasMore(i) == Len(i.rows) < i.total

\* loadTickets of a mount and of every new filter; the rows make place for a
\* placeholder, the sentinel under them too.
LoadFull ==
  /\ inbox.due /\ Cardinality(loads) < MaxLoads
  /\ inbox' = [inbox EXCEPT !.due = FALSE, !.offset = 0, !.loading = TRUE, !.watched = FALSE]
  /\ Asks("full")
  /\ UNCHANGED <<row, clock, whole>>

\* One change of the filter is enough for two of them to be on their way.
ChangeFilter ==
  /\ "filter" \in story /\ ~inbox.due /\ inbox.filter = "any"
  /\ inbox' = [inbox EXCEPT !.filter = "OPEN", !.due = TRUE]
  /\ UNCHANGED <<row, clock, loads, whole>>

\* The interval, an event of the stream (debounced) or the page coming to the front.
Refresh ==
  /\ "inbox" \in story /\ ~inbox.due
  /\ \A l \in loads : l.mode = "background" => "overtake" \in story
  /\ Cardinality(loads) < MaxLoads
  /\ Asks("background")
  /\ UNCHANGED <<row, clock, inbox, whole>>

\* The sentinel under the rows comes into sight, and an observer sees it.
Scroll ==
  /\ ~inbox.due /\ ~inbox.more /\ HasMore(inbox) /\ inbox.watched /\ Cardinality(loads) < MaxLoads
  /\ inbox' = [inbox EXCEPT !.more = TRUE]
  /\ Asks("append")
  /\ UNCHANGED <<row, clock, whole>>

ServeList(l) ==
  /\ l.pc = "sent"
  /\ loads' = (loads \ {l}) \union {[l EXCEPT !.pc = "answered", !.got = Answered(l.filter, l.offset)]}
  /\ UNCHANGED <<row, clock, inbox, whole>>

Ids(rows) == {rows[i].id : i \in DOMAIN rows}

\* A background answer replaces the rows it has by id and sorts them all again.
Merged(old, new) ==
  LET rows == {r \in Range(old) : r.id \notin Ids(new)} \union Range(new)
  IN InOrder(rows, [r \in rows |-> -r.at])

\* Mutant: the rows of a further page are appended as they come.
ExtendedBlindly(old, new) == old \o new

Extended(old, new) ==
  LET fresh == {i \in DOMAIN new : new[i].id \notin Ids(old)}
      order == Ascending(fresh)
  IN old \o [k \in DOMAIN order |-> new[order[k]]]

\* The page with an answer in it, whatever its filter is by now.
Taken(l) ==
  [inbox EXCEPT
     !.total = l.got.total,
     !.rows = CASE l.mode = "full"       -> l.got.rows
                [] l.mode = "background" -> Merged(@, l.got.rows)
                [] l.mode = "append"     -> Extended(@, l.got.rows),
     !.offset = CASE l.mode = "full"   -> Len(l.got.rows)
                  [] l.mode = "append" -> @ + Len(l.got.rows)
                  [] OTHER             -> @,
     !.more = @ /\ l.mode # "append",
     !.loading = @ /\ l.mode # "full",
     !.mixed = @ \/ l.filter # inbox.filter]

\* The observer is attached anew when hasMore or isLoadingMore changes, to the
\* sentinel that is on the page then.
ArriveList(l) ==
  LET next == Taken(l)
      anew == l.mode = "append" \/ HasMore(next) # HasMore(inbox)
  IN /\ l.pc = "answered"
     /\ inbox' = [next EXCEPT !.watched = IF anew THEN HasMore(next) /\ ~next.loading ELSE @]
     /\ loads' = loads \ {l}
     /\ UNCHANGED <<row, clock, whole>>

-----------------------------------------------------------------------------
(***************************************************************************)
(* The list of the portal asks anew for every tab and search text, that of *)
(* a domain every 15 s; the last answer to arrive is what is shown.        *)
(***************************************************************************)
Queries == {"none", "first", "second"}

AskWhole(q) ==
  /\ "whole" \in story /\ q # whole.asked /\ q # "none"
  /\ whole' = [whole EXCEPT !.asked = q, !.sent = @ \union {q}]
  /\ UNCHANGED <<row, clock, inbox, loads>>

ServeWhole(q) ==
  /\ q \in whole.sent
  /\ whole' = [whole EXCEPT !.sent = @ \ {q}, !.answered = @ \union {q}]
  /\ UNCHANGED <<row, clock, inbox, loads>>

ArriveWhole(q) ==
  /\ q \in whole.answered
  /\ whole' = [whole EXCEPT !.answered = @ \ {q}, !.shown = q]
  /\ UNCHANGED <<row, clock, inbox, loads>>

ListNext ==
  \/ LoadFull \/ ChangeFilter \/ Refresh \/ Scroll
  \/ \E t \in Tickets, status \in RowStatuses : Change(t, status)
  \/ \E l \in loads : ServeList(l) \/ ArriveList(l)
  \/ \E q \in Queries : AskWhole(q) \/ ServeWhole(q) \/ ArriveWhole(q)

\* The interval asks again and again, and every request is answered.
ListFair ==
  /\ WF_listVars(LoadFull) /\ WF_listVars(Refresh) /\ SF_listVars(Scroll)
  /\ \A mode \in Modes : /\ WF_listVars(\E l \in loads : l.mode = mode /\ ServeList(l))
                         /\ WF_listVars(\E l \in loads : l.mode = mode /\ ArriveList(l))

-----------------------------------------------------------------------------
(***************************************************************************)
(* Properties.                                                             *)
(***************************************************************************)
NoTwinRows == \A i, j \in DOMAIN inbox.rows : inbox.rows[i].id = inbox.rows[j].id => i = j

\* The values the variables range over; no ticket is in the inbox twice.
ListTypeOK ==
  /\ NoTwinRows
  /\ \A t \in Tickets : row[t].status \in RowStatuses /\ row[t].at \in 1..clock
  /\ clock \in 0..(Cardinality(Tickets) + MaxUpdates)
  /\ inbox.filter \in Filters /\ inbox.total \in 0..Cardinality(Tickets) /\ inbox.offset \in Nat
  /\ \A l \in loads : l.mode \in Modes /\ l.pc \in {"sent", "answered"}
  /\ Cardinality(loads) <= MaxLoads
  /\ whole.shown \in Queries /\ whole.asked \in Queries

\* The inbox ends up with every ticket in its present state, unless a row has left
\* what the filter selects, an answer for another filter came late or nobody
\* watches for the end of the rows.
InboxCatchesUp ==
  "inbox" \in story => <>[](
    \/ inbox.mixed \/ (HasMore(inbox) /\ ~inbox.watched)
    \/ \E t \in Ids(inbox.rows) : ~Selects(inbox.filter, t)
    \/ \A t \in Selected(inbox.filter) : Copy(t) \in Range(inbox.rows))
=============================================================================
