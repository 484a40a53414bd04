----------------------------- MODULE AgentDesk -----------------------------
(***************************************************************************)
(* The browsers: an open ticket, the lists of tickets and the shell of the *)
(* bridge.  They meet in the database only, which each of them models as   *)
(* far as it reads it; a story sets one of them in motion.                 *)
(***************************************************************************)
EXTENDS TicketPage, TicketList, AgentShell

deskVars == <<story, pageVars, listVars, shellVars>>

Init == ScenarioInit /\ PageInit /\ ListInit /\ ShellInit

Next ==
  /\ UNCHANGED story
  /\ \/ PageNext /\ UNCHANGED <<listVars, shellVars>>
     \/ ListNext /\ UNCHANGED <<pageVars, shellVars>>
     \/ ShellNext /\ UNCHANGED <<pageVars, listVars>>

Spec == Init /\ [][Next]_deskVars /\ PageFair /\ ListFair /\ ShellFair

\* The types of all parts; in particular no ticket is in an inbox twice, however its
\* pages, refreshes and scrolls meet.
TypeOK == PageTypeOK /\ ListTypeOK /\ ShellTypeOK

\* Whatever a browser shows catches up with the database, in whatever order polls,
\* events and answers arrive: the page of a ticket, the inbox, the shell.
DeskSettles == PagesCatchUp /\ InboxCatchesUp /\ ShellSettles
=============================================================================
