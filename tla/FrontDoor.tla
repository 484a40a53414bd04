------------------------------ MODULE FrontDoor ------------------------------
(***************************************************************************)
(* The customer's side of the portal before there is a ticket: the account *)
(* and the session (PortalDoor), and the form for a new ticket             *)
(* (TicketForm).  A story belongs to one of the two.                       *)
(***************************************************************************)
EXTENDS PortalDoor, TicketForm

frontVars == <<story, doorVars, formVars>>

FrontInit == ScenarioInit /\ DoorInit /\ FormInit

FrontNext ==
  /\ UNCHANGED story
  /\ \/ DoorNext /\ UNCHANGED formVars
     \/ FormNext /\ UNCHANGED doorVars

FrontSpec == FrontInit /\ [][FrontNext]_frontVars /\ DoorFair

FrontTypeOK == DoorTypeOK /\ FormTypeOK

\* What a customer does once happens twice, or is missing, for the named causes only:
\* the use of a mailed link, a ticket, a file on it.
OnceOrCaused == LinkOnce /\ TwinHasCause /\ MissingHasCause

\* The tabs of a browser agree on the session in the end, and no tab waits for ever
\* for the answer to a handoff.
DoorSettles == TabsAgree /\ HandoffEnds
=============================================================================
