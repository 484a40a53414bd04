------------------------------ MODULE AdminDesk ------------------------------
(***************************************************************************)
(* What admins do: who works at the desk (AgentAccess), the settings'      *)
(* forms (SettingsForms), the link to GitHub (GithubLink) and the mailbox  *)
(* (MailAccount).  A story belongs to one of the four.                     *)
(***************************************************************************)
EXTENDS AgentAccess, SettingsForms, GithubLink, MailAccount

adminVars == <<story, accessVars, formsVars, hubVars, mailboxVars>>

AdminInit == ScenarioInit /\ AccessInit /\ FormsInit /\ HubInit /\ MailboxInit

AdminNext ==
  /\ UNCHANGED story
  /\ \/ AccessNext /\ UNCHANGED <<formsVars, hubVars, mailboxVars>>
     \/ FormsNext /\ UNCHANGED <<accessVars, hubVars, mailboxVars>>
     \/ HubNext /\ UNCHANGED <<accessVars, formsVars, mailboxVars>>
     \/ MailboxNext /\ UNCHANGED <<accessVars, formsVars, hubVars>>

AdminSpec == AdminInit /\ [][AdminNext]_adminVars

AdminTypeOK == AccessTypeOK /\ FormsTypeOK /\ HubTypeOK /\ MailboxTypeOK
=============================================================================
