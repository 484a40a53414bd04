----------------------------- MODULE SyncClaims -----------------------------
(***************************************************************************)
(* What a comment says of the inbox's import and the code does not keep:   *)
(* refuted by a run.                                                       *)
(***************************************************************************)
EXTENDS MailSync

\* email-sync-backfill.service.ts: "CANCELLED is intentional", and the loop re-reads
\* the row "to check for cancellation": only the handlers make a cancelled archive
\* RUNNING again.
CancelStands ==
  [][cfg.status = "CANCELLED" /\ cfg'.status = "RUNNING" => Resume \/ StartArchive]_vars
=============================================================================
