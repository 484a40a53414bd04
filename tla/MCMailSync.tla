----------------------------- MODULE MCMailSync -----------------------------
(* Values for model checking MailSync. *)
EXTENDS SyncClaims, TLC

CONSTANTS t1, t2, p1, p2
Sym == Permutations({t1, t2})
=============================================================================
