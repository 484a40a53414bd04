--------------------------- MODULE MCEmailDelivery ---------------------------
(***************************************************************************)
(* EmailDelivery for TLC: the messages are interchangeable.                *)
(***************************************************************************)
EXTENDS EmailDelivery, TLC

Sym == Permutations(Msgs)
=============================================================================
