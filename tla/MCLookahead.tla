----------------------------- MODULE MCLookahead -----------------------------
(* Instances of Lookahead for TLC. *)
EXTENDS Lookahead
=============================================================================
