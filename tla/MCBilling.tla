----------------------------- MODULE MCBilling ------------------------------
(* Two things handled at a time, two numbered attempts. *)
EXTENDS Billing

CONSTANTS h1, h2

MCProcs == {h1, h2}
=============================================================================
