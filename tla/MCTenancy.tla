----------------------------- MODULE MCTenancy ------------------------------
(* The founder and one more, two requests or deletions at a time, one      *)
(* invite at a time, three memberships in all.                             *)
EXTENDS Tenancy, TLC

CONSTANTS ann, bob, r1, r2, i1, i2

MCUsers == {ann, bob}
MCRequests == {r1, r2}
MCInvites == {i1, i2}
Symmetry == Permutations(MCRequests) \cup Permutations(MCInvites)
=============================================================================
