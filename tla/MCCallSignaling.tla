-------------------------- MODULE MCCallSignaling ---------------------------
(* One conversation of two, two calls. *)
EXTENDS CallSignaling, TLC

CONSTANTS c1, c2, ann, bob, home

MCCalls == {c1, c2}
MCUsers == {ann, bob}
MCConversations == {home}
MCMembers == home :> {ann, bob}
=============================================================================
