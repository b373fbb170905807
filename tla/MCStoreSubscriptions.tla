----------------------- MODULE MCStoreSubscriptions -------------------------
(* Two organizations, two handlers at work, a purchase that changes twice  *)
(* after it was made, and two of claims, overrides and failures.           *)
EXTENDS StoreSubscriptions, TLC

CONSTANTS acme, bolt, h1, h2

MCOrgs == {acme, bolt}
MCHandlers == {h1, h2}
Symmetry == Permutations(MCOrgs) \cup Permutations(MCHandlers)
=============================================================================
