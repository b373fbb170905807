----------------------------- MODULE MCSpendCap -----------------------------
(* Two messages in one conversation Meta prices once, two currencies, two  *)
(* months, two raters.                                                     *)
EXTENDS SpendCap, TLC

CONSTANTS m1, m2, eur, usd, r1, r2, conv

MCMessages == {m1, m2}
MCCurrencies == {eur, usd}
MCConversation == (m1 :> conv) @@ (m2 :> conv)
MCRaters == {r1, r2}

(* The two currencies play the same part: start with a price in force, and *)
(* with the first currency or with none reported yet.                      *)
MCInit == Init /\ rate # NoRate /\ (wabaCurrency = eur \/ (wabaCurrency = NoCurrency /\ rate = 1))

MCSpec == MCInit /\ [][Next]_vars
MCFairSpec == MCSpec /\ Fairness
=============================================================================
