------------------------------- MODULE MCSignIn -------------------------------
(* SignIn for TLC: the accounts are alike, so the wallet begins at one of them. *)
EXTENDS SignIn

MCInit == Init /\ walletAt = CHOOSE w \in Accounts : TRUE

MCSpec == MCInit /\ [][Next]_vars /\ Fairness
=============================================================================
