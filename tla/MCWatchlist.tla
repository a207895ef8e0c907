---------------------------- MODULE MCWatchlist ----------------------------
(* Instances of Watchlist for TLC. *)
EXTENDS Watchlist

\* The provider's watchlist is empty or has every title when the account is connected.
MCInit == Init /\ remote["personal"] \in {{}, Media}
MCSpec == MCInit /\ [][Next]_vars
=============================================================================
