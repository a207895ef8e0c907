----------------------------- MODULE TokenStore -----------------------------
(***************************************************************************)
(* What core/integration_tokens.py promises of one integration's tokens,   *)
(* apart from its locks and transactions: a token that the provider        *)
(* rotates at each refresh is refreshed once for each time it goes stale,  *)
(* whichever workers need it, and the store then holds the latest.         *)
(***************************************************************************)
EXTENDS Integers

VARIABLES
    current, \* the refresh token the provider accepts, by its number
    stored,  \* the one in the store, 0 without one
    fresh,   \* the stored access token is believed to work
    grants   \* how often the user connected

vars == <<current, stored, fresh, grants>>

Init == current = 1 /\ stored = 1 /\ fresh = TRUE /\ grants = 1

\* Time passes, or the provider refuses the access token.
Expire == stored # 0 /\ fresh /\ fresh' = FALSE /\ UNCHANGED <<current, stored, grants>>

\* One refresh for all workers.
Refresh ==
    /\ stored = current /\ ~fresh
    /\ current' = current + 1 /\ stored' = current' /\ fresh' = TRUE /\ UNCHANGED grants

\* The provider rotates, but its answer is lost: the user has to connect again.
Lose == (~fresh \/ stored # current) /\ current' = current + 1 /\ UNCHANGED <<stored, fresh, grants>>

Connect == current' = current + 1 /\ stored' = current' /\ fresh' = TRUE /\ grants' = grants + 1
Disconnect == stored # 0 /\ stored' = 0 /\ fresh' = FALSE /\ UNCHANGED <<current, grants>>

\* A refresh whose token was removed meanwhile puts the successor back, even over a new one.
Revive ==
    /\ stored' \in 1 .. current /\ stored' # stored /\ fresh' = TRUE
    /\ UNCHANGED <<current, grants>>

Next == Expire \/ Refresh \/ Lose \/ Connect \/ Disconnect \/ Revive

Spec == Init /\ [][Next]_vars
=============================================================================
