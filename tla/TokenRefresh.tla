---------------------------- MODULE TokenRefresh ----------------------------
(***************************************************************************)
(* The refresh of an integration's OAuth tokens:                           *)
(* core/integration_tokens.py, with the connectors' token requests and     *)
(* the connect and disconnect requests of api/routes_integrations.py.      *)
(* Trakt and Letterboxd rotate the refresh token: the one before is        *)
(* refused from then on.  A worker that loaded a stale token locks the     *)
(* secret's row in a transaction of its own, reads it again, asks the      *)
(* provider and commits.                                                   *)
(***************************************************************************)
EXTENDS Integers, FiniteSets

CONSTANTS
    Workers, None,
    MaxToken,  \* bound: tokens the provider ever issues
    MaxFaults  \* bound: failed requests and crashes

ASSUME TokenAssumption == MaxToken \in Nat \ {0} /\ MaxFaults \in Nat /\ None \notin Workers

VARIABLES
    valid,  \* the refresh token the provider accepts, by its number
    row,    \* IntegrationSecret: the token, 0 without a row, and whether expires_at lies ahead
    lock,   \* who holds the row
    at,     \* per worker
    copy,   \* its secret_data
    grants, \* history: how often the user connected
    faults, \* failed requests and crashes so far
    unsound \* history: a rotation was lost, or a token revived after its removal

tokenVars == <<valid, row, lock, at, copy, grants, faults, unsound>>

Token == 0 .. MaxToken
Secret == [token : Token, fresh : BOOLEAN]
NoSecret == [token |-> 0, fresh |-> FALSE]

TokenTypeOK ==
    /\ valid \in Token /\ row \in Secret /\ lock \in Workers \cup {None}
    /\ at \in [Workers -> {"idle", "have", "want", "ask", "save", "refused", "expire"}]
    /\ copy \in [Workers -> Secret] /\ unsound \in BOOLEAN

TokenInit ==
    /\ valid = 1 /\ row = [token |-> 1, fresh |-> TRUE] /\ lock = None
    /\ at = [w \in Workers |-> "idle"] /\ copy = [w \in Workers |-> NoSecret]
    /\ grants = 1 /\ faults = 0 /\ unsound = FALSE

Goto(w, step) == at' = [at EXCEPT ![w] = step]
Keep(w, secret) == copy' = [copy EXCEPT ![w] = secret]

\* The commit or rollback.
Free(w) == IF lock = w THEN None ELSE lock

-----------------------------------------------------------------------------
(* A worker. *)

\* load_integration_with_secrets, without a lock.
Load(w) ==
    /\ at[w] = "idle" /\ row # NoSecret
    /\ Keep(w, row) /\ Goto(w, "have")
    /\ UNCHANGED <<valid, row, lock, grants, faults, unsound>>

\* _has_unexpired_token of the loaded secret: the token is used as it is ...
UseLoaded(w) ==
    /\ at[w] = "have" /\ copy[w].fresh
    /\ Goto(w, "idle")
    /\ UNCHANGED <<valid, row, lock, copy, grants, faults, unsound>>

\* ... and the provider may refuse its access token although it should work.
AccessRefused(w) ==
    /\ at[w] = "have" /\ copy[w].fresh
    /\ Goto(w, "refused")
    /\ UNCHANGED <<valid, row, lock, copy, grants, faults, unsound>>

\* ... or it is to be refreshed.
Want(w) ==
    /\ at[w] = "have" /\ ~copy[w].fresh
    /\ Goto(w, "want")
    /\ UNCHANGED <<valid, row, lock, copy, grants, faults, unsound>>

\* Mutant: the secret is not read again.
LatestLoaded(w) == copy[w]

\* The secret read under the lock; the loaded one, if the row is gone.
Latest(w) == IF row = NoSecret THEN copy[w] ELSE row

\* Mutant: whoever wanted a refresh makes one.
FreshNever(secret) == FALSE

\* Another worker refreshed in the meantime.
FreshAgain(secret) == secret.fresh

\* _lock_secret, which locks nothing if there is no row, and the second check.
Lock(w) ==
    /\ at[w] = "want" /\ lock = None
    /\ Keep(w, Latest(w))
    /\ IF FreshAgain(Latest(w)) THEN Goto(w, "idle") /\ lock' = None
       ELSE Goto(w, "ask") /\ lock' = IF row = NoSecret THEN None ELSE w
    /\ UNCHANGED <<valid, row, grants, faults, unsound>>

\* refresh_access_token: the provider takes its latest refresh token and issues the next.
Rotate(w) ==
    /\ at[w] = "ask" /\ copy[w].token = valid /\ valid < MaxToken
    /\ valid' = valid + 1
    /\ Keep(w, [token |-> valid', fresh |-> TRUE]) /\ Goto(w, "save")
    /\ UNCHANGED <<row, lock, grants, faults, unsound>>

\* It refuses any other, or cannot be reached: the transaction rolls back.
Rejected(w) ==
    /\ at[w] = "ask"
    /\ copy[w].token # valid \/ valid = MaxToken \/ faults < MaxFaults
    /\ faults' = IF copy[w].token # valid \/ faults = MaxFaults THEN faults ELSE faults + 1
    /\ Goto(w, "idle") /\ lock' = Free(w)
    /\ UNCHANGED <<valid, row, copy, grants, unsound>>

\* The stored secret with the fields of the answer.
Merged(w) == copy[w]

\* save_integration_secret and the commit; unsound if there was no row to lock.
Save(w) ==
    /\ at[w] = "save" /\ lock \in {w, None}
    /\ row' = Merged(w)
    /\ unsound' = (unsound \/ lock # w)
    /\ Goto(w, "idle") /\ lock' = Free(w)
    /\ UNCHANGED <<valid, copy, grants, faults>>

\* The process dies, or the provider's answer does not arrive.
Crash(w) ==
    /\ at[w] \in {"ask", "save", "expire"} /\ faults < MaxFaults
    /\ faults' = faults + 1 /\ unsound' = (unsound \/ at[w] = "save")
    /\ Goto(w, "idle") /\ lock' = Free(w)
    /\ UNCHANGED <<valid, row, copy, grants>>

\* expire_access_token locks the row in the job's transaction ...
LockToExpire(w) ==
    /\ at[w] = "refused" /\ lock = None
    /\ IF row = NoSecret THEN Goto(w, "idle") /\ lock' = None ELSE Goto(w, "expire") /\ lock' = w
    /\ UNCHANGED <<valid, row, copy, grants, faults, unsound>>

\* ... which _finalize_job's caller commits.
ExpireToken(w) ==
    /\ at[w] = "expire"
    /\ row' = [row EXCEPT !.fresh = FALSE]
    /\ Goto(w, "idle") /\ lock' = None
    /\ UNCHANGED <<valid, copy, grants, faults, unsound>>

-----------------------------------------------------------------------------
(* The user and time. *)

\* An OAuth callback stores what the code was exchanged for; it waits for the row.
Callback ==
    /\ lock = None /\ valid < MaxToken
    /\ valid' = valid + 1 /\ row' = [token |-> valid', fresh |-> TRUE]
    /\ grants' = grants + 1 /\ unsound' = (\E w \in Workers : at[w] = "save")
    /\ UNCHANGED <<lock, at, copy, faults>>

\* _disconnect_integration.
Disconnect ==
    /\ lock = None /\ row # NoSecret
    /\ row' = NoSecret
    /\ UNCHANGED <<valid, lock, at, copy, grants, faults, unsound>>

\* expires_at comes near.
Expire ==
    /\ row.fresh
    /\ row' = [row EXCEPT !.fresh = FALSE]
    /\ copy' = [w \in Workers |-> IF at[w] = "save" THEN copy[w] ELSE [copy[w] EXCEPT !.fresh = FALSE]]
    /\ UNCHANGED <<valid, lock, at, grants, faults, unsound>>

Work(w) ==
    \/ Load(w) \/ UseLoaded(w) \/ Want(w) \/ Lock(w) \/ Rotate(w) \/ Rejected(w) \/ Save(w)
    \/ AccessRefused(w) \/ LockToExpire(w) \/ ExpireToken(w)

TokenNext ==
    \/ \E w \in Workers : Work(w) \/ Crash(w)
    \/ Callback \/ Disconnect \/ Expire

\* Provider calls time out, so a worker goes on; a row lock that is free again and again is had.
TokenFairness ==
    \A w \in Workers :
        /\ WF_tokenVars(Want(w)) /\ WF_tokenVars(Rotate(w) \/ Rejected(w)) /\ WF_tokenVars(ExpireToken(w))
        /\ SF_tokenVars(Lock(w) \/ Save(w) \/ LockToExpire(w))

TokenSpec == TokenInit /\ [][TokenNext]_tokenVars
FairTokenSpec == TokenSpec /\ TokenFairness

-----------------------------------------------------------------------------
(* NoRevokedTokenSpent: no worker asks with a refresh token that another   *)
(* one has spent (integration_tokens.py, "would leave one of them holding  *)
(* a revoked token"), unless an answer was lost or the integration         *)
(* disconnected under it.                                                  *)
NoRevokedTokenSpent ==
    \A w \in Workers : (at[w] = "ask" /\ lock = w /\ ~unsound) => copy[w].token = valid

(* StoreKeepsUp: when nobody is refreshing, the store holds the token the  *)
(* provider accepts, whichever worker refreshed and whoever rolled back.   *)
StoreKeepsUp ==
    (~unsound /\ row # NoSecret /\ \A w \in Workers : at[w] # "save") => row.token = valid

(* TokensAreCurrent: what a worker spends and what the store holds is      *)
(* never a token that was spent before.                                    *)
TokensAreCurrent == NoRevokedTokenSpent /\ StoreKeepsUp

(* RefreshedOnce: the protocol does what TokenStore promises.  A rotation  *)
(* counts once it is committed or lost.                                    *)
Pending == {w \in Workers : at[w] = "save"}
Store == INSTANCE TokenStore WITH
    current <- IF Pending # {} /\ lock \in Pending THEN valid - 1 ELSE valid,
    stored <- row.token, fresh <- row.fresh

RefreshedOnce == Store!Spec

(* EveryoneServed: who needs a token gets one or an error; nobody waits    *)
(* for the row for ever.                                                   *)
EveryoneServed == \A w \in Workers : (at[w] # "idle" /\ at[w] # "have") ~> at[w] = "idle"
=============================================================================
