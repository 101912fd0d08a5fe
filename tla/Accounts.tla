------------------------------ MODULE Accounts ------------------------------
(***************************************************************************)
(* Accounts: password sessions, sign-in through a provider and the         *)
(* verification of an address share the process and the database, and no   *)
(* row: traffic says which of them a behaviour contains.                   *)
(***************************************************************************)
EXTENDS Sessions, OidcLogin, Verification
CONSTANT Traffic   \* a set of sets of "password", "sso" and "mail"

VARIABLE traffic

avars == <<svars, ovars, mvars, traffic>>

AccountsInit ==
  /\ traffic \in Traffic
  /\ SessionsInit
  /\ OidcInit
  /\ VerificationInit

Password == "password" \in traffic /\ UNCHANGED <<ovars, mvars, traffic>>
Sso == "sso" \in traffic /\ UNCHANGED <<svars, mvars, traffic>>
Mail == "mail" \in traffic /\ UNCHANGED <<svars, ovars, traffic>>

AccountsNext ==
  \/ LoginRefused /\ Password
  \/ \E k \in Keys, opens, heard \in BOOLEAN : Login(k, opens, heard) /\ Password
  \/ \E k \in Keys, heard \in BOOLEAN : \E g \in 1..tab[k] : Refresh(k, g, heard) /\ Password
  \/ \E k \in Keys : Logout(k) /\ Password
  \/ \E k \in Keys : Forget(k) /\ Password
  \/ \E k \in Keys : TokenExpires(k) /\ Password
  \/ Tick /\ Password
  \/ MasterKeyGone /\ Password
  \/ \E s \in States : StartLogin(s) /\ Sso
  \/ \E s \in States : Stale(s) /\ Sso
  \/ \E t \in Threads, s \in States : Arrive(t, s) /\ Sso
  \/ \E t \in Threads : Step(t) /\ Sso
  \/ CreateUser /\ Mail
  \/ ResendCode /\ Mail
  \/ \E c \in 1..mailed : VerifyEmail(c) /\ Mail
  \/ ConsumeToken /\ Mail
  \/ CooldownOver /\ Mail
  \/ VerificationExpires /\ Mail

\* The clock runs, and the pool runs its threads.
AccountsFairness ==
  /\ WF_avars(Tick /\ Password)
  /\ \A t \in Threads : WF_avars(Step(t) /\ Sso)

AccountsSpec == AccountsInit /\ [][AccountsNext]_avars /\ AccountsFairness

\* Each part keeps its types.
AccountsTypeOK ==
  /\ SessionsTypeOK
  /\ OidcTypeOK
  /\ VerificationTypeOK

\* Whoever waits is served: a locked account opens again, a callback is answered.
TrafficServed ==
  /\ LockEnds
  /\ CallbacksAnswered
=============================================================================
