------------------------------ MODULE Sessions ------------------------------
(***************************************************************************)
(* The sessions of one password account: login with its lockout, the key   *)
(* table, refresh and logout (auth_users/user_api.py on the tables of      *)
(* database/user_mgmt.py), the check of a token in entrypoint.py, and what *)
(* the browser keeps of a session (web_ui/static/auth.js).                 *)
(*                                                                         *)
(* Every handler here is a coroutine without an await: an action.  Answers *)
(* may be lost on their way and a duplicated tab may ask with a refresh    *)
(* token that was exchanged since.                                         *)
(***************************************************************************)
EXTENDS Naturals, FiniteSets
CONSTANTS
  Keys,          \* key identifiers, each drawn by one login
  MaxRefreshes,  \* keys.max_refreshes, 2 by default of the table
  MaxFailed,     \* MAX_FAILED_ATTEMPTS
  LockTicks,     \* LOCKOUT_MINUTES, in ticks of the clock
  NoRow

ASSUME LimitsAssumption ==
  /\ MaxRefreshes \in Nat
  /\ MaxFailed \in Nat \ {0}
  /\ LockTicks \in Nat \ {0}

\* A row of keys: the refreshes consumed, and which of the refresh tokens of the
\* session (numbered as they are drawn) refresh_token_hash is the digest of.
Row == [used : 0..MaxRefreshes, refresh : 1..MaxRefreshes + 1]
ASSUME NoRowAssumption == NoRow \notin Row /\ NoRow \notin Nat

VARIABLES
  row,       \* row[k]: the row of the table keys, or NoRow
  signed,    \* signed[k]: access tokens signed under k, 0 before its login
  live,      \* live[k]: those of them not older than an hour
  tab,       \* tab[k]: the refresh token the browser holds, 0 for none
  matched,   \* matched[k]: refresh requests whose token was found in the table
  unlocked,  \* the master key of the account is in memory
  failed,    \* users.failed_login_attempts
  lock       \* users.locked_until: NoRow, or the ticks until then

sessionVars == <<row, signed, live, tab, matched>>
lockVars == <<failed, lock>>
svars == <<sessionVars, unlocked, lockVars>>

SessionsInit ==
  /\ row = [k \in Keys |-> NoRow]
  /\ signed = [k \in Keys |-> 0]
  /\ live = [k \in Keys |-> 0]
  /\ tab = [k \in Keys |-> 0]
  /\ matched = [k \in Keys |-> 0]
  /\ unlocked = FALSE
  /\ failed = 0
  /\ lock = NoRow

-----------------------------------------------------------------------------
(* Lockout.  get_login_lockout forgets a lock that is over before the      *)
(* password is looked at.                                                  *)

LockedOut == lock # NoRow /\ lock > 0

FailuresSeen == IF lock # NoRow /\ ~LockedOut THEN 0 ELSE failed

\* Slip, for SessionsTypeOK: the account is locked after one failure too many.
IncrementFailedLoginLate ==
  /\ failed' = FailuresSeen + 1
  /\ lock' = IF failed' > MaxFailed THEN LockTicks ELSE NoRow

IncrementFailedLogin ==
  /\ failed' = FailuresSeen + 1
  /\ lock' = IF failed' >= MaxFailed THEN LockTicks ELSE NoRow

\* Slip, for LockEnds: the lock is asked for after the failure is counted.
LoginRefusedAnyway ==
  /\ failed' = IF LockedOut THEN failed ELSE FailuresSeen + 1
  /\ lock' = IF LockedOut \/ failed' >= MaxFailed THEN LockTicks ELSE NoRow
  /\ UNCHANGED <<sessionVars, unlocked>>

\* login with a wrong password.
LoginRefused ==
  /\ ~LockedOut
  /\ IncrementFailedLogin
  /\ UNCHANGED <<sessionVars, unlocked>>

\* login with the right one.  opens: login_and_unlock found the master key (the
\* legacy digest opens a session without it); heard: the answer arrives.
Login(k, opens, heard) ==
  /\ ~LockedOut
  /\ signed[k] = 0
  /\ failed' = 0
  /\ lock' = NoRow
  /\ row' = [row EXCEPT ![k] = [used |-> 0, refresh |-> 1]]
  /\ signed' = [signed EXCEPT ![k] = 1]
  /\ live' = [live EXCEPT ![k] = 1]
  /\ tab' = [tab EXCEPT ![k] = IF heard THEN 1 ELSE 0]
  /\ unlocked' = (unlocked \/ opens)
  /\ UNCHANGED matched

-----------------------------------------------------------------------------
\* check_authorization lets a request with an access token of k through.
Accepted(k) == row[k] # NoRow /\ live[k] > 0

\* logout clears the master key.  It looks for the key identifier in the payload
\* of the token, where _create_jwt does not put it: no row is deleted, the answer
\* is a 401, and the browser answers that with a refresh before it forgets.
Logout(k) ==
  /\ Accepted(k)
  /\ unlocked' = FALSE
  /\ UNCHANGED <<sessionVars, lockVars>>

\* Slip, for RefreshBound: the master key is looked for before the refresh is consumed.
ConsumedOnlyUnlocked(k) ==
  IF ~unlocked THEN row
  ELSE IF row[k].used + 1 > MaxRefreshes THEN [row EXCEPT ![k] = NoRow]
  ELSE [row EXCEPT ![k].used = @ + 1]

\* consume_refresh, and delete_key when it refuses.
Consumed(k) ==
  IF row[k].used + 1 > MaxRefreshes
  THEN [row EXCEPT ![k] = NoRow]
  ELSE [row EXCEPT ![k].used = @ + 1]

\* Slip, for ImplementsLimit: the limit is checked after the token is signed.
GrantedAnyway(k) == unlocked

\* The refresh is answered by a new token: the limit is not reached and
\* get_master_key finds the key, which it looks for when the refresh is consumed.
Granted(k) == Consumed(k)[k] # NoRow /\ unlocked

\* refresh_session, asked with refresh token g of session k.  rotate_key stores
\* the digest of a new one.  The browser forgets the session on any refusal.
Refresh(k, g, heard) ==
  /\ g \in 1..tab[k]
  /\ IF row[k] # NoRow /\ row[k].refresh = g
     THEN /\ matched' = [matched EXCEPT ![k] = @ + 1]
          /\ IF Granted(k)
             THEN /\ row' = [Consumed(k) EXCEPT ![k] =
                               IF @ = NoRow THEN NoRow ELSE [@ EXCEPT !.refresh = signed[k] + 1]]
                  /\ signed' = [signed EXCEPT ![k] = @ + 1]
                  /\ live' = [live EXCEPT ![k] = @ + 1]
                  /\ tab' = [tab EXCEPT ![k] = IF heard THEN signed[k] + 1 ELSE @]
             ELSE /\ row' = Consumed(k)
                  /\ UNCHANGED <<signed, live, tab>>
     ELSE UNCHANGED <<row, signed, live, tab, matched>>
  /\ UNCHANGED <<unlocked, lockVars>>

\* The tab is closed, or auth.js forgets the tokens after a refusal or a logout.
Forget(k) ==
  /\ tab[k] > 0
  /\ tab' = [tab EXCEPT ![k] = 0]
  /\ UNCHANGED <<row, signed, live, matched, unlocked, lockVars>>

-----------------------------------------------------------------------------
(* Time, and the process.                                                  *)

\* An access token gets an hour old.
TokenExpires(k) ==
  /\ live[k] > 0
  /\ live' = [live EXCEPT ![k] = @ - 1]
  /\ UNCHANGED <<row, signed, tab, matched, unlocked, lockVars>>

Tick ==
  /\ LockedOut
  /\ lock' = lock - 1
  /\ UNCHANGED <<sessionVars, unlocked, failed>>

\* The master key expires, or the process restarts.
MasterKeyGone ==
  /\ unlocked
  /\ unlocked' = FALSE
  /\ UNCHANGED <<sessionVars, lockVars>>

SessionsNext ==
  \/ LoginRefused \/ Tick \/ MasterKeyGone
  \/ \E k \in Keys, opens, heard \in BOOLEAN : Login(k, opens, heard)
  \/ \E k \in Keys, heard \in BOOLEAN : \E g \in 1..tab[k] : Refresh(k, g, heard)
  \/ \E k \in Keys : Logout(k) \/ Forget(k) \/ TokenExpires(k)

SessionsSpec == SessionsInit /\ [][SessionsNext]_svars /\ WF_svars(Tick)
-----------------------------------------------------------------------------
\* Rows, tokens and counters keep their ranges: in particular the counter of
\* failures never passes the limit, and a session has never more tokens than
\* one and its refreshes.
SessionsTypeOK ==
  /\ row \in [Keys -> Row \cup {NoRow}]
  /\ signed \in [Keys -> 0..MaxRefreshes + 1]
  /\ live \in [Keys -> 0..MaxRefreshes + 1]
  /\ tab \in [Keys -> 0..MaxRefreshes + 1]
  /\ matched \in [Keys -> Nat]
  /\ unlocked \in BOOLEAN
  /\ failed \in 0..MaxFailed
  /\ lock \in 0..LockTicks \cup {NoRow}

\* A session answers a bounded number of refreshes, the refused ones included:
\* one whose master key is gone pays for each refusal, and the row is deleted
\* with the refusal after the last.
RefreshBound ==
  \A k \in Keys :
    /\ matched[k] <= MaxRefreshes + 1
    /\ row[k] # NoRow => /\ row[k].used = matched[k]
                         /\ signed[k] <= matched[k] + 1
                         /\ tab[k] <= row[k].refresh

\* The table of keys implements the limit, whatever requests are lost, repeated
\* or made with an old token, and whenever the master key goes.
Limit == INSTANCE SessionLimit WITH open <- {k \in Keys : row[k] # NoRow}
ImplementsLimit == Limit!Spec

\* A lock ends, whatever is tried meanwhile: failures do not extend it.
LockEnds == LockedOut ~> ~LockedOut

\* Sessions and the lock of failed logins keep within their limits.
SessionsSound ==
  /\ SessionsTypeOK
  /\ RefreshBound
=============================================================================
