------------------------------- MODULE Vault -------------------------------
(***************************************************************************)
(* What the key store promises about one user's master key, with nothing   *)
(* of how it is stored: a user who has enrolled has one secret for ever,   *)
(* only the current password or the recovery words bring it into memory,   *)
(* and what memory holds is that secret or nothing.                        *)
(* MasterKeys implements this specification.                               *)
(***************************************************************************)
CONSTANTS Users, Passwords, NoPassword, NoKey

VARIABLES secret,    \* secret[u]: the master key of u, NoKey before enrolment
          password,  \* password[u]: the password that unlocks it
          held       \* held[u]: the key memory holds for u, or NoKey

vars == <<secret, password, held>>

\* A master key: whose it is, and which of that user's random draws it is.
Key == [of : Users, gen : {1, 2}]

Init ==
  /\ secret = [u \in Users |-> NoKey]
  /\ password = [u \in Users |-> NoPassword]
  /\ held = [u \in Users |-> NoKey]

\* Enrolment draws the secret and leaves it in memory.
Enroll(u, p) ==
  /\ secret[u] = NoKey
  /\ \E k \in Key :
       /\ k.of = u
       /\ secret' = [secret EXCEPT ![u] = k]
       /\ held' = [held EXCEPT ![u] = k]
  /\ password' = [password EXCEPT ![u] = p]

\* The password, and only the current one, unlocks.
Unlock(u, p) ==
  /\ secret[u] # NoKey
  /\ password[u] = p
  /\ held' = [held EXCEPT ![u] = secret[u]]
  /\ UNCHANGED <<secret, password>>

\* The recovery words unlock without the password.
UnlockByWords(u) ==
  /\ secret[u] # NoKey
  /\ held' = [held EXCEPT ![u] = secret[u]]
  /\ UNCHANGED <<secret, password>>

\* A new password may be set by a user whose key is in memory; the secret stays.
Rekey(u, q) ==
  /\ secret[u] # NoKey
  /\ held[u] = secret[u]
  /\ password' = [password EXCEPT ![u] = q]
  /\ UNCHANGED <<secret, held>>

\* Logout, expiry and restart: memory forgets the keys of some users.
Lock(S) ==
  /\ held' = [u \in Users |-> IF u \in S THEN NoKey ELSE held[u]]
  /\ UNCHANGED <<secret, password>>

Next ==
  \/ \E u \in Users, p \in Passwords :
       Enroll(u, p) \/ Unlock(u, p) \/ Rekey(u, p)
  \/ \E u \in Users : UnlockByWords(u)
  \/ \E S \in SUBSET Users : Lock(S)

Spec == Init /\ [][Next]_vars
=============================================================================
