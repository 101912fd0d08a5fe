----------------------------- MODULE MasterKeys -----------------------------
(***************************************************************************)
(* The life of a user's master key: database/crypto_store.py (accounts,    *)
(* password change, recovery, the in-memory cache) as the handlers of      *)
(* auth_users/user_api.py drive it.                                        *)
(*                                                                         *)
(* create_user and login are coroutines that never await, so no other      *)
(* handler runs inside them, but they make several separate commits and    *)
(* the process can die between two of them.  `handler' names the request   *)
(* that is between two commits; a Restart may strike there.                *)
(***************************************************************************)
CONSTANTS Users, Passwords, NoPassword, NoKey

\* A master key: whose it is, and which of that user's random draws it is.
\* The code draws once per user; a second draw exists to be ruled out.
Key == [of : Users, gen : {1, 2}]

ASSUME NoPasswordAssumption == NoPassword \notin Passwords
ASSUME NoKeyAssumption == NoKey \notin Key

VARIABLES
  acct,       \* acct[u]: the row of u in the table users
  mkCache,    \* _master_key_cache
  words,      \* _pending_recovery: users whose recovery words are in memory
  delivered,  \* users to whom a login response carried the recovery words
  session,    \* session[u]: the password the current session was opened with
  handler     \* the request between two commits, or Idle

vars == <<acct, mkCache, words, delivered, session, handler>>

MaybePassword == Passwords \cup {NoPassword}
MaybeKey == Key \cup {NoKey}

(* A row of users.  legacy: the password hashed_digest was made from.      *)
(* verifier: the password auth_verifier was made from.  wrapPw, pwKey:     *)
(* master_key_blob_pw, the password that opens it and the key inside.      *)
(* recKey: the key inside master_key_blob_rec.  pend: the password that    *)
(* opens pending_recovery.  shown: recovery_words_shown.                   *)
Account == [legacy : MaybePassword, verifier : MaybePassword,
            wrapPw : MaybePassword, pwKey : MaybeKey, recKey : MaybeKey,
            pend : MaybePassword, shown : BOOLEAN]

NoAccount == [legacy |-> NoPassword, verifier |-> NoPassword,
              wrapPw |-> NoPassword, pwKey |-> NoKey, recKey |-> NoKey,
              pend |-> NoPassword, shown |-> FALSE]

Idle == [op |-> "idle"]
Handler == {Idle} \cup [op : {"create", "login", "change"}, user : Users, pw : Passwords]

Init ==
  /\ acct = [u \in Users |-> NoAccount]
  /\ mkCache = [u \in Users |-> NoKey]
  /\ words = {}
  /\ delivered = {}
  /\ session = [u \in Users |-> NoPassword]
  /\ handler = Idle

-----------------------------------------------------------------------------
(* Registration: add_user commits the row, register_master_key the keys.   *)

CreateRow(u, p) ==
  /\ handler = Idle
  /\ acct[u] = NoAccount
  /\ acct' = [acct EXCEPT ![u].legacy = p]
  /\ handler' = [op |-> "create", user |-> u, pw |-> p]
  /\ UNCHANGED <<mkCache, words, delivered, session>>

\* Slip, for TypeOK: two parameters of the UPDATE in the wrong order.
RegisteredSwapped(row, p, k) ==
  [row EXCEPT !.verifier = p, !.wrapPw = p, !.pwKey = p, !.recKey = k,
              !.pend = k, !.shown = FALSE]

\* The account row after register_master_key with master key k.
Registered(row, p, k) ==
  [row EXCEPT !.verifier = p, !.wrapPw = p, !.pwKey = k, !.recKey = k,
              !.pend = p, !.shown = FALSE]

RegisterMasterKey ==
  /\ handler.op = "create"
  /\ LET u == handler.user
         k == [of |-> u, gen |-> 1]
     IN /\ acct' = [acct EXCEPT ![u] = Registered(@, handler.pw, k)]
        /\ mkCache' = [mkCache EXCEPT ![u] = k]
  /\ handler' = Idle
  /\ UNCHANGED <<words, delivered, session>>

-----------------------------------------------------------------------------
(* Unlocking.                                                              *)

\* login_and_unlock(u, p) finds the verifier and the blob, and both open.
Unlocks(u, p) ==
  /\ acct[u].verifier = p
  /\ acct[u].pwKey # NoKey
  /\ acct[u].wrapPw = p

\* Slip, for PendingWordsOpenable: the flag is read the wrong way round.
HandsOffWordsInverted(u, p) == acct[u].shown /\ acct[u].pend = p

\* The first unlock moves the recovery words from the row to memory.
HandsOffWords(u, p) == ~acct[u].shown /\ acct[u].pend = p

\* Slip, for HandlerCoherent: the key is returned but not cached.
LoginAndUnlockUncached(u, p) ==
  /\ Unlocks(u, p)
  /\ words' = words \cup {u}
  /\ acct' = [acct EXCEPT ![u].pend = NoPassword, ![u].shown = TRUE]
  /\ UNCHANGED mkCache

\* login_and_unlock: verify, open the blob, hand off the words, cache the key.
LoginAndUnlock(u, p) ==
  /\ Unlocks(u, p)
  /\ IF HandsOffWords(u, p)
     THEN /\ words' = words \cup {u}
          /\ acct' = [acct EXCEPT ![u].pend = NoPassword, ![u].shown = TRUE]
     ELSE UNCHANGED <<words, acct>>
  /\ mkCache' = [mkCache EXCEPT ![u] = acct[u].pwKey]

\* login, when login_and_unlock returned the master key.
UnlockingLogin(u, p) ==
  /\ handler = Idle
  /\ LoginAndUnlock(u, p)
  /\ handler' = [op |-> "login", user |-> u, pw |-> p]
  /\ UNCHANGED <<delivered, session>>

\* login, when it did not and the legacy digest still matches.
LegacyLogin(u, p) ==
  /\ handler = Idle
  /\ ~Unlocks(u, p)
  /\ acct[u].legacy = p
  /\ handler' = [op |-> "login", user |-> u, pw |-> p]
  /\ UNCHANGED <<acct, mkCache, words, delivered, session>>

\* The rest of login: the key row, then consume_pending_recovery.
FinishLogin ==
  /\ handler.op = "login"
  /\ LET u == handler.user
     IN /\ session' = [session EXCEPT ![u] = handler.pw]
        /\ delivered' = IF u \in words THEN delivered \cup {u} ELSE delivered
        /\ words' = words \ {u}
  /\ handler' = Idle
  /\ UNCHANGED <<acct, mkCache>>

\* logout: the key leaves memory; the session stays, for the claims of the token
\* hold no `kid', by which its row would be deleted, and the answer is a 401.
LockingLogout(u) ==
  /\ handler = Idle
  /\ session[u] # NoPassword
  /\ mkCache' = [mkCache EXCEPT ![u] = NoKey]
  /\ UNCHANGED <<acct, words, delivered, session, handler>>

\* recover_with_words(u, w) with the right words; with others nothing changes.
RecoverWithWords(u) ==
  /\ handler = Idle
  /\ acct[u].recKey # NoKey
  /\ mkCache' = [mkCache EXCEPT ![u] = acct[u].recKey]
  /\ UNCHANGED <<acct, words, delivered, session, handler>>

-----------------------------------------------------------------------------
(* Password change: login_and_unlock with the old one, then one UPDATE.    *)

ChangePasswordUnlock(u, old, new) ==
  /\ handler = Idle
  /\ LoginAndUnlock(u, old)
  /\ handler' = [op |-> "change", user |-> u, pw |-> new]
  /\ UNCHANGED <<delivered, session>>

\* Slip, for AccountCoherent: the new blob is not stored with the new verifier.
RewrappedVerifierOnly(row, p, k) == [row EXCEPT !.verifier = p, !.pwKey = k]

\* Slip, for ImplementsVault: a new master key is drawn instead of re-wrapped.
RewrappedFresh(row, p, k) ==
  [row EXCEPT !.verifier = p, !.wrapPw = p, !.pwKey = [k EXCEPT !.gen = 2]]

\* The account row after change_password re-wrapped master key k.
Rewrapped(row, p, k) == [row EXCEPT !.verifier = p, !.wrapPw = p, !.pwKey = k]

ChangePasswordCommit ==
  /\ handler.op = "change"
  /\ LET u == handler.user
     IN acct' = [acct EXCEPT ![u] = Rewrapped(@, handler.pw, mkCache[u])]
  /\ handler' = Idle
  /\ UNCHANGED <<mkCache, words, delivered, session>>

-----------------------------------------------------------------------------
(* The entry is older than _USER_CACHE_TTL: every reader treats it as      *)
(* absent.  It cannot age an hour inside one request.                      *)
Expire(u) ==
  /\ handler = Idle
  /\ mkCache[u] # NoKey
  /\ mkCache' = [mkCache EXCEPT ![u] = NoKey]
  /\ UNCHANGED <<acct, words, delivered, session, handler>>

\* The process dies and comes back: memory is gone, the database stays.
Restart ==
  /\ mkCache' = [u \in Users |-> NoKey]
  /\ words' = {}
  /\ handler' = Idle
  /\ UNCHANGED <<acct, delivered, session>>

Next ==
  \/ \E u \in Users, p \in Passwords :
       CreateRow(u, p) \/ UnlockingLogin(u, p) \/ LegacyLogin(u, p)
  \/ RegisterMasterKey
  \/ FinishLogin
  \/ \E u \in Users : LockingLogout(u) \/ RecoverWithWords(u) \/ Expire(u)
  \/ \E u \in Users, old, new \in Passwords : ChangePasswordUnlock(u, old, new)
  \/ ChangePasswordCommit
  \/ Restart

Spec == Init /\ [][Next]_vars

-----------------------------------------------------------------------------
TypeOK ==
  /\ acct \in [Users -> Account]
  /\ mkCache \in [Users -> MaybeKey]
  /\ words \subseteq Users
  /\ delivered \subseteq Users
  /\ session \in [Users -> MaybePassword]
  /\ handler \in Handler

\* The password path and the recovery path of one account lead to the same
\* key, the verifier accepts exactly the password that opens the blob, and the
\* session cache holds that key or nothing: after any number of password
\* changes, recoveries, expiries and restarts, even in the middle of one.
AccountCoherent ==
  \A u \in Users :
    /\ acct[u].wrapPw = acct[u].verifier
    /\ acct[u].pwKey = acct[u].recKey
    /\ (acct[u].verifier = NoPassword) <=> (acct[u].pwKey = NoKey)
    /\ mkCache[u] \in {NoKey, acct[u].recKey}
    /\ acct[u].recKey # NoKey => acct[u].recKey.of = u

\* A request between its two commits relies on what it read before the first:
\* create_user on a row with no keys yet, change_password on the master key
\* being the one in memory and on the recovery words having left the row.
HandlerCoherent ==
  /\ handler.op = "create" => acct[handler.user].verifier = NoPassword
  /\ handler.op = "change" =>
       /\ acct[handler.user].recKey # NoKey
       /\ mkCache[handler.user] = acct[handler.user].recKey
       /\ acct[handler.user].shown

\* Until the recovery words leave the row, the user's current password still
\* opens them: a password change must hand them off before it re-wraps.
PendingWordsOpenable ==
  \A u \in Users :
    (acct[u].verifier # NoPassword /\ ~acct[u].shown)
      => acct[u].pend = acct[u].verifier

\* The key store implements the vault: the recovery blob holds the secret, the
\* verifier the password, and the cache what is held in memory.
V == INSTANCE Vault WITH
       secret <- [u \in Users |-> acct[u].recKey],
       password <- [u \in Users |-> acct[u].verifier],
       held <- mkCache

ImplementsVault == V!Spec

\* An account can always be opened by its password and by its words, to one and the same key, and a
\* request between two commits finds what it relies on: for all that interleaves with it.
AccountsSound ==
  /\ TypeOK
  /\ AccountCoherent
  /\ HandlerCoherent
  /\ PendingWordsOpenable
=============================================================================
