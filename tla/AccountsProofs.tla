--------------------------- MODULE AccountsProofs ---------------------------
(***************************************************************************)
(* For any users and any passwords: the two ways into an account agree,    *)
(* the cache holds the account's key or nothing, no operation replaces a   *)
(* master key, and the key store implements the vault.  For any keys,      *)
(* threads, states and limits: a session answers a bounded number of       *)
(* refreshes and implements SessionLimit, no state of a sign-in gives two  *)
(* sessions, overlapping sign-ins make at most one account per thread, and *)
(* an address is verified by the last code mailed to it.                   *)
(***************************************************************************)
EXTENDS MasterKeys, Accounts, FiniteSetTheorems, TLAPS

-----------------------------------------------------------------------------
(* Master keys.                                                            *)

\* The inductive invariant: what the database, the cache and the request
\* between two commits agree on.
IInv == TypeOK /\ AccountCoherent /\ HandlerCoherent /\ PendingWordsOpenable

LEMMA InitIInv == Init => IInv
  BY NoPasswordAssumption, NoKeyAssumption
     DEF Init, IInv, TypeOK, AccountCoherent, HandlerCoherent,
         PendingWordsOpenable, Account, NoAccount, MaybePassword, MaybeKey,
         Idle, Handler

\* A row whose user, key and passwords are well typed stays an account under
\* the updates register_master_key and change_password make.
LEMMA AccountUpdates ==
  ASSUME NEW a \in Account, NEW p \in Passwords, NEW k \in MaybeKey
  PROVE  Registered(a, p, k) \in Account /\ Rewrapped(a, p, k) \in Account
  BY DEF Account, Registered, Rewrapped, MaybePassword, MaybeKey

\* login_and_unlock changes the row of one user only, and in it only what
\* concerns the recovery words.
LEMMA LoginAndUnlockEffect ==
  ASSUME IInv, NEW u \in Users, NEW p \in Passwords, LoginAndUnlock(u, p)
  PROVE  /\ acct' \in [Users -> Account]
         /\ mkCache' = [mkCache EXCEPT ![u] = acct[u].recKey]
         /\ acct[u].recKey # NoKey
         /\ words' \subseteq Users
         /\ acct'[u].shown
         /\ acct'[u].recKey = acct[u].recKey
         /\ acct'[u].pwKey = acct[u].pwKey
         /\ acct'[u].verifier = acct[u].verifier
         /\ acct'[u].wrapPw = acct[u].wrapPw
         /\ \A w \in Users \ {u} : acct'[w] = acct[w]
<1> USE DEF IInv, TypeOK
<1>1. acct[u] \in Account /\ acct[u].shown \in BOOLEAN
  BY DEF Account
<1>2. acct[u].pwKey = acct[u].recKey /\ acct[u].recKey # NoKey
  BY DEF LoginAndUnlock, Unlocks, AccountCoherent
<1>3. CASE HandsOffWords(u, p)
  <2>1. acct' = [acct EXCEPT ![u] = [@ EXCEPT !.pend = NoPassword, !.shown = TRUE]]
    BY <1>3, <1>1 DEF LoginAndUnlock, Account
  <2>2. [acct[u] EXCEPT !.pend = NoPassword, !.shown = TRUE] \in Account
    BY <1>1 DEF Account, MaybePassword
  <2>3. acct' \in [Users -> Account] /\ words' \subseteq Users
    BY <2>1, <2>2, <1>3 DEF LoginAndUnlock
  <2>. QED
    BY <1>1, <1>2, <2>1, <2>3 DEF LoginAndUnlock, Account
<1>4. CASE ~HandsOffWords(u, p)
  <2>1. acct[u].shown
    BY <1>1, <1>4, NoPasswordAssumption
       DEF HandsOffWords, PendingWordsOpenable, LoginAndUnlock, Unlocks
  <2>. QED
    BY <1>2, <1>4, <2>1 DEF LoginAndUnlock
<1>. QED
  BY <1>3, <1>4

LEMMA StepIInv == IInv /\ [Next]_vars => IInv'
<1> SUFFICES ASSUME IInv, [Next]_vars
             PROVE  IInv'
  OBVIOUS
<1> USE NoPasswordAssumption, NoKeyAssumption
<1>1. ASSUME NEW u \in Users, NEW p \in Passwords, CreateRow(u, p)
      PROVE  IInv'
  <2>1. acct[u] \in Account
    BY DEF IInv, TypeOK
  <2>2. acct' = [acct EXCEPT ![u] = [@ EXCEPT !.legacy = p]]
    BY <1>1, <2>1 DEF CreateRow, Account
  <2>3. [acct[u] EXCEPT !.legacy = p] \in Account
    BY <2>1 DEF Account, MaybePassword
  <2>4. TypeOK'
    BY <1>1, <2>2, <2>3 DEF CreateRow, IInv, TypeOK, Handler
  <2>5. AccountCoherent' /\ HandlerCoherent' /\ PendingWordsOpenable'
    BY <1>1, <2>1, <2>2
       DEF CreateRow, IInv, TypeOK, Account, NoAccount, AccountCoherent,
           HandlerCoherent, PendingWordsOpenable, MaybeKey, MaybePassword
  <2>. QED
    BY <2>4, <2>5 DEF IInv
<1>2. CASE RegisterMasterKey
  <2> DEFINE u == handler.user
             k == [of |-> u, gen |-> 1]
  <2>1. u \in Users /\ handler.pw \in Passwords /\ k \in Key /\ acct[u] \in Account
    BY <1>2 DEF RegisterMasterKey, IInv, TypeOK, Handler, Idle, Key
  <2>2. acct' = [acct EXCEPT ![u] = Registered(acct[u], handler.pw, k)]
    BY <1>2 DEF RegisterMasterKey
  <2>3. /\ mkCache' = [mkCache EXCEPT ![u] = k]
        /\ handler' = Idle /\ UNCHANGED <<words, delivered, session>>
    BY <1>2 DEF RegisterMasterKey
  <2>4. k # NoKey /\ k.of = u /\ handler.pw # NoPassword
    BY <2>1
  <2> HIDE DEF u, k
  <2>5. TypeOK'
    BY <2>1, <2>2, <2>3, AccountUpdates DEF IInv, TypeOK, Handler, MaybeKey
  <2>6. AccountCoherent' /\ HandlerCoherent' /\ PendingWordsOpenable'
    BY <2>1, <2>2, <2>3, <2>4
       DEF IInv, TypeOK, Account, AccountCoherent, HandlerCoherent, Idle,
           PendingWordsOpenable, Registered
  <2>. QED
    BY <2>5, <2>6 DEF IInv
<1>3. ASSUME NEW u \in Users, NEW p \in Passwords, UnlockingLogin(u, p)
      PROVE  IInv'
  <2>1. TypeOK'
    BY <1>3, LoginAndUnlockEffect DEF UnlockingLogin, IInv, TypeOK, Handler, Account, MaybeKey
  <2>2. AccountCoherent' /\ HandlerCoherent' /\ PendingWordsOpenable'
    BY <1>3, LoginAndUnlockEffect
       DEF UnlockingLogin, IInv, TypeOK, AccountCoherent, HandlerCoherent, PendingWordsOpenable
  <2>. QED
    BY <2>1, <2>2 DEF IInv
<1>4. ASSUME NEW u \in Users, NEW p \in Passwords, LegacyLogin(u, p)
      PROVE  IInv'
  BY <1>4 DEF LegacyLogin, IInv, TypeOK, Handler, AccountCoherent,
              HandlerCoherent, PendingWordsOpenable
<1>5. CASE FinishLogin
  BY <1>5 DEF FinishLogin, IInv, TypeOK, Handler, Idle, AccountCoherent,
              HandlerCoherent, PendingWordsOpenable, MaybePassword
<1>6. ASSUME NEW u \in Users, LockingLogout(u) \/ Expire(u)
      PROVE  IInv'
  BY <1>6 DEF LockingLogout, Expire, IInv, TypeOK, AccountCoherent, HandlerCoherent,
              PendingWordsOpenable, MaybeKey, MaybePassword, Idle
<1>7. ASSUME NEW u \in Users, RecoverWithWords(u)
      PROVE  IInv'
  <2>1. acct[u].recKey \in MaybeKey
    BY DEF IInv, TypeOK, Account
  <2>. QED
    BY <1>7, <2>1 DEF RecoverWithWords, IInv, TypeOK, AccountCoherent,
                      HandlerCoherent, PendingWordsOpenable, Idle
<1>8. ASSUME NEW u \in Users, NEW old \in Passwords, NEW new \in Passwords,
             ChangePasswordUnlock(u, old, new)
      PROVE  IInv'
  <2>1. TypeOK'
    BY <1>8, LoginAndUnlockEffect
       DEF ChangePasswordUnlock, IInv, TypeOK, Handler, Account, MaybeKey
  <2>2. AccountCoherent' /\ HandlerCoherent' /\ PendingWordsOpenable'
    BY <1>8, LoginAndUnlockEffect
       DEF ChangePasswordUnlock, IInv, TypeOK, AccountCoherent, HandlerCoherent,
           PendingWordsOpenable
  <2>. QED
    BY <2>1, <2>2 DEF IInv
<1>9. CASE ChangePasswordCommit
  <2> DEFINE u == handler.user
             k == mkCache[u]
  <2>1. u \in Users /\ handler.pw \in Passwords /\ acct[u] \in Account
    BY <1>9 DEF ChangePasswordCommit, IInv, TypeOK, Handler, Idle
  <2>2. k = acct[u].recKey /\ k # NoKey /\ acct[u].shown /\ k \in MaybeKey
    BY <1>9, <2>1 DEF ChangePasswordCommit, IInv, TypeOK, HandlerCoherent
  <2>3. acct' = [acct EXCEPT ![u] = Rewrapped(acct[u], handler.pw, k)]
    BY <1>9 DEF ChangePasswordCommit
  <2>4. handler' = Idle /\ UNCHANGED <<mkCache, words, delivered, session>>
    BY <1>9 DEF ChangePasswordCommit
  <2> HIDE DEF u, k
  <2>5. TypeOK'
    BY <2>1, <2>2, <2>3, <2>4, AccountUpdates DEF IInv, TypeOK, Handler
  <2>6. AccountCoherent' /\ HandlerCoherent' /\ PendingWordsOpenable'
    BY <2>1, <2>2, <2>3, <2>4
       DEF IInv, TypeOK, Account, AccountCoherent, HandlerCoherent, Idle,
           PendingWordsOpenable, Rewrapped
  <2>. QED
    BY <2>5, <2>6 DEF IInv
<1>10. CASE Restart
  BY <1>10 DEF Restart, IInv, TypeOK, Handler, Idle, AccountCoherent,
               HandlerCoherent, PendingWordsOpenable, MaybeKey
<1>11. CASE UNCHANGED vars
  BY <1>11 DEF vars, IInv, TypeOK, AccountCoherent, HandlerCoherent, PendingWordsOpenable
<1>. QED
  BY <1>1, <1>2, <1>3, <1>4, <1>5, <1>6, <1>7, <1>8, <1>9, <1>10, <1>11 DEF Next

\* The row, the cache and the request between two commits always agree.
THEOREM Coherence == Spec => []IInv
<1>. QED
  BY InitIInv, StepIInv, PTL DEF Spec

\* Every variable keeps its type.
THEOREM KeysTypeCorrect == Spec => []TypeOK
<1>1. IInv => TypeOK
  BY DEF IInv
<1>. QED
  BY <1>1, Coherence, PTL

\* The password path and the recovery path of every account lead to one key,
\* and the session cache holds that key or nothing.
THEOREM AccountsCoherent == Spec => []AccountCoherent
<1>1. IInv => AccountCoherent
  BY DEF IInv
<1>. QED
  BY <1>1, Coherence, PTL

\* The recovery words still in a row open with that user's current password.
THEOREM WordsOpenable == Spec => []PendingWordsOpenable
<1>1. IInv => PendingWordsOpenable
  BY DEF IInv
<1>. QED
  BY <1>1, Coherence, PTL
\* What each step does to the three things the vault is about.  The refinement
\* and the stability of the master key both rest on it.
LEMMA StepEffect ==
  ASSUME IInv, [Next]_vars
  PROVE  \/ \E u \in Users, p \in Passwords : V!Enroll(u, p) \/ V!Unlock(u, p) \/ V!Rekey(u, p)
         \/ \E u \in Users : V!UnlockByWords(u)
         \/ \E S \in SUBSET Users : V!Lock(S)
         \/ UNCHANGED V!vars
<1> USE NoPasswordAssumption, NoKeyAssumption
<1> DEFINE sec == [u \in Users |-> acct[u].recKey]
           pwd == [u \in Users |-> acct[u].verifier]
<1>0. acct \in [Users -> Account] /\ mkCache \in [Users -> MaybeKey]
  BY DEF IInv, TypeOK
<1>1. ASSUME NEW u \in Users, NEW p \in Passwords, LoginAndUnlock(u, p)
      PROVE  V!Unlock(u, p)
  <2>1. \A w \in Users : acct'[w].recKey = acct[w].recKey /\ acct'[w].verifier = acct[w].verifier
    BY <1>1, LoginAndUnlockEffect
  <2>2. sec' = sec /\ pwd' = pwd
    BY <2>1
  <2>3. acct[u].verifier = p
    BY <1>1 DEF LoginAndUnlock, Unlocks
  <2>4. mkCache' = [mkCache EXCEPT ![u] = sec[u]] /\ sec[u] # NoKey /\ pwd[u] = p
    BY <1>1, <2>3, LoginAndUnlockEffect
  <2>. QED
    BY <2>2, <2>4 DEF V!Unlock
<1>2. ASSUME NEW u \in Users, NEW p \in Passwords, CreateRow(u, p)
      PROVE  UNCHANGED V!vars
  <2>1. acct' = [acct EXCEPT ![u] = [@ EXCEPT !.legacy = p]] /\ UNCHANGED mkCache
    BY <1>0, <1>2 DEF CreateRow, Account
  <2>2. \A w \in Users : acct'[w].recKey = acct[w].recKey /\ acct'[w].verifier = acct[w].verifier
    BY <1>0, <2>1 DEF Account
  <2>3. sec' = sec /\ pwd' = pwd
    BY <2>2
  <2>. QED
    BY <2>1, <2>3 DEF V!vars
<1>3. ASSUME RegisterMasterKey
      PROVE  \E u \in Users, p \in Passwords : V!Enroll(u, p)
  <2>0. PICK u \in Users, p \in Passwords : handler.user = u /\ handler.pw = p
    BY <1>3 DEF RegisterMasterKey, IInv, TypeOK, Handler, Idle
  <2> DEFINE k == [of |-> u, gen |-> 1]
  <2>1. acct[u] \in Account /\ acct[u].recKey = NoKey
    BY <1>3, <2>0 DEF RegisterMasterKey, IInv, TypeOK, HandlerCoherent, AccountCoherent
  <2>2. k \in V!Key /\ k.of = u
    BY DEF V!Key
  <2>3. acct' = [acct EXCEPT ![u] = Registered(acct[u], p, k)] /\ mkCache' = [mkCache EXCEPT ![u] = k]
    BY <1>3, <2>0 DEF RegisterMasterKey
  <2> HIDE DEF k
  <2>4. /\ acct'[u].recKey = k /\ acct'[u].verifier = p
        /\ \A w \in Users \ {u} : acct'[w] = acct[w]
    BY <1>0, <2>1, <2>3 DEF Registered, Account
  <2>5. sec' = [sec EXCEPT ![u] = k] /\ pwd' = [pwd EXCEPT ![u] = p]
    BY <2>1, <2>4
  <2>6. V!Enroll(u, p)
    BY <2>1, <2>2, <2>3, <2>5 DEF V!Enroll
  <2>. QED
    BY <2>6
<1>4. ASSUME NEW u \in Users, NEW p \in Passwords, LegacyLogin(u, p) \/ FinishLogin
      PROVE  UNCHANGED V!vars
  BY <1>4 DEF LegacyLogin, FinishLogin, V!vars
<1>5. ASSUME NEW u \in Users, LockingLogout(u) \/ Expire(u)
      PROVE  V!Lock({u})
  BY <1>0, <1>5 DEF LockingLogout, Expire, V!Lock
<1>6. ASSUME NEW u \in Users, RecoverWithWords(u)
      PROVE  V!UnlockByWords(u)
  BY <1>6 DEF RecoverWithWords, V!UnlockByWords
<1>7. ASSUME ChangePasswordCommit
      PROVE  \E u \in Users, p \in Passwords : V!Rekey(u, p)
  <2>0. PICK u \in Users, p \in Passwords : handler.user = u /\ handler.pw = p
    BY <1>7 DEF ChangePasswordCommit, IInv, TypeOK, Handler, Idle
  <2> DEFINE k == mkCache[u]
  <2>1. acct[u] \in Account
    BY DEF IInv, TypeOK
  <2>2. acct[u].recKey # NoKey /\ k = acct[u].recKey
    BY <1>7, <2>0 DEF ChangePasswordCommit, IInv, HandlerCoherent
  <2>3. acct' = [acct EXCEPT ![u] = Rewrapped(acct[u], p, k)] /\ UNCHANGED mkCache
    BY <1>7, <2>0 DEF ChangePasswordCommit
  <2>4. mkCache[u] = k
    OBVIOUS
  <2> HIDE DEF k
  <2>5. /\ acct'[u].recKey = acct[u].recKey /\ acct'[u].verifier = p
        /\ \A w \in Users \ {u} : acct'[w] = acct[w]
    BY <1>0, <2>1, <2>3 DEF Rewrapped, Account
  <2>6. sec' = sec /\ pwd' = [pwd EXCEPT ![u] = p]
    BY <2>1, <2>5
  <2>7. V!Rekey(u, p)
    BY <2>1, <2>2, <2>3, <2>4, <2>6 DEF V!Rekey
  <2>. QED
    BY <2>7
<1>8. ASSUME Restart
      PROVE  V!Lock(Users)
  BY <1>8 DEF Restart, V!Lock
<1>9. CASE UNCHANGED vars
  BY <1>9 DEF vars, V!vars
<1>10. \A u \in Users : {u} \in SUBSET Users
  OBVIOUS
<1>11. CASE Next
  <2>1. CASE \E u \in Users, p \in Passwords : CreateRow(u, p) \/ UnlockingLogin(u, p) \/ LegacyLogin(u, p)
    BY <2>1, <1>1, <1>2, <1>4 DEF UnlockingLogin
  <2>2. CASE \E u \in Users : LockingLogout(u) \/ RecoverWithWords(u) \/ Expire(u)
    BY <2>2, <1>5, <1>6, <1>10
  <2>3. CASE \E u \in Users, old, new \in Passwords : ChangePasswordUnlock(u, old, new)
    BY <2>3, <1>1 DEF ChangePasswordUnlock
  <2>4. CASE FinishLogin
    BY <2>4 DEF FinishLogin, V!vars
  <2>5. CASE Restart
    BY <2>5, <1>8
  <2>. QED
    BY <1>11, <1>3, <1>7, <2>1, <2>2, <2>3, <2>4, <2>5 DEF Next
<1>. QED
  BY <1>9, <1>11

\* The key store, with its rows, blobs, caches and two-commit requests, does
\* nothing the vault does not allow.
THEOREM Refinement == Spec => ImplementsVault
<1>1. Init => V!Init
  BY DEF Init, NoAccount, V!Init
<1>2. IInv /\ [Next]_vars => [V!Next]_(V!vars)
  BY StepEffect DEF V!Next
<1>. QED
  BY <1>1, <1>2, Coherence, PTL DEF Spec, ImplementsVault, V!Spec

\* An account opens by its password and by its words to one key, and a request between its two
\* commits finds what it relies on, for any users and passwords.
THEOREM AccountsStaySound == Spec => []AccountsSound
<1>1. IInv => AccountsSound
  BY DEF IInv, AccountsSound
<1>. QED
  BY <1>1, Coherence, PTL

-----------------------------------------------------------------------------
(* Password sessions.                                                      *)

\* What RefreshBound needs of one session, with row r, tokens s, live ones l,
\* browser's refresh token b and m refreshes answered for.
SessionEntry(r, s, l, b, m) ==
  /\ l <= s
  /\ s = 0 => r = NoRow /\ b = 0 /\ m = 0
  /\ m <= MaxRefreshes + 1
  /\ r # NoRow => r.used = m /\ s <= m + 1 /\ b <= r.refresh /\ r.refresh <= s

\* The inductive invariant of the sessions.  The count of failures is at its limit
\* only while the lock it caused is remembered.
SInv ==
  /\ SessionsTypeOK
  /\ failed = MaxFailed => lock # NoRow
  /\ \A k \in Keys : SessionEntry(row[k], signed[k], live[k], tab[k], matched[k])

LEMMA InitSInv ==
  ASSUME SessionsInit
  PROVE  SInv
<1>1. 0 \in 0..MaxRefreshes + 1 /\ 0 \in 0..MaxFailed /\ 0 # MaxFailed
  BY LimitsAssumption
<1>2. SessionsTypeOK
  BY <1>1 DEF SessionsInit, SessionsTypeOK
<1>3. ASSUME NEW k \in Keys
      PROVE  SessionEntry(row[k], signed[k], live[k], tab[k], matched[k])
  BY LimitsAssumption DEF SessionsInit, SessionEntry
<1>. QED
  BY <1>1, <1>2, <1>3 DEF SInv, SessionsInit

LEMMA LockSteps ==
  ASSUME SInv, LoginRefused \/ Tick
  PROVE  SInv'
<1>1. CASE LoginRefused
  <2>1. failed' \in 0..MaxFailed /\ lock' \in 0..LockTicks \cup {NoRow}
        /\ (failed' = MaxFailed => lock' # NoRow)
    BY <1>1, LimitsAssumption, NoRowAssumption
       DEF LoginRefused, LockedOut, IncrementFailedLogin, FailuresSeen, SInv, SessionsTypeOK
  <2>. QED
    BY <1>1, <2>1 DEF LoginRefused, SInv, SessionsTypeOK, sessionVars
<1>2. CASE Tick
  <2>1. lock' \in 0..LockTicks \cup {NoRow} /\ lock' # NoRow
    BY <1>2, LimitsAssumption, NoRowAssumption DEF Tick, LockedOut, SInv, SessionsTypeOK
  <2>. QED
    BY <1>2, <2>1 DEF Tick, SInv, SessionsTypeOK, sessionVars
<1>. QED
  BY <1>1, <1>2

LEMMA LoginStep ==
  ASSUME SInv, NEW k \in Keys, NEW opens \in BOOLEAN, NEW heard \in BOOLEAN, Login(k, opens, heard)
  PROVE  SInv'
<1> DEFINE r == [used |-> 0, refresh |-> 1]
<1>1. r \in Row /\ r # NoRow /\ 1 \in 0..MaxRefreshes + 1 /\ 0 \in 0..MaxRefreshes + 1
  BY LimitsAssumption, NoRowAssumption DEF Row
<1>2. SessionsTypeOK'
  BY <1>1, LimitsAssumption DEF Login, SInv, SessionsTypeOK
<1>3. failed' # MaxFailed
  BY LimitsAssumption DEF Login
<1>4. ASSUME NEW j \in Keys
      PROVE  SessionEntry(row'[j], signed'[j], live'[j], tab'[j], matched'[j])
  BY <1>1, LimitsAssumption DEF Login, SInv, SessionsTypeOK, SessionEntry
<1>. QED
  BY <1>2, <1>3, <1>4 DEF SInv

\* What a refresh whose token is found does to the row of its session.
LEMMA RefreshRow ==
  ASSUME SInv, NEW k \in Keys, row[k] # NoRow
  PROVE  /\ row[k] \in Row /\ row[k].used \in 0..MaxRefreshes /\ row[k].refresh \in 1..MaxRefreshes + 1
         /\ signed[k] \in 1..row[k].used + 1
         /\ row[k].used + 1 > MaxRefreshes => Consumed(k) = [row EXCEPT ![k] = NoRow] /\ ~Granted(k)
         /\ row[k].used + 1 <= MaxRefreshes =>
              /\ Consumed(k) = [row EXCEPT ![k] = [row[k] EXCEPT !.used = row[k].used + 1]]
              /\ Granted(k) <=> unlocked
<1>1. row[k] \in Row
  BY DEF SInv, SessionsTypeOK
<1>2. row[k].used \in 0..MaxRefreshes /\ row[k].refresh \in 1..MaxRefreshes + 1
  BY <1>1 DEF Row
<1>3. signed[k] \in 1..row[k].used + 1
  BY <1>2, LimitsAssumption DEF SInv, SessionsTypeOK, SessionEntry
<1>4. row[k].used + 1 > MaxRefreshes => Consumed(k) = [row EXCEPT ![k] = NoRow] /\ ~Granted(k)
  BY DEF Consumed, Granted, SInv, SessionsTypeOK
<1>5. ASSUME row[k].used + 1 <= MaxRefreshes
      PROVE  /\ Consumed(k) = [row EXCEPT ![k] = [row[k] EXCEPT !.used = row[k].used + 1]]
             /\ Granted(k) <=> unlocked
  <2>1. ~(row[k].used + 1 > MaxRefreshes)
    BY <1>2, <1>5, LimitsAssumption
  <2>2. Consumed(k) = [row EXCEPT ![k] = [row[k] EXCEPT !.used = row[k].used + 1]]
    BY <2>1 DEF Consumed
  <2>3. [row[k] EXCEPT !.used = row[k].used + 1] \in Row
    BY <1>1, <1>2, <1>5, LimitsAssumption DEF Row
  <2>4. Consumed(k)[k] # NoRow
    BY <2>2, <2>3, NoRowAssumption DEF SInv, SessionsTypeOK
  <2>. QED
    BY <2>2, <2>4 DEF Granted
<1>. QED
  BY <1>1, <1>2, <1>3, <1>4, <1>5

LEMMA RefreshStep ==
  ASSUME SInv, NEW k \in Keys, NEW heard \in BOOLEAN, NEW g \in 1..tab[k], Refresh(k, g, heard)
  PROVE  SInv'
<1>1. CASE ~(row[k] # NoRow /\ row[k].refresh = g)
  BY <1>1 DEF Refresh, SInv, SessionsTypeOK, lockVars
<1>2. CASE row[k] # NoRow /\ row[k].refresh = g
  <2>0. SessionsTypeOK /\ SessionEntry(row[k], signed[k], live[k], tab[k], matched[k])
        /\ row[k].used = matched[k] /\ matched[k] \in Nat
    BY <1>2 DEF SInv, SessionsTypeOK, SessionEntry
  <2>1. CASE ~Granted(k)
    <3>1. CASE row[k].used + 1 > MaxRefreshes
      <4>1. row' = [row EXCEPT ![k] = NoRow] /\ matched' = [matched EXCEPT ![k] = @ + 1]
            /\ UNCHANGED <<signed, live, tab, unlocked, failed, lock>>
        BY <1>2, <2>1, <3>1, RefreshRow DEF Refresh, lockVars
      <4>2. SessionsTypeOK'
        BY <4>1, <2>0 DEF SessionsTypeOK
      <4>3. ASSUME NEW j \in Keys
            PROVE  SessionEntry(row'[j], signed'[j], live'[j], tab'[j], matched'[j])
        <5>1. CASE j = k
          <6>1. signed[k] # 0 /\ matched[k] <= MaxRefreshes
            BY <1>2, <2>0, RefreshRow, LimitsAssumption
          <6>. QED
            BY <4>1, <2>0, <5>1, <6>1, LimitsAssumption DEF SessionsTypeOK, SessionEntry
        <5>2. CASE j # k
          BY <4>1, <2>0, <5>2 DEF SInv, SessionsTypeOK
        <5>. QED BY <5>1, <5>2
      <4>. QED
        BY <4>1, <4>2, <4>3 DEF SInv
    <3>2. CASE row[k].used + 1 <= MaxRefreshes
      <4> DEFINE r == [row[k] EXCEPT !.used = row[k].used + 1]
      <4>1. row' = [row EXCEPT ![k] = r] /\ matched' = [matched EXCEPT ![k] = @ + 1]
            /\ UNCHANGED <<signed, live, tab, unlocked, failed, lock>>
        BY <1>2, <2>1, <3>2, RefreshRow DEF Refresh, lockVars
      <4>2. r \in Row /\ r.used = row[k].used + 1 /\ r.refresh = row[k].refresh
        BY <1>2, <3>2, RefreshRow, LimitsAssumption DEF Row
      <4> HIDE DEF r
      <4>3. SessionsTypeOK'
        BY <4>1, <4>2, <2>0 DEF SessionsTypeOK
      <4>4. ASSUME NEW j \in Keys
            PROVE  SessionEntry(row'[j], signed'[j], live'[j], tab'[j], matched'[j])
        <5>1. CASE j = k
          <6>1. signed[k] \in Nat \ {0} /\ matched[k] < MaxRefreshes
            BY <1>2, <3>2, <2>0, RefreshRow, LimitsAssumption
          <6>. QED
            BY <4>1, <4>2, <2>0, <1>2, <5>1, <6>1, LimitsAssumption DEF SessionsTypeOK, SessionEntry
        <5>2. CASE j # k
          BY <4>1, <2>0, <5>2 DEF SInv, SessionsTypeOK
        <5>. QED BY <5>1, <5>2
      <4>. QED
        BY <4>1, <4>3, <4>4 DEF SInv
    <3>. QED
      BY <3>1, <3>2, <1>2, RefreshRow, LimitsAssumption
  <2>2. CASE Granted(k)
    <3>1. row[k].used + 1 <= MaxRefreshes
      BY <1>2, <2>2, RefreshRow, LimitsAssumption
    <3> DEFINE paid == [row[k] EXCEPT !.used = row[k].used + 1]
               r == [paid EXCEPT !.refresh = signed[k] + 1]
    <3>2. signed[k] \in Nat \ {0} /\ signed[k] <= MaxRefreshes
      BY <1>2, <3>1, RefreshRow, LimitsAssumption
    <3>3. paid \in Row /\ paid.used = row[k].used + 1
      BY <1>2, <3>1, RefreshRow, LimitsAssumption DEF Row
    <3>4. Consumed(k) = [row EXCEPT ![k] = paid]
      BY <1>2, <3>1, RefreshRow
    <3> HIDE DEF paid
    <3>5. row' = [row EXCEPT ![k] = r]
      <4>1. row' = [Consumed(k) EXCEPT ![k] = IF @ = NoRow THEN NoRow ELSE [@ EXCEPT !.refresh = signed[k] + 1]]
        BY <1>2, <2>2 DEF Refresh
      <4>2. paid # NoRow
        BY <3>3, NoRowAssumption
      <4>. QED
        BY <2>0, <3>4, <4>1, <4>2 DEF SessionsTypeOK
    <3>10. r \in Row /\ r.used = row[k].used + 1 /\ r.refresh = signed[k] + 1
      BY <3>2, <3>3, LimitsAssumption DEF Row
    <3>6. /\ signed' = [signed EXCEPT ![k] = @ + 1]
          /\ live' = [live EXCEPT ![k] = @ + 1]
          /\ tab' = [tab EXCEPT ![k] = IF heard THEN signed[k] + 1 ELSE @]
          /\ matched' = [matched EXCEPT ![k] = @ + 1]
          /\ UNCHANGED <<unlocked, failed, lock>>
      BY <1>2, <2>2 DEF Refresh, lockVars
    <3> HIDE DEF r
    <3>7. signed[k] + 1 \in 0..MaxRefreshes + 1 /\ live[k] + 1 \in 0..MaxRefreshes + 1
      BY <2>0, <3>2, LimitsAssumption DEF SessionsTypeOK, SessionEntry
    <3>8. SessionsTypeOK'
      BY <2>0, <3>10, <3>5, <3>6, <3>7 DEF SessionsTypeOK
    <3>9. ASSUME NEW j \in Keys
          PROVE  SessionEntry(row'[j], signed'[j], live'[j], tab'[j], matched'[j])
      <4>1. CASE j = k
        <5>1. matched[k] < MaxRefreshes /\ signed[k] <= matched[k] + 1 /\ tab[k] <= signed[k]
              /\ tab[k] \in Nat /\ live[k] \in Nat /\ live[k] <= signed[k]
          BY <1>2, <3>1, <2>0, RefreshRow, LimitsAssumption DEF SessionEntry, SessionsTypeOK
        <5>2. /\ row'[k] = r /\ signed'[k] = signed[k] + 1 /\ live'[k] = live[k] + 1
              /\ tab'[k] \in {signed[k] + 1, tab[k]} /\ matched'[k] = matched[k] + 1
          BY <2>0, <3>5, <3>6 DEF SessionsTypeOK
        <5>. QED
          BY <2>0, <3>2, <3>10, <4>1, <5>1, <5>2, LimitsAssumption DEF SessionEntry
      <4>2. CASE j # k
        BY <2>0, <3>5, <3>6, <4>2 DEF SInv, SessionsTypeOK
      <4>. QED BY <4>1, <4>2
    <3>. QED
      BY <3>6, <3>8, <3>9 DEF SInv
  <2>. QED
    BY <2>1, <2>2
<1>. QED
  BY <1>1, <1>2

\* The steps that only forget: a logout, a closed tab, an old token, a lost key.
LEMMA ForgettingSteps ==
  ASSUME SInv, MasterKeyGone \/ \E k \in Keys : Logout(k) \/ Forget(k) \/ TokenExpires(k)
  PROVE  SInv'
<1>1. CASE MasterKeyGone \/ \E k \in Keys : Logout(k)
  BY <1>1 DEF MasterKeyGone, Logout, SInv, SessionsTypeOK, sessionVars, lockVars
<1>2. ASSUME NEW k \in Keys, Forget(k)
      PROVE  SInv'
  BY <1>2, LimitsAssumption DEF Forget, SInv, SessionsTypeOK, SessionEntry, Row, lockVars
<1>3. ASSUME NEW k \in Keys, TokenExpires(k)
      PROVE  SInv'
  BY <1>3, LimitsAssumption DEF TokenExpires, SInv, SessionsTypeOK, SessionEntry, lockVars
<1>. QED
  BY <1>1, <1>2, <1>3

LEMMA StepSInv == SInv /\ [SessionsNext]_svars => SInv'
<1>1. SInv /\ UNCHANGED svars => SInv'
  BY DEF svars, sessionVars, lockVars, SInv, SessionsTypeOK
<1>. QED
  BY <1>1, LockSteps, LoginStep, RefreshStep, ForgettingSteps DEF SessionsNext

\* A step of the sessions is a step of the limit, or changes nothing of it.
LEMMA LimitInit == SessionsInit => Limit!Init
  BY DEF SessionsInit, Limit!Init

LEMMA LimitStep == SInv /\ [SessionsNext]_svars => [Limit!Next]_<<{k \in Keys : row[k] # NoRow}, signed>>
<1> DEFINE open == {k \in Keys : row[k] # NoRow}
<1> SUFFICES ASSUME SInv, [SessionsNext]_svars, ~ UNCHANGED <<open, signed>>
             PROVE  \E k \in Keys : Limit!Open(k) \/ Limit!Extend(k) \/ Limit!Close(k)
  BY DEF Limit!Next
<1>1. SessionsTypeOK
  BY DEF SInv
<1>2. ASSUME NEW k \in Keys, NEW opens \in BOOLEAN, NEW heard \in BOOLEAN, Login(k, opens, heard)
      PROVE  Limit!Open(k)
  <2>1. [used |-> 0, refresh |-> 1] # NoRow
    BY NoRowAssumption, LimitsAssumption DEF Row
  <2>2. open' = open \cup {k}
    BY <1>1, <1>2, <2>1 DEF Login, SessionsTypeOK
  <2>. QED
    BY <1>2, <2>2 DEF Login, Limit!Open
<1>3. ASSUME NEW k \in Keys, NEW heard \in BOOLEAN, NEW g \in 1..tab[k], Refresh(k, g, heard)
      PROVE  Limit!Extend(k) \/ Limit!Close(k)
  <2>1. row[k] # NoRow /\ row[k].refresh = g
    BY <1>3 DEF Refresh
  <2>2. CASE row[k].used + 1 > MaxRefreshes
    <3>1. row' = [row EXCEPT ![k] = NoRow] /\ signed' = signed
      BY <1>3, <2>1, <2>2, RefreshRow DEF Refresh
    <3>2. open' = open \ {k}
      BY <1>1, <3>1 DEF SessionsTypeOK
    <3>. QED
      BY <2>1, <3>1, <3>2 DEF Limit!Close
  <2>3. CASE row[k].used + 1 <= MaxRefreshes
    <3> DEFINE paid == [row[k] EXCEPT !.used = row[k].used + 1]
    <3>1. paid \in Row /\ Consumed(k) = [row EXCEPT ![k] = paid] /\ signed[k] <= MaxRefreshes
      BY <2>1, <2>3, RefreshRow, LimitsAssumption DEF Row
    <3> HIDE DEF paid
    <3>2. paid # NoRow
      BY <3>1, NoRowAssumption
    <3>3. CASE Granted(k)
      <4>1. /\ signed' = [signed EXCEPT ![k] = @ + 1]
            /\ row' = [Consumed(k) EXCEPT ![k] = IF @ = NoRow THEN NoRow ELSE [@ EXCEPT !.refresh = signed[k] + 1]]
        BY <1>3, <2>1, <3>3 DEF Refresh
      <4>2. row' = [row EXCEPT ![k] = [paid EXCEPT !.refresh = signed[k] + 1]]
        BY <1>1, <3>1, <3>2, <4>1 DEF SessionsTypeOK
      <4>3. signed[k] + 1 \in 1..MaxRefreshes + 1
        BY <1>1, <2>1, <3>1, RefreshRow, LimitsAssumption DEF SessionsTypeOK
      <4>4. [paid EXCEPT !.refresh = signed[k] + 1] # NoRow
        BY <3>1, <4>3, NoRowAssumption DEF Row
      <4>5. open' = open
        BY <1>1, <2>1, <4>2, <4>4 DEF SessionsTypeOK
      <4>. QED
        BY <2>1, <3>1, <4>1, <4>5 DEF Limit!Extend
    <3>4. CASE ~Granted(k)
      <4>1. row' = [row EXCEPT ![k] = paid] /\ signed' = signed
        BY <1>3, <2>1, <3>1, <3>4 DEF Refresh
      <4>2. open' = open
        BY <1>1, <2>1, <3>2, <4>1 DEF SessionsTypeOK
      <4>. QED
        BY <4>1, <4>2
    <3>. QED
      BY <3>3, <3>4
  <2>. QED
    BY <2>1, <2>2, <2>3, RefreshRow, LimitsAssumption
<1>. QED
  BY <1>2, <1>3 DEF SessionsNext, LoginRefused, Tick, MasterKeyGone, Logout, Forget, TokenExpires,
                    svars, sessionVars
-----------------------------------------------------------------------------
(* Sign-in through a provider.                                             *)

\* Thread t runs a callback that popped state s and has not answered.
Popping == {"exchange", "find", "name", "insert", "issue"}
HoldsState(t, s) == cb[t] # Free /\ cb[t].pc \in Popping /\ cb[t].state = s

\* A state is popped once: it is gone for as long as a callback holds it and for as
\* long as it has given a session, and it gives one to whoever popped it.
PoppedOnce ==
  \A s \in States :
    /\ sessions[s] <= 1
    /\ sessions[s] = 1 => pending[s] = "gone"
    /\ \A t \in Threads : HoldsState(t, s) => pending[s] = "gone" /\ sessions[s] = 0
    /\ \A t, u \in Threads : HoldsState(t, s) /\ HoldsState(u, s) => t = u

\* The threads that found no account and are about to make one.
Naming == {t \in Threads : cb[t] # Free /\ cb[t].pc \in {"name", "insert"}}

\* Each of them makes at most one, and none starts once there is one.
NamersBounded == Cardinality(accounts) + Cardinality(Naming) <= Cardinality(Threads)

OInv == OidcTypeOK /\ PoppedOnce /\ NamersBounded

LEMMA InitOInv ==
  ASSUME OidcInit
  PROVE  OInv
<1>1. OidcTypeOK /\ PoppedOnce
  BY DEF OidcInit, OidcTypeOK, PoppedOnce, HoldsState
<1>2. accounts = {} /\ Naming = {}
  BY DEF OidcInit, Naming
<1>3. Cardinality({}) = 0 /\ Cardinality(Threads) \in Nat
  BY FS_EmptySet, FS_CardinalityType, PoolOfThreadsAssumption
<1>. QED
  BY <1>1, <1>2, <1>3 DEF OInv, NamersBounded

LEMMA StoredBound ==
  Cardinality(Stored) \in 0..Cardinality(States) /\ Cardinality(States) \in Nat
<1>1. Stored \in SUBSET States
  BY DEF Stored
<1>. QED
  BY <1>1, FS_Subset, FS_CardinalityType, PoolOfThreadsAssumption

\* A callback moves on with its fields in their sets.
LEMMA CallbackMoves ==
  ASSUME OidcTypeOK, NEW t \in Threads, cb[t] # Free
  PROVE  /\ cb[t] \in Callback
         /\ cb[t].pc \in {"list", "sweep", "pop", "exchange", "find", "name", "insert", "issue"}
         /\ cb[t].state \in States /\ cb[t].name \in Names /\ cb[t].stale \in SUBSET States
         /\ \A pc \in {"list", "sweep", "pop", "exchange", "find", "name", "insert", "issue"} :
              [cb[t] EXCEPT !.pc = pc] \in Callback
         /\ \A S \in SUBSET States :
              /\ [cb[t] EXCEPT !.stale = S] \in Callback
              /\ [cb[t] EXCEPT !.pc = "sweep", !.stale = S] \in Callback
         /\ \A n \in Names : [cb[t] EXCEPT !.name = n] \in Callback
  BY DEF OidcTypeOK, Callback

LEMMA StepOidcType ==
  ASSUME OidcTypeOK, OidcNext
  PROVE  OidcTypeOK'
<1>1. ASSUME NEW s \in States, StartLogin(s) \/ Stale(s)
      PROVE  OidcTypeOK'
  BY <1>1 DEF StartLogin, Stale, OidcTypeOK
<1>2. ASSUME NEW t \in Threads, NEW s \in States, Arrive(t, s)
      PROVE  OidcTypeOK'
  <2>1. [pc |-> "list", state |-> s, size |-> Cardinality(Stored), stale |-> {}, name |-> 1] \in Callback
    BY StoredBound, PoolOfThreadsAssumption DEF Callback, Names
  <2>. QED
    BY <1>2, <2>1 DEF Arrive, OidcTypeOK
<1>3. ASSUME NEW t \in Threads, Step(t)
      PROVE  OidcTypeOK'
  <2>0. cb[t] # Free
    BY <1>3 DEF Step, At, List, Sweep, Pop, Exchange, Find, TryName, Insert, Issue
  <2>1. CASE List(t)
    <3>1. {s \in Stored : pending[s] = "stale"} \in SUBSET States
      BY DEF Stored
    <3>2. cb' = [cb EXCEPT ![t] = Free]
          \/ cb' = [cb EXCEPT ![t] = [cb[t] EXCEPT !.pc = "sweep", !.stale = {s \in Stored : pending[s] = "stale"}]]
      BY <2>1 DEF List, Answer
    <3>3. [cb[t] EXCEPT !.pc = "sweep", !.stale = {s \in Stored : pending[s] = "stale"}] \in Callback
      BY <2>0, <3>1, CallbackMoves
    <3>. QED
      BY <2>1, <3>2, <3>3 DEF List, OidcTypeOK
  <2>2. CASE Sweep(t)
    <3>1. CASE cb[t].stale = {}
      BY <2>0, <2>2, <3>1, CallbackMoves DEF Sweep, Goto, OidcTypeOK
    <3>2. ASSUME NEW s \in cb[t].stale,
                 IF s \in Stored
                 THEN /\ pending' = [pending EXCEPT ![s] = "gone"]
                      /\ cb' = [cb EXCEPT ![t].stale = @ \ {s}]
                 ELSE Answer(t) /\ UNCHANGED pending
          PROVE  OidcTypeOK'
      <4>1. cb[t].stale \ {s} \in SUBSET States
        BY <2>0, CallbackMoves
      <4>2. [cb[t] EXCEPT !.stale = cb[t].stale \ {s}] \in Callback
        BY <2>0, <4>1, CallbackMoves
      <4>3. UNCHANGED <<taken, accounts, sessions>>
        BY <2>2 DEF Sweep
      <4>. QED
        BY <3>2, <4>2, <4>3 DEF Answer, OidcTypeOK
    <3>. QED
      BY <2>2, <3>1, <3>2 DEF Sweep
  <2>3. CASE Pop(t)
    BY <2>0, <2>3, CallbackMoves DEF Pop, Popped, Goto, Answer, OidcTypeOK
  <2>4. CASE Find(t) \/ \E ok \in BOOLEAN : Exchange(t, ok)
    BY <2>0, <2>4, CallbackMoves DEF Find, Exchange, Goto, Answer, OidcTypeOK
  <2>5. CASE TryName(t)
    <3>1. CASE cb[t].name \in taken
      <4>1. cb[t].name \in Names /\ cb[t].name < MaxNames
        BY <2>0, <2>5, <3>1, CallbackMoves DEF TryName
      <4>2. cb[t].name + 1 \in Names
        BY <4>1, PoolOfThreadsAssumption DEF Names
      <4>. QED
        BY <2>0, <2>5, <3>1, <4>2, CallbackMoves DEF TryName, OidcTypeOK
    <3>2. CASE cb[t].name \notin taken
      BY <2>0, <2>5, <3>2, CallbackMoves DEF TryName, Goto, OidcTypeOK
    <3>. QED
      BY <3>1, <3>2
  <2>6. CASE Insert(t)
    BY <2>0, <2>6, CallbackMoves DEF Insert, Goto, Answer, OidcTypeOK
  <2>7. CASE Issue(t)
    <3>1. cb[t].state \in States
      BY <2>0, CallbackMoves
    <3>2. PICK s \in States : s = cb[t].state
      BY <3>1
    <3>3. sessions' = [sessions EXCEPT ![s] = sessions[s] + 1] /\ cb' = [cb EXCEPT ![t] = Free]
          /\ UNCHANGED <<pending, taken, accounts>>
      BY <2>7, <3>2 DEF Issue, Answer
    <3>4. sessions' \in [States -> Nat]
      BY <3>3 DEF OidcTypeOK
    <3>. QED
      BY <3>3, <3>4 DEF OidcTypeOK
  <2>. QED
    BY <1>3, <2>1, <2>2, <2>3, <2>4, <2>5, <2>6, <2>7 DEF Step
<1>. QED
  BY <1>1, <1>2, <1>3 DEF OidcNext
\* What a callback does to itself, when it does not pop, leaves its state with it.
LEMMA Moves ==
  ASSUME OidcTypeOK, NEW t \in Threads, cb[t] # Free,
         \/ cb' = [cb EXCEPT ![t] = Free]
         \/ cb' = [cb EXCEPT ![t].pc = "pop"]
         \/ cb[t].pc \in Popping /\ \E pc \in Popping : cb' = [cb EXCEPT ![t].pc = pc]
         \/ \E S : cb' = [cb EXCEPT ![t].pc = "sweep", ![t].stale = S]
         \/ \E s : cb' = [cb EXCEPT ![t].stale = @ \ {s}]
         \/ \E n : cb' = [cb EXCEPT ![t].name = n],
         NEW u \in Threads, NEW z \in States, HoldsState(u, z)'
  PROVE  HoldsState(u, z)
<1>0. cb[t] \in Callback
  BY DEF OidcTypeOK
<1>1. CASE u # t
  BY <1>1 DEF HoldsState, OidcTypeOK
<1>2. CASE u = t
  <2>1. CASE cb' = [cb EXCEPT ![t] = Free]
    BY <1>2, <2>1 DEF HoldsState, OidcTypeOK
  <2>2. CASE cb' = [cb EXCEPT ![t].pc = "pop"]
    BY <1>2, <2>2 DEF HoldsState, OidcTypeOK, Popping, Callback
  <2>3. ASSUME NEW pc \in Popping, cb[t].pc \in Popping, cb' = [cb EXCEPT ![t].pc = pc]
        PROVE  HoldsState(t, z)
    BY <1>0, <1>2, <2>3 DEF HoldsState, OidcTypeOK, Callback
  <2>4. ASSUME NEW S, cb' = [cb EXCEPT ![t].pc = "sweep", ![t].stale = S]
        PROVE  HoldsState(t, z)
    <3>1. cb'[t].pc = "sweep"
      BY <1>0, <2>4 DEF OidcTypeOK, Callback
    <3>. QED
      BY <1>2, <3>1 DEF HoldsState, Popping
  <2>5. ASSUME NEW s, cb' = [cb EXCEPT ![t].stale = @ \ {s}]
        PROVE  HoldsState(t, z)
    BY <1>0, <1>2, <2>5 DEF HoldsState, OidcTypeOK, Callback
  <2>6. ASSUME NEW n, cb' = [cb EXCEPT ![t].name = n]
        PROVE  HoldsState(t, z)
    BY <1>0, <1>2, <2>6 DEF HoldsState, OidcTypeOK, Callback
  <2>. QED
    BY <1>2, <2>1, <2>2, <2>3, <2>4, <2>5, <2>6
<1>. QED
  BY <1>1, <1>2

\* A callback that holds no state and comes to hold one has just popped it; no other
\* step gives a state away or brings one back.
LEMMA StepPoppedOnce ==
  ASSUME OidcTypeOK, PoppedOnce, OidcNext
  PROVE  PoppedOnce'
<1>1. ASSUME NEW s \in States, StartLogin(s) \/ Stale(s)
      PROVE  PoppedOnce'
  BY <1>1 DEF StartLogin, Stale, OidcTypeOK, PoppedOnce, HoldsState
<1>2. ASSUME NEW t \in Threads, NEW s \in States, Arrive(t, s)
      PROVE  PoppedOnce'
  <2>1. \A u \in Threads, z \in States : HoldsState(u, z)' => HoldsState(u, z)
    BY <1>2 DEF Arrive, OidcTypeOK, HoldsState, Popping
  <2>. QED
    BY <1>2, <2>1 DEF Arrive, PoppedOnce
<1>3. ASSUME NEW t \in Threads, Step(t)
      PROVE  PoppedOnce'
  <2>0. cb[t] # Free
    BY <1>3 DEF Step, At, List, Sweep, Pop, Exchange, Find, TryName, Insert, Issue
  <2>1. CASE Pop(t)
    <3>1. CASE cb[t].state \in Stored
      <4>1. PICK s \in States : s = cb[t].state /\ pending[s] \in {"open", "stale"}
        BY <2>0, <3>1, CallbackMoves DEF Stored
      <4>2. pending' = [pending EXCEPT ![s] = "gone"] /\ sessions' = sessions
            /\ cb' = [cb EXCEPT ![t].pc = "exchange"]
        BY <2>1, <3>1, <4>1 DEF Pop, Popped, Goto
      <4>3. sessions[s] = 0 /\ \A u \in Threads : ~HoldsState(u, s)
        BY <4>1 DEF PoppedOnce, OidcTypeOK
      <4>4. \A u \in Threads, z \in States :
              HoldsState(u, z)' => HoldsState(u, z) \/ (u = t /\ z = s)
        BY <4>1, <4>2 DEF HoldsState, OidcTypeOK
      <4>5. \A z \in States : pending'[z] = IF z = s THEN "gone" ELSE pending[z]
        BY <4>2 DEF OidcTypeOK
      <4>. QED
        BY <4>2, <4>3, <4>4, <4>5 DEF PoppedOnce
    <3>2. CASE cb[t].state \notin Stored
      BY <2>1, <3>2 DEF Pop, Answer, PoppedOnce, HoldsState, OidcTypeOK
    <3>. QED
      BY <3>1, <3>2
  <2>2. CASE Issue(t)
    <3>1. PICK s \in States : s = cb[t].state
      BY <2>0, CallbackMoves
    <3>2. sessions' = [sessions EXCEPT ![s] = sessions[s] + 1] /\ pending' = pending
          /\ cb' = [cb EXCEPT ![t] = Free] /\ HoldsState(t, s)
      BY <2>2, <3>1 DEF Issue, Answer, At, HoldsState, Popping
    <3>3. sessions[s] = 0 /\ pending[s] = "gone"
      BY <3>2 DEF PoppedOnce
    <3>4. \A u \in Threads, z \in States : HoldsState(u, z)' => HoldsState(u, z) /\ u # t
      BY <3>2 DEF HoldsState, OidcTypeOK
    <3>5. \A u \in Threads : ~HoldsState(u, s)'
      BY <3>2, <3>4 DEF PoppedOnce
    <3>6. \A z \in States : sessions'[z] = IF z = s THEN 1 ELSE sessions[z]
      BY <3>2, <3>3 DEF OidcTypeOK
    <3>. QED
      BY <3>2, <3>3, <3>4, <3>5, <3>6 DEF PoppedOnce
  <2>3. CASE Sweep(t)
    <3>0. \/ cb' = [cb EXCEPT ![t].pc = "pop"]
          \/ cb' = [cb EXCEPT ![t] = Free]
          \/ \E s : cb' = [cb EXCEPT ![t].stale = @ \ {s}]
      BY <2>3 DEF Sweep, Goto, Answer
    <3>1. \A u \in Threads, z \in States : HoldsState(u, z)' => HoldsState(u, z)
      BY <2>0, <3>0, Moves
    <3>2. \A z \in States : pending'[z] \in {pending[z], "gone"} /\ sessions' = sessions
      BY <2>3 DEF Sweep, Answer, OidcTypeOK
    <3>. QED
      BY <3>1, <3>2 DEF PoppedOnce
  <2>4. CASE List(t) \/ Find(t) \/ TryName(t) \/ Insert(t) \/ \E ok \in BOOLEAN : Exchange(t, ok)
    <3>0. \/ cb' = [cb EXCEPT ![t] = Free]
          \/ cb[t].pc \in Popping /\ \E pc \in Popping : cb' = [cb EXCEPT ![t].pc = pc]
          \/ \E S : cb' = [cb EXCEPT ![t].pc = "sweep", ![t].stale = S]
          \/ \E n : cb' = [cb EXCEPT ![t].name = n]
      BY <2>4 DEF List, Find, TryName, Insert, Exchange, At, Goto, Answer, Popping
    <3>1. \A u \in Threads, z \in States : HoldsState(u, z)' => HoldsState(u, z)
      BY <2>0, <3>0, Moves
    <3>2. pending' = pending /\ sessions' = sessions
      BY <2>4 DEF List, Find, TryName, Insert, Exchange
    <3>. QED
      BY <3>1, <3>2 DEF PoppedOnce
  <2>. QED
    BY <1>3, <2>1, <2>2, <2>3, <2>4 DEF Step
<1>. QED
  BY <1>1, <1>2, <1>3 DEF OidcNext
LEMMA FiniteParts ==
  ASSUME OidcTypeOK
  PROVE  /\ IsFiniteSet(accounts) /\ Cardinality(accounts) \in Nat
         /\ IsFiniteSet(Naming) /\ Cardinality(Naming) \in Nat /\ Cardinality(Naming) <= Cardinality(Threads)
         /\ Cardinality(Threads) \in Nat
<1>1. IsFiniteSet(Names)
  BY FS_Interval, PoolOfThreadsAssumption DEF Names
<1>2. accounts \in SUBSET Names /\ Naming \in SUBSET Threads
  BY DEF OidcTypeOK, Naming
<1>. QED
  BY <1>1, <1>2, FS_Subset, FS_CardinalityType, PoolOfThreadsAssumption

\* Only Find makes a thread about to name an account, and only when there is none.
LEMMA StepNamersBounded ==
  ASSUME OInv, OidcNext
  PROVE  NamersBounded'
<1>0. OidcTypeOK /\ OidcTypeOK' /\ NamersBounded
  BY StepOidcType DEF OInv
<1>1. /\ IsFiniteSet(accounts) /\ Cardinality(accounts) \in Nat
      /\ IsFiniteSet(Naming) /\ Cardinality(Naming) \in Nat
      /\ Cardinality(Threads) \in Nat
  BY <1>0, FiniteParts
<1>2. /\ Naming' \in SUBSET Threads /\ IsFiniteSet(Naming')
      /\ Cardinality(Naming') \in Nat /\ Cardinality(Naming') <= Cardinality(Threads)
  <2>1. Naming' \in SUBSET Threads
    BY DEF Naming
  <2>. QED
    BY <2>1, FS_Subset, FS_CardinalityType, PoolOfThreadsAssumption
<1>3. ASSUME Naming' \subseteq Naming, accounts' = accounts
      PROVE  NamersBounded'
  <2>1. Cardinality(Naming') <= Cardinality(Naming)
    BY <1>1, <1>3, FS_Subset
  <2>. QED
    BY <1>0, <1>1, <1>2, <1>3, <2>1 DEF NamersBounded
<1>4. ASSUME NEW s \in States, StartLogin(s) \/ Stale(s)
      PROVE  NamersBounded'
  BY <1>3, <1>4 DEF StartLogin, Stale, Naming
<1>5. ASSUME NEW t \in Threads, NEW s \in States, Arrive(t, s)
      PROVE  NamersBounded'
  <2>1. Naming' \subseteq Naming
    BY <1>0, <1>5 DEF Arrive, Naming, OidcTypeOK
  <2>. QED
    BY <1>3, <1>5, <2>1 DEF Arrive
<1>6. ASSUME NEW t \in Threads, Step(t)
      PROVE  NamersBounded'
  <2>0. cb[t] # Free /\ cb[t] \in Callback
    BY <1>0, <1>6 DEF Step, At, List, Sweep, Pop, Exchange, Find, TryName, Insert, Issue, OidcTypeOK
  <2>1. CASE Insert(t)
    <3>1. t \in Naming /\ Naming' \subseteq Naming \ {t}
      <4>1. cb' = [cb EXCEPT ![t] = Free] \/ cb' = [cb EXCEPT ![t].pc = "issue"]
        BY <2>1 DEF Insert, Answer, Goto
      <4>2. t \notin Naming' /\ \A u \in Threads \ {t} : cb'[u] = cb[u]
        BY <1>0, <2>0, <4>1 DEF Naming, OidcTypeOK, Callback
      <4>. QED
        BY <2>1, <4>2 DEF Insert, At, Naming
    <3>2. Cardinality(Naming') <= Cardinality(Naming) - 1
      <4>1. IsFiniteSet(Naming \ {t}) /\ Cardinality(Naming \ {t}) = Cardinality(Naming) - 1
        BY <1>1, <3>1, FS_RemoveElement
      <4>2. Cardinality(Naming') <= Cardinality(Naming \ {t})
        BY <3>1, <4>1, FS_Subset
      <4>. QED
        BY <4>1, <4>2
    <3>3. Cardinality(accounts') \in Nat /\ Cardinality(accounts') <= Cardinality(accounts) + 1
      <4>1. accounts' \in {accounts, accounts \cup {cb[t].name}}
        BY <2>1 DEF Insert
      <4>2. Cardinality(accounts \cup {cb[t].name}) \in {Cardinality(accounts), Cardinality(accounts) + 1}
        BY <1>1, FS_AddElement
      <4>3. Cardinality(accounts') \in {Cardinality(accounts), Cardinality(accounts) + 1}
        <5>1. CASE accounts' = accounts
          BY <5>1
        <5>2. CASE accounts' = accounts \cup {cb[t].name}
          BY <4>2, <5>2
        <5>. QED
          BY <4>1, <5>1, <5>2
      <4>. QED
        BY <1>1, <4>3
    <3>. QED
      BY <1>0, <1>1, <1>2, <3>2, <3>3 DEF NamersBounded
  <2>2. CASE Find(t)
    <3>1. CASE accounts = {}
      <4>1. accounts' = {} /\ Cardinality({}) = 0
        BY <2>2, <3>1, FS_EmptySet DEF Find
      <4>. QED
        BY <1>1, <1>2, <4>1 DEF NamersBounded
    <3>2. CASE accounts # {}
      <4>1. cb' = [cb EXCEPT ![t].pc = "issue"] /\ accounts' = accounts
        BY <2>2, <3>2 DEF Find, Known, Goto
      <4>2. Naming' \subseteq Naming
        BY <1>0, <2>0, <4>1 DEF Naming, OidcTypeOK, Callback
      <4>. QED
        BY <1>3, <4>1, <4>2
    <3>. QED
      BY <3>1, <3>2
  <2>3. CASE List(t) \/ Sweep(t) \/ Pop(t) \/ TryName(t) \/ Issue(t) \/ \E ok \in BOOLEAN : Exchange(t, ok)
    <3>1. accounts' = accounts
      BY <2>3 DEF List, Sweep, Pop, TryName, Issue, Exchange
    <3>2. \/ cb' = [cb EXCEPT ![t] = Free]
          \/ \E pc \in {"pop", "exchange", "find"} : cb' = [cb EXCEPT ![t].pc = pc]
          \/ \E S : cb' = [cb EXCEPT ![t].pc = "sweep", ![t].stale = S]
          \/ \E s : cb' = [cb EXCEPT ![t].stale = @ \ {s}]
          \/ t \in Naming /\ \E x : cb' = [cb EXCEPT ![t] = x]
      <4>1. CASE TryName(t)
        BY <4>1 DEF TryName, At, Goto, Naming
      <4>2. CASE List(t)
        BY <4>2 DEF List, Answer
      <4>3. CASE Sweep(t)
        <5>1. CASE cb[t].stale = {}
          <6>1. cb' = [cb EXCEPT ![t].pc = "pop"]
            BY <4>3, <5>1 DEF Sweep, Goto
          <6>. QED
            BY <6>1
        <5>2. CASE cb[t].stale # {}
          <6>1. cb' = [cb EXCEPT ![t] = Free] \/ \E s : cb' = [cb EXCEPT ![t].stale = @ \ {s}]
            BY <4>3, <5>2 DEF Sweep, Answer
          <6>. QED
            BY <6>1
        <5>. QED
          BY <5>1, <5>2
      <4>4. CASE Pop(t) \/ Issue(t) \/ \E ok \in BOOLEAN : Exchange(t, ok)
        BY <4>4 DEF Pop, Issue, Exchange, Answer, Goto
      <4>. QED
        BY <2>3, <4>1, <4>2, <4>3, <4>4
    <3>3. Naming' \subseteq Naming
      <4>1. CASE t \in Naming /\ \E x : cb' = [cb EXCEPT ![t] = x]
        BY <1>0, <4>1 DEF Naming, OidcTypeOK
      <4>2. CASE cb' = [cb EXCEPT ![t] = Free]
        BY <1>0, <4>2 DEF Naming, OidcTypeOK
      <4>3. CASE \E pc \in {"pop", "exchange", "find"} : cb' = [cb EXCEPT ![t].pc = pc]
        BY <1>0, <2>0, <4>3 DEF Naming, OidcTypeOK, Callback
      <4>4. ASSUME NEW S, cb' = [cb EXCEPT ![t].pc = "sweep", ![t].stale = S]
            PROVE  Naming' \subseteq Naming
        <5>1. cb'[t].pc = "sweep" /\ \A u \in Threads \ {t} : cb'[u] = cb[u]
          BY <1>0, <2>0, <4>4 DEF OidcTypeOK, Callback
        <5>. QED
          BY <5>1 DEF Naming
      <4>5. ASSUME NEW s, cb' = [cb EXCEPT ![t].stale = @ \ {s}]
            PROVE  Naming' \subseteq Naming
        <5>1. cb'[t].pc = cb[t].pc /\ \A u \in Threads \ {t} : cb'[u] = cb[u]
          BY <1>0, <2>0, <4>5 DEF OidcTypeOK, Callback
        <5>. QED
          BY <2>0, <5>1 DEF Naming
      <4>. QED
        BY <3>2, <4>1, <4>2, <4>3, <4>4, <4>5
    <3>. QED
      BY <1>3, <3>1, <3>3
  <2>. QED
    BY <1>6, <2>1, <2>2, <2>3 DEF Step
<1>. QED
  BY <1>4, <1>5, <1>6 DEF OidcNext

LEMMA StepOInv == OInv /\ [OidcNext]_ovars => OInv'
<1>1. OInv /\ UNCHANGED ovars => OInv'
  BY DEF ovars, OInv, OidcTypeOK, PoppedOnce, HoldsState, NamersBounded, Naming
<1>. QED
  BY <1>1, StepOidcType, StepPoppedOnce, StepNamersBounded DEF OInv
-----------------------------------------------------------------------------
(* Verification of an address.                                             *)

\* While a row waits it is that of the last code, and of as many resends as there were mails.
VInv ==
  /\ VerificationTypeOK
  /\ VerifiedByLastCode
  /\ token # NoToken => /\ mailed = token.resends + 1
                        /\ told = MaxResends - token.resends
                        /\ verifying = 0 => verified = 0 \/ spared
  /\ mailed = 0 => token = NoToken /\ told = MaxResends /\ verified = 0 /\ verifying = 0

LEMMA InitVInv ==
  ASSUME VerificationInit
  PROVE  VInv
<1>1. VerificationTypeOK
  <2>1. spared \in BOOLEAN
    BY Zenon DEF VerificationInit
  <2>. QED
    BY <2>1, MaxResendsAssumption DEF VerificationInit, VerificationTypeOK
<1>. QED
  BY <1>1 DEF VerificationInit, VInv, VerifiedByLastCode

LEMMA StepVInv == VInv /\ [VerificationNext]_mvars => VInv'
<1> SUFFICES ASSUME VInv, [VerificationNext]_mvars
             PROVE  VInv'
  OBVIOUS
<1>0. VerificationTypeOK
  BY DEF VInv
<1>1. CASE UNCHANGED mvars
  BY <1>1 DEF mvars, VInv, VerificationTypeOK, VerifiedByLastCode
<1>2. CASE CreateUser
  <2>1. token' # NoToken => token' \in Token /\ token'.code = 1 /\ token'.resends = 0
    <3> DEFINE first == [code |-> 1, resends |-> 0, fresh |-> TRUE, expired |-> FALSE]
    <3>1. first \in Token /\ first.code = 1 /\ first.resends = 0
      BY MaxResendsAssumption DEF Token
    <3>2. token' \in {NoToken, first}
      BY <1>2, Zenon DEF CreateUser
    <3> HIDE DEF first
    <3>. QED
      BY <3>1, <3>2
  <2>. QED
    BY <1>2, <2>1, MaxResendsAssumption DEF CreateUser, VInv, VerificationTypeOK, VerifiedByLastCode
<1>3. CASE ResendCode
  <2>1. /\ token \in Token /\ token.resends \in 0..MaxResends /\ token.resends < MaxResends
        /\ mailed = token.resends + 1 /\ (verified = 0 \/ spared)
    BY <1>0, <1>3 DEF ResendCode, Valid, VInv, VerificationTypeOK, Token
  <2>2. /\ token' = [token EXCEPT !.code = mailed + 1, !.resends = @ + 1, !.fresh = TRUE]
        /\ mailed' = mailed + 1 /\ told' = MaxResends - 1 - token.resends /\ verified' = verified
        /\ verifying = 0 /\ verifying' = 0 /\ spared' = spared
    BY <1>3 DEF ResendCode, Resent, Remaining
  <2>3. /\ mailed + 1 \in 1..MaxResends + 1 /\ token.resends + 1 \in 0..MaxResends
        /\ told' \in 0..MaxResends
    BY <2>1, <2>2, MaxResendsAssumption
  <2>4. token' \in Token /\ token'.code = mailed + 1 /\ token'.resends = token.resends + 1
    BY <2>1, <2>2, <2>3 DEF Token
  <2>5. VerificationTypeOK'
    BY <1>0, <2>2, <2>3, <2>4, MaxResendsAssumption DEF VerificationTypeOK
  <2>. QED
    BY <2>1, <2>2, <2>4, <2>5, MaxResendsAssumption DEF VInv, VerifiedByLastCode
<1>4. ASSUME NEW c \in 1..mailed, VerifyEmail(c)
      PROVE  VInv'
  BY <1>0, <1>4, MaxResendsAssumption
     DEF VerifyEmail, Valid, VInv, VerificationTypeOK, VerifiedByLastCode
<1>6. CASE ConsumeToken
  <2>1. /\ verifying # 0 /\ verifying' = 0 /\ UNCHANGED <<mailed, told, verified>>
        /\ \/ token' = NoToken /\ UNCHANGED spared
           \/ spared' = TRUE /\ UNCHANGED token
    BY <1>6 DEF ConsumeToken
  <2>2. spared' \in BOOLEAN
    BY <1>0, <2>1, Zenon DEF VerificationTypeOK
  <2>3. VerificationTypeOK'
    BY <1>0, <2>1, <2>2, MaxResendsAssumption DEF VerificationTypeOK
  <2>4. CASE token' = NoToken /\ UNCHANGED spared
    BY <2>1, <2>3, <2>4 DEF VInv, VerifiedByLastCode
  <2>5. CASE spared' = TRUE /\ UNCHANGED token
    BY <2>1, <2>3, <2>5 DEF VInv, VerifiedByLastCode
  <2>. QED
    BY <2>1, <2>4, <2>5
<1>5. CASE CooldownOver \/ VerificationExpires
  <2>1. token \in Token
    BY <1>0, <1>5 DEF CooldownOver, VerificationExpires, Valid, VerificationTypeOK
  <2>2. token' \in Token /\ token'.code = token.code /\ token'.resends = token.resends
    BY <1>5, <2>1 DEF CooldownOver, VerificationExpires, Token
  <2>3. token # NoToken /\ UNCHANGED <<mailed, told, verified, verifying, spared>>
    BY <1>5 DEF CooldownOver, VerificationExpires, Valid
  <2>. QED
    BY <1>0, <2>2, <2>3 DEF VInv, VerificationTypeOK, VerifiedByLastCode
<1>. QED
  BY <1>1, <1>2, <1>3, <1>4, <1>5, <1>6 DEF VerificationNext

-----------------------------------------------------------------------------
(* The three together.                                                     *)

\* A step of the accounts is a step of each part, or leaves it alone.
LEMMA Parts ==
  [AccountsNext]_avars => [SessionsNext]_svars /\ [OidcNext]_ovars /\ [VerificationNext]_mvars
<1> SUFFICES ASSUME [AccountsNext]_avars
             PROVE  [SessionsNext]_svars /\ [OidcNext]_ovars /\ [VerificationNext]_mvars
  OBVIOUS
<1>. QED
  BY DEF AccountsNext, avars, Password, Sso, Mail, SessionsNext, OidcNext, VerificationNext

LEMMA Invariance == AccountsSpec => [](SInv /\ OInv /\ VInv)
<1>1. AccountsInit => SInv /\ OInv /\ VInv
  BY InitSInv, InitOInv, InitVInv DEF AccountsInit
<1>2. SInv /\ OInv /\ VInv /\ [AccountsNext]_avars => (SInv /\ OInv /\ VInv)'
  BY Parts, StepSInv, StepOInv, StepVInv
<1>. QED
  BY <1>1, <1>2, PTL DEF AccountsSpec

\* Every table, counter and callback keeps its type, for any limits.
THEOREM TypeCorrect == AccountsSpec => []AccountsTypeOK
<1>1. SInv /\ OInv /\ VInv => AccountsTypeOK
  BY DEF SInv, OInv, VInv, AccountsTypeOK
<1>. QED
  BY <1>1, Invariance, PTL

\* A session is refreshed max_refreshes times, one refused refresh included.
THEOREM RefreshesBounded == AccountsSpec => []RefreshBound
<1>1. SInv => RefreshBound
  BY DEF SInv, SessionEntry, RefreshBound
<1>. QED
  BY <1>1, Invariance, PTL

\* Whatever is lost, repeated or asked with an old token, the table of keys does to
\* a session only what SessionLimit allows.
THEOREM SessionsImplementLimit == AccountsSpec => ImplementsLimit
<1>1. AccountsInit => Limit!Init
  BY LimitInit DEF AccountsInit
<1>2. SInv /\ [AccountsNext]_avars => [Limit!Next]_<<{k \in Keys : row[k] # NoRow}, signed>>
  BY Parts, LimitStep
<1>. QED
  BY <1>1, <1>2, Invariance, PTL DEF AccountsSpec, ImplementsLimit, Limit!Spec

\* However callbacks and sweeps interleave, a state gives one session at most.
THEOREM StatesUsedOnce == AccountsSpec => []OneSessionPerState
<1>1. OInv => OneSessionPerState
  BY DEF OInv, PoppedOnce, OneSessionPerState
<1>. QED
  BY <1>1, Invariance, PTL

\* First sign-ins that overlap make at most one account each.
THEOREM AccountsBounded == AccountsSpec => []AccountsOfSubject
<1>1. OInv => AccountsOfSubject
  BY FiniteParts DEF OInv, NamersBounded, AccountsOfSubject
<1>. QED
  BY <1>1, Invariance, PTL

\* An address is verified by the last code mailed to it and by no earlier one.
THEOREM LastCodeVerifies == AccountsSpec => []VerifiedByLastCode
<1>1. VInv => VerifiedByLastCode
  BY DEF VInv
<1>. QED
  BY <1>1, Invariance, PTL

\* What resend-code announces is what is left.
THEOREM RemainingTold == AccountsSpec => []ToldRemaining
<1>1. VInv => ToldRemaining
  BY DEF VInv, ToldRemaining
<1>. QED
  BY <1>1, Invariance, PTL

\* Refreshes are bounded and the lock counts within its limits, for any sessions.
THEOREM SessionsStaySound == AccountsSpec => []SessionsSound
<1>1. SInv => SessionsTypeOK
  BY DEF SInv
<1>. QED
  BY <1>1, Invariance, RefreshesBounded, PTL DEF SessionsSound

\* Sign-ins that overlap share no state, and make no more accounts than there are threads.
THEOREM SignInsStaySound == AccountsSpec => []SignInsSound
<1>1. OInv => OidcTypeOK
  BY DEF OInv
<1>. QED
  BY <1>1, Invariance, StatesUsedOnce, AccountsBounded, PTL DEF SignInsSound

\* The verification of an address goes by the last code, and counts its resends right.
THEOREM VerificationStaysSound == AccountsSpec => []VerificationSound
<1>1. VInv => VerificationTypeOK
  BY DEF VInv
<1>. QED
  BY <1>1, Invariance, LastCodeVerifies, RemainingTold, PTL DEF VerificationSound
=============================================================================
