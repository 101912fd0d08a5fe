----------------------------- MODULE OidcLogin ------------------------------
(***************************************************************************)
(* Sign-in through an identity provider (auth_users/oidc_api.py): the      *)
(* dictionary of pending states, and the callbacks, which are plain        *)
(* functions run by threads of the pool and interleave at every access to  *)
(* the dictionary, the provider or the database.                           *)
(*                                                                         *)
(* All sign-ins here are of one subject at one provider, the case in which *)
(* the callbacks meet; its first user name is taken from the subject and   *)
(* numbered while it is not free.                                          *)
(***************************************************************************)
EXTENDS Naturals, FiniteSets
CONSTANTS
  States,    \* values of the parameter state, each drawn by one oidc_login
  Threads,   \* threads of the pool that run callbacks
  MaxNames,  \* user names of the subject that are looked at: base, base1, ...
  Free       \* a thread without a request

ASSUME PoolOfThreadsAssumption ==
  IsFiniteSet(States) /\ IsFiniteSet(Threads) /\ MaxNames \in Nat \ {0}

Names == 1..MaxNames

Callback == [pc : {"list", "sweep", "pop", "exchange", "find", "name", "insert", "issue"},
             state : States,
             size : 0..Cardinality(States),  \* entries when the listing began
             stale : SUBSET States,          \* entries the sweep has left to delete
             name : Names]
ASSUME FreeAssumption == Free \notin Callback

VARIABLES
  pending,   \* pending[s]: "new" before its oidc_login, "open" or "stale" while
             \* it is in _sessions, then "gone"
  cb,        \* cb[t]: the callback thread t runs
  taken,     \* user names in use
  accounts,  \* those of them whose row has the subject
  sessions   \* sessions[s]: session tokens that a callback with state s has sent

ovars == <<pending, cb, taken, accounts, sessions>>

OidcInit ==
  /\ pending = [s \in States |-> "new"]
  /\ cb = [t \in Threads |-> Free]
  /\ taken = {}
  /\ accounts = {}
  /\ sessions = [s \in States |-> 0]

Stored == {s \in States : pending[s] \in {"open", "stale"}}

-----------------------------------------------------------------------------
\* oidc_login: the redirection to the provider carries the new state.
StartLogin(s) ==
  /\ pending[s] = "new"
  /\ pending' = [pending EXCEPT ![s] = "open"]
  /\ UNCHANGED <<cb, taken, accounts, sessions>>

\* Ten minutes later.
Stale(s) ==
  /\ pending[s] = "open"
  /\ pending' = [pending EXCEPT ![s] = "stale"]
  /\ UNCHANGED <<cb, taken, accounts, sessions>>

\* The browser comes back from the provider, perhaps twice with one state.
Arrive(t, s) ==
  /\ cb[t] = Free
  /\ pending[s] # "new"
  /\ cb' = [cb EXCEPT ![t] = [pc |-> "list", state |-> s, size |-> Cardinality(Stored),
                              stale |-> {}, name |-> 1]]
  /\ UNCHANGED <<pending, taken, accounts, sessions>>

At(t, pc) == cb[t] # Free /\ cb[t].pc = pc
Goto(t, pc) == cb' = [cb EXCEPT ![t].pc = pc]
Answer(t) == cb' = [cb EXCEPT ![t] = Free]

\* _cleanup_sessions lists the stale entries; a dictionary that changed its size
\* meanwhile raises, outside the handler's try.
List(t) ==
  /\ At(t, "list")
  /\ IF Cardinality(Stored) # cb[t].size
     THEN Answer(t)
     ELSE cb' = [cb EXCEPT ![t].pc = "sweep", ![t].stale = {s \in Stored : pending[s] = "stale"}]
  /\ UNCHANGED <<pending, taken, accounts, sessions>>

\* del _sessions[s] raises too when another callback has deleted it.
Sweep(t) ==
  /\ At(t, "sweep")
  /\ IF cb[t].stale = {}
     THEN Goto(t, "pop") /\ UNCHANGED pending
     ELSE \E s \in cb[t].stale :
            IF s \in Stored
            THEN /\ pending' = [pending EXCEPT ![s] = "gone"]
                 /\ cb' = [cb EXCEPT ![t].stale = @ \ {s}]
            ELSE Answer(t) /\ UNCHANGED pending
  /\ UNCHANGED <<taken, accounts, sessions>>

\* Slip, for OneSessionPerState: the state is looked up and left for the sweep.
Unstored(s) == UNCHANGED pending

\* _sessions.pop(state, None).
Popped(s) == pending' = [pending EXCEPT ![s] = "gone"]

Pop(t) ==
  /\ At(t, "pop")
  /\ IF cb[t].state \in Stored
     THEN Popped(cb[t].state) /\ Goto(t, "exchange")
     ELSE Answer(t) /\ UNCHANGED pending
  /\ UNCHANGED <<taken, accounts, sessions>>

\* The code is exchanged and the id_token verified, or an error is answered.
Exchange(t, ok) ==
  /\ At(t, "exchange")
  /\ IF ok THEN Goto(t, "find") ELSE Answer(t)
  /\ UNCHANGED <<pending, taken, accounts, sessions>>

\* Slip, for AccountsOfSubject: the two parameters of the search are swapped, and no row matches.
KnownSwapped == FALSE

\* find_oidc_user finds a row.
Known == accounts # {}

Find(t) ==
  /\ At(t, "find")
  /\ Goto(t, IF Known THEN "issue" ELSE "name")
  /\ UNCHANGED <<pending, taken, accounts, sessions>>

\* Slip, for CallbacksAnswered: the number is appended and never counted up.
TryNameAgain(t) ==
  /\ At(t, "name")
  /\ cb[t].name \notin taken
  /\ Goto(t, "insert")
  /\ UNCHANGED <<pending, taken, accounts, sessions>>

\* One turn of the loop over get_user_by_username.
TryName(t) ==
  /\ At(t, "name")
  /\ IF cb[t].name \in taken
     THEN /\ cb[t].name < MaxNames
          /\ cb' = [cb EXCEPT ![t].name = @ + 1]
     ELSE Goto(t, "insert")
  /\ UNCHANGED <<pending, taken, accounts, sessions>>

\* create_oidc_user; the column is UNIQUE.
Insert(t) ==
  /\ At(t, "insert")
  /\ IF cb[t].name \in taken
     THEN Answer(t) /\ UNCHANGED <<taken, accounts>>
     ELSE /\ taken' = taken \cup {cb[t].name}
          /\ accounts' = accounts \cup {cb[t].name}
          /\ Goto(t, "issue")
  /\ UNCHANGED <<pending, sessions>>

\* _build_jwt: a row of keys, and a token.  The row holds the secret that add_key
\* derives and the token is signed with another: check_authorization refuses it.
Issue(t) ==
  /\ At(t, "issue")
  /\ sessions' = [sessions EXCEPT ![cb[t].state] = @ + 1]
  /\ Answer(t)
  /\ UNCHANGED <<pending, taken, accounts>>

Step(t) ==
  \/ List(t) \/ Sweep(t) \/ Pop(t) \/ Find(t) \/ TryName(t) \/ Insert(t) \/ Issue(t)
  \/ \E ok \in BOOLEAN : Exchange(t, ok)

OidcNext ==
  \/ \E s \in States : StartLogin(s) \/ Stale(s)
  \/ \E t \in Threads, s \in States : Arrive(t, s)
  \/ \E t \in Threads : Step(t)

OidcSpec == OidcInit /\ [][OidcNext]_ovars /\ \A t \in Threads : WF_ovars(Step(t))
-----------------------------------------------------------------------------
OidcTypeOK ==
  /\ pending \in [States -> {"new", "open", "stale", "gone"}]
  /\ cb \in [Threads -> Callback \cup {Free}]
  /\ taken \subseteq Names
  /\ accounts \subseteq taken
  /\ sessions \in [States -> Nat]

\* Two callbacks with one state, a listing that raises, a sweep that deletes what
\* another callback is about to pop: no state gives two sessions.
OneSessionPerState == \A s \in States : sessions[s] <= 1

\* First sign-ins that overlap may each make an account of the subject, for the
\* search and the INSERT are apart; no sign-in after them makes another.
AccountsOfSubject == Cardinality(accounts) <= Cardinality(Threads)

\* Every callback is answered; the loop over the names ends.
CallbacksAnswered == \A t \in Threads : cb[t] # Free ~> cb[t] = Free

\* Sign-ins that overlap share nothing they should not: a state gives one session, a subject no more
\* accounts than there are threads.
SignInsSound ==
  /\ OidcTypeOK
  /\ OneSessionPerState
  /\ AccountsOfSubject
=============================================================================
