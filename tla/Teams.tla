-------------------------------- MODULE Teams --------------------------------
(***************************************************************************)
(* Team membership: the handlers of database/teams_api.py over the keys of *)
(* TeamKeys.                                                               *)
(*                                                                         *)
(* create_team, request_join and validate_request are coroutines without   *)
(* an await: the event loop runs one of them at a time (`coro'), login and *)
(* logout included.  follow_team, list_followed, remove_member and         *)
(* leave_team are plain functions in the thread pool: each reads, and      *)
(* writes later (`thread'), while anything else happens.  SQLite lets one  *)
(* connection write at a time (`WriteLocked').                             *)
(***************************************************************************)
EXTENDS TeamKeys, FiniteSets

CONSTANTS NoRequest, Idle

Request == [validators : SUBSET Users, needed : Nat \ {0}]

\* Coroutines and pool requests between two steps.
Coroutine == [op : {"create", "follow"}, team : Teams, user : Users]
   \cup [op : {"validate", "locked", "wrap"}, team : Teams, user : Users, target : Users]
PoolRequest == [op : {"follow"}, teams : SUBSET Teams]
   \cup [op : {"remove"}, team : Teams, target : Users]

ASSUME TeamSentinels ==
  NoRequest \notin Request /\ Idle \notin Coroutine \cup PoolRequest \cup (Teams \X Users)
ASSUME FiniteUsers == IsFiniteSet(Users)

VARIABLES
  exists,   \* teams in the table teams
  follows,  \* follows[t]: users with a row in user_followed_teams
  pending,  \* pending[t][u]: the row of pending_team_requests, or NoRequest
  coro,     \* the coroutine between two of its steps, or Idle
  thread    \* thread[u]: the pool request of u between its read and its write

tvars == <<vars, exists, follows, pending, coro, thread>>
keyVars == vars
memberVars == <<exists, follows, pending>>

TeamsInit ==
  /\ Init
  /\ exists = {}
  /\ follows = [t \in Teams |-> {}]
  /\ pending = [t \in Teams |-> [u \in Users |-> NoRequest]]
  /\ coro = Idle
  /\ thread = [u \in Users |-> Idle]

\* A coroutine holds SQLite's write lock between its UPDATE and its commit.
WriteLocked == coro # Idle /\ coro.op = "locked"

-----------------------------------------------------------------------------
(* create_team: three commits, the second raises if the creator is locked. *)

CreateTeam(t, u) ==
  /\ coro = Idle
  /\ t \notin exists
  /\ exists' = exists \cup {t}
  /\ InsertRow(t, u)
  /\ coro' = [op |-> "create", team |-> t, user |-> u]
  /\ UNCHANGED <<follows, pending, thread>>

CreateTeamKey ==
  /\ coro # Idle /\ coro.op = "create"
  /\ IF coro.user \in unlocked
     THEN CreateTvk(coro.team, coro.user) /\ coro' = [coro EXCEPT !.op = "follow"]
     ELSE coro' = Idle /\ UNCHANGED keyVars
  /\ UNCHANGED <<memberVars, thread>>

CreateTeamFollow ==
  /\ coro # Idle /\ coro.op = "follow"
  /\ follows' = [follows EXCEPT ![coro.team] = @ \cup {coro.user}]
  /\ coro' = Idle
  /\ UNCHANGED <<keyVars, exists, pending, thread>>

-----------------------------------------------------------------------------
(* request_join: silent; the votes needed are counted now, for good.       *)

\* Slip, for TeamsTypeOK: rounded down, and no max(1, ...).
NeededDown(n) == (4 * n) \div 5

\* max(1, ceil(0.8 n))
Needed(n) == IF n = 0 THEN 1 ELSE (4 * n + 4) \div 5

RequestJoin(t, u) ==
  /\ coro = Idle
  /\ t \in exists
  /\ u \notin Members(t)
  /\ pending[t][u] = NoRequest
  /\ pending' = [pending EXCEPT ![t][u] =
                   [validators |-> {}, needed |-> Needed(Cardinality(Members(t)))]]
  /\ UNCHANGED <<keyVars, exists, follows, coro, thread>>

-----------------------------------------------------------------------------
(* validate_request(t, target) by u.                                       *)

\* The two checks; what they read is used by the steps below.
ValidateCheck(t, u, target) ==
  /\ coro = Idle
  /\ u \in Members(t)
  /\ pending[t][target] # NoRequest
  /\ coro' = [op |-> "validate", team |-> t, user |-> u, target |-> target]
  /\ UNCHANGED <<keyVars, memberVars, thread>>

\* Slip, for VotesCount: the list starts again with every vote.
VotedAlone == [pending[coro.team][coro.target] EXCEPT !.validators = {coro.user}]

\* The request of the validation in progress with the validator's vote.
Voted == LET r == pending[coro.team][coro.target]
         IN [r EXCEPT !.validators = @ \cup {coro.user}]

Threshold == Cardinality(Voted.validators) >= Voted.needed

\* Below the threshold, or no team key at hand: the vote is all that is stored.
ValidateRecord ==
  /\ coro # Idle /\ coro.op = "validate"
  /\ ~Threshold \/ Tvk(coro.user, coro.team) = NoKey
  /\ pending' = [pending EXCEPT ![coro.team][coro.target] = Voted]
  /\ coro' = Idle
  /\ UNCHANGED <<keyVars, exists, follows, thread>>

\* get_team_key, inside the open transaction.
ValidateKey ==
  /\ coro # Idle /\ coro.op = "validate"
  /\ Threshold /\ Tvk(coro.user, coro.team) # NoKey
  /\ IF tvkCache[coro.user][coro.team] = NoKey
     THEN GetTvk(coro.user, coro.team) ELSE UNCHANGED keyVars
  /\ coro' = [coro EXCEPT !.op = "locked"]
  /\ UNCHANGED <<memberVars, thread>>

\* Slip, for PendingNotMember: the request is not deleted.
WithoutRequestKept == [pending EXCEPT ![coro.team][coro.target] = Voted]

WithoutRequest == [pending EXCEPT ![coro.team][coro.target] = NoRequest]

\* The new row (if there is none), the follow and the end of the request: one commit.
ValidateAdmit ==
  /\ WriteLocked
  /\ IF coro.target \in Members(coro.team)
     THEN UNCHANGED keyVars ELSE InsertRow(coro.team, coro.target)
  /\ follows' = [follows EXCEPT ![coro.team] = @ \cup {coro.target}]
  /\ pending' = WithoutRequest
  /\ coro' = [coro EXCEPT !.op = "wrap"]
  /\ UNCHANGED <<exists, thread>>

\* add_member_team_key, after the commit.
ValidateWrap ==
  /\ coro # Idle /\ coro.op = "wrap"
  /\ AddMember(coro.team, coro.target, coro.user)
  /\ coro' = Idle
  /\ UNCHANGED <<memberVars, thread>>

\* It raises: the caller's key has expired or the new member is not unlocked.
ValidateWrapRaises ==
  /\ coro # Idle /\ coro.op = "wrap"
  /\ Tvk(coro.user, coro.team) = NoKey \/ coro.target \notin unlocked
  /\ IF tvkCache[coro.user][coro.team] = NoKey /\ Tvk(coro.user, coro.team) # NoKey
     THEN GetTvk(coro.user, coro.team) ELSE UNCHANGED keyVars
  /\ coro' = Idle
  /\ UNCHANGED <<memberVars, thread>>

-----------------------------------------------------------------------------
(* Following.                                                              *)

\* follow_team's check, for one team, and list_followed's read, for all.
FollowCheck(u, S) ==
  /\ thread[u] = Idle
  /\ S # {}
  /\ \/ \E t \in Teams : S = {t} /\ u \in Members(t)
     \/ S = {t \in Teams : u \in Members(t)}
  /\ thread' = [thread EXCEPT ![u] = [op |-> "follow", teams |-> S]]
  /\ UNCHANGED <<keyVars, memberVars, coro>>

FollowInsert(u) ==
  /\ thread[u] # Idle /\ thread[u].op = "follow"
  /\ ~WriteLocked
  /\ follows' = [t \in Teams |-> IF t \in thread[u].teams
                                 THEN follows[t] \cup {u} ELSE follows[t]]
  /\ thread' = [thread EXCEPT ![u] = Idle]
  /\ UNCHANGED <<keyVars, exists, pending, coro>>

Unfollow(u, t) ==
  /\ ~WriteLocked
  /\ follows' = [follows EXCEPT ![t] = @ \ {u}]
  /\ UNCHANGED <<keyVars, exists, pending, coro, thread>>

-----------------------------------------------------------------------------
(* remove_member and leave_team.                                           *)

\* The requester u and the target are members (u = target only for leave_team).
RemoveCheck(u, t, target) ==
  /\ thread[u] = Idle
  /\ {u, target} \subseteq Members(t)
  /\ thread' = [thread EXCEPT ![u] = [op |-> "remove", team |-> t, target |-> target]]
  /\ UNCHANGED <<keyVars, memberVars, coro>>

\* DELETE FROM team_users: nothing where there is no row.
Deleted(t, u) == IF row[t][u] # NoRow THEN DeleteRow(t, u) ELSE UNCHANGED keyVars

\* The two DELETEs and the commit.  The rotation that follows is an import of a
\* function crypto_store does not have: an exception after the commit.
RemoveCommit(u) ==
  /\ thread[u] # Idle /\ thread[u].op = "remove"
  /\ ~WriteLocked
  /\ Deleted(thread[u].team, thread[u].target)
  /\ follows' = [follows EXCEPT ![thread[u].team] = @ \ {thread[u].target}]
  /\ thread' = [thread EXCEPT ![u] = Idle]
  /\ UNCHANGED <<exists, pending, coro>>

-----------------------------------------------------------------------------
(* Sessions.  login and logout are coroutines; entries age at any time.    *)

Session ==
  /\ \/ coro = Idle /\ \E u \in Users : Unlock(u) \/ Logout(u)
     \/ \E u \in Users : ExpireMasterKey(u)
     \/ \E u \in Users, t \in Teams : ExpireTvk(u, t)
  /\ UNCHANGED <<memberVars, coro, thread>>

\* The process restarts: requests in progress are gone with the caches.
RestartAll ==
  /\ Restart
  /\ coro' = Idle
  /\ thread' = [u \in Users |-> Idle]
  /\ UNCHANGED memberVars

Governance ==
  \/ \E t \in Teams, u \in Users : CreateTeam(t, u) \/ RequestJoin(t, u)
  \/ \E t \in Teams, u, target \in Users : ValidateCheck(t, u, target)
  \/ CreateTeamKey \/ CreateTeamFollow
  \/ ValidateRecord \/ ValidateKey \/ ValidateAdmit \/ ValidateWrap \/ ValidateWrapRaises

Pool ==
  \/ \E u \in Users : FollowInsert(u) \/ RemoveCommit(u)
  \/ \E u \in Users, S \in SUBSET Teams : FollowCheck(u, S)
  \/ \E u \in Users, t \in Teams : Unfollow(u, t)
  \/ \E u, target \in Users, t \in Teams : RemoveCheck(u, t, target)

TeamsNext == Governance \/ Pool \/ Session \/ RestartAll

TeamsSpec == TeamsInit /\ [][TeamsNext]_tvars
-----------------------------------------------------------------------------
TeamsTypeOK ==
  /\ TypeOK
  /\ exists \subseteq Teams
  /\ follows \in [Teams -> SUBSET Users]
  /\ pending \in [Teams -> [Users -> Request \cup {NoRequest}]]
  /\ coro \in Coroutine \cup {Idle}
  /\ thread \in [Users -> PoolRequest \cup {Idle}]

\* Nobody is at once a member and a candidate, though the check, the admission
\* and the removal of a member are steps of different requests: a member's
\* request could be voted again and would lock out a later one (the table has
\* one row for a user and a team, and a second request is silently dropped).
PendingNotMember ==
  \A t \in Teams, u \in Users :
    pending[t][u] # NoRequest => t \in exists /\ u \notin Members(t)

\* No vote is lost (the list is read in one step and written whole in another)
\* and a request ends only when its candidate becomes a member, with the votes
\* it was found to need.
VotesCount ==
  [][\A t \in Teams, u \in Users :
       pending[t][u] # NoRequest =>
         \/ /\ pending'[t][u] # NoRequest
            /\ pending[t][u].validators \subseteq pending'[t][u].validators
            /\ pending[t][u].needed = pending'[t][u].needed
         \/ /\ pending'[t][u] = NoRequest
            /\ row'[t][u] # NoRow
            /\ Cardinality(pending[t][u].validators \cup {coro.user}) >= pending[t][u].needed]_tvars

\* Bound of the runs: requests of the thread pool in progress at once.
OneThread == Cardinality({u \in Users : thread[u] # Idle}) <= 1

\* The key create_tvk drew when the team was created.
FirstKey(t) == [of |-> t, gen |-> 1]

\* A team has one key for good: whoever was admitted, or admitted again, by
\* whoever voted last, and whatever was locked, expired or left half done between
\* the commit of the admission and the wrapping of the key, a member's row and the
\* memory kept for a user, former members included, hold that key or none.  So what
\* one member seals every member with a key reads (validate_request, create_team).
OneTeamKey ==
  \A t \in Teams, u \in Users :
    /\ row[t][u] \notin {NoRow, NoBlob} => row[t][u] = Wrap(FirstKey(t), MK(u))
    /\ tvkCache[u][t] # NoKey => tvkCache[u][t] = FirstKey(t)

\* Once remove_member(t, v) of u is over, v cannot get the key of the team, as its
\* docstring says: the row is gone and the key was rotated.
RemovedCannotDecrypt ==
  [][\A u, v \in Users, t \in Teams :
       (/\ u # v
        /\ thread[u] = [op |-> "remove", team |-> t, target |-> v]
        /\ thread'[u] = Idle
        /\ v \in Members(t) /\ v \notin Members(t)')
         => Tvk(v, t)' = NoKey]_tvars

\* The tables of the teams agree with each other and with the requests in progress.
MembershipSound ==
  /\ TeamsTypeOK
  /\ PendingNotMember
=============================================================================
