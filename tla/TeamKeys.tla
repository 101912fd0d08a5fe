------------------------------ MODULE TeamKeys ------------------------------
(***************************************************************************)
(* Team vault keys and collection keys: the second half of                 *)
(* database/crypto_store.py.  A team has a vault key (TVK), wrapped for    *)
(* each member under that member's master key in team_users; a collection  *)
(* has a data key (DEK), wrapped under the TVK of its team or, outside a   *)
(* team, under its creator's master key in collection_keys.  Three caches  *)
(* in memory hold what was unwrapped; each entry ages on its own.          *)
(*                                                                         *)
(* Of the users only what Vault promises is kept: one master key each, in  *)
(* memory or not (`unlocked').  InsertRow and DeleteRow are the writes of  *)
(* database/teams_api.py to team_users.                                    *)
(***************************************************************************)
EXTENDS Naturals
LOCAL INSTANCE TLC

CONSTANTS Users, Teams, Colls,
          NoTeam,  \* team_id '' : a personal collection
          NoKey, NoRow, NoBlob,
          MaxTvk, MaxDek  \* bounds: TVKs drawn for one team, DEKs for one collection

\* A key: whose it is, and which of its owner's random draws it is.
Key == [of : Users \cup Teams \cup Colls, gen : Nat \ {0}]
\* A key encrypted under another (AES-GCM opens under the right key only).
Blob == [by : Key, holds : Key]
DekRow == [team : Teams \cup {NoTeam}, blob : Blob]

ASSUME DisjointOwners ==
  /\ Users \cap Teams = {} /\ Users \cap Colls = {} /\ Teams \cap Colls = {}
  /\ NoTeam \notin Teams
ASSUME Sentinels ==
  NoKey \notin Key /\ NoRow \notin Blob \cup DekRow /\ NoBlob \notin Blob /\ NoRow # NoBlob
ASSUME Bounds == MaxTvk \in Nat /\ MaxDek \in Nat

VARIABLES
  unlocked,  \* users whose master key is in _master_key_cache
  row,       \* row[t][u]: team_users.wrapped_tvk, NoBlob when empty, or NoRow
  dekRow,    \* dekRow[c]: the row of c in collection_keys, or NoRow
  tvkCache,  \* _tvk_cache
  dekCache,  \* _dek_cache
  gen        \* gen[o]: keys drawn so far for team or collection o

vars == <<unlocked, row, dekRow, tvkCache, dekCache, gen>>

Init ==
  /\ unlocked = {}
  /\ row = [t \in Teams |-> [u \in Users |-> NoRow]]
  /\ dekRow = [c \in Colls |-> NoRow]
  /\ tvkCache = [u \in Users |-> [t \in Teams |-> NoKey]]
  /\ dekCache = [u \in Users |-> [c \in Colls |-> NoKey]]
  /\ gen = [o \in Teams \cup Colls |-> 0]

-----------------------------------------------------------------------------
(* Keys.                                                                   *)

\* The master key of u, and what get_master_key(u) returns.
MK(u) == [of |-> u, gen |-> 1]
MasterKey(u) == IF u \in unlocked THEN MK(u) ELSE NoKey

\* The next random key drawn for o.
Fresh(o) == [of |-> o, gen |-> gen[o] + 1]

Wrap(k, by) == [by |-> by, holds |-> k]

\* What blob b yields under key k.
Open(b, k) == IF b \in {NoRow, NoBlob} THEN NoKey
              ELSE IF b.by = k THEN b.holds ELSE NoKey

\* Slip, for TypeOK: the wrapped key is returned as it is stored.
TvkUnopened(u, t) == IF tvkCache[u][t] # NoKey THEN tvkCache[u][t] ELSE row[t][u]

\* What get_tvk(u, t) returns: the cache, else the row opened with the master key.
Tvk(u, t) == IF tvkCache[u][t] # NoKey THEN tvkCache[u][t]
             ELSE Open(row[t][u], MasterKey(u))

Members(t) == {u \in Users : row[t][u] # NoRow}

-----------------------------------------------------------------------------
(* Sessions.                                                               *)

\* register_master_key, login_and_unlock or recover_with_words succeeded.
Unlock(u) ==
  /\ u \notin unlocked
  /\ unlocked' = unlocked \cup {u}
  /\ UNCHANGED <<row, dekRow, tvkCache, dekCache, gen>>

\* clear_master_key(u)
Logout(u) ==
  /\ unlocked' = unlocked \ {u}
  /\ tvkCache' = [tvkCache EXCEPT ![u] = [t \in Teams |-> NoKey]]
  /\ dekCache' = [dekCache EXCEPT ![u] = [c \in Colls |-> NoKey]]
  /\ UNCHANGED <<row, dekRow, gen>>

\* An entry passes its TTL; every reader then treats it as absent.
ExpireMasterKey(u) ==
  /\ u \in unlocked
  /\ unlocked' = unlocked \ {u}
  /\ UNCHANGED <<row, dekRow, tvkCache, dekCache, gen>>

ExpireTvk(u, t) ==
  /\ tvkCache[u][t] # NoKey
  /\ tvkCache' = [tvkCache EXCEPT ![u][t] = NoKey]
  /\ UNCHANGED <<unlocked, row, dekRow, dekCache, gen>>

ExpireDek(u, c) ==
  /\ dekCache[u][c] # NoKey
  /\ dekCache' = [dekCache EXCEPT ![u][c] = NoKey]
  /\ UNCHANGED <<unlocked, row, dekRow, tvkCache, gen>>

\* The process restarts: the caches are gone, the database stays.
Restart ==
  /\ unlocked' = {}
  /\ tvkCache' = [u \in Users |-> [t \in Teams |-> NoKey]]
  /\ dekCache' = [u \in Users |-> [c \in Colls |-> NoKey]]
  /\ UNCHANGED <<row, dekRow, gen>>

-----------------------------------------------------------------------------
(* Team vault keys.                                                        *)

InsertRow(t, u) ==
  /\ row[t][u] = NoRow
  /\ row' = [row EXCEPT ![t][u] = NoBlob]
  /\ UNCHANGED <<unlocked, dekRow, tvkCache, dekCache, gen>>

DeleteRow(t, u) ==
  /\ row[t][u] # NoRow
  /\ row' = [row EXCEPT ![t][u] = NoRow]
  /\ UNCHANGED <<unlocked, dekRow, tvkCache, dekCache, gen>>

\* UPDATE team_users SET wrapped_tvk = b: nothing where there is no row.
Stored(t, u, b) == IF row[t][u] = NoRow THEN row ELSE [row EXCEPT ![t][u] = b]

\* create_tvk: called once for a team.
CreateTvk(t, u) ==
  /\ gen[t] = 0
  /\ u \in unlocked
  /\ row' = Stored(t, u, Wrap(Fresh(t), MK(u)))
  /\ tvkCache' = [tvkCache EXCEPT ![u][t] = Fresh(t)]
  /\ gen' = [gen EXCEPT ![t] = 1]
  /\ UNCHANGED <<unlocked, dekRow, dekCache>>

\* get_tvk finds the key in the row and caches it.
GetTvk(u, t) ==
  /\ tvkCache[u][t] = NoKey
  /\ Tvk(u, t) # NoKey
  /\ tvkCache' = [tvkCache EXCEPT ![u][t] = Tvk(u, t)]
  /\ UNCHANGED <<unlocked, row, dekRow, dekCache, gen>>

\* Slip, for OneTeamKey: the new member gets a key drawn for him.
AddMemberFresh(t, new, by) ==
  /\ Tvk(by, t) # NoKey
  /\ new \in unlocked
  /\ row' = Stored(t, new, Wrap(Fresh(t), MK(new)))
  /\ tvkCache' = [tvkCache EXCEPT ![by][t] = Tvk(by, t), ![new][t] = Fresh(t)]
  /\ gen' = [gen EXCEPT ![t] = @ + 1]
  /\ UNCHANGED <<unlocked, dekRow, dekCache>>

\* add_member_to_team, when it does not raise: the caller has the key and the
\* new member is unlocked.  (When only the latter fails it is a GetTvk.)
AddMember(t, new, by) ==
  /\ Tvk(by, t) # NoKey
  /\ new \in unlocked
  /\ row' = Stored(t, new, Wrap(Tvk(by, t), MK(new)))
  /\ tvkCache' = [tvkCache EXCEPT ![by][t] = Tvk(by, t), ![new][t] = Tvk(by, t)]
  /\ UNCHANGED <<unlocked, dekRow, dekCache, gen>>

-----------------------------------------------------------------------------
(* remove_member_from_team: draw a new TVK, re-wrap the DEKs and the TVK.  *)

\* A remaining member whose row opens with the master key in memory.
CanStartRotation(t, gone, m) ==
  m \in (Members(t) \ {gone}) \cap unlocked /\ Open(row[t][m], MK(m)) # NoKey

\* Slip, for DeksSurviveRotation: the wrapped key create_dek(new_tvk) returned is
\* stored, so a new DEK takes the place of the old one.
RewrappedDekJunk(r, t, old, new) ==
  IF r # NoRow /\ r.team = t /\ Open(r.blob, old) # NoKey
  THEN [r EXCEPT !.blob = Wrap([@.holds EXCEPT !.gen = @ + 1], new)]
  ELSE r

\* Slip, for RotationServesUnlocked: the DEKs are left under the old TVK.
RewrappedDekForgotten(r, t, old, new) == r

\* The DEK row r of team t after the old TVK opened it, or untouched.
RewrappedDek(r, t, old, new) ==
  IF r # NoRow /\ r.team = t /\ Open(r.blob, old) # NoKey
  THEN [r EXCEPT !.blob = Wrap(Open(r.blob, old), new)]
  ELSE r

\* The row of m after the rotation to key k.
RewrappedRow(t, gone, m, k) ==
  IF row[t][m] = NoRow THEN NoRow
  ELSE IF m = gone THEN NoBlob
  ELSE IF m \in unlocked THEN Wrap(k, MK(m))
  ELSE row[t][m]

\* Slip, for CacheAgreesWithRow: only the departing member's entry is touched.
RotatedCacheStale(t, gone, m, k) == IF m = gone THEN NoKey ELSE tvkCache[m][t]

\* The TVK memory holds for m after the rotation to key k.
RotatedCache(t, gone, m, k) ==
  IF m = gone THEN NoKey
  ELSE IF m \in Members(t) \cap unlocked THEN k
  ELSE tvkCache[m][t]

\* remove_member_from_team(t, gone) for a member, when a remaining one can
\* supply the old key; otherwise it returns 0 and changes nothing.  The rows
\* come in no order the program chooses, so any such member may be the first.
RotateOut(t, gone) ==
  /\ gone \in Members(t)
  /\ gen[t] < MaxTvk
  /\ \E p \in Users :
       /\ CanStartRotation(t, gone, p)
       /\ dekRow' = [c \in Colls |->
                       RewrappedDek(dekRow[c], t, row[t][p].holds, Fresh(t))]
  /\ row' = [row EXCEPT ![t] = [m \in Users |-> RewrappedRow(t, gone, m, Fresh(t))]]
  /\ tvkCache' = [m \in Users |->
                    [tvkCache[m] EXCEPT ![t] = RotatedCache(t, gone, m, Fresh(t))]]
  /\ gen' = [gen EXCEPT ![t] = @ + 1]
  /\ UNCHANGED <<unlocked, dekCache>>

-----------------------------------------------------------------------------
(* Collection keys.                                                        *)

\* Slip, for KeysBelong: a team collection is wrapped under its creator's key.
ParentKeyPersonal(u, t) == MasterKey(u)

\* The key a DEK of team t is wrapped under when u creates it.
ParentKey(u, t) == IF t = NoTeam THEN MasterKey(u) ELSE Tvk(u, t)

\* get_tvk's own effect inside the calls below.
FillTvk(u, t) ==
  tvkCache' = IF t = NoTeam THEN tvkCache
              ELSE [tvkCache EXCEPT ![u][t] = Tvk(u, t)]

\* create_collection_key: INSERT OR REPLACE, so a second call draws a new DEK.
CreateCollection(u, c, t) ==
  /\ gen[c] < MaxDek
  /\ u \in unlocked
  /\ ParentKey(u, t) # NoKey
  /\ dekRow' = [dekRow EXCEPT ![c] = [team |-> t, blob |-> Wrap(Fresh(c), ParentKey(u, t))]]
  /\ dekCache' = [dekCache EXCEPT ![u][c] = Fresh(c)]
  /\ gen' = [gen EXCEPT ![c] = @ + 1]
  /\ FillTvk(u, t)
  /\ UNCHANGED <<unlocked, row>>

\* get_collection_key, when the cache has no entry.
OpenCollection(u, c) ==
  /\ dekCache[u][c] = NoKey
  /\ dekRow[c] # NoRow
  /\ ParentKey(u, dekRow[c].team) # NoKey
  /\ dekCache' = [dekCache EXCEPT ![u][c] = Open(dekRow[c].blob, ParentKey(u, dekRow[c].team))]
  /\ FillTvk(u, dekRow[c].team)
  /\ UNCHANGED <<unlocked, row, dekRow, gen>>

SessionStep ==
  \/ Restart
  \/ \E u \in Users : Unlock(u) \/ Logout(u) \/ ExpireMasterKey(u)
  \/ \E u \in Users, t \in Teams : ExpireTvk(u, t)
  \/ \E u \in Users, c \in Colls : ExpireDek(u, c)

TeamStep ==
  \/ \E u \in Users, t \in Teams :
       InsertRow(t, u) \/ DeleteRow(t, u) \/ CreateTvk(t, u) \/ GetTvk(u, t)
  \/ \E new, by \in Users, t \in Teams : AddMember(t, new, by)

CollectionStep ==
  \/ \E u \in Users, c \in Colls : OpenCollection(u, c)
  \/ \E u \in Users, c \in Colls, t \in Teams \cup {NoTeam} : CreateCollection(u, c, t)

Next ==
  \/ SessionStep \/ TeamStep \/ CollectionStep
  \/ \E u \in Users, t \in Teams : RotateOut(t, u)

Spec == Init /\ [][Next]_vars
-----------------------------------------------------------------------------
TypeOK ==
  /\ unlocked \subseteq Users
  /\ row \in [Teams -> [Users -> Blob \cup {NoRow, NoBlob}]]
  /\ dekRow \in [Colls -> DekRow \cup {NoRow}]
  /\ tvkCache \in [Users -> [Teams -> Key \cup {NoKey}]]
  /\ dekCache \in [Users -> [Colls -> Key \cup {NoKey}]]
  /\ gen \in [Teams \cup Colls -> Nat]

\* Keys never cross: whatever a user was wrapped or had cached for a team is a
\* key of that team, for a collection a key of that collection; a team's DEKs
\* are under a key of that team, personal ones under a user's.  Over any
\* sequence of joins, rotations, expiries and re-creations of a collection.
KeysBelong ==
  /\ \A t \in Teams, u \in Users :
       /\ row[t][u] \notin {NoRow, NoBlob} =>
            row[t][u].by = MK(u) /\ row[t][u].holds.of = t
       /\ tvkCache[u][t] # NoKey => tvkCache[u][t].of = t
  /\ \A c \in Colls :
       /\ dekRow[c] # NoRow =>
            /\ dekRow[c].blob.holds.of = c
            /\ IF dekRow[c].team = NoTeam
               THEN \E u \in Users : dekRow[c].blob.by = MK(u)
               ELSE dekRow[c].blob.by.of = dekRow[c].team
       /\ \A u \in Users : dekCache[u][c] # NoKey => dekCache[u][c].of = c

\* A cached TVK is never older or newer than the one in the member's row: the
\* cache, read first and never re-validated, can serve only what a fresh read
\* would, for as long as the member has a wrapped key.
CacheAgreesWithRow ==
  \A t \in Teams, u \in Users :
    (tvkCache[u][t] # NoKey /\ row[t][u] \notin {NoRow, NoBlob})
      => row[t][u].holds = tvkCache[u][t]

\* Rotation re-wraps the same DEK; only create_collection_key replaces one, so
\* no removal of a member makes sealed data unreadable by changing its key.
DeksSurviveRotation ==
  [][\A c \in Colls :
       (dekRow[c] # NoRow /\ gen'[c] = gen[c])
         => dekRow'[c] # NoRow /\ dekRow'[c].blob.holds = dekRow[c].blob.holds]_vars

Rotated(t) == gen[t] > 0 /\ gen'[t] > gen[t]

\* When a member is removed by a rotation, every other unlocked member ends with
\* the new TVK in row and cache alike, and when they all started from one TVK
\* every DEK that was under it is now under the new one.
RotationServesUnlocked ==
  [][\A t \in Teams : Rotated(t) =>
       LET new == [of |-> t, gen |-> gen'[t]]
       IN \E gone \in Members(t) :
            /\ \A m \in (Members(t) \cap unlocked) \ {gone} :
                 row'[t][m] = Wrap(new, MK(m)) /\ tvkCache'[m][t] = new
            /\ \A c \in Colls :
                 (/\ dekRow[c] # NoRow /\ dekRow[c].team = t
                  /\ \A m \in (Members(t) \cap unlocked) \ {gone} :
                       row[t][m] # NoBlob => row[t][m].holds = dekRow[c].blob.by)
                   => dekRow'[c].blob.by = new]_vars

\* Users are all alike.
UserSymmetry == Permutations(Users)

\* Rows, wrapped keys and caches belong together, whatever is rotated, cached or locked meanwhile.
TeamKeysSound ==
  /\ TypeOK
  /\ KeysBelong
  /\ CacheAgreesWithRow
=============================================================================
