----------------------------- MODULE TeamsProofs -----------------------------
(***************************************************************************)
(* For any users, teams, collections and bounds: keys never cross teams or *)
(* collections, a cached TVK is the one in the member's row, and rotation  *)
(* never changes a DEK.  The handlers of teams_api.py write keys only as   *)
(* the key store does, so these hold under them; nobody is a member and a  *)
(* candidate; no vote and no request is lost.                              *)
(***************************************************************************)
EXTENDS Teams, FiniteSetTheorems, TLAPS

-----------------------------------------------------------------------------
(* The key store.                                                          *)

\* A row names only keys that were drawn, so the next draw is new to all of them.
DrawnKeysOnly ==
  /\ \A t \in Teams, u \in Users :
       /\ row[t][u] \notin {NoRow, NoBlob} => row[t][u].holds.gen <= gen[t]
       /\ tvkCache[u][t] # NoKey => tvkCache[u][t].gen <= gen[t]
  /\ \A c \in Colls : dekRow[c] # NoRow => dekRow[c].blob.holds.gen <= gen[c]

\* The inductive invariant.  DrawnKeysOnly is what makes a draw fresh.
IInv == TypeOK /\ KeysBelong /\ CacheAgreesWithRow /\ DrawnKeysOnly

\* What KeysBelong, CacheAgreesWithRow and DrawnKeysOnly say of one member of
\* one team, with b in the member's row, k in the member's cache, n TVKs drawn.
Entry(t, u, b, k, n) ==
  /\ b \notin {NoRow, NoBlob} => b.by = MK(u) /\ b.holds.of = t /\ b.holds.gen <= n
  /\ k # NoKey => k.of = t /\ k.gen <= n
  /\ (k # NoKey /\ b \notin {NoRow, NoBlob}) => b.holds = k

\* And of the row of one collection with n DEKs drawn.
DekEntry(c, r, n) ==
  r # NoRow =>
    /\ r.blob.holds.of = c
    /\ r.blob.holds.gen <= n
    /\ IF r.team = NoTeam THEN \E u \in Users : r.blob.by = MK(u)
       ELSE r.blob.by.of = r.team

LEMMA Entries ==
  IInv <=> /\ TypeOK
           /\ \A t \in Teams, u \in Users : Entry(t, u, row[t][u], tvkCache[u][t], gen[t])
           /\ \A c \in Colls : DekEntry(c, dekRow[c], gen[c])
           /\ \A u \in Users, c \in Colls : dekCache[u][c] # NoKey => dekCache[u][c].of = c
  BY DEF IInv, KeysBelong, CacheAgreesWithRow, DrawnKeysOnly, Entry, DekEntry

LEMMA EntriesPrime ==
  ASSUME TypeOK',
         \A t \in Teams, u \in Users : Entry(t, u, row'[t][u], tvkCache'[u][t], gen'[t]),
         \A c \in Colls : DekEntry(c, dekRow'[c], gen'[c]),
         \A u \in Users, c \in Colls : dekCache'[u][c] # NoKey => dekCache'[u][c].of = c
  PROVE  IInv'
<1>1. CacheAgreesWithRow'
  BY DEF CacheAgreesWithRow, Entry
<1>2. DrawnKeysOnly'
  BY DEF DrawnKeysOnly, Entry, DekEntry
<1>3. KeysBelong'
  BY DEF KeysBelong, Entry, DekEntry, MK
<1>. QED
  BY <1>1, <1>2, <1>3 DEF IInv

\* Keys are well formed: master keys and the next draw for a team or collection.
LEMMA KeyTypes ==
  ASSUME TypeOK
  PROVE  /\ \A u \in Users : MK(u) \in Key /\ MasterKey(u) \in {MK(u), NoKey}
         /\ \A o \in Teams \cup Colls :
              Fresh(o) \in Key /\ Fresh(o).of = o /\ Fresh(o).gen = gen[o] + 1 /\ gen[o] \in Nat
  BY DEF TypeOK, MK, MasterKey, Fresh, Key

\* What opens yields a key, and only under the key it was wrapped with.
LEMMA OpenYields ==
  ASSUME NEW b \in Blob \cup {NoRow, NoBlob}, NEW k \in Key \cup {NoKey}
  PROVE  /\ Open(b, k) \in Key \cup {NoKey}
         /\ Open(b, k) # NoKey =>
              b \in Blob /\ b \notin {NoRow, NoBlob} /\ b.by = k /\ k \in Key /\ Open(b, k) = b.holds
  BY Sentinels DEF Open, Blob

\* get_tvk returns a key of the team, the one in the row if there is one.
LEMMA TvkYields ==
  ASSUME IInv, NEW u \in Users, NEW t \in Teams
  PROVE  /\ Tvk(u, t) \in Key \cup {NoKey}
         /\ Entry(t, u, row[t][u], Tvk(u, t), gen[t])
<1> DEFINE b == row[t][u]
<1>1. /\ b \in Blob \cup {NoRow, NoBlob} /\ tvkCache[u][t] \in Key \cup {NoKey}
      /\ MasterKey(u) \in Key \cup {NoKey}
  BY KeyTypes DEF IInv, TypeOK
<1>2. Entry(t, u, b, tvkCache[u][t], gen[t])
  BY Entries
<1>3. CASE tvkCache[u][t] # NoKey
  BY <1>1, <1>2, <1>3 DEF Tvk
<1>4. CASE tvkCache[u][t] = NoKey
  <2>1. Tvk(u, t) = Open(b, MasterKey(u))
    BY <1>4 DEF Tvk
  <2>2. CASE Open(b, MasterKey(u)) = NoKey
    BY <1>2, <1>4, <2>1, <2>2
  <2>3. CASE Open(b, MasterKey(u)) # NoKey
    <3>1. b \notin {NoRow, NoBlob} /\ Open(b, MasterKey(u)) = b.holds /\ b.holds \in Key
      BY <1>1, <2>3, OpenYields DEF Blob
    <3>. QED
      BY <1>2, <2>1, <3>1 DEF Entry
  <2>. QED
    BY <2>2, <2>3
<1>. QED
  BY <1>3, <1>4

LEMMA InitIInv == Init => IInv
<1> SUFFICES ASSUME Init
             PROVE  IInv
  OBVIOUS
<1>1. TypeOK
  BY DEF Init, TypeOK
<1>. QED
  BY <1>1, Entries DEF Init, Entry, DekEntry

-----------------------------------------------------------------------------
(* One lemma per group of actions.                                         *)

\* Locking, expiring and restarting only empty caches.
LEMMA SessionSteps == IInv /\ SessionStep => IInv'
<1> SUFFICES ASSUME IInv, SessionStep
             PROVE  IInv'
  OBVIOUS
<1> USE DEF Entry
<1>1. UNCHANGED <<row, dekRow, gen>>
  BY DEF SessionStep, Restart, Unlock, Logout, ExpireMasterKey, ExpireTvk, ExpireDek
<1> DEFINE OnlyEmptied ==
             /\ TypeOK'
             /\ \A u \in Users, t \in Teams : tvkCache'[u][t] \in {NoKey, tvkCache[u][t]}
             /\ \A u \in Users, c \in Colls : dekCache'[u][c] \in {NoKey, dekCache[u][c]}
<1>2. OnlyEmptied
  <2> USE DEF IInv, TypeOK
  <2>1. CASE Restart
    BY <2>1 DEF Restart
  <2>2. ASSUME NEW u \in Users, Unlock(u) \/ ExpireMasterKey(u)
        PROVE  OnlyEmptied
    BY <2>2 DEF Unlock, ExpireMasterKey
  <2>3. ASSUME NEW u \in Users, Logout(u)
        PROVE  OnlyEmptied
    BY <2>3 DEF Logout
  <2>4. ASSUME NEW u \in Users, NEW t \in Teams, ExpireTvk(u, t)
        PROVE  OnlyEmptied
    BY <2>4 DEF ExpireTvk
  <2>5. ASSUME NEW u \in Users, NEW c \in Colls, ExpireDek(u, c)
        PROVE  OnlyEmptied
    BY <2>5 DEF ExpireDek
  <2>. QED
    BY <2>1, <2>2, <2>3, <2>4, <2>5 DEF SessionStep
<1>3. \A t \in Teams, u \in Users : Entry(t, u, row'[t][u], tvkCache'[u][t], gen'[t])
  BY <1>1, <1>2, Entries
<1>. QED
  BY <1>1, <1>2, <1>3, Entries, EntriesPrime

\* The writes to team_users: a row inserted empty, deleted, or written with a
\* wrapped TVK that the same step puts in the cache.
LEMMA TeamSteps == IInv /\ TeamStep => IInv'
<1> SUFFICES ASSUME IInv, TeamStep
             PROVE  IInv'
  OBVIOUS
<1> USE Sentinels
<1>0. TypeOK
  BY DEF IInv
<1>1. /\ UNCHANGED <<dekRow, dekCache>>
      /\ \A c \in Colls : gen'[c] = gen[c]
  <2>1. UNCHANGED <<dekRow, dekCache>>
    BY DEF TeamStep, InsertRow, DeleteRow, CreateTvk, GetTvk, AddMember
  <2>2. gen' = gen \/ \E t \in Teams : gen' = [gen EXCEPT ![t] = 1]
    BY DEF TeamStep, InsertRow, DeleteRow, CreateTvk, GetTvk, AddMember
  <2>. QED
    BY <1>0, <2>1, <2>2, DisjointOwners DEF TypeOK
<1> DEFINE Sound == TypeOK' /\ \A t \in Teams, u \in Users :
                                  Entry(t, u, row'[t][u], tvkCache'[u][t], gen'[t])
<1>2. ASSUME NEW u \in Users, NEW t \in Teams, InsertRow(t, u) \/ DeleteRow(t, u)
      PROVE  Sound
  <2>1. \E b \in {NoRow, NoBlob} : row' = [row EXCEPT ![t][u] = b]
    BY <1>2 DEF InsertRow, DeleteRow
  <2>2. UNCHANGED <<unlocked, dekRow, tvkCache, dekCache, gen>>
    BY <1>2 DEF InsertRow, DeleteRow
  <2>3. \A s \in Teams, v \in Users : row'[s][v] \in {NoRow, NoBlob, row[s][v]}
    BY <1>0, <2>1 DEF TypeOK
  <2>4. TypeOK'
    BY <1>0, <2>1, <2>2 DEF TypeOK
  <2>. QED
    BY <2>2, <2>3, <2>4, Entries DEF Entry
<1>3. ASSUME NEW u \in Users, NEW t \in Teams, CreateTvk(t, u)
      PROVE  Sound
  <2>1. /\ row' = IF row[t][u] = NoRow THEN row
                  ELSE [row EXCEPT ![t][u] = Wrap(Fresh(t), MK(u))]
        /\ tvkCache' = [tvkCache EXCEPT ![u][t] = Fresh(t)]
        /\ gen' = [gen EXCEPT ![t] = 1]
        /\ UNCHANGED <<unlocked, dekRow, dekCache>>
    BY <1>3 DEF CreateTvk, Stored
  <2>2. /\ Fresh(t) \in Key /\ Fresh(t).of = t /\ Fresh(t).gen = 1 /\ MK(u) \in Key
        /\ gen[t] = 0
    BY <1>0, <1>3, KeyTypes DEF CreateTvk
  <2>3. Wrap(Fresh(t), MK(u)) \in Blob
    BY <2>2 DEF Wrap, Blob
  <2>4. TypeOK'
    BY <1>0, <2>1, <2>2, <2>3 DEF TypeOK
  <2>5. Entry(t, u, Wrap(Fresh(t), MK(u)), Fresh(t), 1) /\ Entry(t, u, NoRow, Fresh(t), 1)
    BY <2>2 DEF Entry, Wrap
  <2>6. ASSUME NEW s \in Teams, NEW v \in Users, s # t \/ v # u
        PROVE  Entry(s, v, row'[s][v], tvkCache'[v][s], gen'[s])
    <3>1. row'[s][v] = row[s][v] /\ tvkCache'[v][s] = tvkCache[v][s]
      BY <1>0, <2>1, <2>6 DEF TypeOK
    <3>2. gen'[s] = gen[s] \/ (s = t /\ gen[s] = 0 /\ gen'[s] = 1)
      BY <1>0, <2>1, <2>2 DEF TypeOK
    <3>3. Entry(s, v, row[s][v], tvkCache[v][s], gen[s])
      BY Entries
    <3>4. /\ row[s][v] \in Blob \cup {NoRow, NoBlob}
          /\ tvkCache[v][s] \in Key \cup {NoKey}
      BY <1>0 DEF TypeOK
    <3>. QED
      BY <3>1, <3>2, <3>3, <3>4 DEF Entry, Blob, Key
  <2>7. /\ row'[t][u] \in {NoRow, Wrap(Fresh(t), MK(u))}
        /\ tvkCache'[u][t] = Fresh(t) /\ gen'[t] = 1
    BY <1>0, <2>1 DEF TypeOK
  <2>. QED
    BY <2>4, <2>5, <2>6, <2>7
<1>4. ASSUME NEW u \in Users, NEW t \in Teams, GetTvk(u, t)
      PROVE  Sound
  <2>1. /\ tvkCache' = [tvkCache EXCEPT ![u][t] = Tvk(u, t)]
        /\ UNCHANGED <<unlocked, row, dekRow, dekCache, gen>>
    BY <1>4 DEF GetTvk
  <2>2. TypeOK'
    BY <1>0, <2>1, TvkYields DEF TypeOK
  <2>3. \A s \in Teams, v \in Users :
          tvkCache'[v][s] = IF s = t /\ v = u THEN Tvk(u, t) ELSE tvkCache[v][s]
    BY <1>0, <2>1 DEF TypeOK
  <2>. QED
    BY <2>1, <2>2, <2>3, TvkYields, Entries
<1>5. ASSUME NEW new \in Users, NEW by \in Users, NEW t \in Teams, AddMember(t, new, by)
      PROVE  Sound
  <2> DEFINE k == Tvk(by, t)
             b == Wrap(k, MK(new))
  <2>1. /\ tvkCache' = [tvkCache EXCEPT ![by][t] = k, ![new][t] = k]
        /\ row' = IF row[t][new] = NoRow THEN row ELSE [row EXCEPT ![t][new] = b]
        /\ UNCHANGED <<unlocked, dekRow, dekCache, gen>>
        /\ k # NoKey
    BY <1>5 DEF AddMember, Stored
  <2>2. k \in Key /\ Entry(t, by, row[t][by], k, gen[t])
    BY <2>1, TvkYields
  <2>3. MK(new) \in Key
    BY <1>0, KeyTypes
  <2>4. b \in Blob /\ b.by = MK(new) /\ b.holds = k
    BY <2>2, <2>3 DEF Wrap, Blob
  <2> HIDE DEF k, b
  <2>5. TypeOK'
    BY <1>0, <2>1, <2>2, <2>4 DEF TypeOK
  <2>6. k.of = t /\ k.gen <= gen[t]
    BY <2>1, <2>2 DEF Entry
  <2>7. Entry(t, new, b, k, gen[t]) /\ Entry(t, new, NoRow, k, gen[t])
    BY <2>4, <2>6 DEF Entry
  <2>8. \A s \in Teams, v \in Users :
          /\ row'[s][v] = IF s = t /\ v = new /\ row[t][new] # NoRow THEN b ELSE row[s][v]
          /\ tvkCache'[v][s] = IF s = t /\ v \in {by, new} THEN k ELSE tvkCache[v][s]
    BY <1>0, <2>1 DEF TypeOK
  <2>9. ASSUME NEW s \in Teams, NEW v \in Users
        PROVE  Entry(s, v, row'[s][v], tvkCache'[v][s], gen'[s])
    <3>1. Entry(s, v, row[s][v], tvkCache[v][s], gen[s]) /\ gen'[s] = gen[s]
      BY <2>1, Entries
    <3>2. CASE s = t /\ v = new
      BY <2>1, <2>7, <2>8, <3>2
    <3>3. CASE s = t /\ v = by /\ v # new
      BY <2>1, <2>2, <2>8, <3>3
    <3>4. CASE s # t \/ v \notin {by, new}
      BY <2>8, <3>1, <3>4
    <3>. QED
      BY <3>2, <3>3, <3>4
  <2>. QED
    BY <2>5, <2>9
<1>6. Sound
  BY <1>2, <1>3, <1>4, <1>5 DEF TeamStep
<1>. QED
  BY <1>1, <1>6, Entries, EntriesPrime

\* A collection key is written under the team's or the user's own key, and read
\* back as what was written.
LEMMA CollectionSteps == IInv /\ CollectionStep => IInv'
<1> SUFFICES ASSUME IInv, CollectionStep
             PROVE  IInv'
  OBVIOUS
<1> USE Sentinels
<1>0. TypeOK
  BY DEF IInv
<1>1. UNCHANGED <<unlocked, row>> /\ \A t \in Teams : gen'[t] = gen[t]
  BY <1>0, DisjointOwners DEF CollectionStep, OpenCollection, CreateCollection, TypeOK
<1> DEFINE Filled == tvkCache' \in [Users -> [Teams -> Key \cup {NoKey}]]
                     /\ \A t \in Teams, u \in Users :
                          Entry(t, u, row[t][u], tvkCache'[u][t], gen[t])
           Sound == /\ TypeOK'
                    /\ Filled
                    /\ \A c \in Colls : DekEntry(c, dekRow'[c], gen'[c])
                    /\ \A u \in Users, c \in Colls :
                         dekCache'[u][c] # NoKey => dekCache'[u][c].of = c
<1>2. ASSUME NEW u \in Users, NEW t \in Teams \cup {NoTeam}, FillTvk(u, t)
      PROVE  Filled
  <2>1. CASE t = NoTeam
    BY <1>0, <1>2, <2>1, Entries DEF FillTvk, TypeOK
  <2>2. CASE t # NoTeam
    <3>1. tvkCache' = [tvkCache EXCEPT ![u][t] = Tvk(u, t)] /\ t \in Teams
      BY <1>2, <2>2 DEF FillTvk
    <3>2. \A s \in Teams, v \in Users :
            tvkCache'[v][s] = IF s = t /\ v = u THEN Tvk(u, t) ELSE tvkCache[v][s]
      BY <1>0, <3>1 DEF TypeOK
    <3>3. tvkCache' \in [Users -> [Teams -> Key \cup {NoKey}]]
      BY <1>0, <3>1, TvkYields DEF TypeOK
    <3>. QED
      BY <3>1, <3>2, <3>3, TvkYields, Entries
  <2>. QED
    BY <2>1, <2>2
<1>3. ASSUME NEW u \in Users, NEW t \in Teams \cup {NoTeam}, ParentKey(u, t) # NoKey
      PROVE  /\ ParentKey(u, t) \in Key
             /\ IF t = NoTeam THEN ParentKey(u, t) = MK(u) ELSE ParentKey(u, t).of = t
  <2>1. CASE t = NoTeam
    BY <1>0, <1>3, <2>1, KeyTypes DEF ParentKey
  <2>2. CASE t # NoTeam
    BY <1>3, <2>2, TvkYields DEF ParentKey, Entry
  <2>. QED
    BY <2>1, <2>2
<1>4. ASSUME NEW u \in Users, NEW c \in Colls, OpenCollection(u, c)
      PROVE  Sound
  <2> DEFINE r == dekRow[c]
             k == ParentKey(u, r.team)
             d == Open(r.blob, k)
  <2>1. /\ dekCache' = [dekCache EXCEPT ![u][c] = d]
        /\ FillTvk(u, r.team)
        /\ UNCHANGED <<unlocked, row, dekRow, gen>>
        /\ r # NoRow /\ k # NoKey
    BY <1>4 DEF OpenCollection
  <2>2. r \in DekRow /\ r.team \in Teams \cup {NoTeam} /\ r.blob \in Blob
    BY <1>0, <2>1 DEF TypeOK, DekRow
  <2>3. k \in Key
    BY <1>3, <2>1, <2>2
  <2>4. DekEntry(c, r, gen[c])
    BY Entries
  <2>5. d \in Key \cup {NoKey} /\ (d # NoKey => d.of = c)
    BY <2>1, <2>2, <2>3, <2>4, OpenYields DEF DekEntry
  <2>6. Filled
    BY <1>2, <2>1, <2>2
  <2>7. TypeOK'
    BY <1>0, <2>1, <2>5, <2>6 DEF TypeOK
  <2>8. \A v \in Users, e \in Colls :
          dekCache'[v][e] = IF v = u /\ e = c THEN d ELSE dekCache[v][e]
    BY <1>0, <2>1 DEF TypeOK
  <2>. QED
    BY <2>1, <2>5, <2>6, <2>7, <2>8, Entries
<1>5. ASSUME NEW u \in Users, NEW c \in Colls, NEW t \in Teams \cup {NoTeam},
             CreateCollection(u, c, t)
      PROVE  Sound
  <2> DEFINE k == ParentKey(u, t)
             r == [team |-> t, blob |-> Wrap(Fresh(c), k)]
  <2>1. /\ dekRow' = [dekRow EXCEPT ![c] = r]
        /\ dekCache' = [dekCache EXCEPT ![u][c] = Fresh(c)]
        /\ gen' = [gen EXCEPT ![c] = gen[c] + 1]
        /\ FillTvk(u, t)
        /\ UNCHANGED <<unlocked, row>>
        /\ k # NoKey
    BY <1>5 DEF CreateCollection
  <2>2. Fresh(c) \in Key /\ Fresh(c).of = c /\ Fresh(c).gen = gen[c] + 1 /\ gen[c] \in Nat
    BY <1>0, KeyTypes
  <2>3. k \in Key /\ (IF t = NoTeam THEN k = MK(u) ELSE k.of = t)
    BY <1>3, <2>1
  <2>4. r \in DekRow /\ r.blob.holds = Fresh(c) /\ r.blob.by = k /\ r.team = t
    BY <2>2, <2>3 DEF DekRow, Blob, Wrap
  <2>5. DekEntry(c, r, gen[c] + 1)
    BY <2>2, <2>3, <2>4 DEF DekEntry
  <2> HIDE DEF k, r
  <2>6. Filled
    BY <1>2, <2>1
  <2>7. TypeOK'
    <3>1. dekRow' \in [Colls -> DekRow \cup {NoRow}]
      BY <1>0, <2>1, <2>4 DEF TypeOK
    <3>2. dekCache' \in [Users -> [Colls -> Key \cup {NoKey}]]
      BY <1>0, <2>1, <2>2 DEF TypeOK
    <3>3. gen' \in [Teams \cup Colls -> Nat]
      BY <1>0, <2>1, <2>2 DEF TypeOK
    <3>. QED
      BY <1>0, <2>1, <2>6, <3>1, <3>2, <3>3 DEF TypeOK
  <2>8. \A e \in Colls :
          /\ dekRow'[e] = IF e = c THEN r ELSE dekRow[e]
          /\ gen'[e] = IF e = c THEN gen[c] + 1 ELSE gen[e]
    BY <1>0, <2>1 DEF TypeOK
  <2>9. \A v \in Users, e \in Colls :
          dekCache'[v][e] = IF v = u /\ e = c THEN Fresh(c) ELSE dekCache[v][e]
    BY <1>0, <2>1 DEF TypeOK
  <2>. QED
    BY <2>2, <2>5, <2>6, <2>7, <2>8, <2>9, Entries
<1>6. Sound
  BY <1>4, <1>5 DEF CollectionStep
<1>. QED
  BY <1>1, <1>6, EntriesPrime

\* A rotation keeps the key inside each DEK row and changes only its wrapping.
LEMMA RotationKeepsDeks ==
  ASSUME NEW r \in DekRow \cup {NoRow}, NEW t \in Teams, NEW old \in Key, NEW new \in Key
  PROVE  LET n == RewrappedDek(r, t, old, new)
         IN  /\ n \in DekRow \cup {NoRow}
             /\ (n = NoRow) <=> (r = NoRow)
             /\ r # NoRow => /\ n.team = r.team
                             /\ n.blob.holds = r.blob.holds
                             /\ n.blob.by = r.blob.by \/ (r.team = t /\ n.blob.by = new)
<1> DEFINE n == RewrappedDek(r, t, old, new)
<1>1. CASE r # NoRow /\ r.team = t /\ Open(r.blob, old) # NoKey
  <2>1. r.blob \in Blob /\ Open(r.blob, old) = r.blob.holds /\ r.blob.holds \in Key
    BY <1>1, OpenYields DEF DekRow, Blob
  <2>2. n = [r EXCEPT !.blob = Wrap(r.blob.holds, new)]
    BY <1>1, <2>1 DEF RewrappedDek
  <2>3. n \in DekRow /\ n.team = r.team /\ n.blob = Wrap(r.blob.holds, new)
    BY <1>1, <2>1, <2>2 DEF DekRow, Wrap, Blob
  <2>. QED
    BY <1>1, <2>3, Sentinels DEF Wrap
<1>2. CASE ~(r # NoRow /\ r.team = t /\ Open(r.blob, old) # NoKey)
  BY <1>2 DEF RewrappedDek
<1>. QED
  BY <1>1, <1>2

\* remove_member_from_team: the new TVK reaches row and cache together.
LEMMA RotateSteps ==
  ASSUME IInv, NEW t \in Teams, NEW gone \in Users, RotateOut(t, gone)
  PROVE  IInv'
<1> USE Sentinels
<1>0. TypeOK
  BY DEF IInv
<1> DEFINE new == Fresh(t)
<1>1. PICK p \in Users :
        /\ CanStartRotation(t, gone, p)
        /\ dekRow' = [c \in Colls |-> RewrappedDek(dekRow[c], t, row[t][p].holds, new)]
  BY DEF RotateOut
<1>2. /\ row' = [row EXCEPT ![t] = [m \in Users |-> RewrappedRow(t, gone, m, new)]]
      /\ tvkCache' = [m \in Users |-> [tvkCache[m] EXCEPT ![t] = RotatedCache(t, gone, m, new)]]
      /\ gen' = [gen EXCEPT ![t] = gen[t] + 1]
      /\ UNCHANGED <<unlocked, dekCache>>
  BY DEF RotateOut
<1>3. new \in Key /\ new.of = t /\ new.gen = gen[t] + 1 /\ gen[t] \in Nat
  BY <1>0, KeyTypes
<1>4. row[t][p].holds \in Key
  <2>1. row[t][p] \in Blob \cup {NoRow, NoBlob} /\ MK(p) \in Key
    BY <1>0, KeyTypes DEF TypeOK
  <2>. QED
    BY <1>1, <2>1, OpenYields DEF CanStartRotation, Blob
<1> HIDE DEF new
<1>5. \A m \in Users : /\ RewrappedRow(t, gone, m, new) \in Blob \cup {NoRow, NoBlob}
                       /\ RotatedCache(t, gone, m, new) \in Key \cup {NoKey}
  BY <1>0, <1>3, KeyTypes DEF RewrappedRow, RotatedCache, TypeOK, Wrap, Blob
<1>6. \A c \in Colls : dekRow'[c] = RewrappedDek(dekRow[c], t, row[t][p].holds, new)
  BY <1>1
<1>7. TypeOK'
  <2>1. dekRow' \in [Colls -> DekRow \cup {NoRow}]
    BY <1>0, <1>1, <1>3, <1>4, RotationKeepsDeks DEF TypeOK
  <2>. QED
    BY <1>0, <1>2, <1>3, <1>5, <2>1 DEF TypeOK
<1>8. ASSUME NEW s \in Teams, NEW m \in Users
      PROVE  Entry(s, m, row'[s][m], tvkCache'[m][s], gen'[s])
  <2>1. Entry(s, m, row[s][m], tvkCache[m][s], gen[s])
    BY Entries
  <2>2. CASE s # t
    BY <1>0, <1>2, <2>1, <2>2 DEF TypeOK
  <2>3. CASE s = t
    <3>1. /\ row'[s][m] = RewrappedRow(t, gone, m, new)
          /\ tvkCache'[m][s] = RotatedCache(t, gone, m, new)
          /\ gen'[s] = gen[t] + 1
      BY <1>0, <1>2, <2>3 DEF TypeOK
    <3>2. /\ row[t][m] \in Blob \cup {NoRow, NoBlob}
          /\ tvkCache[m][t] \in Key \cup {NoKey}
      BY <1>0 DEF TypeOK
    <3>3. CASE m # gone /\ m \in Members(t) \cap unlocked
      <4>1. row'[s][m] = Wrap(new, MK(m)) /\ tvkCache'[m][s] = new
        BY <3>1, <3>3 DEF RewrappedRow, RotatedCache, Members
      <4>. QED
        BY <1>3, <2>3, <3>1, <4>1 DEF Entry, Wrap
    <3>4. CASE m # gone /\ m \notin Members(t) \cap unlocked
      <4>1. row'[s][m] = row[t][m] /\ tvkCache'[m][s] = tvkCache[m][t]
        BY <3>1, <3>4 DEF RewrappedRow, RotatedCache, Members
      <4>. QED
        BY <1>3, <2>1, <2>3, <3>1, <3>2, <4>1 DEF Entry, Blob, Key
    <3>5. CASE m = gone
      BY <3>1, <3>5 DEF RewrappedRow, RotatedCache, Entry
    <3>. QED
      BY <3>3, <3>4, <3>5
  <2>. QED
    BY <2>2, <2>3
<1>9. ASSUME NEW c \in Colls
      PROVE  DekEntry(c, dekRow'[c], gen'[c])
  <2>1. DekEntry(c, dekRow[c], gen[c]) /\ gen'[c] = gen[c]
    BY <1>0, <1>2, Entries, DisjointOwners DEF TypeOK
  <2>2. dekRow[c] \in DekRow \cup {NoRow}
    BY <1>0 DEF TypeOK
  <2>. QED
    BY <1>3, <1>4, <1>6, <2>1, <2>2, RotationKeepsDeks, DisjointOwners DEF DekEntry
<1>. QED
  BY <1>2, <1>7, <1>8, <1>9, Entries, EntriesPrime

-----------------------------------------------------------------------------
(* The theorems.                                                           *)

LEMMA StepIInv == IInv /\ [Next]_vars => IInv'
<1> SUFFICES ASSUME IInv, [Next]_vars
             PROVE  IInv'
  OBVIOUS
<1>1. CASE UNCHANGED vars
  BY <1>1, Entries, EntriesPrime DEF vars, IInv, TypeOK
<1>. QED
  BY <1>1, SessionSteps, TeamSteps, CollectionSteps, RotateSteps DEF Next

LEMMA Invariance == Spec => []IInv
  BY InitIInv, StepIInv, PTL DEF Spec

\* Rows and caches only ever hold what the code puts there.
THEOREM TypeCorrect == Spec => []TypeOK
  BY Invariance, PTL DEF IInv

\* Whatever a user holds for a team or a collection is a key of that team or
\* collection, wrapped under a key its readers are meant to have.
THEOREM KeysNeverCross == Spec => []KeysBelong
  BY Invariance, PTL DEF IInv

\* get_tvk's cache, read first and never re-validated, agrees with the row.
THEOREM CachesAgree == Spec => []CacheAgreesWithRow
  BY Invariance, PTL DEF IInv

\* No step but create_collection_key replaces a DEK; no row of one is lost.
LEMMA DekKept ==
  ASSUME IInv, [Next]_vars, NEW c \in Colls, dekRow[c] # NoRow, gen'[c] = gen[c]
  PROVE  dekRow'[c] # NoRow /\ dekRow'[c].blob.holds = dekRow[c].blob.holds
<1>0. TypeOK
  BY DEF IInv
<1>1. CASE UNCHANGED vars \/ SessionStep \/ TeamStep
  BY <1>1 DEF vars, SessionStep, Restart, Unlock, Logout, ExpireMasterKey, ExpireTvk, ExpireDek,
              TeamStep, InsertRow, DeleteRow, CreateTvk, GetTvk, AddMember
<1>2. CASE CollectionStep
  <2>1. ASSUME NEW u \in Users, NEW e \in Colls, OpenCollection(u, e)
        PROVE  dekRow' = dekRow
    BY <2>1 DEF OpenCollection
  <2>2. ASSUME NEW u \in Users, NEW e \in Colls, NEW t \in Teams \cup {NoTeam},
               CreateCollection(u, e, t)
        PROVE  dekRow'[c] = dekRow[c]
    <3>1. gen' = [gen EXCEPT ![e] = gen[e] + 1] /\ gen[e] \in Nat
      BY <1>0, <2>2 DEF CreateCollection, TypeOK
    <3>2. e # c
      BY <1>0, <3>1 DEF TypeOK
    <3>. QED
      BY <1>0, <2>2, <3>2 DEF CreateCollection, TypeOK
  <2>. QED
    BY <1>2, <2>1, <2>2 DEF CollectionStep
<1>3. ASSUME NEW t \in Teams, NEW gone \in Users, RotateOut(t, gone)
      PROVE  dekRow'[c] # NoRow /\ dekRow'[c].blob.holds = dekRow[c].blob.holds
  <2>1. PICK p \in Users :
          /\ CanStartRotation(t, gone, p)
          /\ dekRow' = [e \in Colls |-> RewrappedDek(dekRow[e], t, row[t][p].holds, Fresh(t))]
    BY <1>3 DEF RotateOut
  <2>2. row[t][p].holds \in Key
    <3>1. row[t][p] \in Blob \cup {NoRow, NoBlob} /\ MK(p) \in Key
      BY <1>0, KeyTypes DEF TypeOK
    <3>. QED
      BY <2>1, <3>1, OpenYields DEF CanStartRotation, Blob
  <2>3. Fresh(t) \in Key
    BY <1>0, KeyTypes
  <2>4. dekRow[c] \in DekRow \cup {NoRow}
    BY <1>0 DEF TypeOK
  <2>. QED
    BY <2>1, <2>2, <2>3, <2>4, RotationKeepsDeks
<1>. QED
  BY <1>1, <1>2, <1>3 DEF Next

\* No removal of a member, and nothing else short of re-creating the collection,
\* changes the key its data is sealed under.
THEOREM RotationKeepsTheKey == Spec => DeksSurviveRotation
<1>1. IInv /\ [Next]_vars =>
        [\A c \in Colls : (dekRow[c] # NoRow /\ gen'[c] = gen[c])
           => dekRow'[c] # NoRow /\ dekRow'[c].blob.holds = dekRow[c].blob.holds]_vars
  BY DekKept
<1>. QED
  BY Invariance, <1>1, PTL DEF Spec, DeksSurviveRotation

\* A vault key is drawn anew only by a rotation of its team.
LEMMA DrawnAnewByRotation ==
  ASSUME IInv, [Next]_vars, NEW t \in Teams, Rotated(t)
  PROVE  \E gone \in Users : RotateOut(t, gone)
<1>0. TypeOK /\ t \in Teams \cup Colls /\ gen[t] \in Nat
  BY DEF IInv, TypeOK
<1>1. CASE UNCHANGED vars \/ SessionStep
  BY <1>0, <1>1 DEF vars, SessionStep, Restart, Unlock, Logout, ExpireMasterKey, ExpireTvk, ExpireDek, Rotated
<1>2. CASE TeamStep
  <2>1. ASSUME NEW s \in Teams, NEW u \in Users, CreateTvk(s, u)
        PROVE  FALSE
    <3>1. gen[s] = 0 /\ gen' = [gen EXCEPT ![s] = 1]
      BY <2>1 DEF CreateTvk
    <3>. QED
      BY <1>0, <3>1 DEF Rotated, TypeOK
  <2>2. ASSUME NEW s \in Teams, NEW u \in Users, InsertRow(s, u) \/ DeleteRow(s, u) \/ GetTvk(u, s)
        PROVE  gen' = gen
    BY <2>2 DEF InsertRow, DeleteRow, GetTvk
  <2>3. ASSUME NEW new \in Users, NEW by \in Users, NEW s \in Teams, AddMember(s, new, by)
        PROVE  gen' = gen
    BY <2>3 DEF AddMember
  <2>4. gen' # gen
    BY <1>0 DEF Rotated
  <2>. QED
    BY <1>2, <2>1, <2>2, <2>3, <2>4 DEF TeamStep
<1>3. CASE CollectionStep
  <2>1. ASSUME NEW u \in Users, NEW c \in Colls, NEW s \in Teams \cup {NoTeam}, CreateCollection(u, c, s)
        PROVE  FALSE
    <3>1. gen' = [gen EXCEPT ![c] = @ + 1] /\ c # t
      BY <2>1, DisjointOwners DEF CreateCollection
    <3>. QED
      BY <1>0, <3>1 DEF Rotated, TypeOK
  <2>. QED
    BY <1>0, <1>3, <2>1 DEF CollectionStep, OpenCollection, Rotated
<1>4. ASSUME NEW s \in Teams, NEW gone \in Users, RotateOut(s, gone)
      PROVE  s = t
  <2>1. gen' = [gen EXCEPT ![s] = @ + 1]
    BY <1>4 DEF RotateOut
  <2>. QED
    BY <1>0, <2>1 DEF Rotated, TypeOK
<1>. QED
  BY <1>1, <1>2, <1>3, <1>4 DEF Next

\* What a rotation leaves to those who stay, and to the collections they could open.
LEMMA RotationServes ==
  ASSUME IInv, NEW t \in Teams, NEW gone \in Users, RotateOut(t, gone)
  PROVE  LET new == [of |-> t, gen |-> gen'[t]]
         IN /\ \A m \in (Members(t) \cap unlocked) \ {gone} :
                 row'[t][m] = Wrap(new, MK(m)) /\ tvkCache'[m][t] = new
            /\ \A c \in Colls :
                 (/\ dekRow[c] # NoRow /\ dekRow[c].team = t
                  /\ \A m \in (Members(t) \cap unlocked) \ {gone} :
                       row[t][m] # NoBlob => row[t][m].holds = dekRow[c].blob.by)
                   => dekRow'[c].blob.by = new
<1> DEFINE new == [of |-> t, gen |-> gen'[t]]
<1>0. TypeOK
  BY DEF IInv
<1>1. new = Fresh(t)
  <2>1. gen' = [gen EXCEPT ![t] = @ + 1]
    BY DEF RotateOut
  <2>. QED
    BY <1>0, <2>1 DEF Fresh, TypeOK
<1>2. ASSUME NEW m \in (Members(t) \cap unlocked) \ {gone}
      PROVE  row'[t][m] = Wrap(new, MK(m)) /\ tvkCache'[m][t] = new
  <2>1. m \in Users /\ row[t][m] # NoRow
    BY <1>2 DEF Members
  <2>2. row'[t][m] = RewrappedRow(t, gone, m, Fresh(t))
    BY <1>0, <2>1 DEF RotateOut, TypeOK
  <2>3. tvkCache'[m][t] = RotatedCache(t, gone, m, Fresh(t))
    BY <1>0, <2>1 DEF RotateOut, TypeOK
  <2>. QED
    BY <1>1, <1>2, <2>1, <2>2, <2>3 DEF RewrappedRow, RotatedCache
<1>3. ASSUME NEW c \in Colls, dekRow[c] # NoRow, dekRow[c].team = t,
             \A m \in (Members(t) \cap unlocked) \ {gone} :
               row[t][m] # NoBlob => row[t][m].holds = dekRow[c].blob.by
      PROVE  dekRow'[c].blob.by = new
  <2>1. PICK p \in Users :
          /\ CanStartRotation(t, gone, p)
          /\ dekRow' = [e \in Colls |-> RewrappedDek(dekRow[e], t, row[t][p].holds, Fresh(t))]
    BY DEF RotateOut
  <2>2. p \in (Members(t) \cap unlocked) \ {gone} /\ row[t][p] # NoBlob
    BY <2>1 DEF CanStartRotation, Open
  <2>3. row[t][p].holds = dekRow[c].blob.by
    BY <1>3, <2>2
  <2>4. dekRow[c] \in DekRow /\ dekRow[c].blob \in Blob /\ dekRow[c].blob.holds \in Key
    BY <1>0, <1>3 DEF TypeOK, DekRow, Blob
  <2>5. Open(dekRow[c].blob, dekRow[c].blob.by) = dekRow[c].blob.holds /\ dekRow[c].blob.holds # NoKey
    BY <2>4, Sentinels DEF Open
  <2>6. dekRow'[c] = [dekRow[c] EXCEPT !.blob = Wrap(dekRow[c].blob.holds, Fresh(t))]
    BY <1>3, <2>1, <2>3, <2>5 DEF RewrappedDek
  <2>. QED
    BY <1>1, <2>4, <2>6 DEF DekRow, Wrap
<1>. QED
  BY <1>2, <1>3

\* Who stays and is unlocked has the new key, and with it the collections of the team.
THEOREM RotationsServe == Spec => RotationServesUnlocked
<1> DEFINE Serves(t) ==
      LET new == [of |-> t, gen |-> gen'[t]]
      IN \E gone \in Members(t) :
           /\ \A m \in (Members(t) \cap unlocked) \ {gone} :
                row'[t][m] = Wrap(new, MK(m)) /\ tvkCache'[m][t] = new
           /\ \A c \in Colls :
                (/\ dekRow[c] # NoRow /\ dekRow[c].team = t
                 /\ \A m \in (Members(t) \cap unlocked) \ {gone} :
                      row[t][m] # NoBlob => row[t][m].holds = dekRow[c].blob.by)
                  => dekRow'[c].blob.by = new
<1>1. ASSUME IInv, [Next]_vars, NEW t \in Teams, Rotated(t)
      PROVE  Serves(t)
  <2>1. PICK gone \in Users : RotateOut(t, gone)
    BY <1>1, DrawnAnewByRotation
  <2>2. gone \in Members(t)
    BY <2>1 DEF RotateOut
  <2>. QED
    BY <1>1, <2>1, <2>2, RotationServes
<1>2. IInv /\ [Next]_vars => [\A t \in Teams : Rotated(t) => Serves(t)]_vars
  <2> HIDE DEF Serves
  <2>. QED
    BY <1>1
<1>. QED
  BY Invariance, <1>2, PTL DEF Spec, RotationServesUnlocked

\* Rows, wrapped keys and caches belong together, for any users, teams and collections.
THEOREM TeamKeysStaySound == Spec => []TeamKeysSound
  BY TypeCorrect, KeysNeverCross, CachesAgree, PTL DEF TeamKeysSound

-----------------------------------------------------------------------------
(* The handlers of teams_api.py.                                           *)

\* A validation relies on the request it read; past the UPDATE it has the votes.
ValidationCoherent ==
  coro # Idle =>
    /\ coro.op \in {"validate", "locked"} => pending[coro.team][coro.target] # NoRequest
    /\ coro.op = "locked" => Threshold

MemberTypes ==
  /\ exists \subseteq Teams
  /\ follows \in [Teams -> SUBSET Users]
  /\ pending \in [Teams -> [Users -> Request \cup {NoRequest}]]
  /\ coro \in Coroutine \cup {Idle}
  /\ thread \in [Users -> PoolRequest \cup {Idle}]

\* The inductive invariant, but for the types of the keys.
MInv == MemberTypes /\ PendingNotMember /\ ValidationCoherent

\* What the requests in progress carry.
LEMMA CoroutineTypes ==
  ASSUME MemberTypes, coro # Idle
  PROVE  /\ coro.team \in Teams /\ coro.user \in Users
         /\ coro.op \in {"create", "follow", "validate", "locked", "wrap"}
         /\ coro.op \in {"validate", "locked", "wrap"} =>
              /\ coro \in [op : {"validate", "locked", "wrap"}, team : Teams,
                           user : Users, target : Users]
              /\ coro.target \in Users
         /\ coro.op \notin {"validate", "locked", "wrap"} =>
              coro \in [op : {"create", "follow"}, team : Teams, user : Users]
  BY DEF MemberTypes, Coroutine

LEMMA ThreadTypes ==
  ASSUME MemberTypes, NEW u \in Users, thread[u] # Idle
  PROVE  /\ thread[u].op = "follow" => thread[u].teams \subseteq Teams
         /\ thread[u].op = "remove" => thread[u].team \in Teams /\ thread[u].target \in Users
  BY DEF MemberTypes, PoolRequest

\* The vote counted: the request read, one validator more.
LEMMA VotedYields ==
  ASSUME MemberTypes, ValidationCoherent, coro # Idle, coro.op \in {"validate", "locked"}
  PROVE  LET r == pending[coro.team][coro.target]
         IN  /\ r \in Request
             /\ Voted \in Request
             /\ Voted.validators = r.validators \cup {coro.user}
             /\ Voted.needed = r.needed
<1> DEFINE r == pending[coro.team][coro.target]
<1>1. coro.user \in Users /\ coro.team \in Teams /\ coro.target \in Users
  BY CoroutineTypes
<1>2. r \in Request
  BY <1>1 DEF MemberTypes, ValidationCoherent
<1>3. Voted = [r EXCEPT !.validators = r.validators \cup {coro.user}]
  BY <1>2 DEF Voted, Request
<1>. QED
  BY <1>1, <1>2, <1>3 DEF Request

-----------------------------------------------------------------------------
(* The keys.                                                               *)

\* A handler's step is one of TeamKeys or leaves all the keys alone.
LEMMA KeySteps == MemberTypes /\ [TeamsNext]_tvars => [Next]_vars
<1> SUFFICES ASSUME MemberTypes, [TeamsNext]_tvars
             PROVE  [Next]_vars
  OBVIOUS
<1> USE DEF keyVars
<1>1. CASE UNCHANGED tvars
  BY <1>1 DEF tvars
<1>2. ASSUME NEW t \in Teams, NEW u \in Users, CreateTeam(t, u) \/ RequestJoin(t, u)
      PROVE  [Next]_vars
  BY <1>2 DEF CreateTeam, RequestJoin, Next, TeamStep
<1>3. ASSUME NEW t \in Teams, NEW u \in Users, NEW target \in Users, ValidateCheck(t, u, target)
      PROVE  [Next]_vars
  BY <1>3 DEF ValidateCheck
<1>4. CASE CreateTeamKey \/ CreateTeamFollow \/ ValidateRecord
  BY <1>4, CoroutineTypes DEF CreateTeamKey, CreateTeamFollow, ValidateRecord, Next, TeamStep
<1>5. CASE ValidateKey \/ ValidateWrapRaises
  BY <1>5, CoroutineTypes DEF ValidateKey, ValidateWrapRaises, Next, TeamStep
<1>6. CASE ValidateAdmit
  BY <1>6, CoroutineTypes DEF ValidateAdmit, WriteLocked, Next, TeamStep
<1>7. CASE ValidateWrap
  BY <1>7, CoroutineTypes DEF ValidateWrap, Next, TeamStep
<1>8. ASSUME NEW u \in Users, RemoveCommit(u)
      PROVE  [Next]_vars
  <2>1. thread[u].team \in Teams /\ thread[u].target \in Users
    BY <1>8, ThreadTypes DEF RemoveCommit
  <2>. QED
    BY <1>8, <2>1 DEF RemoveCommit, Deleted, Next, TeamStep
<1>9. CASE Pool /\ ~ \E u \in Users : RemoveCommit(u)
  BY <1>9 DEF Pool, FollowCheck, FollowInsert, Unfollow, RemoveCheck
<1>10. CASE Session
  BY <1>10 DEF Session, Next, SessionStep
<1>11. CASE RestartAll
  BY <1>11 DEF RestartAll, Next, SessionStep
<1>12. CASE Governance
  BY <1>12, <1>2, <1>3, <1>4, <1>5, <1>6, <1>7 DEF Governance
<1>. QED
  BY <1>1, <1>8, <1>9, <1>10, <1>11, <1>12 DEF TeamsNext

-----------------------------------------------------------------------------
(* Membership.                                                             *)

LEMMA InitMInv == TeamsInit => MInv /\ Init
<1> SUFFICES ASSUME TeamsInit
             PROVE  MInv /\ Init
  OBVIOUS
<1>. QED
  BY DEF TeamsInit, MInv, MemberTypes, PendingNotMember, ValidationCoherent

\* The votes a request needs are at least one.
LEMMA NeededPositive == \A n \in Nat : Needed(n) \in Nat \ {0}
  BY DEF Needed

\* Storing a wrapped key makes nobody a member.
LEMMA StoredAddsNobody ==
  ASSUME TypeOK, NEW t \in Teams, NEW u \in Users, NEW b, row' = Stored(t, u, b)
  PROVE  \A s \in Teams, v \in Users : row[s][v] = NoRow => row'[s][v] = NoRow
<1>1. row \in [Teams -> [Users -> Blob \cup {NoRow, NoBlob}]]
  BY DEF TypeOK
<1>2. CASE row[t][u] = NoRow
  BY <1>2 DEF Stored
<1>3. CASE row[t][u] # NoRow
  <2>1. row' = [row EXCEPT ![t][u] = b]
    BY <1>3 DEF Stored
  <2>. QED
    BY <1>1, <1>3, <2>1
<1>. QED
  BY <1>2, <1>3

\* The coroutines' steps.
LEMMA GovernanceKeeps ==
  ASSUME MInv, TypeOK, Governance
  PROVE  MInv'
<1> USE TeamSentinels DEF MInv, keyVars, memberVars, vars
<1>0. MemberTypes
  OBVIOUS
<1>1. ASSUME NEW t \in Teams, NEW u \in Users, CreateTeam(t, u)
      PROVE  MInv'
  <2>1. MemberTypes'
    BY <1>1 DEF CreateTeam, MemberTypes, Coroutine
  <2>2. PendingNotMember'
    <3>1. \A s \in Teams, v \in Users :
            row'[s][v] = IF s = t /\ v = u THEN NoBlob ELSE row[s][v]
      BY <1>1 DEF CreateTeam, InsertRow, TypeOK
    <3>. QED
      BY <1>1, <3>1 DEF CreateTeam, PendingNotMember, Members
  <2>3. ValidationCoherent'
    BY <1>1 DEF CreateTeam, ValidationCoherent
  <2>. QED
    BY <2>1, <2>2, <2>3
<1>2. ASSUME NEW t \in Teams, NEW u \in Users, RequestJoin(t, u)
      PROVE  MInv'
  <2> DEFINE n == Needed(Cardinality(Members(t)))
  <2>1. [validators |-> {}, needed |-> n] \in Request
    <3>1. Cardinality(Members(t)) \in Nat
      BY FiniteUsers, FS_Subset, FS_CardinalityType DEF Members
    <3>. QED
      BY <3>1, NeededPositive DEF Request
  <2> HIDE DEF n
  <2>2. MemberTypes'
    BY <1>2, <2>1 DEF RequestJoin, MemberTypes, n
  <2>3. PendingNotMember'
    BY <1>2 DEF RequestJoin, PendingNotMember, MemberTypes, Members
  <2>4. ValidationCoherent'
    BY <1>2 DEF RequestJoin, ValidationCoherent
  <2>. QED
    BY <2>2, <2>3, <2>4
<1>3. ASSUME NEW t \in Teams, NEW u \in Users, NEW target \in Users, ValidateCheck(t, u, target)
      PROVE  MInv'
  <2>1. MemberTypes'
    BY <1>3 DEF ValidateCheck, MemberTypes, Coroutine
  <2>2. PendingNotMember'
    BY <1>3 DEF ValidateCheck, PendingNotMember, Members
  <2>3. ValidationCoherent'
    BY <1>3 DEF ValidateCheck, ValidationCoherent
  <2>. QED
    BY <2>1, <2>2, <2>3
<1>4. CASE CreateTeamKey \/ CreateTeamFollow \/ ValidateWrap \/ ValidateWrapRaises
  <2>1. coro # Idle /\ coro.op \in {"create", "follow", "wrap"}
    BY <1>4 DEF CreateTeamKey, CreateTeamFollow, ValidateWrap, ValidateWrapRaises
  <2>2. UNCHANGED <<exists, pending, thread>>
    BY <1>4 DEF CreateTeamKey, CreateTeamFollow, ValidateWrap, ValidateWrapRaises
  <2>3. coro' = Idle \/ (coro.op = "create" /\ coro' = [coro EXCEPT !.op = "follow"])
    BY <1>4 DEF CreateTeamKey, CreateTeamFollow, ValidateWrap, ValidateWrapRaises
  <2>4. \A t \in Teams, u \in Users : row[t][u] = NoRow => row'[t][u] = NoRow
    <3>1. CASE CreateTeamKey
      <4>1. CASE coro.user \in unlocked
        <5>1. row' = Stored(coro.team, coro.user, Wrap(Fresh(coro.team), MK(coro.user)))
          BY <3>1, <4>1 DEF CreateTeamKey, CreateTvk
        <5>. QED
          BY <2>1, <5>1, CoroutineTypes, StoredAddsNobody
      <4>2. CASE coro.user \notin unlocked
        BY <3>1, <4>2 DEF CreateTeamKey
      <4>. QED
        BY <4>1, <4>2
    <3>2. CASE CreateTeamFollow
      BY <3>2 DEF CreateTeamFollow
    <3>3. CASE ValidateWrap
      <4>1. row' = Stored(coro.team, coro.target,
                          Wrap(Tvk(coro.user, coro.team), MK(coro.target)))
        BY <3>3 DEF ValidateWrap, AddMember
      <4>2. coro.op = "wrap"
        BY <3>3 DEF ValidateWrap
      <4>. QED
        BY <2>1, <4>1, <4>2, CoroutineTypes, StoredAddsNobody
    <3>4. CASE ValidateWrapRaises
      BY <3>4 DEF ValidateWrapRaises, GetTvk
    <3>. QED
      BY <1>4, <3>1, <3>2, <3>3, <3>4
  <2>5. coro' \in Coroutine \cup {Idle} /\ (coro' # Idle => coro'.op = "follow")
    BY <2>1, <2>3, CoroutineTypes DEF Coroutine
  <2>6. follows' \in [Teams -> SUBSET Users]
    BY <1>4, CoroutineTypes DEF CreateTeamKey, CreateTeamFollow, ValidateWrap,
                                ValidateWrapRaises, MemberTypes
  <2>7. MemberTypes'
    BY <2>2, <2>5, <2>6 DEF MemberTypes
  <2>8. PendingNotMember'
    BY <2>2, <2>4 DEF PendingNotMember, Members
  <2>9. ValidationCoherent'
    BY <2>5 DEF ValidationCoherent
  <2>. QED
    BY <2>7, <2>8, <2>9
<1>5. CASE ValidateRecord
  <2>1. /\ pending' = [pending EXCEPT ![coro.team][coro.target] = Voted]
        /\ pending[coro.team][coro.target] # NoRequest
        /\ coro.team \in Teams /\ coro.target \in Users /\ Voted \in Request
    BY <1>5, CoroutineTypes, VotedYields DEF ValidateRecord, ValidationCoherent
  <2>2. MemberTypes'
    BY <1>5, <2>1 DEF ValidateRecord, MemberTypes
  <2>3. PendingNotMember'
    BY <1>5, <2>1 DEF ValidateRecord, PendingNotMember, MemberTypes, Members
  <2>4. ValidationCoherent'
    BY <1>5 DEF ValidateRecord, ValidationCoherent
  <2>. QED
    BY <2>2, <2>3, <2>4
<1>6. CASE ValidateKey
  <2>1. /\ UNCHANGED <<row, exists, follows, pending, thread>>
        /\ coro # Idle /\ coro.op = "validate" /\ coro' = [coro EXCEPT !.op = "locked"]
        /\ Threshold
    BY <1>6 DEF ValidateKey, GetTvk, vars
  <2>2. /\ coro' \in Coroutine /\ coro'.team = coro.team /\ coro'.target = coro.target
        /\ coro'.user = coro.user
    BY <2>1, CoroutineTypes DEF Coroutine
  <2>3. MemberTypes'
    BY <2>1, <2>2 DEF MemberTypes
  <2>4. PendingNotMember'
    BY <2>1 DEF PendingNotMember, Members
  <2>5. ValidationCoherent'
    BY <2>1, <2>2 DEF ValidationCoherent, Threshold, Voted
  <2>. QED
    BY <2>3, <2>4, <2>5
<1>7. CASE ValidateAdmit
  <2>1. /\ coro # Idle /\ coro.op = "locked" /\ coro' = [coro EXCEPT !.op = "wrap"]
        /\ pending' = [pending EXCEPT ![coro.team][coro.target] = NoRequest]
        /\ follows' = [follows EXCEPT ![coro.team] = @ \cup {coro.target}]
        /\ UNCHANGED <<exists, thread>>
    BY <1>7 DEF ValidateAdmit, WriteLocked, WithoutRequest
  <2>2. coro.team \in Teams /\ coro.target \in Users /\ coro' \in Coroutine /\ coro'.op = "wrap"
    BY <2>1, CoroutineTypes DEF Coroutine
  <2>3. \A t \in Teams, u \in Users :
          (t # coro.team \/ u # coro.target) => row'[t][u] = row[t][u]
    BY <1>7, <2>2 DEF ValidateAdmit, InsertRow, TypeOK, vars
  <2>4. MemberTypes'
    BY <2>1, <2>2 DEF MemberTypes
  <2>5. PendingNotMember'
    BY <2>1, <2>2, <2>3 DEF PendingNotMember, MemberTypes, Members
  <2>6. ValidationCoherent'
    BY <2>2 DEF ValidationCoherent
  <2>. QED
    BY <2>4, <2>5, <2>6
<1>. QED
  BY <1>1, <1>2, <1>3, <1>4, <1>5, <1>6, <1>7 DEF Governance

\* The pool requests only follow, unfollow and delete rows of members; sessions
\* leave the tables alone.
LEMMA OthersKeep ==
  ASSUME MInv, TypeOK, Pool \/ Session \/ RestartAll
  PROVE  MInv'
<1> USE DEF MInv, keyVars, memberVars, vars
<1> DEFINE Quiet ==
             /\ UNCHANGED <<exists, pending>>
             /\ coro' = coro \/ coro' = Idle
             /\ \A t \in Teams, u \in Users : row[t][u] = NoRow => row'[t][u] = NoRow
             /\ follows' \in [Teams -> SUBSET Users]
             /\ thread' \in [Users -> PoolRequest \cup {Idle}]
<1>1. ASSUME NEW u \in Users, NEW S \in SUBSET Teams, FollowCheck(u, S)
      PROVE  Quiet
  BY <1>1 DEF FollowCheck, MemberTypes, PoolRequest
<1>2. ASSUME NEW u \in Users, FollowInsert(u)
      PROVE  Quiet
  BY <1>2 DEF FollowInsert, MemberTypes
<1>3. ASSUME NEW u \in Users, NEW t \in Teams, Unfollow(u, t)
      PROVE  Quiet
  BY <1>3 DEF Unfollow, MemberTypes
<1>4. ASSUME NEW u \in Users, NEW target \in Users, NEW t \in Teams, RemoveCheck(u, t, target)
      PROVE  Quiet
  BY <1>4 DEF RemoveCheck, MemberTypes, PoolRequest
<1>5. ASSUME NEW u \in Users, RemoveCommit(u)
      PROVE  Quiet
  <2>1. thread[u].team \in Teams /\ thread[u].target \in Users
    BY <1>5, ThreadTypes DEF RemoveCommit
  <2>2. \A t \in Teams, v \in Users : row[t][v] = NoRow => row'[t][v] = NoRow
    <3>1. CASE row[thread[u].team][thread[u].target] # NoRow
      <4>1. row' = [row EXCEPT ![thread[u].team][thread[u].target] = NoRow]
        BY <1>5, <3>1 DEF RemoveCommit, Deleted, DeleteRow
      <4>2. row \in [Teams -> [Users -> Blob \cup {NoRow, NoBlob}]]
        BY DEF TypeOK
      <4>. QED
        BY <2>1, <4>1, <4>2
    <3>2. CASE row[thread[u].team][thread[u].target] = NoRow
      BY <1>5, <3>2 DEF RemoveCommit, Deleted
    <3>. QED
      BY <3>1, <3>2
  <2>. QED
    BY <1>5, <2>1, <2>2 DEF RemoveCommit, MemberTypes
<1>6. ASSUME Session PROVE Quiet
  <2>1. UNCHANGED row
    BY <1>6 DEF Session, Unlock, Logout, ExpireMasterKey, ExpireTvk
  <2>2. UNCHANGED <<exists, follows, pending, coro, thread>>
    BY <1>6 DEF Session
  <2>. QED
    BY <2>1, <2>2 DEF MemberTypes
<1>7. ASSUME RestartAll PROVE Quiet
  <2>1. UNCHANGED <<row, exists, follows, pending>>
    BY <1>7 DEF RestartAll, Restart
  <2>2. coro' = Idle /\ thread' = [u \in Users |-> Idle]
    BY <1>7 DEF RestartAll
  <2>. QED
    BY <2>1, <2>2 DEF MemberTypes
<1> HIDE DEF Quiet
<1>8. Quiet
  BY <1>1, <1>2, <1>3, <1>4, <1>5, <1>6, <1>7 DEF Pool
<1>9. MemberTypes'
  BY <1>8 DEF Quiet, MemberTypes
<1>10. PendingNotMember'
  BY <1>8 DEF Quiet, PendingNotMember, Members
<1>11. ValidationCoherent'
  BY <1>8 DEF Quiet, ValidationCoherent, Threshold, Voted
<1>. QED
  BY <1>9, <1>10, <1>11

LEMMA StepMInv == MInv /\ TypeOK /\ [TeamsNext]_tvars => MInv'
<1> SUFFICES ASSUME MInv, TypeOK, [TeamsNext]_tvars
             PROVE  MInv'
  OBVIOUS
<1>1. CASE UNCHANGED tvars
  BY <1>1 DEF tvars, vars, MInv, MemberTypes, PendingNotMember, ValidationCoherent, Members,
              Threshold, Voted
<1>. QED
  BY <1>1, GovernanceKeeps, OthersKeep DEF TeamsNext

LEMMA TeamsInvariance == TeamsSpec => []MInv /\ Spec /\ []TypeOK
<1> DEFINE Both == MInv /\ IInv
<1>1. TeamsInit => Both
  BY InitMInv, InitIInv
<1>2. Both /\ [TeamsNext]_tvars => Both' /\ [Next]_vars
  BY StepMInv, KeySteps, StepIInv DEF MInv, IInv
<1>3. Both => MInv /\ TypeOK
  BY DEF IInv
<1>4. TeamsInit => Init
  BY InitMInv
<1> HIDE DEF Both
<1>. QED
  BY <1>1, <1>2, <1>3, <1>4, PTL DEF TeamsSpec, Spec

\* Under them, then, keys never cross and a cached TVK is the one in the row.
THEOREM KeysNeverCrossInTeams == TeamsSpec => [](KeysBelong /\ CacheAgreesWithRow)
  BY TeamsInvariance, KeysNeverCross, CachesAgree, PTL

\* Rows of requests in progress and tables are what the handlers expect.
THEOREM TeamsTypeCorrect == TeamsSpec => []TeamsTypeOK
<1>1. MInv /\ TypeOK => TeamsTypeOK
  BY DEF MInv, MemberTypes, TeamsTypeOK
<1>. QED
  BY TeamsInvariance, <1>1, PTL

\* Nobody is at once a member of a team and a candidate for it.
THEOREM CandidatesAreNotMembers == TeamsSpec => []PendingNotMember
<1>1. MInv => PendingNotMember
  BY DEF MInv
<1>. QED
  BY TeamsInvariance, <1>1, PTL

\* A request keeps its votes, and ends only in the admission they were for.
LEMMA StepVotes ==
  ASSUME MInv, TypeOK, [TeamsNext]_tvars, NEW t \in Teams, NEW u \in Users,
         pending[t][u] # NoRequest
  PROVE  \/ /\ pending'[t][u] # NoRequest
            /\ pending[t][u].validators \subseteq pending'[t][u].validators
            /\ pending[t][u].needed = pending'[t][u].needed
         \/ /\ pending'[t][u] = NoRequest
            /\ row'[t][u] # NoRow
            /\ Cardinality(pending[t][u].validators \cup {coro.user}) >= pending[t][u].needed
<1> USE DEF MInv, keyVars, memberVars, vars
<1>1. CASE UNCHANGED pending
  BY <1>1
<1>2. ASSUME NEW s \in Teams, NEW v \in Users, RequestJoin(s, v)
      PROVE  pending'[t][u] = pending[t][u]
  BY <1>2 DEF RequestJoin, MemberTypes
<1>3. CASE ValidateRecord
  <2>1. /\ pending' = [pending EXCEPT ![coro.team][coro.target] = Voted]
        /\ coro # Idle /\ coro.op = "validate" /\ coro.team \in Teams /\ coro.target \in Users
    BY <1>3, CoroutineTypes DEF ValidateRecord
  <2>2. CASE t = coro.team /\ u = coro.target
    BY <2>1, <2>2, VotedYields, TeamSentinels DEF MemberTypes
  <2>3. CASE t # coro.team \/ u # coro.target
    BY <2>1, <2>3 DEF MemberTypes
  <2>. QED
    BY <2>2, <2>3
<1>4. CASE ValidateAdmit
  <2>1. /\ pending' = [pending EXCEPT ![coro.team][coro.target] = NoRequest]
        /\ coro # Idle /\ coro.op = "locked" /\ coro.team \in Teams /\ coro.target \in Users
    BY <1>4, CoroutineTypes DEF ValidateAdmit, WithoutRequest, WriteLocked
  <2>2. CASE t = coro.team /\ u = coro.target
    <3>1. pending'[t][u] = NoRequest
      BY <2>1, <2>2 DEF MemberTypes
    <3>2. row'[t][u] # NoRow
      BY <1>4, <2>1, <2>2, Sentinels DEF ValidateAdmit, InsertRow, Members, TypeOK
    <3>3. Cardinality(pending[t][u].validators \cup {coro.user}) >= pending[t][u].needed
      BY <2>1, <2>2, VotedYields DEF ValidationCoherent, Threshold
    <3>. QED
      BY <3>1, <3>2, <3>3
  <2>3. CASE t # coro.team \/ u # coro.target
    BY <2>1, <2>3 DEF MemberTypes
  <2>. QED
    BY <2>2, <2>3
<1>5. ASSUME TeamsNext, ~ValidateRecord, ~ValidateAdmit,
             ~ \E s \in Teams, v \in Users : RequestJoin(s, v)
      PROVE  UNCHANGED pending
  BY <1>5 DEF TeamsNext, Governance, CreateTeam, ValidateCheck, CreateTeamKey, CreateTeamFollow,
              ValidateKey, ValidateWrap, ValidateWrapRaises, Pool, FollowInsert, RemoveCommit,
              FollowCheck, Unfollow, RemoveCheck, Session, RestartAll
<1>. QED
  BY <1>1, <1>2, <1>3, <1>4, <1>5 DEF tvars

\* Whatever leaves, restarts and votes interleave.
THEOREM VotesAreKept == TeamsSpec => VotesCount
<1>1. MInv /\ TypeOK /\ [TeamsNext]_tvars =>
        [\A t \in Teams, u \in Users :
           pending[t][u] # NoRequest =>
             \/ /\ pending'[t][u] # NoRequest
                /\ pending[t][u].validators \subseteq pending'[t][u].validators
                /\ pending[t][u].needed = pending'[t][u].needed
             \/ /\ pending'[t][u] = NoRequest
                /\ row'[t][u] # NoRow
                /\ Cardinality(pending[t][u].validators \cup {coro.user})
                     >= pending[t][u].needed]_tvars
  BY StepVotes
<1>. QED
  BY TeamsInvariance, <1>1, PTL DEF TeamsSpec, VotesCount

\* The tables of the teams agree with each other and with the requests in progress.
THEOREM MembershipStaysSound == TeamsSpec => []MembershipSound
  BY TeamsTypeCorrect, CandidatesAreNotMembers, PTL DEF MembershipSound
-----------------------------------------------------------------------------
(* One key for a team.                                                     *)

\* What get_tvk yields is the first key of the team, or nothing.
LEMMA TvkIsFirst ==
  ASSUME TypeOK, OneTeamKey, NEW t \in Teams, NEW u \in Users, Tvk(u, t) # NoKey
  PROVE  Tvk(u, t) = FirstKey(t)
<1>1. CASE tvkCache[u][t] # NoKey
  BY <1>1 DEF Tvk, OneTeamKey
<1>2. CASE tvkCache[u][t] = NoKey
  <2>1. row[t][u] \notin {NoRow, NoBlob}
    BY <1>2 DEF Tvk, Open
  <2>2. row[t][u] = Wrap(FirstKey(t), MK(u))
    BY <2>1 DEF OneTeamKey
  <2>. QED
    BY <1>2, <2>1, <2>2 DEF Tvk, Open, Wrap
<1>. QED
  BY <1>1, <1>2

\* What a step may write: a row of its own user, and a first key in memory.
LEMMA KeptByWrites ==
  ASSUME TypeOK, OneTeamKey,
         \A t \in Teams, u \in Users :
           /\ row'[t][u] \in {row[t][u], NoRow, NoBlob, Wrap(FirstKey(t), MK(u))}
           /\ tvkCache'[u][t] \in {tvkCache[u][t], NoKey, FirstKey(t)}
  PROVE  OneTeamKey'
<1> SUFFICES ASSUME NEW t \in Teams, NEW u \in Users
             PROVE  /\ row'[t][u] \notin {NoRow, NoBlob} => row'[t][u] = Wrap(FirstKey(t), MK(u))
                    /\ tvkCache'[u][t] # NoKey => tvkCache'[u][t] = FirstKey(t)
  BY DEF OneTeamKey, FirstKey, Wrap, MK
<1>1. /\ row[t][u] \notin {NoRow, NoBlob} => row[t][u] = Wrap(FirstKey(t), MK(u))
      /\ tvkCache[u][t] # NoKey => tvkCache[u][t] = FirstKey(t)
  BY DEF OneTeamKey
<1>. QED
  BY <1>1

\* A wrapped key stored in one row.
LEMMA StoredOne ==
  ASSUME TypeOK, NEW s \in Teams, NEW v \in Users, row' = Stored(s, v, Wrap(FirstKey(s), MK(v)))
  PROVE  \A t \in Teams, u \in Users : row'[t][u] \in {row[t][u], Wrap(FirstKey(t), MK(u))}
<1>1. row \in [Teams -> [Users -> Blob \cup {NoRow, NoBlob}]]
  BY DEF TypeOK
<1>. QED
  BY <1>1 DEF Stored

LEMMA StepOneKey ==
  ASSUME MemberTypes, TypeOK, OneTeamKey, [TeamsNext]_tvars
  PROVE  OneTeamKey'
<1> USE DEF keyVars, vars
<1> DEFINE Rows == \A t \in Teams, u \in Users :
                     row'[t][u] \in {row[t][u], NoRow, NoBlob, Wrap(FirstKey(t), MK(u))}
           Caches == \A t \in Teams, u \in Users :
                       tvkCache'[u][t] \in {tvkCache[u][t], NoKey, FirstKey(t)}
<1>0. /\ row \in [Teams -> [Users -> Blob \cup {NoRow, NoBlob}]]
      /\ tvkCache \in [Users -> [Teams -> Key \cup {NoKey}]]
  BY DEF TypeOK
<1>1. CASE UNCHANGED <<row, tvkCache>>
  BY <1>1 DEF OneTeamKey
<1>2. ASSUME NEW t \in Teams, NEW u \in Users, InsertRow(t, u) \/ DeleteRow(t, u)
      PROVE  Rows /\ Caches
  BY <1>0, <1>2 DEF InsertRow, DeleteRow
<1>3. ASSUME NEW t \in Teams, NEW u \in Users, GetTvk(u, t)
      PROVE  Rows /\ Caches
  BY <1>0, <1>3, TvkIsFirst DEF GetTvk
<1>4. CASE CreateTeamKey
  <2>1. coro.team \in Teams /\ coro.user \in Users
    BY <1>4, CoroutineTypes DEF CreateTeamKey
  <2>2. CASE CreateTvk(coro.team, coro.user)
    <3>1. Fresh(coro.team) = FirstKey(coro.team)
      BY <2>2 DEF CreateTvk, Fresh, FirstKey
    <3>2. Rows
      BY <2>1, <2>2, <3>1, StoredOne DEF CreateTvk
    <3>3. Caches
      BY <1>0, <2>1, <2>2, <3>1 DEF CreateTvk
    <3>. QED
      BY <3>2, <3>3, KeptByWrites
  <2>. QED
    BY <1>1, <1>4, <2>2 DEF CreateTeamKey
<1>5. CASE ValidateWrap
  <2>1. /\ coro.team \in Teams /\ coro.user \in Users /\ coro.target \in Users
        /\ AddMember(coro.team, coro.target, coro.user)
    BY <1>5, CoroutineTypes DEF ValidateWrap
  <2>2. Tvk(coro.user, coro.team) = FirstKey(coro.team)
    BY <2>1, TvkIsFirst DEF AddMember
  <2>3. Rows
    BY <2>1, <2>2, StoredOne DEF AddMember
  <2>4. Caches
    BY <1>0, <2>1, <2>2 DEF AddMember
  <2>. QED
    BY <2>3, <2>4, KeptByWrites
<1>6. CASE ValidateKey \/ ValidateWrapRaises
  <2>1. coro.team \in Teams /\ coro.user \in Users
    BY <1>6, CoroutineTypes DEF ValidateKey, ValidateWrapRaises
  <2>. QED
    BY <1>1, <1>3, <1>6, <2>1, KeptByWrites DEF ValidateKey, ValidateWrapRaises
<1>7. CASE ValidateAdmit
  <2>1. coro.team \in Teams /\ coro.target \in Users
    BY <1>7, CoroutineTypes DEF ValidateAdmit, WriteLocked
  <2>. QED
    BY <1>1, <1>2, <1>7, <2>1, KeptByWrites DEF ValidateAdmit
<1>8. ASSUME NEW u \in Users, RemoveCommit(u)
      PROVE  OneTeamKey'
  <2>1. thread[u].team \in Teams /\ thread[u].target \in Users
    BY <1>8, ThreadTypes DEF RemoveCommit
  <2>. QED
    BY <1>1, <1>2, <1>8, <2>1, KeptByWrites DEF RemoveCommit, Deleted
<1>9. ASSUME NEW t \in Teams, NEW u \in Users, CreateTeam(t, u)
      PROVE  OneTeamKey'
  BY <1>2, <1>9, KeptByWrites DEF CreateTeam
<1>10. CASE Session
  <2>1. Rows /\ Caches
    BY <1>0, <1>10 DEF Session, Unlock, Logout, ExpireMasterKey, ExpireTvk
  <2>. QED
    BY <2>1, KeptByWrites
<1>11. CASE RestartAll
  <2>1. Rows /\ Caches
    BY <1>0, <1>11 DEF RestartAll, Restart
  <2>. QED
    BY <2>1, KeptByWrites
<1>12. CASE Governance
  <2>1. ASSUME NEW t \in Teams, NEW u \in Users, NEW target \in Users,
               RequestJoin(t, u) \/ ValidateCheck(t, u, target)
        PROVE  OneTeamKey'
    BY <1>1, <2>1 DEF RequestJoin, ValidateCheck
  <2>2. CASE CreateTeamFollow \/ ValidateRecord
    BY <1>1, <2>2 DEF CreateTeamFollow, ValidateRecord
  <2>. QED
    BY <1>4, <1>5, <1>6, <1>7, <1>9, <1>12, <2>1, <2>2 DEF Governance
<1>13. CASE Pool
  <2>1. CASE ~ \E u \in Users : RemoveCommit(u)
    BY <1>1, <1>13, <2>1 DEF Pool, FollowCheck, FollowInsert, Unfollow, RemoveCheck
  <2>. QED
    BY <1>8, <2>1
<1>14. CASE UNCHANGED tvars
  BY <1>1, <1>14 DEF tvars
<1>. QED
  BY <1>10, <1>11, <1>12, <1>13, <1>14 DEF TeamsNext

\* A team has one key for good, for whoever joins, leaves and comes back.
THEOREM TeamsKeepTheirKey == TeamsSpec => []OneTeamKey
<1>1. TeamsInit => OneTeamKey
  <2>1. ASSUME TeamsInit, NEW t \in Teams, NEW u \in Users
        PROVE  row[t][u] = NoRow /\ tvkCache[u][t] = NoKey
    BY <2>1 DEF TeamsInit, Init
  <2>. QED
    BY <2>1 DEF OneTeamKey
<1>2. MInv /\ TypeOK /\ OneTeamKey /\ [TeamsNext]_tvars => OneTeamKey'
  BY StepOneKey DEF MInv
<1>. QED
  BY TeamsInvariance, <1>1, <1>2, PTL DEF TeamsSpec

=============================================================================
