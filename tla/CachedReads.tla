---------------------------- MODULE CachedReads -----------------------------
(***************************************************************************)
(* A row read through the TTL cache of the process: the membership of a    *)
(* user in a team, or the tree of his collections.  A reader asks the      *)
(* cache, reads the row when it has no answer, and stores what it read; a  *)
(* writer commits and then removes the entry, or knows nothing of it: the  *)
(* tree of a user is not removed when another member changes the team.     *)
(* Both run in the thread pool, and only the calls of the cache lock it.   *)
(* Time is in ticks: a handler takes at most Flight of them.               *)
(***************************************************************************)
EXTENDS Naturals, FiniteSets
CONSTANTS Readers, Writers,
          Acting,    \* the sets of writers that may be the ones that remove the entry
          Ttl, Flight, MaxTime,
          NoEntry
ASSUME CacheAssumption ==
  /\ IsFiniteSet(Readers) /\ IsFiniteSet(Writers) /\ Readers \intersect Writers = {}
  /\ \A a \in Acting : a \subseteq Writers
  /\ {Ttl, Flight, MaxTime} \subseteq Nat
  /\ NoEntry \notin [v : Nat, expires : Nat]

VARIABLES
  acting,    \* the writers that remove the entry: all of them for a membership
  now,
  version,   \* the number of commits to the row
  replaced,  \* the time at which each version ceased to be the last
  entry,     \* the cached version and the time at which it expires
  rpc,       \* [Readers -> where a reader is]
  got,       \* [Readers -> the version it has]
  began,     \* [Readers \union Writers -> the time its request came, 0 when it is not in flight]
  wpc,       \* [Writers -> where a writer is]
  acked,     \* the last version whose writer removed the entry and answered
  floor,     \* [Readers -> acked when the request came]
  lag,       \* [Readers -> for how long the version it was served had been replaced]
  late       \* versions stored after the entry had been removed for a later one
dvars == <<acting, now, version, replaced, entry, rpc, got, began, wpc, acked, floor, lag, late>>

Versions == 0..Cardinality(Writers)

CacheInit ==
  /\ acting \in Acting
  /\ now = 0
  /\ version = 0
  /\ replaced = [v \in Versions |-> 0]
  /\ entry = NoEntry
  /\ rpc = [r \in Readers |-> "idle"]
  /\ got = [r \in Readers |-> 0]
  /\ began = [x \in Readers \union Writers |-> 0]
  /\ wpc = [w \in Writers |-> "idle"]
  /\ acked = 0
  /\ floor = [r \in Readers |-> 0]
  /\ lag = [r \in Readers |-> 0]
  /\ late = {}

Request(r) ==
  /\ rpc[r] = "idle"
  /\ rpc' = [rpc EXCEPT ![r] = "ask"]
  /\ began' = [began EXCEPT ![r] = now]
  /\ floor' = [floor EXCEPT ![r] = acked]
  /\ UNCHANGED <<acting, now, version, replaced, entry, got, wpc, acked, lag, late>>

Served(r, v) ==
  /\ got' = [got EXCEPT ![r] = v]
  /\ lag' = [lag EXCEPT ![r] = IF v = version THEN 0 ELSE now - replaced[v]]
  /\ rpc' = [rpc EXCEPT ![r] = "served"]
  /\ began' = [began EXCEPT ![r] = 0]

\* Slip, for LagBounded: nobody looks at the time.
AskUnchecked(r) ==
  /\ rpc[r] = "ask"
  /\ IF entry # NoEntry
     THEN Served(r, entry.v)
     ELSE rpc' = [rpc EXCEPT ![r] = "miss"] /\ UNCHANGED <<got, lag, began>>
  /\ UNCHANGED <<acting, now, version, replaced, entry, wpc, acked, floor, late>>

\* TTLCache.get: an entry that has expired is deleted; one that is found is what the handler uses.
Ask(r) ==
  /\ rpc[r] = "ask"
  /\ IF entry # NoEntry /\ now <= entry.expires
     THEN Served(r, entry.v) /\ UNCHANGED entry
     ELSE /\ entry' = NoEntry
          /\ rpc' = [rpc EXCEPT ![r] = "miss"]
          /\ UNCHANGED <<got, lag, began>>
  /\ UNCHANGED <<acting, now, version, replaced, wpc, acked, floor, late>>

ReadRow(r) ==
  /\ rpc[r] = "miss"
  /\ got' = [got EXCEPT ![r] = version]
  /\ rpc' = [rpc EXCEPT ![r] = "read"]
  /\ UNCHANGED <<acting, now, version, replaced, entry, began, wpc, acked, floor, lag, late>>

\* TTLCache.set, and the handler goes on with what it read.
Store(r) ==
  /\ rpc[r] = "read"
  /\ entry' = [v |-> got[r], expires |-> now + Ttl]
  /\ late' = IF got[r] < acked THEN late \union {got[r]} ELSE late
  /\ Served(r, got[r])
  /\ UNCHANGED <<acting, now, version, replaced, wpc, acked, floor>>

\* A member joins, leaves or is removed; a folder or a request is created, changed or deleted.
Change(w) ==
  /\ wpc[w] = "idle"
  /\ version' = version + 1
  /\ replaced' = [replaced EXCEPT ![version] = now]
  /\ wpc' = [wpc EXCEPT ![w] = "committed"]
  /\ began' = [began EXCEPT ![w] = now]
  /\ UNCHANGED <<acting, now, entry, rpc, got, acked, floor, lag, late>>

\* Slip, for WritesSeen: the entry stays.
WithdrawForgotten(w) ==
  /\ wpc[w] = "committed"
  /\ acked' = IF w \in acting THEN version ELSE acked
  /\ wpc' = [wpc EXCEPT ![w] = "answered"]
  /\ began' = [began EXCEPT ![w] = 0]
  /\ UNCHANGED <<acting, now, version, replaced, entry, rpc, got, floor, lag, late>>

\* _invalidate_team_caches, or _invalidate_tree_cache for the user that acts.
Withdraw(w) ==
  /\ wpc[w] = "committed"
  /\ IF w \in acting
     THEN entry' = NoEntry /\ acked' = version
     ELSE UNCHANGED <<entry, acked>>
  /\ wpc' = [wpc EXCEPT ![w] = "answered"]
  /\ began' = [began EXCEPT ![w] = 0]
  /\ UNCHANGED <<acting, now, version, replaced, rpc, got, floor, lag, late>>

\* A full cache gives entries up, live ones too.
Pruned ==
  /\ entry # NoEntry
  /\ entry' = NoEntry
  /\ UNCHANGED <<acting, now, version, replaced, rpc, got, began, wpc, acked, floor, lag, late>>

InFlight == {r \in Readers : rpc[r] \in {"ask", "miss", "read"}} \union {w \in Writers : wpc[w] = "committed"}

Tick ==
  /\ now < MaxTime
  /\ \A x \in InFlight : now < began[x] + Flight
  /\ now' = now + 1
  /\ UNCHANGED <<acting, version, replaced, entry, rpc, got, began, wpc, acked, floor, lag, late>>

ReaderStep(r) ==
  \/ Request(r)
  \/ Ask(r)
  \/ ReadRow(r)
  \/ Store(r)
WriterStep(w) ==
  \/ Change(w)
  \/ Withdraw(w)

---------------------------------------------------------------------------
CacheTypeOK ==
  /\ acting \in Acting
  /\ now \in 0..MaxTime
  /\ version \in Versions /\ acked \in Versions /\ late \subseteq Versions
  /\ replaced \in [Versions -> 0..MaxTime]
  /\ entry = NoEntry \/ entry \in [v : Versions, expires : 0..(MaxTime + Ttl)]
  /\ rpc \in [Readers -> {"idle", "ask", "miss", "read", "served"}]
  /\ got \in [Readers -> Versions] /\ floor \in [Readers -> Versions]
  /\ began \in [Readers \union Writers -> 0..MaxTime]
  /\ wpc \in [Writers -> {"idle", "committed", "answered"}]
  /\ lag \in [Readers -> 0..MaxTime]

\* A decision is never taken on a version replaced longer ago than an entry lives and the handler
\* that stored it took: a removed member is refused within that time, whatever the races.
LagBounded == \A r \in Readers : lag[r] <= Ttl + Flight

\* A request that comes after a change was answered for is served that change, or a version some
\* reader had in its hands while the entry was removed and stored afterwards: there is no other way
\* to an old answer.
WritesSeen == \A r \in Readers : rpc[r] = "served" /\ got[r] < floor[r] => got[r] \in late

\* What is read through a cache is as old as the code allows and no older.
ReadsSound ==
  /\ CacheTypeOK
  /\ LagBounded
  /\ WritesSeen
=============================================================================
