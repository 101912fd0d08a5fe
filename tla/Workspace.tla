----------------------------- MODULE Workspace ------------------------------
(***************************************************************************)
(* What the pages about collections and teams rest on: the connections of  *)
(* the handlers, the cached reads, and the folders and requests.  They     *)
(* share the process and no state that the models keep: part says which of *)
(* them a behaviour contains.                                              *)
(***************************************************************************)
EXTENDS ConnectionPool, CachedReads, FolderTree
CONSTANT Parts   \* a subset of {"pool", "cache", "tree"}

VARIABLE part

wvars == <<cvars, dvars, fvars, part>>

WorkspaceInit ==
  /\ part \in Parts
  /\ PoolInit
  /\ CacheInit
  /\ TreeInit
  /\ part # "cache" => acting = Writers

Pool == part = "pool" /\ UNCHANGED <<dvars, fvars, part>>
Cache == part = "cache" /\ UNCHANGED <<cvars, fvars, part>>
Tree == part = "tree" /\ UNCHANGED <<cvars, dvars, part>>

WorkspaceNext ==
  \/ \E h \in Handlers, place \in {"open", "reading"} : GetConnection(h, place) /\ Pool
  \/ \E h \in Handlers : HandlerStep(h) /\ Pool
  \/ \E r \in Readers : ReaderStep(r) /\ Cache
  \/ \E w \in Writers : WriterStep(w) /\ Cache
  \/ Pruned /\ Cache
  \/ Tick /\ Cache
  \/ \E u \in Members : TreeStep(u) /\ Tree

\* A handler that runs goes on running: its thread is scheduled and a wait for the lock is limited.
WorkspaceFairness == \A h \in Handlers : WF_wvars(HandlerStep(h) /\ Pool)

WorkspaceSpec == WorkspaceInit /\ [][WorkspaceNext]_wvars /\ WorkspaceFairness

\* Each part keeps its types.
WorkspaceTypeOK ==
  /\ part \in Parts
  /\ PoolTypeOK
  /\ CacheTypeOK
  /\ TreeTypeOK
=============================================================================
