----------------------------- MODULE FolderTree -----------------------------
(***************************************************************************)
(* Folders and saved requests, of a user or of a team.  Nothing checks     *)
(* that the parent of a folder or the folder of a request exists; a        *)
(* deletion collects the identifiers below a folder with one query after   *)
(* another and then deletes, of all these, the rows of its own user.  The  *)
(* tree a user is shown is built from what is left.                        *)
(***************************************************************************)
EXTENDS Naturals, FiniteSets, FiniteSetsExt
CONSTANTS Members,    \* users, all of one team
          Follows,    \* those of them that follow it
          MaxFolders, MaxRequests,   \* rows ever made
          MaxDeletions,              \* deletions of folders
          None
ASSUME TreeAssumption ==
  /\ {MaxFolders, MaxRequests, MaxDeletions} \subseteq Nat
  /\ Follows \subseteq Members
  /\ None \notin Members \union Nat

FolderIds == 1..MaxFolders
RequestIds == 1..MaxRequests

VARIABLES
  folders,   \* [FolderIds -> a row, or None]
  saved,     \* [RequestIds -> a row, or None]
  used,      \* how many were made: identifiers are never given twice
  deletion,  \* [Members -> the deletion a user has asked for, or None]
  chance     \* folders that were left under a parent for a reason
fvars == <<folders, saved, used, deletion, chance>>

FolderRow == [parent : FolderIds \union {None}, author : Members, team : BOOLEAN]
SavedRow == [folder : FolderIds \union {None}, author : Members, team : BOOLEAN]
\* The folders a deletion has still to look below, and all those it found.
Deletion == [ask : SUBSET FolderIds, ids : SUBSET FolderIds]
ASSUME NoneAssumption == None \notin FolderRow \union SavedRow \union Deletion
Exists(f) == f # None /\ folders[f] # None
Given == 1..used.folders
Ids(table) == {x \in DOMAIN table : table[x] # None}

TreeInit ==
  /\ folders = [f \in FolderIds |-> None]
  /\ saved = [r \in RequestIds |-> None]
  /\ used = [folders |-> 0, saved |-> 0, deletions |-> 0]
  /\ deletion = [u \in Members |-> None]
  /\ chance = {}

\* create_folder: with the parent and the team the client names.
CreateFolder(u, f, parent, team) ==
  /\ f = used.folders + 1
  /\ parent = None \/ parent \in Given
  /\ folders' = [folders EXCEPT ![f] = [parent |-> parent, author |-> u, team |-> team]]
  /\ used' = [used EXCEPT !.folders = f]
  /\ chance' = IF \/ parent # None /\ ~Exists(parent)
                  \/ \E v \in Members : deletion[v] # None
               THEN chance \union {f} ELSE chance
  /\ UNCHANGED <<saved, deletion>>

\* api_create_request: a request without a team takes that of its folder, whoever it belongs to.
CreateRequest(u, r, folder, team) ==
  /\ r = used.saved + 1
  /\ folder = None \/ folder \in Given
  /\ saved' = [saved EXCEPT ![r] =
       [folder |-> folder, author |-> u, team |-> team \/ (Exists(folder) /\ folders[folder].team)]]
  /\ used' = [used EXCEPT !.saved = r]
  /\ UNCHANGED <<folders, deletion, chance>>

\* update_saved_request: a request moves to another folder and keeps its team.
MoveRequest(u, r, folder) ==
  /\ saved[r] # None /\ saved[r].author = u
  /\ folder \in Given
  /\ saved' = [saved EXCEPT ![r].folder = folder]
  /\ UNCHANGED <<folders, used, deletion, chance>>

DeleteRequest(u, r) ==
  /\ saved[r] # None /\ saved[r].author = u
  /\ saved' = [saved EXCEPT ![r] = None]
  /\ UNCHANGED <<folders, used, deletion, chance>>

\* delete_folder: the folder comes first, whoever it belongs to.
DeleteFolder(u, f) ==
  /\ deletion[u] = None
  /\ f \in Given
  /\ deletion' = [deletion EXCEPT ![u] = [ask |-> {f}, ids |-> {f}]]
  /\ used.deletions < MaxDeletions
  /\ used' = [used EXCEPT !.deletions = @ + 1]
  /\ UNCHANGED <<folders, saved, chance>>

\* Slip, for OrphansExplained: only the children of the folder itself are collected.
CollectOnce(u, f) ==
  /\ deletion[u] # None
  /\ f \in deletion[u].ask
  /\ LET children == {x \in Ids(folders) : folders[x].parent = f}
     IN  deletion' = [deletion EXCEPT ![u] = [ask |-> @.ask \ {f}, ids |-> @.ids \union children]]
  /\ UNCHANGED <<folders, saved, used, chance>>

\* One query of _get_all_child_folder_ids.
Collect(u, f) ==
  /\ deletion[u] # None
  /\ f \in deletion[u].ask
  /\ LET children == {x \in Ids(folders) : folders[x].parent = f}
     IN  deletion' = [deletion EXCEPT ![u] =
           [ask |-> (@.ask \ {f}) \union children, ids |-> @.ids \union children]]
  /\ UNCHANGED <<folders, saved, used, chance>>

\* Slip, for DeletionKeepsToItself: whose rows they are is forgotten.
DeletesAll(u, row) == TRUE

\* The rows a deletion of u takes.
Deletes(u, row) == row # None /\ row.author = u

\* The DELETE statements and the commit, one transaction.
EraseCollected(u) ==
  /\ deletion[u] # None
  /\ deletion[u].ask = {}
  /\ LET ids == deletion[u].ids
         stay == {x \in Ids(folders) :
                    /\ folders[x].parent \in ids
                    /\ folders[x].author # u /\ Deletes(u, folders[folders[x].parent])}
     IN  /\ saved' = [r \in RequestIds |->
                        IF saved[r] # None /\ saved[r].folder \in ids /\ Deletes(u, saved[r])
                        THEN None ELSE saved[r]]
         /\ folders' = [f \in FolderIds |->
                          IF f \in ids /\ Deletes(u, folders[f]) THEN None ELSE folders[f]]
         /\ chance' = chance \union stay
  /\ deletion' = [deletion EXCEPT ![u] = None]
  /\ UNCHANGED used

TreeStep(u) ==
  \/ \E f \in FolderIds, parent \in FolderIds \union {None}, team \in BOOLEAN :
       CreateFolder(u, f, parent, team)
  \/ \E r \in RequestIds, folder \in FolderIds \union {None}, team \in BOOLEAN :
       CreateRequest(u, r, folder, team)
  \/ \E r \in RequestIds, folder \in FolderIds : MoveRequest(u, r, folder)
  \/ \E r \in RequestIds : DeleteRequest(u, r)
  \/ \E f \in FolderIds : DeleteFolder(u, f)
  \/ \E f \in FolderIds : Collect(u, f)
  \/ EraseCollected(u)

---------------------------------------------------------------------------
(* get_collection_tree.  A tree is a bag of items, each under its parent   *)
(* or under the root, None.                                                *)

\* The lists of folders and requests hold what a user has made and what his followed team has, each
\* row once: the seen_ sets keep out what is there.
Listed(u, author, team, inTeamFolder) == author = u \/ (u \in Follows /\ (team \/ inTeamFolder))
FolderMap(u) == {f \in Ids(folders) : Listed(u, folders[f].author, folders[f].team, FALSE)}
SavedList(u) ==
  {r \in Ids(saved) : Listed(u, saved[r].author, saved[r].team,
                              Exists(saved[r].folder) /\ folders[saved[r].folder].team)}

\* Slip, for NothingHidden: an item whose parent is not in the map is dropped with it.
UnderHidden(u, parent) == parent

\* Where an item is put.
Under(u, parent) == IF parent \in FolderMap(u) THEN parent ELSE None

FoldersUnder(u, place) == {f \in FolderMap(u) : Under(u, folders[f].parent) = place}
\* The folders that are reached from the root by opening one level after another.
Reached(u) ==
  LET level[n \in 0..Cardinality(FolderIds)] ==
        IF n = 0 THEN {None} ELSE level[n - 1] \union UNION {FoldersUnder(u, p) : p \in level[n - 1]}
  IN  level[Cardinality(FolderIds)]

---------------------------------------------------------------------------
TreeTypeOK ==
  /\ folders \in [FolderIds -> FolderRow \union {None}]
  /\ saved \in [RequestIds -> SavedRow \union {None}]
  /\ used \in [folders : 0..MaxFolders, saved : 0..MaxRequests,
               deletions : 0..MaxDeletions]
  /\ deletion \in [Members -> Deletion \union {None}]
  /\ \A u \in Members : deletion[u] # None => deletion[u].ask \subseteq deletion[u].ids
  /\ chance \subseteq FolderIds

\* Every row a user may see can be reached from the root of his tree, whatever was deleted above it
\* and whoever owned it.
NothingHidden ==
  \A u \in Members :
    /\ FolderMap(u) \subseteq Reached(u)
    /\ \A r \in SavedList(u) : Under(u, saved[r].folder) \in Reached(u)

\* A folder that outlives its parent does so for a reason: it came while a deletion was under way or
\* under a parent that was already gone, or it is of another user than the one who deleted the parent.
OrphansExplained ==
  \A f \in Ids(folders) : folders[f].parent # None /\ ~Exists(folders[f].parent) => f \in chance

\* A deletion takes rows of its user only, in the folders it collected.
DeletionKeepsToItself ==
  [][\A u \in Members : deletion[u] # None /\ deletion'[u] = None =>
       /\ \A f \in FolderIds : folders'[f] # folders[f] =>
            folders[f].author = u /\ f \in deletion[u].ids
       /\ \A r \in RequestIds : saved'[r] # saved[r] =>
            saved[r].author = u /\ saved[r].folder \in deletion[u].ids]_fvars

\* What the page shows of a tree is what there is of it, through moves, sharing and deletions that
\* interleave.
TreeSound ==
  /\ TreeTypeOK
  /\ NothingHidden
  /\ OrphansExplained
=============================================================================
