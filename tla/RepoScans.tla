----------------------------- MODULE RepoScans ------------------------------
(***************************************************************************)
(* The scans of one user of the purple team.  Each is a thread that puts   *)
(* the sources into a directory named after the repository, reads them in  *)
(* several phases, and removes the directory.  Profiles, branches and old  *)
(* scans of repositories of one name meet in one directory; nothing locks  *)
(* it.  A clone weighs one unit, and what it leaves is known by its scan.  *)
(***************************************************************************)
EXTENDS Naturals, FiniteSets, FiniteSetsExt
CONSTANTS Scans,
          Profiles,
          Paths,
          Quota,      \* MAX_STORAGE_PER_USER, in clones
          Layouts,    \* the worlds a behaviour may start in, see layout
          User        \* marks the sources that are the user's own
ASSUME ScansAssumption ==
  /\ IsFiniteSet(Scans) /\ IsFiniteSet(Paths) /\ User \notin Scans /\ Quota \in Nat
  /\ \A l \in Layouts : /\ l.profile \in [Scans -> Profiles]
                        /\ l.path \in [Profiles -> Paths]
                        /\ l.own \subseteq Profiles
                        /\ l.home \subseteq Paths
                        /\ l.archives \subseteq Paths
                        /\ l.target \subseteq Profiles
                        /\ \A f \in Profiles \ l.own : l.path[f] \notin l.home

VARIABLES
  layout,    \* profile of each scan, directory of each profile; own: of source "local";
             \* home: directories of the user that exist; archives: what may be uploaded;
             \* crashes: it may be restarted; target: an endpoint is set, and the depth has the dynamic phases
  running,   \* the profiles in _running
  srow,      \* [Scans -> the status of its row]
  srepo,     \* the scans whose row names their directory
  found,     \* [Scans -> whose sources its stored findings are about]
  spc,       \* [Scans -> where its thread is]
  held,      \* the scans whose local variable repo_path is set
  disk,      \* [Paths -> whose sources the directory holds, {} when there is none]
  rows,      \* [Paths -> the rows of purpleteam_repos for it]
  uploaded,  \* the paths an archive was uploaded to
  met,       \* scans whose directory another thread or a deletion met
  crowd,     \* the most threads there ever were
  crashed,   \* the process was restarted
  cut        \* the scans whose clone a time limit cut short
pvars == <<layout, running, srow, srepo, found, spc, held, disk, rows, uploaded, met, crowd, crashed, cut>>

Where(s) == layout.path[layout.profile[s]]
IsOwn(s) == layout.profile[s] \in layout.own
Sources(s) == IF IsOwn(s) THEN {User} ELSE {s}
Alive == {s \in Scans : spc[s] \notin {"unborn", "over"}}
RowStatuses == {"pending", "completed", "failed"}
Usage == MapThenSumSet(LAMBDA p : rows[p], Paths)
AtWork == {"static", "dynamic", "late", "total"}
Places == {"unborn", "begun", "clear", "clone", "finalize", "admitted", "registered", "detect",
           "raised", "settled", "purge", "unlist", "over"} \union AtWork
Crowded == Max({crowd, Cardinality(Alive) + 1})
Go(s, place) == spc' = [spc EXCEPT ![s] = place]

ScansInit ==
  /\ layout \in Layouts
  /\ running = {}
  /\ srow = [s \in Scans |-> "none"]
  /\ srepo = {}
  /\ found = [s \in Scans |-> {}]
  /\ spc = [s \in Scans |-> "unborn"]
  /\ held = {}
  /\ disk = [p \in Paths |-> IF p \in layout.home THEN {User} ELSE {}]
  /\ rows = [p \in Paths |-> 0]
  /\ uploaded = {}
  /\ met = {}
  /\ crowd = 0
  /\ crashed = FALSE
  /\ cut = {}

\* The check, the row and the thread: the handler holds the event loop, and no thread of another
\* scan reads what it writes in between.
StartScan(s) ==
  /\ spc[s] = "unborn"
  /\ layout.profile[s] \notin running
  /\ srow' = [srow EXCEPT ![s] = "pending"]
  /\ running' = running \union {layout.profile[s]}
  /\ Go(s, "begun")
  /\ LET neighbours == {t \in Alive : Where(t) = Where(s)}
     IN met' = IF neighbours = {} THEN met ELSE met \union neighbours \union {s}
  /\ crowd' = Crowded
  /\ UNCHANGED <<layout, srepo, found, held, disk, rows, uploaded, crashed, cut>>

\* A local repository is scanned where it is; another is cloned.
Begin(s) ==
  /\ spc[s] = "begun"
  /\ IF IsOwn(s)
     THEN /\ held' = held \union {s}
          /\ Go(s, IF disk[Where(s)] = {} THEN "raised" ELSE "detect")
     ELSE Go(s, "clear") /\ UNCHANGED held
  /\ UNCHANGED <<layout, running, srow, srepo, found, disk, rows, uploaded, met, crowd, crashed, cut>>

\* Slip, for UndisturbedScans: the clone goes beside what is there.
ClearNothing(s) ==
  /\ spc[s] = "clear"
  /\ Go(s, "clone")
  /\ UNCHANGED <<layout, running, srow, srepo, found, held, disk, rows, uploaded, met, crowd, crashed, cut>>

\* clone_repo: what is in the directory goes, whoever put it there.
Clear(s) ==
  /\ spc[s] = "clear"
  /\ disk' = [disk EXCEPT ![Where(s)] = {}]
  /\ Go(s, "clone")
  /\ UNCHANGED <<layout, running, srow, srepo, found, held, rows, uploaded, met, crowd, crashed, cut>>

\* git refuses a directory that is not empty, docker cp copies into it.
CloneDirect(s) ==
  /\ spc[s] = "clone"
  /\ disk[Where(s)] = {}
  /\ disk' = [disk EXCEPT ![Where(s)] = {s}]
  /\ Go(s, "finalize")
  /\ UNCHANGED <<layout, running, srow, srepo, found, held, rows, uploaded, met, crowd, crashed, cut>>

CloneViaSandbox(s) ==
  /\ spc[s] = "clone"
  /\ disk' = [disk EXCEPT ![Where(s)] = @ \union {s}]
  /\ Go(s, "finalize")
  /\ UNCHANGED <<layout, running, srow, srepo, found, held, rows, uploaded, met, crowd, crashed, cut>>

\* git is refused, or a time limit ends git or docker cp over what it wrote: repo_path is not set
\* yet, and nothing removes it.
CloneFails(s, partial) ==
  /\ spc[s] = "clone"
  /\ IF partial
     THEN disk' = [disk EXCEPT ![Where(s)] = @ \union {s}] /\ cut' = cut \union {s}
     ELSE UNCHANGED <<disk, cut>>
  /\ Go(s, "raised")
  /\ UNCHANGED <<layout, running, srow, srepo, found, held, rows, uploaded, met, crowd, crashed>>

\* Slip, for OvershootBounded: the size of the new clone is not counted.
CheckUsage(s) ==
  /\ spc[s] = "finalize"
  /\ IF disk[Where(s)] = {}
     THEN Go(s, "raised") /\ UNCHANGED disk
     ELSE IF Usage > Quota
          THEN disk' = [disk EXCEPT ![Where(s)] = {}] /\ Go(s, "raised")
          ELSE Go(s, "admitted") /\ UNCHANGED disk
  /\ UNCHANGED <<layout, running, srow, srepo, found, held, rows, uploaded, met, crowd, crashed, cut>>

\* _finalize_clone: the sum of the rows is read here and a row added in the next step.
CheckQuota(s) ==
  /\ spc[s] = "finalize"
  /\ IF disk[Where(s)] = {}
     THEN Go(s, "raised") /\ UNCHANGED disk
     ELSE IF Usage + 1 > Quota
          THEN disk' = [disk EXCEPT ![Where(s)] = {}] /\ Go(s, "raised")
          ELSE Go(s, "admitted") /\ UNCHANGED disk
  /\ UNCHANGED <<layout, running, srow, srepo, found, held, rows, uploaded, met, crowd, crashed, cut>>

RegisterRepo(s) ==
  /\ spc[s] = "admitted"
  /\ rows' = [rows EXCEPT ![Where(s)] = @ + 1]
  /\ held' = held \union {s}
  /\ Go(s, "registered")
  /\ UNCHANGED <<layout, running, srow, srepo, found, disk, uploaded, met, crowd, crashed, cut>>

\* update_scan(repo_path): nothing when the scan was deleted.
RecordPath(s) ==
  /\ spc[s] = "registered"
  /\ srepo' = IF srow[s] \in RowStatuses THEN srepo \union {s} ELSE srepo
  /\ Go(s, "detect")
  /\ UNCHANGED <<layout, running, srow, found, held, disk, rows, uploaded, met, crowd, crashed, cut>>

\* detect_language lists the directory: the one phase that notices it is gone.
Detect(s) ==
  /\ spc[s] = "detect"
  /\ Go(s, IF disk[Where(s)] = {} THEN "raised" ELSE "static")
  /\ UNCHANGED <<layout, running, srow, srepo, found, held, disk, rows, uploaded, met, crowd, crashed, cut>>

\* add_finding: the foreign key refuses the finding of a deleted scan.
Stored(s, hit) == IF hit /\ srow[s] \in RowStatuses THEN [found EXCEPT ![s] = @ \union disk[Where(s)]] ELSE found
Refused(s, hit) == hit /\ srow[s] \notin RowStatuses

Static(s, hit) ==
  /\ spc[s] = "static"
  /\ hit => disk[Where(s)] # {}
  /\ found' = Stored(s, hit)
  /\ Go(s, IF Refused(s, hit) THEN "raised" ELSE "dynamic")
  /\ UNCHANGED <<layout, running, srow, srepo, held, disk, rows, uploaded, met, crowd, crashed, cut>>

\* The probes talk to the endpoint, not to the directory, and are not in a try block of their own.
Dynamic(s, fails) ==
  /\ spc[s] = "dynamic"
  /\ fails => layout.profile[s] \in layout.target
  /\ Go(s, IF fails THEN "raised" ELSE "late")
  /\ UNCHANGED <<layout, running, srow, srepo, found, held, disk, rows, uploaded, met, crowd, crashed, cut>>

\* Taint tracking and the model: their errors are logged and dropped.
Late(s, hit) ==
  /\ spc[s] = "late"
  /\ hit => disk[Where(s)] # {}
  /\ found' = Stored(s, hit)
  /\ Go(s, "total")
  /\ UNCHANGED <<layout, running, srow, srepo, held, disk, rows, uploaded, met, crowd, crashed, cut>>

\* The sum names openapi_count, which only the dynamic phases set: without them it raises.
Total(s) ==
  /\ spc[s] = "total"
  /\ IF layout.profile[s] \in layout.target
     THEN /\ srow' = [srow EXCEPT ![s] = IF @ \in RowStatuses THEN "completed" ELSE @]
          /\ Go(s, "settled")
     ELSE Go(s, "raised") /\ UNCHANGED srow
  /\ UNCHANGED <<layout, running, srepo, found, held, disk, rows, uploaded, met, crowd, crashed, cut>>

\* Slip, for ScansEnd: the error is logged and the row left.
FailSilently(s) ==
  /\ spc[s] = "raised"
  /\ Go(s, "settled")
  /\ UNCHANGED <<layout, running, srow, srepo, found, held, disk, rows, uploaded, met, crowd, crashed, cut>>

Fail(s) ==
  /\ spc[s] = "raised"
  /\ srow' = [srow EXCEPT ![s] = IF @ \in RowStatuses THEN "failed" ELSE @]
  /\ Go(s, "settled")
  /\ UNCHANGED <<layout, running, srepo, found, held, disk, rows, uploaded, met, crowd, crashed, cut>>

\* The finally clause: the profile is free before the directory is removed, and the rows of the
\* directory are deleted after it.
Release(s) ==
  /\ spc[s] = "settled"
  /\ running' = running \ {layout.profile[s]}
  /\ Go(s, IF s \in held THEN "purge" ELSE "over")
  /\ UNCHANGED <<layout, srow, srepo, found, held, disk, rows, uploaded, met, crowd, crashed, cut>>

Purge(s) ==
  /\ spc[s] = "purge"
  /\ disk' = [disk EXCEPT ![Where(s)] = {}]
  /\ Go(s, IF disk[Where(s)] = {} THEN "over" ELSE "unlist")
  /\ UNCHANGED <<layout, running, srow, srepo, found, held, rows, uploaded, met, crowd, crashed, cut>>

\* Slip, for NothingLeftBehind: the row of the clone stays and counts against the quota.
UnlistNothing(s) ==
  /\ spc[s] = "unlist"
  /\ Go(s, "over")
  /\ UNCHANGED <<layout, running, srow, srepo, found, held, disk, rows, uploaded, met, crowd, crashed, cut>>

Unlist(s) ==
  /\ spc[s] = "unlist"
  /\ rows' = [rows EXCEPT ![Where(s)] = 0]
  /\ Go(s, "over")
  /\ UNCHANGED <<layout, running, srow, srepo, found, held, disk, uploaded, met, crowd, crashed, cut>>

\* A stop frees the profile; the thread goes on.
StopScan(f) ==
  /\ f \in running
  /\ running' = running \ {f}
  /\ UNCHANGED <<layout, srow, srepo, found, spc, held, disk, rows, uploaded, met, crowd, crashed, cut>>

\* A deletion purges the directory its row names, even that of a scan long over.
DeleteScan(s) ==
  /\ srow[s] \in RowStatuses
  /\ srow' = [srow EXCEPT ![s] = "deleted"]
  /\ found' = [found EXCEPT ![s] = {}]
  /\ srepo' = srepo \ {s}
  /\ IF s \in srepo
     THEN /\ disk' = [disk EXCEPT ![Where(s)] = {}]
          /\ rows' = [rows EXCEPT ![Where(s)] = 0]
          /\ met' = met \union {t \in Alive : Where(t) = Where(s)}
     ELSE UNCHANGED <<disk, rows, met>>
  /\ UNCHANGED <<layout, running, spc, held, uploaded, crowd, crashed, cut>>

\* store_uploaded_zip: the directory is emptied before the archive is known to be one, or to fit.
UploadRepo(p, valid) ==
  /\ p \in layout.archives \ uploaded
  /\ uploaded' = uploaded \union {p}
  /\ crowd' = Crowded
  /\ met' = met \union {t \in Alive : Where(t) = p}
  /\ IF valid /\ Usage + 1 <= Quota
     THEN /\ disk' = [disk EXCEPT ![p] = {User}]
          /\ rows' = [rows EXCEPT ![p] = @ + 1]
     ELSE disk' = [disk EXCEPT ![p] = {}] /\ UNCHANGED rows
  /\ UNCHANGED <<layout, running, srow, srepo, found, spc, held, crashed, cut>>

\* The threads end with the process: what they put on the disk and in the tables stays.
ScansRestart ==
  /\ layout.crashes /\ ~crashed
  /\ crashed' = TRUE
  /\ running' = {}
  /\ spc' = [s \in Scans |-> IF s \in Alive THEN "over" ELSE spc[s]]
  /\ UNCHANGED <<layout, srow, srepo, found, held, disk, rows, uploaded, met, crowd, cut>>

ScanStep(s) ==
  \/ Begin(s)
  \/ Clear(s)
  \/ CloneDirect(s)
  \/ CloneViaSandbox(s)
  \/ \E partial \in BOOLEAN : CloneFails(s, partial)
  \/ CheckQuota(s)
  \/ RegisterRepo(s)
  \/ RecordPath(s)
  \/ Detect(s)
  \/ \E hit \in BOOLEAN : Static(s, hit)
  \/ \E fails \in BOOLEAN : Dynamic(s, fails)
  \/ \E hit \in BOOLEAN : Late(s, hit)
  \/ Total(s)
  \/ Fail(s)
  \/ Release(s)
  \/ Purge(s)
  \/ Unlist(s)

---------------------------------------------------------------------------
ScansTypeOK ==
  /\ layout \in Layouts
  /\ running \subseteq Profiles
  /\ srow \in [Scans -> RowStatuses \union {"none", "deleted"}]
  /\ srepo \subseteq Scans /\ held \subseteq Scans /\ uploaded \subseteq Paths /\ met \subseteq Scans
  /\ found \in [Scans -> SUBSET (Scans \union {User})]
  /\ spc \in [Scans -> Places]
  /\ disk \in [Paths -> SUBSET (Scans \union {User})]
  /\ rows \in [Paths -> 0..Cardinality(Scans) + 1]
  /\ crowd \in 0..Cardinality(Scans) + 1
  /\ crashed \in BOOLEAN
  /\ cut \subseteq Scans

\* A scan of a clone nobody met in its directory reads that clone and no other in every phase, and stores
\* findings about nothing else, even when a crash left the clone of an earlier scan there.
UndisturbedScans ==
  \A s \in {t \in Scans \ met : ~IsOwn(t)} :
    /\ spc[s] \in AtWork => disk[Where(s)] = Sources(s)
    /\ found[s] \subseteq Sources(s)

\* Threads that check the quota together may all pass, and no more than that: the rows exceed it by
\* at most the threads and the upload that ran beside the last one, and hold it whatever crashes leave when scans
\* follow each other.
OvershootBounded == crowd > 0 => Usage <= Quota + crowd - 1

\* A clone leaves the disk and the table with its scan on every path through it, but for what a time limit
\* cut short: that has no row, and stays on the disk until a scan of the same name clears it.
\* Otherwise only a restart, a meeting in one directory or an upload to it leaves anything behind.
NothingLeftBehind ==
  (~crashed /\ met = {} /\ Alive = {}) =>
    \A s \in Scans : IsOwn(s) \/ Where(s) \in uploaded \/ (disk[Where(s)] \subseteq cut /\ rows[Where(s)] = 0)

\* A started scan ends, and its row leaves the status it was created with.
ScansEnd == \A s \in Scans : (spc[s] = "begun") ~> (spc[s] = "over" /\ (crashed \/ srow[s] # "pending"))

\* Scans of one or two profiles find their own clones, and leave the disk and the limit as they should.
ClonesSound ==
  /\ ScansTypeOK
  /\ UndisturbedScans
  /\ OvershootBounded
  /\ NothingLeftBehind
=============================================================================
