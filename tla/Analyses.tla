------------------------------ MODULE Analyses ------------------------------
(***************************************************************************)
(* The long tasks of the blue team, the purple team and the sandbox they   *)
(* leave to the red team and Ely.  They share the process and no state:    *)
(* task says which of them a behaviour contains.                           *)
(***************************************************************************)
EXTENDS BlueTeam, RepoScans, SharedSandbox
CONSTANT Tasks   \* a subset of {"blue", "purple", "sandbox"}

VARIABLE task

nvars == <<bvars, pvars, xvars, task>>

AnalysesInit ==
  /\ task \in Tasks
  /\ BlueInit
  /\ ScansInit
  /\ SandboxInit
  /\ task # "purple" => layout = CHOOSE l \in Layouts : TRUE

Blue == task = "blue" /\ UNCHANGED <<pvars, xvars, task>>
Purple == task = "purple" /\ UNCHANGED <<bvars, xvars, task>>
Shared == task = "sandbox" /\ UNCHANGED <<bvars, pvars, task>>

AnalysesNext ==
  \/ CreateProfile /\ Blue
  \/ \E j \in Jobs : ImportFromPentest(j) /\ Blue
  \/ \E j \in Jobs : StartAnalysis(j) /\ Blue
  \/ \E j \in Jobs : BlueStep(j) /\ Blue
  \/ StopAnalysis /\ Blue
  \/ DeleteProfile /\ Blue
  \/ BlueRestart /\ Blue
  \/ \E s \in Scans : StartScan(s) /\ Purple
  \/ \E s \in Scans : ScanStep(s) /\ Purple
  \/ \E f \in Profiles : StopScan(f) /\ Purple
  \/ \E s \in Scans : DeleteScan(s) /\ Purple
  \/ \E p \in Paths, valid \in BOOLEAN : UploadRepo(p, valid) /\ Purple
  \/ ScansRestart /\ Purple
  \/ \E u \in Users : Wake(u) /\ Shared
  \/ \E u \in Users : SandboxStep(u) /\ Shared
  \/ Shutdown /\ Shared
  \/ Killed /\ Shared

\* The system runs the threads of the process.  The calls they wait for have time limits, but for the
\* start and the removal of a container (sandbox/manager.py): that these end is assumed of Docker.
AnalysesFairness ==
  /\ \A j \in Jobs : WF_nvars(BlueStep(j) /\ Blue)
  /\ \A s \in Scans : WF_nvars(ScanStep(s) /\ Purple)

AnalysesSpec == AnalysesInit /\ [][AnalysesNext]_nvars /\ AnalysesFairness

\* The long tasks keep their rows, reports, threads and directories in agreement.
AnalysesSound ==
  /\ BlueSound
  /\ ClonesSound

\* What was started ends, and its row says so.
TasksEnd ==
  /\ AnalysesEnd
  /\ ScansEnd
=============================================================================
