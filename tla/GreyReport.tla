----------------------------- MODULE GreyReport -----------------------------
(***************************************************************************)
(* A report of the grey team: greyteam/api.py and greyteam/database.py,    *)
(* with the event stream of its scan (ScanEvents).                         *)
(*                                                                         *)
(* POST /reports inserts the row and starts the thread of the scan: it     *)
(* collects findings, saves them one by one, has an AI refine them, and    *)
(* publishes every step.  Meanwhile the user reads the stream, deletes     *)
(* findings, or deletes the report.  (Stopping a scan does nothing.)       *)
(*                                                                         *)
(* Findings are counted by source; a progress, refine or chain event is    *)
(* only an event.                                                          *)
(***************************************************************************)
EXTENDS ScanEvents

CONSTANTS
  Found,   \* at most this many findings are collected, or created by the AI
  Modules, \* events published at most when a module starts
  Rounds,  \* events published at most when the AI goes on
  NoReport,
  Rid, Now \* the identifier of the report; the time of an update

Sources == {"deterministic", "ai"}
Reports == [id : {Rid}, status : {"running", "completed", "failed"},
            counts : [Sources -> Nat], total : Nat]

ASSUME ReportParameters ==
  /\ Found \in Nat /\ Modules \in Nat /\ Rounds \in Nat
  /\ NoReport \notin Reports /\ Rid # Now
  /\ Modules + Found + 6 <= Events /\ Rounds + 4 <= Events

VARIABLES
  row,     \* the row of greyteam_reports
  stored,  \* stored[source]: rows of greyteam_findings
  thread,  \* the step of _run_scan
  left,    \* findings collected and not saved yet
  sandbox, \* the container runs
  told     \* status sent with "done"

report == <<row, stored, thread, left, sandbox, told>>
gvars == <<report, evars>>

None == [src \in Sources |-> 0]
Total(found) == found["deterministic"] + found["ai"]
More(found, source) == [found EXCEPT ![source] = @ + 1]
Less(found, source) == [found EXCEPT ![source] = @ - 1]

GreyInit ==
  /\ EventsInit
  /\ row = NoReport /\ stored = None /\ thread = "new" /\ left = 0
  /\ sandbox = FALSE /\ told = "nothing"

-----------------------------------------------------------------------------
(* Requests, each one step of the event loop.                              *)

\* The row is there before the domain of the profile is looked at.
CreateReport ==
  /\ thread = "new"
  /\ row' = [id |-> Rid, status |-> "running", counts |-> None, total |-> 0]
  /\ thread' \in {"collect", "refused"}
  /\ UNCHANGED <<stored, left, sandbox, told, evars>>

\* Slip, for GreyTypeOK: every deletion is counted as one of the AI.
DeleteFindingOfAI(source) ==
  /\ row # NoReport /\ stored[source] > 0
  /\ stored' = Less(stored, source)
  /\ row' = [row EXCEPT !.total = @ - 1, !.counts = Less(row.counts, "ai")]
  /\ UNCHANGED <<thread, left, sandbox, told, evars>>

DeleteFinding(source) ==
  /\ row # NoReport /\ stored[source] > 0
  /\ stored' = Less(stored, source)
  /\ row' = [row EXCEPT !.total = @ - 1, !.counts = Less(row.counts, source)]
  /\ UNCHANGED <<thread, left, sandbox, told, evars>>

\* Its findings first; the scan goes on.
DeleteReport ==
  /\ row # NoReport
  /\ row' = NoReport /\ stored' = None
  /\ UNCHANGED <<thread, left, sandbox, told, evars>>

\* The row was there when the stream was asked for.
OpenStream(s) ==
  /\ thread # "new"
  /\ Subscribe(s)
  /\ UNCHANGED report

-----------------------------------------------------------------------------
(* The thread.                                                             *)

\* UPDATE ... SET <field>=?, updated_at=? WHERE report_id=?, given the value,
\* the identifier and the time, in this order.
UpdateReport(status) ==
  LET value == status
      updatedAt == Rid
      reportId == Now
  IN row' = IF row # NoReport /\ row.id = reportId THEN [row EXCEPT !.status = value] ELSE row

\* _progress: the update of scan_progress reaches no row either.
Progress(from, to) ==
  /\ thread = from /\ thread' = to
  /\ Publish(FALSE)

\* Slip, for CountersAgree: the insertion does not ask for the report.
AddFindingAnyway(source, added) ==
  /\ writer.step = "idle"
  /\ stored' = More(stored, source)
  /\ row' = IF row = NoReport THEN row
            ELSE [row EXCEPT !.total = @ + 1, !.counts = More(row.counts, source)]
  /\ thread' = added
  /\ UNCHANGED evars

\* The finding and the counters of its report, in one transaction.  Without
\* the report the insertion fails, and the failure is only logged.
AddFinding(source, added) ==
  /\ writer.step = "idle"
  /\ IF row = NoReport
     THEN UNCHANGED <<stored, row, thread>>
     ELSE /\ stored' = More(stored, source)
          /\ row' = [row EXCEPT !.total = @ + 1, !.counts = More(row.counts, source)]
          /\ thread' = added
  /\ UNCHANGED evars

\* One module of the OSINT scanner; its exceptions become findings.
CollectModule ==
  /\ count < Modules
  /\ Progress("collect", "collect")
  /\ UNCHANGED <<row, stored, left, sandbox, told>>

EndCollection ==
  /\ Progress("collect", "save")
  /\ left' \in 0..Found
  /\ UNCHANGED <<row, stored, sandbox, told>>

SaveFinding ==
  /\ thread = "save" /\ left > 0
  /\ AddFinding("deterministic", "saved")
  /\ left' = left - 1
  /\ UNCHANGED <<sandbox, told>>

PublishFinding ==
  /\ Progress("saved", "save") \/ Progress("created", "refine")
  /\ UNCHANGED <<row, stored, left, sandbox, told>>

EndSaving ==
  /\ left = 0
  /\ Progress("save", "spawn")
  /\ UNCHANGED <<row, stored, left, sandbox, told>>

\* Without Docker the refiner does without.
SpawnSandbox ==
  /\ writer.step = "idle"
  /\ thread = "spawn" /\ thread' = "fetch"
  /\ sandbox' \in BOOLEAN
  /\ UNCHANGED <<row, stored, left, told, evars>>

\* The refiner has nothing to do for no findings.
FetchFindings ==
  /\ thread = "fetch" /\ thread' = IF Total(stored) = 0 THEN "refined" ELSE "refine"
  /\ UNCHANGED <<row, stored, left, sandbox, told, evars>>

\* A finding refined, a chain, the end of a round.
Refine ==
  /\ count < Rounds
  /\ Progress("refine", "refine")
  /\ UNCHANGED <<row, stored, left, sandbox, told>>

CreateFinding ==
  /\ thread = "refine" /\ count < Rounds
  /\ AddFinding("ai", "created")
  /\ UNCHANGED <<left, sandbox, told>>

\* The summary is stored as little as the status.
EndRefining ==
  /\ writer.step = "idle"
  /\ thread = "refine" /\ thread' = "refined"
  /\ UNCHANGED <<row, stored, left, sandbox, told, evars>>

\* No provider, or the refiner failed: the scan completes.
SkipRefining ==
  /\ \E from \in {"fetch", "refine"} : Progress(from, "refined")
  /\ UNCHANGED <<row, stored, left, sandbox, told>>

LastProgress ==
  /\ Progress("refined", "complete")
  /\ UNCHANGED <<row, stored, left, sandbox, told>>

Complete ==
  /\ thread = "complete" /\ thread' = "finally"
  /\ UpdateReport("completed") /\ told' = "completed"
  /\ Publish(TRUE)
  /\ UNCHANGED <<stored, left, sandbox>>

\* A RuntimeError of the refiner, or an update that found the database locked.
Raise ==
  /\ writer.step = "idle"
  /\ thread \in {"collect", "save", "fetch", "refine", "refined", "complete"} /\ thread' = "failing"
  /\ UNCHANGED <<row, stored, left, sandbox, told, evars>>

\* Slip, for ImplementsEvents: the handler of the exception cleans up too.
FailAndCleanup ==
  /\ thread = "failing" /\ thread' = "finally"
  /\ UpdateReport("failed") /\ told' = "failed"
  /\ StartCleanup
  /\ UNCHANGED <<stored, left, sandbox>>

Fail ==
  /\ thread = "failing" /\ thread' = "finally"
  /\ UpdateReport("failed") /\ told' = "failed"
  /\ Publish(TRUE)
  /\ UNCHANGED <<stored, left, sandbox>>

\* The update that would say so raises too.
FailToFail ==
  /\ thread = "failing" /\ thread' = "finally"
  /\ UNCHANGED <<row, stored, left, sandbox, told, evars>>

\* Slip, for SandboxReleased: the sandbox of a failed scan is left.
DestroyOnSuccess ==
  /\ writer.step = "idle"
  /\ thread = "finally" /\ thread' = "cleanup"
  /\ sandbox' = (sandbox /\ told # "completed")
  /\ UNCHANGED <<row, stored, left, told, evars>>

DestroySandbox ==
  /\ writer.step = "idle"
  /\ thread = "finally" /\ thread' = "cleanup"
  /\ sandbox' = FALSE
  /\ UNCHANGED <<row, stored, left, told, evars>>

\* Slip, for StreamsOfScanEnd: only a scan that completes cleans up.
CleanupOnSuccess ==
  /\ writer.step = "idle"
  /\ thread = "cleanup" /\ thread' = "over"
  /\ IF told = "completed" THEN StartCleanup ELSE UNCHANGED evars
  /\ UNCHANGED <<row, stored, left, sandbox, told>>

CleanupEvents ==
  /\ thread = "cleanup" /\ thread' = "over"
  /\ StartCleanup
  /\ UNCHANGED <<row, stored, left, sandbox, told>>

Scan ==
  \/ CollectModule \/ EndCollection \/ SaveFinding \/ PublishFinding \/ EndSaving
  \/ SpawnSandbox \/ FetchFindings \/ Refine \/ CreateFinding \/ EndRefining \/ SkipRefining
  \/ LastProgress \/ Complete \/ Raise \/ Fail \/ FailToFail \/ DestroySandbox \/ CleanupEvents

Serving(s) == Serve(s) /\ UNCHANGED report
Writing == Write /\ UNCHANGED report
Departing(s) == (Swallow(s) \/ QuitAtReplay(s) \/ QuitInLoop(s)) /\ UNCHANGED report

GreyNext ==
  \/ CreateReport \/ DeleteReport \/ \E source \in Sources : DeleteFinding(source)
  \/ Scan \/ Writing
  \/ \E s \in Streams : OpenStream(s) \/ Serving(s) \/ Departing(s)

\* The thread and publish go on; the event loop serves every stream.  (The
\* modules, the AI and Docker are called with timeouts.)
GreySpec ==
  /\ GreyInit /\ [][GreyNext]_gvars
  /\ WF_gvars(Scan) /\ WF_gvars(Writing)
  /\ \A s \in Streams : WF_gvars(Serving(s))

-----------------------------------------------------------------------------

\* Rows, findings and steps have their types.
GreyTypeOK ==
  /\ EventsTypeOK
  /\ row \in Reports \cup {NoReport}
  /\ stored \in [Sources -> Nat] /\ left \in 0..Found /\ sandbox \in BOOLEAN
  /\ told \in {"nothing", "completed", "failed"}

\* The counters of a report agree with its findings, whatever the thread adds
\* while the user deletes; a report that was deleted has none.
CountersAgree ==
  IF row = NoReport THEN Total(stored) = 0
  ELSE row.counts = stored /\ row.total = Total(stored)

\* A thread that is over leaves no sandbox, however the scan ended.
SandboxReleased == thread = "over" => ~sandbox

\* The scan uses the broker as ScanEvents says a scan does, so that what
\* ScanEvents and Feed promise holds for its streams.
ImplementsEvents == EventsInit /\ [][EventsNext]_evars

\* Every stream of a scan that started ends, whatever happens to the scan, to
\* its report, or to the stream.
StreamsOfScanEnd ==
  \A s \in Streams : thread \notin {"new", "refused"} /\ stream[s] \in Waiting
                     ~> stream[s] \in {"ended", "gone"}

\* A report agrees with its findings, and its thread leaves nothing behind, while the user deletes
\* findings or the report.
ReportSound ==
  /\ GreyTypeOK
  /\ CountersAgree
  /\ SandboxReleased
=============================================================================
