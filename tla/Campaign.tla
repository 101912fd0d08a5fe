------------------------------ MODULE Campaign ------------------------------
(***************************************************************************)
(* One red-team campaign: redteam/campaign_api.py, the findings table of   *)
(* redteam/database.py and the round loop of redteam/ai_scanner.py.        *)
(*                                                                         *)
(* The scan runs in a daemon thread (`pc'); start, stop and delete are     *)
(* coroutines without an await on the event loop (`coro').  Both sides     *)
(* write the same row, one commit at a time.  The findings refer to the    *)
(* row by a foreign key that SQLite enforces: once the row is deleted an   *)
(* INSERT of a finding or of a log raises, an UPDATE of the row does       *)
(* nothing.                                                                *)
(***************************************************************************)
EXTENDS Naturals, FiniteSets

CONSTANTS
  Titles, Sites,   \* titles of findings, pairs (endpoint, method)
  Checks,          \* checks of the deterministic scanner (14 in the code)
  Profiles,        \* pairs of rounds a user may choose, <<explore, analyse>>
  Prompts,         \* analysis prompts written in the code (5)
  DryLimit,        \* rounds without a new finding before giving up (5)
  Global, Skipped, NoRow, Nobody

ASSUME CampaignParameters ==
  /\ Checks \in Nat /\ Profiles \subseteq (Nat \ {0}) \X (Nat \ {0})
  /\ Prompts \in Nat /\ DryLimit \in Nat \ {0}
ASSUME CampaignSentinels ==
  /\ Global \notin Sites /\ Skipped \notin Titles
  /\ \A t \in Titles : Skipped # <<" ", t>>
  /\ NoRow \notin {"pending", "running", "stopped", "completed", "failed"}
  /\ Nobody \notin {"stopped", "completed", "failed"}

Status == {"pending", "running", "stopped", "completed", "failed"}
Verdict == {"stopped", "completed", "failed"}

\* A row of pentest_findings: `ai' stands for the prefix "[AI] " of the title.
Finding == [title : Titles \cup {Skipped}, site : Sites \cup {Global}, ai : BOOLEAN]

VARIABLES
  profile,  \* the rounds chosen for this scan
  row,      \* status of the row of pentest_campaigns, or NoRow
  findings, \* rows of pentest_findings
  links,    \* <<f, d>>: linked_finding_id of f is d
  flag,     \* _stop_flags
  running,  \* the campaign is in _running_scans
  coro,     \* the coroutine between two of its steps: "none", "launch", "stop"
  pc,       \* the step of the scan thread
  verdict,  \* what the thread will publish in its "done" event
  told,     \* what it published, or Nobody
  idx,      \* checks done
  unsaved,  \* findings of the checks that no add_finding has stored yet
  explored, analysed, \* rounds done: explore_idx, analyze_idx
  reported, \* ai_findings is not empty
  news,     \* ai_findings and findings_ref are not prev_total_findings together
  dry,      \* dry_rounds
  aborted   \* _aborted

store  == <<row, findings, links>>
loop   == <<explored, analysed, reported, news, dry, aborted>>
local  == <<verdict, idx, unsaved, loop>>
cvars  == <<profile, store, flag, running, coro, pc, told, local>>

Phase1 == {"begin", "check", "progress", "scan", "phase1", "stop1", "save", "stop2"}
Asking == {"round", "retry", "analysis", "again", "sweep"}
Phase2 == Asking \cup {"phase2", "head", "beat", "nudge", "report", "tally", "beatA", "nudgeA",
                       "reportA", "reportS", "wrap", "skip", "complete"}
Steps  == Phase1 \cup Phase2 \cup {"none", "failed", "tell", "cleanup", "over"}

\* The values of the thread's variables before it starts.
FreshThread ==
  /\ verdict' = "failed" /\ idx' = 0 /\ unsaved' = {}
  /\ explored' = 0 /\ analysed' = 0 /\ reported' = FALSE
  /\ news' = FALSE /\ dry' = 0 /\ aborted' = FALSE

\* A campaign is scanned once: api_start_scan has just inserted its row.
CampaignInit ==
  /\ profile \in Profiles
  /\ row = "pending" /\ findings = {} /\ links = {}
  /\ flag = FALSE /\ running = FALSE /\ coro = "launch"
  /\ pc = "none" /\ told = Nobody
  /\ verdict = "failed" /\ idx = 0 /\ unsaved = {}
  /\ explored = 0 /\ analysed = 0 /\ reported = FALSE
  /\ news = FALSE /\ dry = 0 /\ aborted = FALSE

-----------------------------------------------------------------------------
(* The tables.                                                             *)

\* update_campaign_status: an UPDATE, without effect when the row is gone.
SetStatus(s) == row' = IF row = NoRow THEN NoRow ELSE s

\* What add_finding compares with the titles of the scanner: the title cut
\* after four of the five characters of "[AI] ", with a leading space.
BaseTitle(f) == <<" ", f.title>>

Deterministic == {d \in findings : ~d.ai}

\* The finding an [AI] finding is linked to: same title and place, else same
\* place, else same title.  Several may qualify within one second.
Matches(f) ==
  LET SameTitle == {d \in Deterministic : d.title = BaseTitle(f)}
      SamePlace == {d \in Deterministic : d.site = f.site}
  IN IF SameTitle \cap SamePlace # {} THEN SameTitle \cap SamePlace
     ELSE IF f.site # Global /\ SamePlace # {} THEN SamePlace
     ELSE SameTitle

\* Slip, for LinksComplete: a finding reported twice is linked twice.
AddFindingRelinked(f) ==
  /\ row # NoRow
  /\ findings' = findings \cup {f}
  /\ IF f.ai /\ Matches(f) # {}
     THEN \E d \in Matches(f) : links' = links \cup {<<f, d>>}
     ELSE UNCHANGED links

\* add_finding: one row per title and place.
AddFinding(f) ==
  /\ row # NoRow
  /\ findings' = findings \cup {f}
  /\ IF f \notin findings /\ f.ai /\ Matches(f) # {}
     THEN \E d \in Matches(f) : links' = links \cup {<<f, d>>}
     ELSE UNCHANGED links

Unlinked == {f \in findings : f.ai /\ Matches(f) # {} /\ ~\E d \in findings : <<f, d>> \in links}

\* repair_duplicate_findings, when the process starts.
RepairDuplicates ==
  \E d \in [Unlinked -> findings] :
    /\ \A f \in Unlinked : d[f] \in Matches(f)
    /\ links' = links \cup {<<f, d[f]>> : f \in Unlinked}

-----------------------------------------------------------------------------
(* The event loop.                                                         *)

\* The rest of api_start_scan.
Launch ==
  /\ coro = "launch"
  /\ SetStatus("running")
  /\ flag' = FALSE /\ running' = TRUE /\ coro' = "none" /\ pc' = "begin"
  /\ UNCHANGED <<profile, findings, links, told, local>>

\* api_stop_scan: the row it reads, then what it writes.
StopCheck ==
  /\ coro = "none" /\ row # NoRow
  /\ running \/ row = "running"
  /\ coro' = "stop"
  /\ UNCHANGED <<profile, store, flag, running, pc, told, local>>

StopWrite ==
  /\ coro = "stop"
  /\ flag' = TRUE /\ SetStatus("stopped") /\ coro' = "none"
  /\ UNCHANGED <<profile, findings, links, running, pc, told, local>>

\* api_delete_campaign: logs, findings and row in one transaction.
DeleteCampaign ==
  /\ coro = "none" /\ row # NoRow
  /\ row' = NoRow /\ findings' = {} /\ links' = {}
  /\ UNCHANGED <<profile, flag, running, coro, pc, told, local>>

\* The process stops; the tables remain, and are repaired on the way up.
Restart ==
  /\ flag' = FALSE /\ running' = FALSE /\ coro' = "none" /\ pc' = "none"
  /\ FreshThread /\ RepairDuplicates
  /\ UNCHANGED <<profile, row, findings, told>>

-----------------------------------------------------------------------------
(* The scan thread, phase 1: Scanner.run_all, then its findings are saved. *)

Goto(from, to) == pc = from /\ pc' = to
EventLoopIdle == UNCHANGED <<profile, flag, running, coro>>

\* Building the scanner may raise.
Begin ==
  /\ \/ Goto("begin", "check")
     \/ Goto("begin", "failed")
  /\ EventLoopIdle /\ UNCHANGED <<store, told, local>>

\* The head of the loop over the checks.
NextCheck ==
  /\ Goto("check", IF flag \/ idx = Checks THEN "phase1" ELSE "progress")
  /\ EventLoopIdle /\ UNCHANGED <<store, told, local>>

\* progress_cb writes "running" whatever stop wrote meanwhile.
CheckProgress ==
  /\ Goto("progress", "scan")
  /\ SetStatus("running")
  /\ EventLoopIdle /\ UNCHANGED <<findings, links, told, local>>

\* A check finds nothing or something (a check that raises finds its error).
RunCheck ==
  /\ Goto("scan", "check")
  /\ \/ UNCHANGED unsaved
     \/ \E t \in Titles, s \in Sites \cup {Global} :
          unsaved' = unsaved \cup {[title |-> t, site |-> s, ai |-> FALSE]}
  /\ idx' = idx + 1
  /\ EventLoopIdle /\ UNCHANGED <<store, told, verdict, loop>>

\* The progress reported at the end of run_all, stopped or not.
EndOfChecks ==
  /\ Goto("phase1", "stop1")
  /\ SetStatus("running")
  /\ EventLoopIdle /\ UNCHANGED <<findings, links, told, local>>

\* Slip, for StopEndsPhase1: the flag is no longer looked at.
StopTestBlind(from, to) ==
  /\ Goto(from, to)
  /\ EventLoopIdle /\ UNCHANGED <<store, told, local>>

\* is_stopped() before the findings are saved, and again after.
StopTest(from, to) ==
  /\ Goto(from, IF flag THEN "tell" ELSE to)
  /\ IF flag
     THEN SetStatus("stopped") /\ verdict' = "stopped"
     ELSE UNCHANGED <<row, verdict>>
  /\ EventLoopIdle /\ UNCHANGED <<findings, links, told, idx, unsaved, loop>>

\* One add_finding; it raises when the campaign was deleted.
SaveFinding ==
  /\ pc = "save" /\ unsaved # {}
  /\ \/ /\ pc' = "save"
        /\ \E f \in unsaved : AddFinding(f) /\ unsaved' = unsaved \ {f}
     \/ /\ row = NoRow
        /\ pc' = "failed"
        /\ UNCHANGED <<findings, links, unsaved>>
  /\ EventLoopIdle /\ UNCHANGED <<row, told, verdict, idx, loop>>

Saved ==
  /\ Goto("save", "stop2") /\ unsaved = {}
  /\ SetStatus("running")
  /\ EventLoopIdle /\ UNCHANGED <<findings, links, told, local>>

-----------------------------------------------------------------------------
(* Phase 2: AIScanner.run.  Every exception that leaves it is caught, and   *)
(* stored as a finding.                                                     *)

ExploreRounds == profile[1]
AnalysisRounds == profile[2]

\* explore_per_analyze, and the end of the batch that `explored' is in.
Batch == IF ExploreRounds \div AnalysisRounds = 0 THEN 1 ELSE ExploreRounds \div AnalysisRounds
\* Slip, for CampaignTypeOK: the last batch is not cut short.
BatchEndOver(e) == (e \div Batch + 1) * Batch
BatchEnd(e) == IF (e \div Batch + 1) * Batch <= ExploreRounds
               THEN (e \div Batch + 1) * Batch ELSE ExploreRounds

\* The first log of phase 2 raises if the campaign was deleted; a missing
\* provider raises in the constructor.
StartPhase2 ==
  /\ \/ row = NoRow /\ Goto("phase2", "failed") /\ UNCHANGED news
     \/ row # NoRow /\ Goto("phase2", "skip") /\ UNCHANGED news
     \/ row # NoRow /\ Goto("phase2", "head") /\ news' = (findings # {})
  /\ EventLoopIdle
  /\ UNCHANGED <<store, told, verdict, idx, unsaved, explored, analysed, reported, dry, aborted>>

RoundsLeft == explored < ExploreRounds \/ analysed < AnalysisRounds

NextRound ==
  /\ Goto("head", IF dry >= DryLimit \/ ~RoundsLeft THEN "sweep"
                  ELSE IF explored < ExploreRounds THEN "beat" ELSE "tally")
  /\ EventLoopIdle /\ UNCHANGED <<store, told, local>>

\* Slip, for AbortedIsQuiet: the flag is noticed and the round is asked anyway.
HeedStopLate(from, broken, to) ==
  /\ Goto(from, to)
  /\ aborted' = (aborted \/ flag)
  /\ EventLoopIdle
  /\ UNCHANGED <<store, told, verdict, idx, unsaved, explored, analysed, reported, news, dry>>

\* _beat() and the break that follows it; broken out of a batch, the whole
\* batch counts as explored.
HeedStop(from, broken, to) ==
  /\ Goto(from, IF flag THEN broken ELSE to)
  /\ aborted' = (aborted \/ flag)
  /\ explored' = IF flag /\ broken = "tally" THEN BatchEnd(explored) ELSE explored
  /\ EventLoopIdle
  /\ UNCHANGED <<store, told, verdict, idx, unsaved, analysed, reported, news, dry>>

\* The model reports a finding through ai_on_finding, or none.  The count
\* goes up first: add_finding raises when the campaign was deleted.
Reports ==
  \/ UNCHANGED <<findings, links, reported, news>>
  \/ /\ \E t \in Titles, s \in Sites \cup {Global} :
          AddFinding([title |-> t, site |-> s, ai |-> TRUE])
     /\ reported' = TRUE /\ news' = TRUE
ReportRaises ==
  /\ row = NoRow
  /\ reported' = TRUE /\ news' = TRUE
  /\ UNCHANGED <<findings, links>>

\* A request to a model whose exceptions are swallowed.
AskSafely(from, to) ==
  /\ Goto(from, to)
  /\ Reports \/ ReportRaises
  /\ EventLoopIdle
  /\ UNCHANGED <<row, told, verdict, idx, unsaved, explored, analysed, dry, aborted>>

AfterRound(e) == IF e < BatchEnd(e - 1) THEN "beat" ELSE "tally"

\* Slip, for ScanEnds: a round whose model fails does not count.
ExploreStuck ==
  /\ \/ Goto("round", "report") /\ Reports
     \/ Goto("round", "beat") /\ UNCHANGED <<findings, links, reported, news>>
  /\ EventLoopIdle
  /\ UNCHANGED <<row, told, verdict, idx, unsaved, explored, analysed, dry, aborted>>

\* An exploration round: tools are called; a finding cannot be stored; no
\* tool is called, and the model is asked again; or the model fails.
Explore ==
  /\ \/ Goto("round", "report") /\ Reports /\ UNCHANGED explored
     \/ Goto("round", "skip") /\ ReportRaises /\ UNCHANGED explored
     \/ Goto("round", "nudge") /\ UNCHANGED <<findings, links, reported, news, explored>>
     \/ /\ Goto("round", AfterRound(explored + 1))
        /\ explored' = explored + 1
        /\ UNCHANGED <<findings, links, reported, news>>
  /\ EventLoopIdle
  /\ UNCHANGED <<row, told, verdict, idx, unsaved, analysed, dry, aborted>>

ReportProgress ==
  /\ Goto("report", AfterRound(explored + 1))
  /\ explored' = explored + 1
  /\ SetStatus("running")
  /\ EventLoopIdle
  /\ UNCHANGED <<findings, links, told, verdict, idx, unsaved, analysed, reported, news, dry,
                 aborted>>

\* dry_rounds counts the comparisons in a row that found nothing new.
CountDry ==
  /\ dry' = IF news THEN 0 ELSE dry + 1
  /\ news' = FALSE

\* After a batch: an analysis round, for which there may be no prompt left.
Tally ==
  /\ Goto("tally", IF analysed >= AnalysisRounds THEN "head"
                   ELSE IF analysed >= Prompts THEN "skip" ELSE "beatA")
  /\ CountDry
  /\ EventLoopIdle
  /\ UNCHANGED <<store, told, verdict, idx, unsaved, explored, analysed, reported, aborted>>

\* An analysis round without a tool call is asked again.
NoToolCalled ==
  /\ Goto("analysis", "nudgeA")
  /\ EventLoopIdle /\ UNCHANGED <<store, told, local>>

ReportAnalysis ==
  /\ Goto("reportA", "head")
  /\ SetStatus("running")
  /\ analysed' = analysed + 1
  /\ CountDry
  /\ EventLoopIdle
  /\ UNCHANGED <<findings, links, told, verdict, idx, unsaved, explored, reported, aborted>>

\* The final sweep is asked unless a stop was noticed.
Sweep ==
  /\ \/ ~aborted /\ AskSafely("sweep", "reportS")
     \/ /\ aborted /\ Goto("sweep", "reportS")
        /\ EventLoopIdle /\ UNCHANGED <<store, told, local>>

ReportSweep ==
  /\ Goto("reportS", "wrap")
  /\ SetStatus("running")
  /\ EventLoopIdle /\ UNCHANGED <<findings, links, told, local>>

\* The last log and, when the model reported nothing, a finding that says so;
\* or the log and the finding of the except clause.  Either raises when the
\* campaign was deleted.
Note(from) ==
  /\ \/ /\ Goto(from, "complete")
        /\ row # NoRow
        /\ IF from = "skip" \/ ~reported
           THEN AddFinding([title |-> Skipped, site |-> Global, ai |-> FALSE])
           ELSE UNCHANGED <<findings, links>>
     \/ Goto(from, "failed") /\ row = NoRow /\ UNCHANGED <<findings, links>>
  /\ EventLoopIdle /\ UNCHANGED <<row, told, local>>

-----------------------------------------------------------------------------
(* The end of the thread: the row first, the event after it.               *)

\* Slip, for ToldIsStored and SettledWhenOver: the row keeps its status.
EndSilently(s) == verdict' = s /\ pc' = "tell" /\ UNCHANGED row

\* The row is updated, then "done" is published.
End(s) == verdict' = s /\ pc' = "tell" /\ SetStatus(s)

Complete ==
  /\ pc = "complete" /\ End("completed")
  /\ EventLoopIdle /\ UNCHANGED <<findings, links, told, idx, unsaved, loop>>

\* 900 s after its start the coroutine is cancelled where it awaits requests.
Timeout ==
  /\ pc \in Asking /\ End("completed")
  /\ pc = "sweep" => ~aborted
  /\ EventLoopIdle /\ UNCHANGED <<findings, links, told, idx, unsaved, loop>>

Fail ==
  /\ pc = "failed" /\ End("failed")
  /\ EventLoopIdle /\ UNCHANGED <<findings, links, told, idx, unsaved, loop>>

Tell ==
  /\ Goto("tell", "cleanup")
  /\ told' = verdict /\ running' = FALSE
  /\ UNCHANGED <<profile, store, flag, coro, local>>

Cleanup ==
  /\ Goto("cleanup", "over")
  /\ EventLoopIdle /\ UNCHANGED <<store, told, local>>

Thread ==
  \/ Begin \/ NextCheck \/ CheckProgress \/ RunCheck \/ EndOfChecks
  \/ StopTest("stop1", "save") \/ SaveFinding \/ Saved \/ StopTest("stop2", "phase2")
  \/ StartPhase2 \/ NextRound
  \/ HeedStop("beat", "tally", "round") \/ Explore
  \/ HeedStop("nudge", "tally", "retry") \/ AskSafely("retry", "report") \/ ReportProgress
  \/ Tally
  \/ HeedStop("beatA", "sweep", "analysis") \/ AskSafely("analysis", "reportA") \/ NoToolCalled
  \/ HeedStop("nudgeA", "sweep", "again") \/ AskSafely("again", "reportA") \/ ReportAnalysis
  \/ Sweep \/ ReportSweep \/ Note("wrap") \/ Note("skip")
  \/ Complete \/ Timeout \/ Fail \/ Tell \/ Cleanup

CampaignNext ==
  \/ Launch \/ StopCheck \/ StopWrite \/ DeleteCampaign \/ Restart
  \/ Thread

\* The thread is never blocked for ever: its requests have timeouts.
CampaignSpec == CampaignInit /\ [][CampaignNext]_cvars /\ WF_cvars(Thread)

-----------------------------------------------------------------------------

CampaignTypeOK ==
  /\ profile \in Profiles
  /\ row \in Status \cup {NoRow}
  /\ findings \subseteq Finding /\ links \subseteq findings \X findings
  /\ unsaved \subseteq Finding
  /\ flag \in BOOLEAN /\ running \in BOOLEAN /\ aborted \in BOOLEAN
  /\ coro \in {"none", "launch", "stop"} /\ pc \in Steps
  /\ verdict \in Verdict /\ told \in Verdict \cup {Nobody}
  /\ idx \in 0..Checks /\ explored \in 0..ExploreRounds /\ analysed \in 0..AnalysisRounds
  /\ reported \in BOOLEAN /\ news \in BOOLEAN /\ dry \in 0..DryLimit + 1

\* Once the thread has ended no order of its writes and those of stop leaves
\* the campaign running: the page that polls the row stops polling.
SettledWhenOver == pc = "over" => row \in Verdict \cup {NoRow}

\* What the "done" event says is what the row says, unless a stop that read
\* the row before then wrote over it.
ToldIsStored == told # Nobody /\ row # NoRow => row \in {told, "stopped"}

\* A stop requested before the findings of phase 1 are saved is never lost:
\* the scan is not reported complete, and no model is asked.
StopEndsPhase1 == [](flag /\ pc \in Phase1 => [](pc \notin Phase2 /\ told # "completed"))

\* Once the thread noticed a stop, no model adds a finding any more.
AbortedIsQuiet == [][aborted => {f \in findings' : f.ai} \subseteq findings]_cvars

\* Each [AI] finding is linked to at most one finding, of the scanner, and to
\* one if there is one at its place: repair_duplicate_findings has nothing to do.
LinksComplete ==
  /\ \A p \in links : p[1].ai /\ ~p[2].ai
  /\ \A p, q \in links : p[1] = q[1] => p = q
  /\ Unlinked = {}

\* The scan ends: in whatever state, the thread reaches its end.
ScanEnds == pc = "begin" ~> pc \in {"over", "none"}

\* The row of a campaign, its findings and their links agree with what the thread did and told,
\* through stops, deletions and restarts.
FindingsSound ==
  /\ CampaignTypeOK
  /\ SettledWhenOver
  /\ ToldIsStored
  /\ LinksComplete

\* A scan ends, and with the verdict a stop asked for.
CampaignEnds ==
  /\ StopEndsPhase1
  /\ ScanEnds
=============================================================================
