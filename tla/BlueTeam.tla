------------------------------ MODULE BlueTeam ------------------------------
(***************************************************************************)
(* One profile of the blue team and the analyses started on it.  A handler *)
(* holds the event loop from its first line to its answer, an analysis is  *)
(* a thread beside it: the row of the profile and the set _running are all *)
(* they share, and neither names a thread.  The texts of the report and of *)
(* the progress are left out.                                              *)
(***************************************************************************)
EXTENDS Naturals, FiniteSets
CONSTANTS Jobs,       \* the analyses that may be started
          Rounds,     \* the times an analysis tells its progress
          MaxStops,   \* bounds the stops
          NoJob
ASSUME BlueAssumption == IsFiniteSet(Jobs) /\ NoJob \notin Jobs /\ Rounds \in Nat /\ MaxStops \in Nat

VARIABLES
  brow,      \* the status of the row of the profile
  brunning,  \* the profile is in _running
  breports,  \* its rows in blueteam_reports
  bpc,       \* [Jobs -> where the thread of a job is]
  bleft,     \* [Jobs -> the rounds it has left]
  bhandler,  \* the job whose handler holds the event loop
  bstops,    \* the stops so far
  bcrashed   \* the process was restarted
bvars == <<brow, brunning, breports, bpc, bleft, bhandler, bstops, bcrashed>>

BStatuses == {"pending", "running", "stopped", "completed", "failed"}
BAlive(j) == bpc[j] \notin {"unborn", "over"}

BlueInit ==
  /\ brow = "unborn"
  /\ brunning = FALSE
  /\ breports = 0
  /\ bpc = [j \in Jobs |-> "unborn"]
  /\ bleft = [j \in Jobs |-> Rounds]
  /\ bhandler = NoJob
  /\ bstops = 0
  /\ bcrashed = FALSE

\* update_profile: an UPDATE that finds no row changes nothing.
BUpdated(status) == IF brow \in BStatuses THEN status ELSE brow

CreateProfile ==
  /\ bhandler = NoJob
  /\ brow = "unborn"
  /\ brow' = "pending"
  /\ UNCHANGED <<brunning, breports, bpc, bleft, bhandler, bstops, bcrashed>>

\* An import creates the profile and starts its analysis in the same handler.
ImportFromPentest(j) ==
  /\ bhandler = NoJob
  /\ brow = "unborn"
  /\ bpc[j] = "unborn"
  /\ brow' = "running"
  /\ bhandler' = j
  /\ UNCHANGED <<brunning, breports, bpc, bleft, bstops, bcrashed>>

\* The first half of analyze: the check, the status, the specification.
StartAnalysis(j) ==
  /\ bhandler = NoJob
  /\ brow \in BStatuses
  /\ ~brunning
  /\ bpc[j] = "unborn"
  /\ brow' = "running"
  /\ bhandler' = j
  /\ UNCHANGED <<brunning, breports, bpc, bleft, bstops, bcrashed>>

\* Slip, for OneMorePerStop: the analysis is not put into _running.
LaunchUnmarked(j) ==
  /\ bhandler = j
  /\ bpc' = [bpc EXCEPT ![j] = "analysing"]
  /\ bhandler' = NoJob
  /\ UNCHANGED <<brow, brunning, breports, bleft, bstops, bcrashed>>

\* The second half: threads that run beside the handler may have moved since.
Launch(j) ==
  /\ bhandler = j
  /\ brunning' = TRUE
  /\ bpc' = [bpc EXCEPT ![j] = "analysing"]
  /\ bhandler' = NoJob
  /\ UNCHANGED <<brow, breports, bleft, bstops, bcrashed>>

\* A round of SSDLCAnalyzer.run: what the model answers, or that it fails to, does not end it.
Progress(j) ==
  /\ bpc[j] = "analysing"
  /\ bleft[j] > 0
  /\ brow' = BUpdated("running")
  /\ bleft' = [bleft EXCEPT ![j] = @ - 1]
  /\ UNCHANGED <<brunning, breports, bpc, bhandler, bstops, bcrashed>>

\* The analyser raises: no provider, a database that is locked.
AnalyserRaises(j) ==
  /\ bpc[j] = "analysing"
  /\ bpc' = [bpc EXCEPT ![j] = "raised"]
  /\ UNCHANGED <<brow, brunning, breports, bleft, bhandler, bstops, bcrashed>>

\* Slip, for BlueTypeOK: the report is written again with every round.
CreateReportAgain(j) ==
  /\ bpc[j] = "analysing"
  /\ brow \in BStatuses
  /\ breports' = breports + 1
  /\ UNCHANGED <<brow, brunning, bpc, bleft, bhandler, bstops, bcrashed>>

\* create_report: the foreign key refuses the report of a deleted profile.
CreateReport(j) ==
  /\ bpc[j] = "analysing"
  /\ bleft[j] = 0
  /\ IF brow \in BStatuses
     THEN /\ breports' = breports + 1
          /\ bpc' = [bpc EXCEPT ![j] = "saved"]
     ELSE /\ bpc' = [bpc EXCEPT ![j] = "raised"]
          /\ UNCHANGED breports
  /\ UNCHANGED <<brow, brunning, bleft, bhandler, bstops, bcrashed>>

\* Slip, for CompletedHasReport: an error is told as a success.
SettleCompleted(j) ==
  /\ bpc[j] \in {"saved", "raised"}
  /\ brow' = BUpdated("completed")
  /\ bpc' = [bpc EXCEPT ![j] = "settled"]
  /\ UNCHANGED <<brunning, breports, bleft, bhandler, bstops, bcrashed>>

\* Slip, for SettledWhenIdle: an error leaves the row as it is.
SettleSilently(j) ==
  /\ bpc[j] \in {"saved", "raised"}
  /\ brow' = IF bpc[j] = "saved" THEN BUpdated("completed") ELSE brow
  /\ bpc' = [bpc EXCEPT ![j] = "settled"]
  /\ UNCHANGED <<brunning, breports, bleft, bhandler, bstops, bcrashed>>

SettleAnalysis(j) ==
  /\ bpc[j] \in {"saved", "raised"}
  /\ brow' = BUpdated(IF bpc[j] = "saved" THEN "completed" ELSE "failed")
  /\ bpc' = [bpc EXCEPT ![j] = "settled"]
  /\ UNCHANGED <<brunning, breports, bleft, bhandler, bstops, bcrashed>>

\* Slip, for AnalysesEnd: remove in the place of discard raises when a stop was there first.
EndMarked(j) ==
  /\ bpc[j] = "settled"
  /\ brunning
  /\ brunning' = FALSE
  /\ bpc' = [bpc EXCEPT ![j] = "over"]
  /\ UNCHANGED <<brow, breports, bleft, bhandler, bstops, bcrashed>>

\* The finally clause discards the profile, whichever thread put it there.
EndAnalysis(j) ==
  /\ bpc[j] = "settled"
  /\ brunning' = FALSE
  /\ bpc' = [bpc EXCEPT ![j] = "over"]
  /\ UNCHANGED <<brow, breports, bleft, bhandler, bstops, bcrashed>>

\* A stop forgets the analysis and tells nothing to its thread.
StopAnalysis ==
  /\ bhandler = NoJob
  /\ bstops < MaxStops
  /\ brow \in BStatuses
  /\ brow' = "stopped"
  /\ brunning' = FALSE
  /\ bstops' = bstops + 1
  /\ UNCHANGED <<breports, bpc, bleft, bhandler, bcrashed>>

DeleteProfile ==
  /\ bhandler = NoJob
  /\ brow \in BStatuses
  /\ brow' = "deleted"
  /\ breports' = 0
  /\ UNCHANGED <<brunning, bpc, bleft, bhandler, bstops, bcrashed>>

\* The threads are daemons: they end with the process, and _running with them.
BlueRestart ==
  /\ ~bcrashed
  /\ bcrashed' = TRUE
  /\ brunning' = FALSE
  /\ bhandler' = NoJob
  /\ bpc' = [j \in Jobs |-> IF BAlive(j) \/ bhandler = j THEN "over" ELSE bpc[j]]
  /\ UNCHANGED <<brow, breports, bleft, bstops>>

BlueStep(j) ==
  \/ Launch(j)
  \/ Progress(j)
  \/ AnalyserRaises(j)
  \/ CreateReport(j)
  \/ SettleAnalysis(j)
  \/ EndAnalysis(j)

---------------------------------------------------------------------------
BlueTypeOK ==
  /\ brow \in BStatuses \union {"unborn", "deleted"}
  /\ brunning \in BOOLEAN
  /\ breports \in 0..Cardinality(Jobs)
  /\ bpc \in [Jobs -> {"unborn", "analysing", "saved", "raised", "settled", "over"}]
  /\ bleft \in [Jobs -> 0..Rounds]
  /\ bhandler \in Jobs \union {NoJob}
  /\ bstops \in 0..MaxStops
  /\ bcrashed \in BOOLEAN

\* The set _running is there to keep two analyses of a profile apart, and a stop defeats it: the
\* stopped thread goes on, and its end takes the mark of the next one with it.  However they fall,
\* there is never more than one thread for each stop beside the one that may run (api.py, analyze).
OneMorePerStop == Cardinality({j \in Jobs : BAlive(j)}) <= 1 + bstops

\* A row that says completed has a report, whatever threads, stops and deletions came between.
CompletedHasReport == brow = "completed" => breports > 0

\* When the last thread is gone and no handler is starting one, the row does not say running, though
\* every round of every thread wrote it; only a restart leaves it so.
SettledWhenIdle ==
  (~bcrashed /\ bhandler = NoJob /\ \A j \in Jobs : ~BAlive(j)) => brow # "running"

\* Every analysis that was started ends, and a stop or a deletion changes nothing to that.
AnalysesEnd == \A j \in Jobs : (bhandler = j) ~> (bpc[j] = "over")

\* The row, the reports and the threads of a blue team profile agree, through stops, deletions and
\* restarts.
BlueSound ==
  /\ BlueTypeOK
  /\ OneMorePerStop
  /\ CompletedHasReport
  /\ SettledWhenIdle
=============================================================================
