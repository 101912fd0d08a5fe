------------------------------ MODULE Scanners ------------------------------
(***************************************************************************)
(* The scanners without an AI: the deterministic scan of a red team        *)
(* campaign, of a purple team scan the reading of the sources, the taint   *)
(* tracker and the live tests, and the collectors of a grey team scan.     *)
(* Each runs in the thread of its scan and shares nothing with the others  *)
(* but what one hands to the next, which the inputs of each range over:    *)
(* part says which one a behaviour contains.                               *)
(***************************************************************************)
EXTENDS RedScanner, LiveTests, RepoSources, OsintScan
CONSTANT Parts   \* a subset of {"red", "live", "taint", "sources", "osint"}

VARIABLE part

wvars == <<rvars, qvars, tvars, uvars, ovars, part>>

\* What a part that does not run looks at.
NoRepo == [calls |-> <<>>, sinks |-> {}, direct |-> {}, work |-> <<>>]
NoSource == [framework |-> "generic", width |-> 4, lines |-> <<>>]

ScannersInit ==
  /\ part \in Parts
  /\ ScannerInit
  /\ part # "red" => site = CHOOSE x \in Sites : TRUE
  /\ LiveInit
  /\ part # "live" => target = (CHOOSE x \in Targets : TRUE) /\ line = "refuses"
  /\ repo \in IF part = "taint" THEN Repos ELSE {NoRepo}
  /\ TaintBegins
  /\ source \in IF part = "sources" THEN Sources ELSE {NoSource}
  /\ ReadingBegins
  /\ world \in IF part = "osint" THEN Worlds ELSE {CHOOSE x \in Worlds : TRUE}
  /\ wanted \in IF part = "osint" THEN Filters ELSE {{}}
  /\ silent \in IF part = "osint" THEN Troubles ELSE {{}}
  /\ OsintInit

Red == part = "red" /\ UNCHANGED <<qvars, tvars, uvars, ovars, part>>
Live == part = "live" /\ UNCHANGED <<rvars, tvars, uvars, ovars, part>>
Taint == part = "taint" /\ UNCHANGED <<rvars, qvars, uvars, ovars, part>>
Reading == part = "sources" /\ UNCHANGED <<rvars, qvars, tvars, ovars, part>>
Osint == part = "osint" /\ UNCHANGED <<rvars, qvars, tvars, uvars, part>>

ScannersNext ==
  \/ ScannerStep /\ Red
  \/ AskStop /\ Red
  \/ Outage /\ Red
  \/ Return /\ Red
  \/ LiveStep /\ Live
  \/ \E to \in {"answers", "refuses", "hangs"} : LineTurns(to) /\ Live
  \/ DeleteRow /\ Live
  \/ TaintStep /\ Taint
  \/ SourcesStep /\ Reading
  \/ OsintStep /\ Osint
  \/ Shift /\ Osint

\* The system runs the threads of the scans.  The fourteen checks of the red team wait for the site
\* as long as it takes; that they come back is assumed.  Every wait of a collector has a time limit.
ScannersFairness ==
  /\ WF_next(part = "red" /\ Turn) /\ WF_over(part = "red" /\ LeaveLoop)
  /\ WF_test(part = "live" /\ NextTest) /\ WF_left(part = "live" /\ Finish)
  /\ WF_coming(part = "osint" /\ Onward) /\ WF_ended(part = "osint" /\ FinishPhase)

ScannersSpec == ScannersInit /\ [][ScannersNext]_wvars /\ ScannersFairness

\* A scan of the red team comes to its end, whatever the site does.
RedScanEnds == part = "red" => ScannerEnds
\* The live tests come to theirs, unless the target keeps a test without a time limit waiting.
LiveTestsEnd == part = "live" => LiveEnds
\* And so does the first phase of a grey team scan, with whatever sources answer it.
OsintEnds == part = "osint" => PhaseEnds

\* What is read off the sources is in them: handlers with their own gates and bodies, and flows along
\* calls that are there.
SourcesSound ==
  /\ TaintTypeOK
  /\ SimplePath
  /\ FlowsReach
  /\ NearSinksFound
  /\ SourcesTypeOK
  /\ HandlersOwn
  /\ GateSeen
  /\ TopLevelBodies
  /\ TaintWithinBlock
  /\ BraceWithinBlock

\* Every scan comes to its end.
ScannersEnd ==
  /\ RedScanEnds
  /\ LiveTestsEnd
  /\ OsintEnds
=============================================================================
