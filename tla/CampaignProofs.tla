--------------------------- MODULE CampaignProofs ---------------------------
(***************************************************************************)
(* What holds of a campaign for any titles, places, checks and rounds: the *)
(* row and the event agree, the links are complete, and a scan that        *)
(* noticed a stop stays quiet.                                             *)
(***************************************************************************)
EXTENDS Campaign, TLAPS

\* The control of the thread: what it has counted up to where it is.
Counts ==
  /\ pc \in {"progress", "scan"} => idx < Checks
  /\ pc \in {"beat", "round", "nudge", "retry", "report"} => explored < ExploreRounds
  /\ pc \in {"beatA", "analysis", "nudgeA", "again", "reportA"} => analysed < AnalysisRounds
  /\ pc \in {"beat", "round", "nudge", "retry", "report", "tally"} => dry < DryLimit
  /\ pc \in {"beatA", "analysis", "nudgeA", "again", "reportA"} => dry <= DryLimit

\* Who has told what: the row holds the verdict before the event is published, and a thread that was
\* launched has told nothing.
Telling ==
  /\ coro = "launch" => pc = "none" /\ told = Nobody
  /\ pc = "tell" => row \in {verdict, "stopped", NoRow}
  /\ pc \in {"cleanup", "over"} => told # Nobody
  /\ told # Nobody => pc \in {"cleanup", "over", "none"}

\* A stop that was noticed was asked for, and is noticed before a model is asked.
Quiet ==
  /\ aborted => flag
  /\ aborted => pc \notin {"round", "retry", "analysis", "again"}
  /\ coro = "launch" => ~aborted

StepTypes ==
  /\ profile \in Profiles
  /\ row \in Status \cup {NoRow}
  /\ coro \in {"none", "launch", "stop"} /\ pc \in Steps
  /\ verdict \in Verdict /\ told \in Verdict \cup {Nobody}

FlagTypes ==
  /\ flag \in BOOLEAN /\ running \in BOOLEAN /\ aborted \in BOOLEAN
  /\ reported \in BOOLEAN /\ news \in BOOLEAN

CountTypes ==
  /\ idx \in Nat /\ idx <= Checks
  /\ explored \in Nat /\ explored <= ExploreRounds
  /\ analysed \in Nat /\ analysed <= AnalysisRounds
  /\ dry \in Nat /\ dry <= DryLimit + 1

CInv == StepTypes /\ FlagTypes /\ CountTypes /\ ToldIsStored /\ Counts /\ Telling /\ Quiet

\* The findings: those of the scanner are stored before those of the AI, but for the one that says
\* that the AI was skipped.
FInv ==
  /\ findings \subseteq Finding /\ links \subseteq findings \X findings
  /\ unsaved \subseteq Finding
  /\ \A f \in unsaved : ~f.ai
  /\ \A f \in findings : f.ai => f.title \in Titles
  /\ coro = "launch" => findings = {}
  /\ pc \in Phase1 => \A f \in findings : ~f.ai
  /\ LinksComplete

LEMMA RoundsAreNat ==
  ASSUME profile \in Profiles
  PROVE  ExploreRounds \in Nat \ {0} /\ AnalysisRounds \in Nat \ {0}
  BY CampaignParameters DEF ExploreRounds, AnalysisRounds

LEMMA InitInv == CampaignInit => CInv /\ FInv
<1> SUFFICES ASSUME CampaignInit
             PROVE  CInv /\ FInv
  OBVIOUS
<1>1. ExploreRounds \in Nat /\ AnalysisRounds \in Nat /\ Checks \in Nat /\ DryLimit \in Nat
  BY RoundsAreNat, CampaignParameters DEF CampaignInit
<1>2. CInv
  <2>1. /\ profile \in Profiles /\ row = "pending" /\ flag = FALSE /\ running = FALSE /\ aborted = FALSE
        /\ coro = "launch" /\ pc = "none" /\ verdict = "failed" /\ told = Nobody
        /\ idx = 0 /\ explored = 0 /\ analysed = 0 /\ reported = FALSE /\ news = FALSE /\ dry = 0
    BY DEF CampaignInit
  <2>2. ToldIsStored /\ Counts /\ Telling /\ Quiet
    BY <2>1 DEF ToldIsStored, Counts, Telling, Quiet
  <2>3. 0 <= Checks /\ 0 <= ExploreRounds /\ 0 <= AnalysisRounds /\ 0 <= DryLimit + 1
    BY <1>1
  <2>. QED
    BY <2>1, <2>2, <2>3 DEF CInv, StepTypes, FlagTypes, CountTypes, Status, Verdict, Steps
<1>3. FInv
  <2>1. findings = {} /\ links = {} /\ unsaved = {}
    BY DEF CampaignInit
  <2>2. Unlinked = {}
    BY <2>1 DEF Unlinked
  <2>3. links \subseteq findings \X findings
    BY <2>1
  <2>4. LinksComplete
    BY <2>1, <2>2 DEF LinksComplete
  <2>. QED
    BY <2>1, <2>3, <2>4 DEF FInv
<1>. QED
  BY <1>2, <1>3

\* A batch ends with the rounds at the latest.
LEMMA QuotientIsNat ==
  ASSUME NEW n \in Nat, NEW d \in Nat \ {0}
  PROVE  n \div d \in Nat
  OBVIOUS

LEMMA ProductIsNat ==
  ASSUME NEW m \in Nat, NEW n \in Nat
  PROVE  m * n \in Nat
  OBVIOUS

LEMMA BatchEnds ==
  ASSUME profile \in Profiles, NEW e \in Nat
  PROVE  BatchEnd(e) \in 0..ExploreRounds
<1>1. ExploreRounds \in Nat \ {0} /\ AnalysisRounds \in Nat \ {0}
  BY RoundsAreNat
<1>2. ExploreRounds \div AnalysisRounds \in Nat
  BY <1>1, QuotientIsNat
<1>3. Batch \in Nat \ {0}
  BY <1>2 DEF Batch
<1>4. e \div Batch \in Nat
  BY <1>3, QuotientIsNat
<1>5. (e \div Batch + 1) * Batch \in Nat
  BY <1>3, <1>4, ProductIsNat
<1>. QED
  BY <1>1, <1>5 DEF BatchEnd

-----------------------------------------------------------------------------
(* The findings and their links.                                           *)

\* The links are complete as long as nothing is added.
LEMMA SameFindings ==
  ASSUME LinksComplete, UNCHANGED <<findings, links>>
  PROVE  LinksComplete'
<1>1. Unlinked' = Unlinked
  BY DEF Unlinked, Matches, Deterministic, BaseTitle
<1>. QED
  BY <1>1 DEF LinksComplete

LEMMA KeepFindings ==
  ASSUME FInv, UNCHANGED <<findings, links, unsaved>>,
         coro' = "launch" => coro = "launch",
         pc' \in Phase1 => pc \in Phase1 \/ coro = "launch"
  PROVE  FInv'
<1>1. LinksComplete'
  BY SameFindings DEF FInv
<1>. QED
  BY <1>1 DEF FInv

\* What a finding is linked to is a finding of the scanner.
LEMMA MatchesAreOfScanner ==
  ASSUME NEW f
  PROVE  Matches(f) \subseteq Deterministic
  BY DEF Matches

\* A finding that is added is one of the AI, or comes before those, or tells that it was skipped.
LEMMA AddingKeepsLinks ==
  ASSUME FInv, NEW f \in Finding, AddFinding(f), f.ai => f.title \in Titles,
         \/ f.ai
         \/ \A g \in findings : ~g.ai
         \/ f = [title |-> Skipped, site |-> Global, ai |-> FALSE]
  PROVE  /\ findings' \subseteq Finding /\ links' \subseteq findings' \X findings'
         /\ \A g \in findings' : g.ai => g.title \in Titles
         /\ LinksComplete'
<1>1. findings' = findings \cup {f}
  BY DEF AddFinding
<1>2. findings' \subseteq Finding /\ \A g \in findings' : g.ai => g.title \in Titles
  BY <1>1 DEF FInv
<1>3. CASE f.ai
  <2>1. Deterministic' = Deterministic
    BY <1>1, <1>3 DEF Deterministic
  <2>2. \A g : Matches(g)' = Matches(g)
    BY <2>1 DEF Matches, BaseTitle
  <2>3. CASE f \in findings \/ Matches(f) = {}
    <3>1. links' = links
      BY <2>3 DEF AddFinding
    <3>2. Unlinked' = {}
      BY <1>1, <2>2, <2>3, <3>1 DEF Unlinked, FInv, LinksComplete
    <3>. QED
      BY <1>1, <1>2, <3>1, <3>2 DEF FInv, LinksComplete
  <2>4. CASE f \notin findings /\ Matches(f) # {}
    <3>1. PICK d \in Matches(f) : links' = links \cup {<<f, d>>}
      BY <1>3, <2>4 DEF AddFinding
    <3>2. d \in findings /\ ~d.ai
      BY MatchesAreOfScanner DEF Deterministic
    <3>3. links' \subseteq findings' \X findings'
      BY <1>1, <3>1, <3>2 DEF FInv
    <3>4. \A p \in links : p[1] \in findings /\ p[1] # f
      BY <2>4 DEF FInv
    <3>5. \A p \in links' : p[1].ai /\ ~p[2].ai
      BY <1>3, <3>1, <3>2 DEF FInv, LinksComplete
    <3>6. \A p, q \in links' : p[1] = q[1] => p = q
      BY <3>1, <3>4 DEF FInv, LinksComplete
    <3>7. Unlinked' = {}
      BY <1>1, <2>2, <3>1, <3>2 DEF Unlinked, FInv, LinksComplete
    <3>. QED
      BY <1>2, <3>3, <3>5, <3>6, <3>7 DEF LinksComplete
  <2>. QED
    BY <2>3, <2>4
<1>4. CASE ~f.ai
  <2>1. links' = links
    BY <1>4 DEF AddFinding
  <2>2. \A g \in findings : g.ai => Matches(g)' = Matches(g)
    <3> SUFFICES ASSUME NEW g \in findings, g.ai
                 PROVE  Matches(g)' = Matches(g)
      OBVIOUS
    <3>1. f.title = Skipped /\ f.site = Global
      BY <1>4
    <3>2. Deterministic' = Deterministic \cup {f}
      BY <1>1, <1>4 DEF Deterministic
    <3>3. g.title \in Titles /\ f.title # BaseTitle(g)
      BY <3>1, CampaignSentinels DEF FInv, BaseTitle
    <3>4. {d \in Deterministic' : d.title = BaseTitle(g)} = {d \in Deterministic : d.title = BaseTitle(g)}
      BY <3>2, <3>3
    <3>5. g.site # Global => {d \in Deterministic' : d.site = g.site} = {d \in Deterministic : d.site = g.site}
      BY <3>1, <3>2
    <3>6. {d \in Deterministic' : d.title = BaseTitle(g)} \cap {d \in Deterministic' : d.site = g.site}
            = {d \in Deterministic : d.title = BaseTitle(g)} \cap {d \in Deterministic : d.site = g.site}
      BY <3>2, <3>3
    <3>. QED
      BY <3>4, <3>5, <3>6 DEF Matches, BaseTitle
  <2>3. Unlinked' = {}
    BY <1>1, <1>4, <2>1, <2>2 DEF Unlinked, FInv, LinksComplete
  <2>. QED
    BY <1>1, <1>2, <2>1, <2>3 DEF FInv, LinksComplete
<1>. QED
  BY <1>3, <1>4

\* What a model reports leaves the links complete.
LEMMA ReportsKeep ==
  ASSUME FInv, Reports \/ ReportRaises, UNCHANGED <<unsaved, coro>>,
         coro # "launch", pc' \notin Phase1
  PROVE  FInv'
<1>1. CASE UNCHANGED <<findings, links>>
  BY <1>1, KeepFindings
<1>2. CASE ~UNCHANGED <<findings, links>>
  <2>1. PICK t \in Titles, s \in Sites \cup {Global} : AddFinding([title |-> t, site |-> s, ai |-> TRUE])
    BY <1>2 DEF Reports, ReportRaises
  <2>2. [title |-> t, site |-> s, ai |-> TRUE] \in Finding
    BY DEF Finding
  <2>3. /\ findings' \subseteq Finding /\ links' \subseteq findings' \X findings'
        /\ \A g \in findings' : g.ai => g.title \in Titles
        /\ LinksComplete'
    BY <2>1, <2>2, AddingKeepsLinks
  <2>. QED
    BY <2>3 DEF FInv
<1>. QED
  BY <1>1, <1>2

\* The finding that tells that the AI was skipped.
SkippedFinding == [title |-> Skipped, site |-> Global, ai |-> FALSE]

LEMMA TellingKeeps ==
  ASSUME FInv, AddFinding(SkippedFinding), UNCHANGED <<unsaved, coro>>,
         coro # "launch", pc' \notin Phase1
  PROVE  FInv'
<1>1. SkippedFinding \in Finding /\ ~SkippedFinding.ai
  BY DEF SkippedFinding, Finding
<1>2. /\ findings' \subseteq Finding /\ links' \subseteq findings' \X findings'
      /\ \A g \in findings' : g.ai => g.title \in Titles
      /\ LinksComplete'
  BY <1>1, AddingKeepsLinks DEF SkippedFinding
<1>. QED
  BY <1>2 DEF FInv

LEMMA AfterRoundInPhase2 ==
  \A e : AfterRound(e) \in {"beat", "tally"}
  BY DEF AfterRound






-----------------------------------------------------------------------------
(* The steps.                                                              *)

LEMMA LoopKeepsControl ==
  ASSUME CInv, Launch \/ StopCheck \/ StopWrite \/ DeleteCampaign \/ Restart
  PROVE  CInv'
<1>1. ExploreRounds \in Nat /\ AnalysisRounds \in Nat /\ Checks \in Nat /\ DryLimit \in Nat
  BY RoundsAreNat, CampaignParameters DEF CInv, StepTypes, CountTypes
<1>2. profile' = profile /\ ExploreRounds' = ExploreRounds /\ AnalysisRounds' = AnalysisRounds
  BY DEF Launch, StopCheck, StopWrite, DeleteCampaign, Restart, ExploreRounds, AnalysisRounds
<1>3. CASE Launch
  BY <1>1, <1>2, <1>3, CampaignSentinels DEF Launch, local, loop, SetStatus, CInv, StepTypes,
    FlagTypes, CountTypes, ToldIsStored, Counts, Telling, Quiet, Status, Verdict, Steps, Phase1,
    Phase2, Asking
<1>4. CASE StopCheck
  <2>1. StepTypes'
    BY <1>1, <1>2, <1>4 DEF StopCheck, store, local, loop, CInv, StepTypes, Status, Verdict, Steps,
      Phase1, Phase2, Asking
  <2>2. FlagTypes'
    BY <1>1, <1>2, <1>4 DEF StopCheck, store, local, loop, CInv, FlagTypes
  <2>3. CountTypes'
    BY <1>1, <1>2, <1>4 DEF StopCheck, store, local, loop, CInv, CountTypes, Counts
  <2>4. ToldIsStored' /\ Telling'
    BY <1>1, <1>2, <1>4, CampaignSentinels DEF StopCheck, store, local, loop, CInv, StepTypes,
      ToldIsStored, Telling, Status, Verdict
  <2>5. Counts'
    BY <1>1, <1>2, <1>4 DEF StopCheck, store, local, loop, CInv, CountTypes, Counts
  <2>6. Quiet'
    BY <1>1, <1>2, <1>4 DEF StopCheck, store, local, loop, CInv, FlagTypes, Telling, Quiet
  <2>. QED
    BY <2>1, <2>2, <2>3, <2>4, <2>5, <2>6 DEF CInv
<1>5. CASE StopWrite
  <2>1. StepTypes'
    BY <1>1, <1>2, <1>5 DEF StopWrite, local, loop, SetStatus, CInv, StepTypes, Status, Verdict,
      Steps, Phase1, Phase2, Asking
  <2>2. FlagTypes'
    BY <1>1, <1>2, <1>5 DEF StopWrite, local, loop, SetStatus, CInv, FlagTypes
  <2>3. CountTypes'
    BY <1>1, <1>2, <1>5 DEF StopWrite, local, loop, SetStatus, CInv, CountTypes, Counts
  <2>4. ToldIsStored' /\ Telling'
    BY <1>1, <1>2, <1>5, CampaignSentinels DEF StopWrite, local, loop, SetStatus, CInv, StepTypes,
      ToldIsStored, Telling, Status, Verdict
  <2>5. Counts'
    BY <1>1, <1>2, <1>5 DEF StopWrite, local, loop, SetStatus, CInv, CountTypes, Counts
  <2>6. Quiet'
    BY <1>1, <1>2, <1>5 DEF StopWrite, local, loop, SetStatus, CInv, FlagTypes, Telling, Quiet
  <2>. QED
    BY <2>1, <2>2, <2>3, <2>4, <2>5, <2>6 DEF CInv
<1>6. CASE DeleteCampaign
  <2>1. StepTypes'
    BY <1>1, <1>2, <1>6 DEF DeleteCampaign, local, loop, CInv, StepTypes, Status, Verdict, Steps,
      Phase1, Phase2, Asking
  <2>2. FlagTypes'
    BY <1>1, <1>2, <1>6 DEF DeleteCampaign, local, loop, CInv, FlagTypes
  <2>3. CountTypes'
    BY <1>1, <1>2, <1>6 DEF DeleteCampaign, local, loop, CInv, CountTypes, Counts
  <2>4. ToldIsStored' /\ Telling'
    BY <1>1, <1>2, <1>6, CampaignSentinels DEF DeleteCampaign, local, loop, CInv, StepTypes,
      ToldIsStored, Telling, Status, Verdict
  <2>5. Counts'
    BY <1>1, <1>2, <1>6 DEF DeleteCampaign, local, loop, CInv, CountTypes, Counts
  <2>6. Quiet'
    BY <1>1, <1>2, <1>6 DEF DeleteCampaign, local, loop, CInv, FlagTypes, Telling, Quiet
  <2>. QED
    BY <2>1, <2>2, <2>3, <2>4, <2>5, <2>6 DEF CInv
<1>7. CASE Restart
  <2>1. StepTypes'
    BY <1>1, <1>2, <1>7 DEF Restart, FreshThread, CInv, StepTypes, Status, Verdict, Steps, Phase1,
      Phase2, Asking
  <2>2. FlagTypes'
    BY <1>1, <1>2, <1>7 DEF Restart, FreshThread, CInv, FlagTypes
  <2>3. CountTypes'
    BY <1>1, <1>2, <1>7 DEF Restart, FreshThread, CInv, CountTypes, Counts
  <2>4. ToldIsStored' /\ Telling'
    BY <1>1, <1>2, <1>7, CampaignSentinels DEF Restart, FreshThread, CInv, StepTypes, ToldIsStored,
      Telling, Status, Verdict
  <2>5. Counts'
    BY <1>1, <1>2, <1>7 DEF Restart, FreshThread, CInv, CountTypes, Counts
  <2>6. Quiet'
    BY <1>1, <1>2, <1>7 DEF Restart, FreshThread, CInv, FlagTypes, Telling, Quiet
  <2>. QED
    BY <2>1, <2>2, <2>3, <2>4, <2>5, <2>6 DEF CInv
<1>. QED
  BY <1>3, <1>4, <1>5, <1>6, <1>7

LEMMA ThreadKeepsControl ==
  ASSUME CInv, Thread
  PROVE  CInv'
<1>1. /\ ExploreRounds \in Nat /\ AnalysisRounds \in Nat /\ Checks \in Nat /\ DryLimit \in Nat \ {0}
      /\ idx \in Nat /\ explored \in Nat /\ analysed \in Nat /\ dry \in Nat
  BY RoundsAreNat, CampaignParameters DEF CInv, StepTypes, CountTypes
<1>2. CASE Begin
  <2>1. profile' = profile /\ ExploreRounds' = ExploreRounds /\ AnalysisRounds' = AnalysisRounds
    BY <1>2 DEF Begin, EventLoopIdle, ExploreRounds, AnalysisRounds
  <2>2. StepTypes'
    BY <1>1, <1>2, <2>1 DEF Begin, Goto, EventLoopIdle, store, local, loop, CInv, StepTypes, Status,
      Verdict, Steps, Phase1, Phase2, Asking
  <2>3. FlagTypes'
    BY <1>1, <1>2, <2>1 DEF Begin, Goto, EventLoopIdle, store, local, loop, CInv, FlagTypes
  <2>4. CountTypes'
    BY <1>1, <1>2, <2>1 DEF Begin, Goto, EventLoopIdle, store, local, loop, CInv, CountTypes, Counts
  <2>5. ToldIsStored' /\ Telling'
    BY <1>1, <1>2, <2>1, CampaignSentinels DEF Begin, Goto, EventLoopIdle, store, local, loop, CInv,
      StepTypes, ToldIsStored, Telling, Status, Verdict
  <2>6. Counts'
    BY <1>1, <1>2, <2>1 DEF Begin, Goto, EventLoopIdle, store, local, loop, CInv, CountTypes, Counts
  <2>7. Quiet'
    BY <1>1, <1>2, <2>1 DEF Begin, Goto, EventLoopIdle, store, local, loop, CInv, FlagTypes,
      Telling, Quiet
  <2>. QED
    BY <2>2, <2>3, <2>4, <2>5, <2>6, <2>7 DEF CInv
<1>3. CASE NextCheck
  <2>1. profile' = profile /\ ExploreRounds' = ExploreRounds /\ AnalysisRounds' = AnalysisRounds
    BY <1>3 DEF NextCheck, EventLoopIdle, ExploreRounds, AnalysisRounds
  <2>2. StepTypes'
    BY <1>1, <1>3, <2>1 DEF NextCheck, Goto, EventLoopIdle, store, local, loop, CInv, StepTypes,
      Status, Verdict, Steps, Phase1, Phase2, Asking
  <2>3. FlagTypes'
    BY <1>1, <1>3, <2>1 DEF NextCheck, Goto, EventLoopIdle, store, local, loop, CInv, FlagTypes
  <2>4. CountTypes'
    BY <1>1, <1>3, <2>1 DEF NextCheck, Goto, EventLoopIdle, store, local, loop, CInv, CountTypes,
      Counts
  <2>5. ToldIsStored' /\ Telling'
    BY <1>1, <1>3, <2>1, CampaignSentinels DEF NextCheck, Goto, EventLoopIdle, store, local, loop,
      CInv, StepTypes, ToldIsStored, Telling, Status, Verdict
  <2>6. Counts'
    BY <1>1, <1>3, <2>1 DEF NextCheck, Goto, EventLoopIdle, store, local, loop, CInv, CountTypes,
      Counts
  <2>7. Quiet'
    BY <1>1, <1>3, <2>1 DEF NextCheck, Goto, EventLoopIdle, store, local, loop, CInv, FlagTypes,
      Telling, Quiet
  <2>. QED
    BY <2>2, <2>3, <2>4, <2>5, <2>6, <2>7 DEF CInv
<1>4. CASE CheckProgress
  <2>1. profile' = profile /\ ExploreRounds' = ExploreRounds /\ AnalysisRounds' = AnalysisRounds
    BY <1>4 DEF CheckProgress, EventLoopIdle, ExploreRounds, AnalysisRounds
  <2>. QED
    BY <1>1, <1>4, <2>1, CampaignSentinels DEF CheckProgress, Goto, EventLoopIdle, local, loop,
      SetStatus, CInv, StepTypes, FlagTypes, CountTypes, ToldIsStored, Counts, Telling, Quiet,
      Status, Verdict, Steps, Phase1, Phase2, Asking
<1>5. CASE RunCheck
  <2>1. profile' = profile /\ ExploreRounds' = ExploreRounds /\ AnalysisRounds' = AnalysisRounds
    BY <1>5 DEF RunCheck, EventLoopIdle, ExploreRounds, AnalysisRounds
  <2>2. StepTypes'
    BY <1>1, <1>5, <2>1 DEF RunCheck, Goto, EventLoopIdle, store, loop, CInv, StepTypes, Status,
      Verdict, Steps, Phase1, Phase2, Asking
  <2>3. FlagTypes'
    BY <1>1, <1>5, <2>1 DEF RunCheck, Goto, EventLoopIdle, store, loop, CInv, FlagTypes
  <2>4. CountTypes'
    BY <1>1, <1>5, <2>1 DEF RunCheck, Goto, EventLoopIdle, store, loop, CInv, CountTypes, Counts
  <2>5. ToldIsStored' /\ Telling'
    BY <1>1, <1>5, <2>1, CampaignSentinels DEF RunCheck, Goto, EventLoopIdle, store, loop, CInv,
      StepTypes, ToldIsStored, Telling, Status, Verdict
  <2>6. Counts'
    BY <1>1, <1>5, <2>1 DEF RunCheck, Goto, EventLoopIdle, store, loop, CInv, CountTypes, Counts
  <2>7. Quiet'
    BY <1>1, <1>5, <2>1 DEF RunCheck, Goto, EventLoopIdle, store, loop, CInv, FlagTypes, Telling,
      Quiet
  <2>. QED
    BY <2>2, <2>3, <2>4, <2>5, <2>6, <2>7 DEF CInv
<1>6. CASE EndOfChecks
  <2>1. profile' = profile /\ ExploreRounds' = ExploreRounds /\ AnalysisRounds' = AnalysisRounds
    BY <1>6 DEF EndOfChecks, EventLoopIdle, ExploreRounds, AnalysisRounds
  <2>2. StepTypes'
    BY <1>1, <1>6, <2>1 DEF EndOfChecks, Goto, EventLoopIdle, local, loop, SetStatus, CInv,
      StepTypes, Status, Verdict, Steps, Phase1, Phase2, Asking
  <2>3. FlagTypes'
    BY <1>1, <1>6, <2>1 DEF EndOfChecks, Goto, EventLoopIdle, local, loop, SetStatus, CInv,
      FlagTypes
  <2>4. CountTypes'
    BY <1>1, <1>6, <2>1 DEF EndOfChecks, Goto, EventLoopIdle, local, loop, SetStatus, CInv,
      CountTypes, Counts
  <2>5. ToldIsStored' /\ Telling'
    BY <1>1, <1>6, <2>1, CampaignSentinels DEF EndOfChecks, Goto, EventLoopIdle, local, loop,
      SetStatus, CInv, StepTypes, ToldIsStored, Telling, Status, Verdict
  <2>6. Counts'
    BY <1>1, <1>6, <2>1 DEF EndOfChecks, Goto, EventLoopIdle, local, loop, SetStatus, CInv,
      CountTypes, Counts
  <2>7. Quiet'
    BY <1>1, <1>6, <2>1 DEF EndOfChecks, Goto, EventLoopIdle, local, loop, SetStatus, CInv,
      FlagTypes, Telling, Quiet
  <2>. QED
    BY <2>2, <2>3, <2>4, <2>5, <2>6, <2>7 DEF CInv
<1>7. CASE StopTest("stop1", "save")
  <2>1. profile' = profile /\ ExploreRounds' = ExploreRounds /\ AnalysisRounds' = AnalysisRounds
    BY <1>7 DEF StopTest, EventLoopIdle, ExploreRounds, AnalysisRounds
  <2>2. StepTypes'
    BY <1>1, <1>7, <2>1 DEF StopTest, Goto, EventLoopIdle, loop, SetStatus, CInv, StepTypes, Status,
      Verdict, Steps, Phase1, Phase2, Asking
  <2>3. FlagTypes'
    BY <1>1, <1>7, <2>1 DEF StopTest, Goto, EventLoopIdle, loop, SetStatus, CInv, FlagTypes
  <2>4. CountTypes'
    BY <1>1, <1>7, <2>1 DEF StopTest, Goto, EventLoopIdle, loop, SetStatus, CInv, CountTypes, Counts
  <2>5. ToldIsStored' /\ Telling'
    BY <1>1, <1>7, <2>1, CampaignSentinels DEF StopTest, Goto, EventLoopIdle, loop, SetStatus, CInv,
      StepTypes, ToldIsStored, Telling, Status, Verdict
  <2>6. Counts'
    BY <1>1, <1>7, <2>1 DEF StopTest, Goto, EventLoopIdle, loop, SetStatus, CInv, CountTypes, Counts
  <2>7. Quiet'
    BY <1>1, <1>7, <2>1 DEF StopTest, Goto, EventLoopIdle, loop, SetStatus, CInv, FlagTypes,
      Telling, Quiet
  <2>. QED
    BY <2>2, <2>3, <2>4, <2>5, <2>6, <2>7 DEF CInv
<1>8. CASE SaveFinding
  <2>1. profile' = profile /\ ExploreRounds' = ExploreRounds /\ AnalysisRounds' = AnalysisRounds
    BY <1>8 DEF SaveFinding, EventLoopIdle, ExploreRounds, AnalysisRounds
  <2>2. StepTypes'
    BY <1>1, <1>8, <2>1 DEF SaveFinding, EventLoopIdle, loop, CInv, StepTypes, Status, Verdict,
      Steps, Phase1, Phase2, Asking
  <2>3. FlagTypes'
    BY <1>1, <1>8, <2>1 DEF SaveFinding, EventLoopIdle, loop, CInv, FlagTypes
  <2>4. CountTypes'
    BY <1>1, <1>8, <2>1 DEF SaveFinding, EventLoopIdle, loop, CInv, CountTypes, Counts
  <2>5. ToldIsStored' /\ Telling'
    BY <1>1, <1>8, <2>1, CampaignSentinels DEF SaveFinding, EventLoopIdle, loop, CInv, StepTypes,
      ToldIsStored, Telling, Status, Verdict
  <2>6. Counts'
    BY <1>1, <1>8, <2>1 DEF SaveFinding, EventLoopIdle, loop, CInv, CountTypes, Counts
  <2>7. Quiet'
    BY <1>1, <1>8, <2>1 DEF SaveFinding, EventLoopIdle, loop, CInv, FlagTypes, Telling, Quiet
  <2>. QED
    BY <2>2, <2>3, <2>4, <2>5, <2>6, <2>7 DEF CInv
<1>9. CASE Saved
  <2>1. profile' = profile /\ ExploreRounds' = ExploreRounds /\ AnalysisRounds' = AnalysisRounds
    BY <1>9 DEF Saved, EventLoopIdle, ExploreRounds, AnalysisRounds
  <2>2. StepTypes'
    BY <1>1, <1>9, <2>1 DEF Saved, Goto, EventLoopIdle, local, loop, SetStatus, CInv, StepTypes,
      Status, Verdict, Steps, Phase1, Phase2, Asking
  <2>3. FlagTypes'
    BY <1>1, <1>9, <2>1 DEF Saved, Goto, EventLoopIdle, local, loop, SetStatus, CInv, FlagTypes
  <2>4. CountTypes'
    BY <1>1, <1>9, <2>1 DEF Saved, Goto, EventLoopIdle, local, loop, SetStatus, CInv, CountTypes,
      Counts
  <2>5. ToldIsStored' /\ Telling'
    BY <1>1, <1>9, <2>1, CampaignSentinels DEF Saved, Goto, EventLoopIdle, local, loop, SetStatus,
      CInv, StepTypes, ToldIsStored, Telling, Status, Verdict
  <2>6. Counts'
    BY <1>1, <1>9, <2>1 DEF Saved, Goto, EventLoopIdle, local, loop, SetStatus, CInv, CountTypes,
      Counts
  <2>7. Quiet'
    BY <1>1, <1>9, <2>1 DEF Saved, Goto, EventLoopIdle, local, loop, SetStatus, CInv, FlagTypes,
      Telling, Quiet
  <2>. QED
    BY <2>2, <2>3, <2>4, <2>5, <2>6, <2>7 DEF CInv
<1>10. CASE StopTest("stop2", "phase2")
  <2>1. profile' = profile /\ ExploreRounds' = ExploreRounds /\ AnalysisRounds' = AnalysisRounds
    BY <1>10 DEF StopTest, EventLoopIdle, ExploreRounds, AnalysisRounds
  <2>2. StepTypes'
    BY <1>1, <1>10, <2>1 DEF StopTest, Goto, EventLoopIdle, loop, SetStatus, CInv, StepTypes,
      Status, Verdict, Steps, Phase1, Phase2, Asking
  <2>3. FlagTypes'
    BY <1>1, <1>10, <2>1 DEF StopTest, Goto, EventLoopIdle, loop, SetStatus, CInv, FlagTypes
  <2>4. CountTypes'
    BY <1>1, <1>10, <2>1 DEF StopTest, Goto, EventLoopIdle, loop, SetStatus, CInv, CountTypes,
      Counts
  <2>5. ToldIsStored' /\ Telling'
    BY <1>1, <1>10, <2>1, CampaignSentinels DEF StopTest, Goto, EventLoopIdle, loop, SetStatus,
      CInv, StepTypes, ToldIsStored, Telling, Status, Verdict
  <2>6. Counts'
    BY <1>1, <1>10, <2>1 DEF StopTest, Goto, EventLoopIdle, loop, SetStatus, CInv, CountTypes,
      Counts
  <2>7. Quiet'
    BY <1>1, <1>10, <2>1 DEF StopTest, Goto, EventLoopIdle, loop, SetStatus, CInv, FlagTypes,
      Telling, Quiet
  <2>. QED
    BY <2>2, <2>3, <2>4, <2>5, <2>6, <2>7 DEF CInv
<1>11. CASE StartPhase2
  <2>1. profile' = profile /\ ExploreRounds' = ExploreRounds /\ AnalysisRounds' = AnalysisRounds
    BY <1>11 DEF StartPhase2, EventLoopIdle, ExploreRounds, AnalysisRounds
  <2>2. StepTypes'
    BY <1>1, <1>11, <2>1 DEF StartPhase2, Goto, EventLoopIdle, store, CInv, StepTypes, Status,
      Verdict, Steps, Phase1, Phase2, Asking
  <2>3. FlagTypes'
    BY <1>1, <1>11, <2>1 DEF StartPhase2, Goto, EventLoopIdle, store, CInv, FlagTypes
  <2>4. CountTypes'
    BY <1>1, <1>11, <2>1 DEF StartPhase2, Goto, EventLoopIdle, store, CInv, CountTypes, Counts
  <2>5. ToldIsStored' /\ Telling'
    BY <1>1, <1>11, <2>1, CampaignSentinels DEF StartPhase2, Goto, EventLoopIdle, store, CInv,
      StepTypes, ToldIsStored, Telling, Status, Verdict
  <2>6. Counts'
    BY <1>1, <1>11, <2>1 DEF StartPhase2, Goto, EventLoopIdle, store, CInv, CountTypes, Counts
  <2>7. Quiet'
    BY <1>1, <1>11, <2>1 DEF StartPhase2, Goto, EventLoopIdle, store, CInv, FlagTypes, Telling,
      Quiet
  <2>. QED
    BY <2>2, <2>3, <2>4, <2>5, <2>6, <2>7 DEF CInv
<1>12. CASE NextRound
  <2>1. profile' = profile /\ ExploreRounds' = ExploreRounds /\ AnalysisRounds' = AnalysisRounds
    BY <1>12 DEF NextRound, EventLoopIdle, ExploreRounds, AnalysisRounds
  <2>2. StepTypes'
    BY <1>1, <1>12, <2>1 DEF NextRound, Goto, EventLoopIdle, store, local, loop, RoundsLeft, CInv,
      StepTypes, Status, Verdict, Steps, Phase1, Phase2, Asking
  <2>3. FlagTypes'
    BY <1>1, <1>12, <2>1 DEF NextRound, Goto, EventLoopIdle, store, local, loop, RoundsLeft, CInv,
      FlagTypes
  <2>4. CountTypes'
    BY <1>1, <1>12, <2>1 DEF NextRound, Goto, EventLoopIdle, store, local, loop, RoundsLeft, CInv,
      CountTypes, Counts
  <2>5. ToldIsStored' /\ Telling'
    BY <1>1, <1>12, <2>1, CampaignSentinels DEF NextRound, Goto, EventLoopIdle, store, local, loop,
      RoundsLeft, CInv, StepTypes, ToldIsStored, Telling, Status, Verdict
  <2>6. Counts'
    BY <1>1, <1>12, <2>1 DEF NextRound, Goto, EventLoopIdle, store, local, loop, RoundsLeft, CInv,
      CountTypes, Counts
  <2>7. Quiet'
    BY <1>1, <1>12, <2>1 DEF NextRound, Goto, EventLoopIdle, store, local, loop, RoundsLeft, CInv,
      FlagTypes, Telling, Quiet
  <2>. QED
    BY <2>2, <2>3, <2>4, <2>5, <2>6, <2>7 DEF CInv
<1>13. CASE HeedStop("beat", "tally", "round")
  <2>1. profile' = profile /\ ExploreRounds' = ExploreRounds /\ AnalysisRounds' = AnalysisRounds
    BY <1>13 DEF HeedStop, EventLoopIdle, ExploreRounds, AnalysisRounds
  <2>2. BatchEnd(explored) \in 0..ExploreRounds
    BY <1>1, BatchEnds DEF CInv, StepTypes, CountTypes
  <2>3. StepTypes'
    BY <1>1, <1>13, <2>1, <2>2 DEF HeedStop, Goto, EventLoopIdle, store, CInv, StepTypes, Status,
      Verdict, Steps, Phase1, Phase2, Asking
  <2>4. FlagTypes'
    BY <1>1, <1>13, <2>1, <2>2 DEF HeedStop, Goto, EventLoopIdle, store, CInv, FlagTypes
  <2>5. CountTypes'
    BY <1>1, <1>13, <2>1, <2>2 DEF HeedStop, Goto, EventLoopIdle, store, CInv, CountTypes, Counts
  <2>6. ToldIsStored' /\ Telling'
    BY <1>1, <1>13, <2>1, <2>2, CampaignSentinels DEF HeedStop, Goto, EventLoopIdle, store, CInv,
      StepTypes, ToldIsStored, Telling, Status, Verdict
  <2>7. Counts'
    BY <1>1, <1>13, <2>1, <2>2 DEF HeedStop, Goto, EventLoopIdle, store, CInv, CountTypes, Counts
  <2>8. Quiet'
    BY <1>1, <1>13, <2>1, <2>2 DEF HeedStop, Goto, EventLoopIdle, store, CInv, FlagTypes, Telling,
      Quiet
  <2>. QED
    BY <2>3, <2>4, <2>5, <2>6, <2>7, <2>8 DEF CInv
<1>14. CASE Explore
  <2>1. profile' = profile /\ ExploreRounds' = ExploreRounds /\ AnalysisRounds' = AnalysisRounds
    BY <1>14 DEF Explore, EventLoopIdle, ExploreRounds, AnalysisRounds
  <2>2. BatchEnd(explored + 1 - 1) \in 0..ExploreRounds
    BY <1>1, BatchEnds DEF CInv, StepTypes, CountTypes
  <2>3. StepTypes'
    BY <1>1, <1>14, <2>1, <2>2 DEF Explore, Goto, EventLoopIdle, AfterRound, Reports, ReportRaises,
      CInv, StepTypes, Status, Verdict, Steps, Phase1, Phase2, Asking
  <2>4. FlagTypes'
    BY <1>1, <1>14, <2>1, <2>2 DEF Explore, Goto, EventLoopIdle, AfterRound, Reports, ReportRaises,
      CInv, FlagTypes
  <2>5. CountTypes'
    BY <1>1, <1>14, <2>1, <2>2 DEF Explore, Goto, EventLoopIdle, AfterRound, Reports, ReportRaises,
      CInv, CountTypes, Counts
  <2>6. ToldIsStored' /\ Telling'
    BY <1>1, <1>14, <2>1, <2>2, CampaignSentinels DEF Explore, Goto, EventLoopIdle, AfterRound,
      Reports, ReportRaises, CInv, StepTypes, ToldIsStored, Telling, Status, Verdict
  <2>7. Counts'
    BY <1>1, <1>14, <2>1, <2>2 DEF Explore, Goto, EventLoopIdle, AfterRound, Reports, ReportRaises,
      CInv, CountTypes, Counts
  <2>8. Quiet'
    BY <1>1, <1>14, <2>1, <2>2 DEF Explore, Goto, EventLoopIdle, AfterRound, Reports, ReportRaises,
      CInv, FlagTypes, Telling, Quiet
  <2>. QED
    BY <2>3, <2>4, <2>5, <2>6, <2>7, <2>8 DEF CInv
<1>15. CASE HeedStop("nudge", "tally", "retry")
  <2>1. profile' = profile /\ ExploreRounds' = ExploreRounds /\ AnalysisRounds' = AnalysisRounds
    BY <1>15 DEF HeedStop, EventLoopIdle, ExploreRounds, AnalysisRounds
  <2>2. BatchEnd(explored) \in 0..ExploreRounds
    BY <1>1, BatchEnds DEF CInv, StepTypes, CountTypes
  <2>3. StepTypes'
    BY <1>1, <1>15, <2>1, <2>2 DEF HeedStop, Goto, EventLoopIdle, store, CInv, StepTypes, Status,
      Verdict, Steps, Phase1, Phase2, Asking
  <2>4. FlagTypes'
    BY <1>1, <1>15, <2>1, <2>2 DEF HeedStop, Goto, EventLoopIdle, store, CInv, FlagTypes
  <2>5. CountTypes'
    BY <1>1, <1>15, <2>1, <2>2 DEF HeedStop, Goto, EventLoopIdle, store, CInv, CountTypes, Counts
  <2>6. ToldIsStored' /\ Telling'
    BY <1>1, <1>15, <2>1, <2>2, CampaignSentinels DEF HeedStop, Goto, EventLoopIdle, store, CInv,
      StepTypes, ToldIsStored, Telling, Status, Verdict
  <2>7. Counts'
    BY <1>1, <1>15, <2>1, <2>2 DEF HeedStop, Goto, EventLoopIdle, store, CInv, CountTypes, Counts
  <2>8. Quiet'
    BY <1>1, <1>15, <2>1, <2>2 DEF HeedStop, Goto, EventLoopIdle, store, CInv, FlagTypes, Telling,
      Quiet
  <2>. QED
    BY <2>3, <2>4, <2>5, <2>6, <2>7, <2>8 DEF CInv
<1>16. CASE AskSafely("retry", "report")
  <2>1. profile' = profile /\ ExploreRounds' = ExploreRounds /\ AnalysisRounds' = AnalysisRounds
    BY <1>16 DEF AskSafely, EventLoopIdle, ExploreRounds, AnalysisRounds
  <2>2. StepTypes'
    BY <1>1, <1>16, <2>1 DEF AskSafely, Goto, EventLoopIdle, Reports, ReportRaises, CInv, StepTypes,
      Status, Verdict, Steps, Phase1, Phase2, Asking
  <2>3. FlagTypes'
    BY <1>1, <1>16, <2>1 DEF AskSafely, Goto, EventLoopIdle, Reports, ReportRaises, CInv, FlagTypes
  <2>4. CountTypes'
    BY <1>1, <1>16, <2>1 DEF AskSafely, Goto, EventLoopIdle, Reports, ReportRaises, CInv,
      CountTypes, Counts
  <2>5. ToldIsStored' /\ Telling'
    BY <1>1, <1>16, <2>1, CampaignSentinels DEF AskSafely, Goto, EventLoopIdle, Reports,
      ReportRaises, CInv, StepTypes, ToldIsStored, Telling, Status, Verdict
  <2>6. Counts'
    BY <1>1, <1>16, <2>1 DEF AskSafely, Goto, EventLoopIdle, Reports, ReportRaises, CInv,
      CountTypes, Counts
  <2>7. Quiet'
    BY <1>1, <1>16, <2>1 DEF AskSafely, Goto, EventLoopIdle, Reports, ReportRaises, CInv, FlagTypes,
      Telling, Quiet
  <2>. QED
    BY <2>2, <2>3, <2>4, <2>5, <2>6, <2>7 DEF CInv
<1>17. CASE ReportProgress
  <2>1. profile' = profile /\ ExploreRounds' = ExploreRounds /\ AnalysisRounds' = AnalysisRounds
    BY <1>17 DEF ReportProgress, EventLoopIdle, ExploreRounds, AnalysisRounds
  <2>2. BatchEnd(explored + 1 - 1) \in 0..ExploreRounds
    BY <1>1, BatchEnds DEF CInv, StepTypes, CountTypes
  <2>3. StepTypes'
    BY <1>1, <1>17, <2>1, <2>2 DEF ReportProgress, Goto, EventLoopIdle, SetStatus, AfterRound, CInv,
      StepTypes, Status, Verdict, Steps, Phase1, Phase2, Asking
  <2>4. FlagTypes'
    BY <1>1, <1>17, <2>1, <2>2 DEF ReportProgress, Goto, EventLoopIdle, SetStatus, AfterRound, CInv,
      FlagTypes
  <2>5. CountTypes'
    BY <1>1, <1>17, <2>1, <2>2 DEF ReportProgress, Goto, EventLoopIdle, SetStatus, AfterRound, CInv,
      CountTypes, Counts
  <2>6. ToldIsStored' /\ Telling'
    BY <1>1, <1>17, <2>1, <2>2, CampaignSentinels DEF ReportProgress, Goto, EventLoopIdle,
      SetStatus, AfterRound, CInv, StepTypes, ToldIsStored, Telling, Status, Verdict
  <2>7. Counts'
    BY <1>1, <1>17, <2>1, <2>2 DEF ReportProgress, Goto, EventLoopIdle, SetStatus, AfterRound, CInv,
      CountTypes, Counts
  <2>8. Quiet'
    BY <1>1, <1>17, <2>1, <2>2 DEF ReportProgress, Goto, EventLoopIdle, SetStatus, AfterRound, CInv,
      FlagTypes, Telling, Quiet
  <2>. QED
    BY <2>3, <2>4, <2>5, <2>6, <2>7, <2>8 DEF CInv
<1>18. CASE Tally
  <2>1. profile' = profile /\ ExploreRounds' = ExploreRounds /\ AnalysisRounds' = AnalysisRounds
    BY <1>18 DEF Tally, EventLoopIdle, ExploreRounds, AnalysisRounds
  <2>2. StepTypes'
    BY <1>1, <1>18, <2>1 DEF Tally, Goto, EventLoopIdle, store, CountDry, CInv, StepTypes, Status,
      Verdict, Steps, Phase1, Phase2, Asking
  <2>3. FlagTypes'
    BY <1>1, <1>18, <2>1 DEF Tally, Goto, EventLoopIdle, store, CountDry, CInv, FlagTypes
  <2>4. CountTypes'
    BY <1>1, <1>18, <2>1 DEF Tally, Goto, EventLoopIdle, store, CountDry, CInv, CountTypes, Counts
  <2>5. ToldIsStored' /\ Telling'
    BY <1>1, <1>18, <2>1, CampaignSentinels DEF Tally, Goto, EventLoopIdle, store, CountDry, CInv,
      StepTypes, ToldIsStored, Telling, Status, Verdict
  <2>6. Counts'
    BY <1>1, <1>18, <2>1 DEF Tally, Goto, EventLoopIdle, store, CountDry, CInv, CountTypes, Counts
  <2>7. Quiet'
    BY <1>1, <1>18, <2>1 DEF Tally, Goto, EventLoopIdle, store, CountDry, CInv, FlagTypes, Telling,
      Quiet
  <2>. QED
    BY <2>2, <2>3, <2>4, <2>5, <2>6, <2>7 DEF CInv
<1>19. CASE HeedStop("beatA", "sweep", "analysis")
  <2>1. profile' = profile /\ ExploreRounds' = ExploreRounds /\ AnalysisRounds' = AnalysisRounds
    BY <1>19 DEF HeedStop, EventLoopIdle, ExploreRounds, AnalysisRounds
  <2>2. StepTypes'
    BY <1>1, <1>19, <2>1 DEF HeedStop, Goto, EventLoopIdle, store, CInv, StepTypes, Status, Verdict,
      Steps, Phase1, Phase2, Asking
  <2>3. FlagTypes'
    BY <1>1, <1>19, <2>1 DEF HeedStop, Goto, EventLoopIdle, store, CInv, FlagTypes
  <2>4. CountTypes'
    BY <1>1, <1>19, <2>1 DEF HeedStop, Goto, EventLoopIdle, store, CInv, CountTypes, Counts
  <2>5. ToldIsStored' /\ Telling'
    BY <1>1, <1>19, <2>1, CampaignSentinels DEF HeedStop, Goto, EventLoopIdle, store, CInv,
      StepTypes, ToldIsStored, Telling, Status, Verdict
  <2>6. Counts'
    BY <1>1, <1>19, <2>1 DEF HeedStop, Goto, EventLoopIdle, store, CInv, CountTypes, Counts
  <2>7. Quiet'
    BY <1>1, <1>19, <2>1 DEF HeedStop, Goto, EventLoopIdle, store, CInv, FlagTypes, Telling, Quiet
  <2>. QED
    BY <2>2, <2>3, <2>4, <2>5, <2>6, <2>7 DEF CInv
<1>20. CASE AskSafely("analysis", "reportA")
  <2>1. profile' = profile /\ ExploreRounds' = ExploreRounds /\ AnalysisRounds' = AnalysisRounds
    BY <1>20 DEF AskSafely, EventLoopIdle, ExploreRounds, AnalysisRounds
  <2>2. StepTypes'
    BY <1>1, <1>20, <2>1 DEF AskSafely, Goto, EventLoopIdle, Reports, ReportRaises, CInv, StepTypes,
      Status, Verdict, Steps, Phase1, Phase2, Asking
  <2>3. FlagTypes'
    BY <1>1, <1>20, <2>1 DEF AskSafely, Goto, EventLoopIdle, Reports, ReportRaises, CInv, FlagTypes
  <2>4. CountTypes'
    BY <1>1, <1>20, <2>1 DEF AskSafely, Goto, EventLoopIdle, Reports, ReportRaises, CInv,
      CountTypes, Counts
  <2>5. ToldIsStored' /\ Telling'
    BY <1>1, <1>20, <2>1, CampaignSentinels DEF AskSafely, Goto, EventLoopIdle, Reports,
      ReportRaises, CInv, StepTypes, ToldIsStored, Telling, Status, Verdict
  <2>6. Counts'
    BY <1>1, <1>20, <2>1 DEF AskSafely, Goto, EventLoopIdle, Reports, ReportRaises, CInv,
      CountTypes, Counts
  <2>7. Quiet'
    BY <1>1, <1>20, <2>1 DEF AskSafely, Goto, EventLoopIdle, Reports, ReportRaises, CInv, FlagTypes,
      Telling, Quiet
  <2>. QED
    BY <2>2, <2>3, <2>4, <2>5, <2>6, <2>7 DEF CInv
<1>21. CASE NoToolCalled
  <2>1. profile' = profile /\ ExploreRounds' = ExploreRounds /\ AnalysisRounds' = AnalysisRounds
    BY <1>21 DEF NoToolCalled, EventLoopIdle, ExploreRounds, AnalysisRounds
  <2>2. StepTypes'
    BY <1>1, <1>21, <2>1 DEF NoToolCalled, Goto, EventLoopIdle, store, local, loop, CInv, StepTypes,
      Status, Verdict, Steps, Phase1, Phase2, Asking
  <2>3. FlagTypes'
    BY <1>1, <1>21, <2>1 DEF NoToolCalled, Goto, EventLoopIdle, store, local, loop, CInv, FlagTypes
  <2>4. CountTypes'
    BY <1>1, <1>21, <2>1 DEF NoToolCalled, Goto, EventLoopIdle, store, local, loop, CInv,
      CountTypes, Counts
  <2>5. ToldIsStored' /\ Telling'
    BY <1>1, <1>21, <2>1, CampaignSentinels DEF NoToolCalled, Goto, EventLoopIdle, store, local,
      loop, CInv, StepTypes, ToldIsStored, Telling, Status, Verdict
  <2>6. Counts'
    BY <1>1, <1>21, <2>1 DEF NoToolCalled, Goto, EventLoopIdle, store, local, loop, CInv,
      CountTypes, Counts
  <2>7. Quiet'
    BY <1>1, <1>21, <2>1 DEF NoToolCalled, Goto, EventLoopIdle, store, local, loop, CInv, FlagTypes,
      Telling, Quiet
  <2>. QED
    BY <2>2, <2>3, <2>4, <2>5, <2>6, <2>7 DEF CInv
<1>22. CASE HeedStop("nudgeA", "sweep", "again")
  <2>1. profile' = profile /\ ExploreRounds' = ExploreRounds /\ AnalysisRounds' = AnalysisRounds
    BY <1>22 DEF HeedStop, EventLoopIdle, ExploreRounds, AnalysisRounds
  <2>2. StepTypes'
    BY <1>1, <1>22, <2>1 DEF HeedStop, Goto, EventLoopIdle, store, CInv, StepTypes, Status, Verdict,
      Steps, Phase1, Phase2, Asking
  <2>3. FlagTypes'
    BY <1>1, <1>22, <2>1 DEF HeedStop, Goto, EventLoopIdle, store, CInv, FlagTypes
  <2>4. CountTypes'
    BY <1>1, <1>22, <2>1 DEF HeedStop, Goto, EventLoopIdle, store, CInv, CountTypes, Counts
  <2>5. ToldIsStored' /\ Telling'
    BY <1>1, <1>22, <2>1, CampaignSentinels DEF HeedStop, Goto, EventLoopIdle, store, CInv,
      StepTypes, ToldIsStored, Telling, Status, Verdict
  <2>6. Counts'
    BY <1>1, <1>22, <2>1 DEF HeedStop, Goto, EventLoopIdle, store, CInv, CountTypes, Counts
  <2>7. Quiet'
    BY <1>1, <1>22, <2>1 DEF HeedStop, Goto, EventLoopIdle, store, CInv, FlagTypes, Telling, Quiet
  <2>. QED
    BY <2>2, <2>3, <2>4, <2>5, <2>6, <2>7 DEF CInv
<1>23. CASE AskSafely("again", "reportA")
  <2>1. profile' = profile /\ ExploreRounds' = ExploreRounds /\ AnalysisRounds' = AnalysisRounds
    BY <1>23 DEF AskSafely, EventLoopIdle, ExploreRounds, AnalysisRounds
  <2>2. StepTypes'
    BY <1>1, <1>23, <2>1 DEF AskSafely, Goto, EventLoopIdle, Reports, ReportRaises, CInv, StepTypes,
      Status, Verdict, Steps, Phase1, Phase2, Asking
  <2>3. FlagTypes'
    BY <1>1, <1>23, <2>1 DEF AskSafely, Goto, EventLoopIdle, Reports, ReportRaises, CInv, FlagTypes
  <2>4. CountTypes'
    BY <1>1, <1>23, <2>1 DEF AskSafely, Goto, EventLoopIdle, Reports, ReportRaises, CInv,
      CountTypes, Counts
  <2>5. ToldIsStored' /\ Telling'
    BY <1>1, <1>23, <2>1, CampaignSentinels DEF AskSafely, Goto, EventLoopIdle, Reports,
      ReportRaises, CInv, StepTypes, ToldIsStored, Telling, Status, Verdict
  <2>6. Counts'
    BY <1>1, <1>23, <2>1 DEF AskSafely, Goto, EventLoopIdle, Reports, ReportRaises, CInv,
      CountTypes, Counts
  <2>7. Quiet'
    BY <1>1, <1>23, <2>1 DEF AskSafely, Goto, EventLoopIdle, Reports, ReportRaises, CInv, FlagTypes,
      Telling, Quiet
  <2>. QED
    BY <2>2, <2>3, <2>4, <2>5, <2>6, <2>7 DEF CInv
<1>24. CASE ReportAnalysis
  <2>1. profile' = profile /\ ExploreRounds' = ExploreRounds /\ AnalysisRounds' = AnalysisRounds
    BY <1>24 DEF ReportAnalysis, EventLoopIdle, ExploreRounds, AnalysisRounds
  <2>2. StepTypes'
    BY <1>1, <1>24, <2>1 DEF ReportAnalysis, Goto, EventLoopIdle, SetStatus, CountDry, CInv,
      StepTypes, Status, Verdict, Steps, Phase1, Phase2, Asking
  <2>3. FlagTypes'
    BY <1>1, <1>24, <2>1 DEF ReportAnalysis, Goto, EventLoopIdle, SetStatus, CountDry, CInv,
      FlagTypes
  <2>4. CountTypes'
    BY <1>1, <1>24, <2>1 DEF ReportAnalysis, Goto, EventLoopIdle, SetStatus, CountDry, CInv,
      CountTypes, Counts
  <2>5. ToldIsStored' /\ Telling'
    BY <1>1, <1>24, <2>1, CampaignSentinels DEF ReportAnalysis, Goto, EventLoopIdle, SetStatus,
      CountDry, CInv, StepTypes, ToldIsStored, Telling, Status, Verdict
  <2>6. Counts'
    BY <1>1, <1>24, <2>1 DEF ReportAnalysis, Goto, EventLoopIdle, SetStatus, CountDry, CInv,
      CountTypes, Counts
  <2>7. Quiet'
    BY <1>1, <1>24, <2>1 DEF ReportAnalysis, Goto, EventLoopIdle, SetStatus, CountDry, CInv,
      FlagTypes, Telling, Quiet
  <2>. QED
    BY <2>2, <2>3, <2>4, <2>5, <2>6, <2>7 DEF CInv
<1>25. CASE Sweep
  <2>1. profile' = profile /\ ExploreRounds' = ExploreRounds /\ AnalysisRounds' = AnalysisRounds
    BY <1>25 DEF Sweep, AskSafely, EventLoopIdle, ExploreRounds, AnalysisRounds
  <2>2. StepTypes'
    BY <1>1, <1>25, <2>1 DEF Sweep, Goto, EventLoopIdle, store, local, loop, AskSafely, Reports,
      ReportRaises, CInv, StepTypes, Status, Verdict, Steps, Phase1, Phase2, Asking
  <2>3. FlagTypes'
    BY <1>1, <1>25, <2>1 DEF Sweep, Goto, EventLoopIdle, store, local, loop, AskSafely, Reports,
      ReportRaises, CInv, FlagTypes
  <2>4. CountTypes'
    BY <1>1, <1>25, <2>1 DEF Sweep, Goto, EventLoopIdle, store, local, loop, AskSafely, Reports,
      ReportRaises, CInv, CountTypes, Counts
  <2>5. ToldIsStored' /\ Telling'
    BY <1>1, <1>25, <2>1, CampaignSentinels DEF Sweep, Goto, EventLoopIdle, store, local, loop,
      AskSafely, Reports, ReportRaises, CInv, StepTypes, ToldIsStored, Telling, Status, Verdict
  <2>6. Counts'
    BY <1>1, <1>25, <2>1 DEF Sweep, Goto, EventLoopIdle, store, local, loop, AskSafely, Reports,
      ReportRaises, CInv, CountTypes, Counts
  <2>7. Quiet'
    BY <1>1, <1>25, <2>1 DEF Sweep, Goto, EventLoopIdle, store, local, loop, AskSafely, Reports,
      ReportRaises, CInv, FlagTypes, Telling, Quiet
  <2>. QED
    BY <2>2, <2>3, <2>4, <2>5, <2>6, <2>7 DEF CInv
<1>26. CASE ReportSweep
  <2>1. profile' = profile /\ ExploreRounds' = ExploreRounds /\ AnalysisRounds' = AnalysisRounds
    BY <1>26 DEF ReportSweep, EventLoopIdle, ExploreRounds, AnalysisRounds
  <2>. QED
    BY <1>1, <1>26, <2>1, CampaignSentinels DEF ReportSweep, Goto, EventLoopIdle, local, loop,
      SetStatus, CInv, StepTypes, FlagTypes, CountTypes, ToldIsStored, Counts, Telling, Quiet,
      Status, Verdict, Steps, Phase1, Phase2, Asking
<1>27. CASE Note("wrap")
  <2>1. profile' = profile /\ ExploreRounds' = ExploreRounds /\ AnalysisRounds' = AnalysisRounds
    BY <1>27 DEF Note, EventLoopIdle, ExploreRounds, AnalysisRounds
  <2>2. StepTypes'
    BY <1>1, <1>27, <2>1 DEF Note, Goto, EventLoopIdle, local, loop, CInv, StepTypes, Status,
      Verdict, Steps, Phase1, Phase2, Asking
  <2>3. FlagTypes'
    BY <1>1, <1>27, <2>1 DEF Note, Goto, EventLoopIdle, local, loop, CInv, FlagTypes
  <2>4. CountTypes'
    BY <1>1, <1>27, <2>1 DEF Note, Goto, EventLoopIdle, local, loop, CInv, CountTypes, Counts
  <2>5. ToldIsStored' /\ Telling'
    BY <1>1, <1>27, <2>1, CampaignSentinels DEF Note, Goto, EventLoopIdle, local, loop, CInv,
      StepTypes, ToldIsStored, Telling, Status, Verdict
  <2>6. Counts'
    BY <1>1, <1>27, <2>1 DEF Note, Goto, EventLoopIdle, local, loop, CInv, CountTypes, Counts
  <2>7. Quiet'
    BY <1>1, <1>27, <2>1 DEF Note, Goto, EventLoopIdle, local, loop, CInv, FlagTypes, Telling, Quiet
  <2>. QED
    BY <2>2, <2>3, <2>4, <2>5, <2>6, <2>7 DEF CInv
<1>28. CASE Note("skip")
  <2>1. profile' = profile /\ ExploreRounds' = ExploreRounds /\ AnalysisRounds' = AnalysisRounds
    BY <1>28 DEF Note, EventLoopIdle, ExploreRounds, AnalysisRounds
  <2>2. StepTypes'
    BY <1>1, <1>28, <2>1 DEF Note, Goto, EventLoopIdle, local, loop, CInv, StepTypes, Status,
      Verdict, Steps, Phase1, Phase2, Asking
  <2>3. FlagTypes'
    BY <1>1, <1>28, <2>1 DEF Note, Goto, EventLoopIdle, local, loop, CInv, FlagTypes
  <2>4. CountTypes'
    BY <1>1, <1>28, <2>1 DEF Note, Goto, EventLoopIdle, local, loop, CInv, CountTypes, Counts
  <2>5. ToldIsStored' /\ Telling'
    BY <1>1, <1>28, <2>1, CampaignSentinels DEF Note, Goto, EventLoopIdle, local, loop, CInv,
      StepTypes, ToldIsStored, Telling, Status, Verdict
  <2>6. Counts'
    BY <1>1, <1>28, <2>1 DEF Note, Goto, EventLoopIdle, local, loop, CInv, CountTypes, Counts
  <2>7. Quiet'
    BY <1>1, <1>28, <2>1 DEF Note, Goto, EventLoopIdle, local, loop, CInv, FlagTypes, Telling, Quiet
  <2>. QED
    BY <2>2, <2>3, <2>4, <2>5, <2>6, <2>7 DEF CInv
<1>29. CASE Complete
  <2>1. profile' = profile /\ ExploreRounds' = ExploreRounds /\ AnalysisRounds' = AnalysisRounds
    BY <1>29 DEF Complete, EventLoopIdle, ExploreRounds, AnalysisRounds
  <2>. QED
    BY <1>1, <1>29, <2>1, CampaignSentinels DEF Complete, EventLoopIdle, loop, End, SetStatus, CInv,
      StepTypes, FlagTypes, CountTypes, ToldIsStored, Counts, Telling, Quiet, Status, Verdict,
      Steps, Phase1, Phase2, Asking
<1>30. CASE Timeout
  <2>1. profile' = profile /\ ExploreRounds' = ExploreRounds /\ AnalysisRounds' = AnalysisRounds
    BY <1>30 DEF Timeout, EventLoopIdle, ExploreRounds, AnalysisRounds
  <2>. QED
    BY <1>1, <1>30, <2>1, CampaignSentinels DEF Timeout, EventLoopIdle, loop, End, SetStatus, CInv,
      StepTypes, FlagTypes, CountTypes, ToldIsStored, Counts, Telling, Quiet, Status, Verdict,
      Steps, Phase1, Phase2, Asking
<1>31. CASE Fail
  <2>1. profile' = profile /\ ExploreRounds' = ExploreRounds /\ AnalysisRounds' = AnalysisRounds
    BY <1>31 DEF Fail, EventLoopIdle, ExploreRounds, AnalysisRounds
  <2>. QED
    BY <1>1, <1>31, <2>1, CampaignSentinels DEF Fail, EventLoopIdle, loop, End, SetStatus, CInv,
      StepTypes, FlagTypes, CountTypes, ToldIsStored, Counts, Telling, Quiet, Status, Verdict,
      Steps, Phase1, Phase2, Asking
<1>32. CASE Tell
  <2>1. profile' = profile /\ ExploreRounds' = ExploreRounds /\ AnalysisRounds' = AnalysisRounds
    BY <1>32 DEF Tell, EventLoopIdle, ExploreRounds, AnalysisRounds
  <2>2. StepTypes'
    BY <1>1, <1>32, <2>1 DEF Tell, Goto, store, local, loop, CInv, StepTypes, Status, Verdict,
      Steps, Phase1, Phase2, Asking
  <2>3. FlagTypes'
    BY <1>1, <1>32, <2>1 DEF Tell, Goto, store, local, loop, CInv, FlagTypes
  <2>4. CountTypes'
    BY <1>1, <1>32, <2>1 DEF Tell, Goto, store, local, loop, CInv, CountTypes, Counts
  <2>5. ToldIsStored' /\ Telling'
    BY <1>1, <1>32, <2>1, CampaignSentinels DEF Tell, Goto, store, local, loop, CInv, StepTypes,
      ToldIsStored, Telling, Status, Verdict
  <2>6. Counts'
    BY <1>1, <1>32, <2>1 DEF Tell, Goto, store, local, loop, CInv, CountTypes, Counts
  <2>7. Quiet'
    BY <1>1, <1>32, <2>1 DEF Tell, Goto, store, local, loop, CInv, FlagTypes, Telling, Quiet
  <2>. QED
    BY <2>2, <2>3, <2>4, <2>5, <2>6, <2>7 DEF CInv
<1>33. CASE Cleanup
  <2>1. profile' = profile /\ ExploreRounds' = ExploreRounds /\ AnalysisRounds' = AnalysisRounds
    BY <1>33 DEF Cleanup, EventLoopIdle, ExploreRounds, AnalysisRounds
  <2>2. StepTypes'
    BY <1>1, <1>33, <2>1 DEF Cleanup, Goto, EventLoopIdle, store, local, loop, CInv, StepTypes,
      Status, Verdict, Steps, Phase1, Phase2, Asking
  <2>3. FlagTypes'
    BY <1>1, <1>33, <2>1 DEF Cleanup, Goto, EventLoopIdle, store, local, loop, CInv, FlagTypes
  <2>4. CountTypes'
    BY <1>1, <1>33, <2>1 DEF Cleanup, Goto, EventLoopIdle, store, local, loop, CInv, CountTypes,
      Counts
  <2>5. ToldIsStored' /\ Telling'
    BY <1>1, <1>33, <2>1, CampaignSentinels DEF Cleanup, Goto, EventLoopIdle, store, local, loop,
      CInv, StepTypes, ToldIsStored, Telling, Status, Verdict
  <2>6. Counts'
    BY <1>1, <1>33, <2>1 DEF Cleanup, Goto, EventLoopIdle, store, local, loop, CInv, CountTypes,
      Counts
  <2>7. Quiet'
    BY <1>1, <1>33, <2>1 DEF Cleanup, Goto, EventLoopIdle, store, local, loop, CInv, FlagTypes,
      Telling, Quiet
  <2>. QED
    BY <2>2, <2>3, <2>4, <2>5, <2>6, <2>7 DEF CInv
<1>. QED
  BY <1>2, <1>3, <1>4, <1>5, <1>6, <1>7, <1>8, <1>9, <1>10, <1>11, <1>12, <1>13, <1>14, <1>15,
    <1>16, <1>17, <1>18, <1>19, <1>20, <1>21, <1>22, <1>23, <1>24, <1>25, <1>26, <1>27, <1>28,
    <1>29, <1>30, <1>31, <1>32, <1>33 DEF Thread

\* The scan thread runs when nothing is being launched.
LEMMA LaunchedThread ==
  ASSUME CInv, coro = "launch"
  PROVE  pc = "none"
  BY DEF CInv, Telling

LEMMA LoopKeepsFindings ==
  ASSUME CInv, FInv, Launch \/ StopCheck \/ StopWrite \/ DeleteCampaign \/ Restart
  PROVE  FInv'
<1>1. CASE Launch
  BY <1>1, KeepFindings DEF Launch, local
<1>2. CASE StopCheck
  BY <1>2, KeepFindings DEF StopCheck, store, local
<1>3. CASE StopWrite
  BY <1>3, KeepFindings DEF StopWrite, local
<1>4. CASE DeleteCampaign
  <2>1. findings' = {} /\ links' = {} /\ unsaved' = unsaved
    BY <1>4 DEF DeleteCampaign, local
  <2>2. Unlinked' = {}
    BY <2>1 DEF Unlinked
  <2>3. LinksComplete'
    BY <2>1, <2>2 DEF LinksComplete
  <2>4. links' \subseteq findings' \X findings'
    BY <2>1
  <2>. QED
    BY <2>1, <2>3, <2>4 DEF FInv
<1>5. CASE Restart
  <2>1. findings' = findings /\ unsaved' = {} /\ coro' = "none" /\ pc' = "none"
    BY <1>5 DEF Restart, FreshThread
  <2>2. links' = links
    <3>1. Unlinked = {}
      BY DEF FInv, LinksComplete
    <3>2. PICK d \in [Unlinked -> findings] : links' = links \cup {<<f, d[f]>> : f \in Unlinked}
      BY <1>5 DEF Restart, RepairDuplicates
    <3>. QED
      BY <3>1, <3>2
  <2>3. LinksComplete'
    BY <2>1, <2>2, SameFindings DEF FInv
  <2>. QED
    BY <2>1, <2>2, <2>3 DEF FInv, Phase1
<1>. QED
  BY <1>1, <1>2, <1>3, <1>4, <1>5

LEMMA ThreadKeepsFindings ==
  ASSUME CInv, FInv, Thread
  PROVE  FInv'
<1>1. CASE Begin
  BY <1>1, KeepFindings DEF Begin, Goto, EventLoopIdle, store, local, loop, Phase1
<1>2. CASE NextCheck
  BY <1>2, KeepFindings DEF NextCheck, Goto, EventLoopIdle, store, local, loop, Phase1
<1>3. CASE CheckProgress
  BY <1>3, KeepFindings DEF CheckProgress, Goto, EventLoopIdle, local, loop, Phase1
<1>4. CASE RunCheck
  <2>1. UNCHANGED <<findings, links, coro>> /\ pc \in Phase1
    BY <1>4 DEF RunCheck, Goto, EventLoopIdle, store, Phase1
  <2>2. unsaved' \subseteq Finding /\ \A f \in unsaved' : ~f.ai
    <3>1. CASE unsaved' = unsaved
      BY <3>1 DEF FInv
    <3>2. CASE unsaved' # unsaved
      <4>1. PICK t \in Titles, s \in Sites \cup {Global} :
              unsaved' = unsaved \cup {[title |-> t, site |-> s, ai |-> FALSE]}
        BY <1>4, <3>2 DEF RunCheck
      <4>2. [title |-> t, site |-> s, ai |-> FALSE] \in Finding
        BY DEF Finding
      <4>3. ~[title |-> t, site |-> s, ai |-> FALSE].ai
        OBVIOUS
      <4>. QED
        BY <4>1, <4>2, <4>3 DEF FInv
    <3>. QED
      BY <3>1, <3>2
  <2>3. LinksComplete'
    BY <2>1, SameFindings DEF FInv
  <2>. QED
    BY <2>1, <2>2, <2>3 DEF FInv
<1>5. CASE EndOfChecks
  BY <1>5, KeepFindings DEF EndOfChecks, Goto, EventLoopIdle, local, loop, Phase1
<1>6. CASE StopTest("stop1", "save")
  BY <1>6, KeepFindings DEF StopTest, Goto, EventLoopIdle, loop, Phase1
<1>7. CASE SaveFinding
  <2>1. coro' = coro /\ pc \in Phase1
    BY <1>7 DEF SaveFinding, EventLoopIdle, Phase1
  <2>2. CASE UNCHANGED <<findings, links, unsaved>>
    BY <2>1, <2>2, KeepFindings
  <2>3. CASE \E f \in unsaved : AddFinding(f) /\ unsaved' = unsaved \ {f}
    <3>1. PICK f \in unsaved : AddFinding(f) /\ unsaved' = unsaved \ {f}
      BY <2>3
    <3>2. f \in Finding /\ ~f.ai /\ \A g \in findings : ~g.ai
      BY <2>1 DEF FInv
    <3>3. /\ findings' \subseteq Finding /\ links' \subseteq findings' \X findings'
          /\ \A g \in findings' : g.ai => g.title \in Titles
          /\ LinksComplete'
      BY <3>1, <3>2, AddingKeepsLinks
    <3>4. \A g \in findings' : ~g.ai
      BY <3>1, <3>2 DEF AddFinding
    <3>5. coro # "launch"
      BY <2>1, LaunchedThread DEF Phase1
    <3>. QED
      BY <2>1, <3>1, <3>3, <3>4, <3>5 DEF FInv
  <2>. QED
    BY <1>7, <2>2, <2>3 DEF SaveFinding
<1>8. CASE Saved
  BY <1>8, KeepFindings DEF Saved, Goto, EventLoopIdle, local, loop, Phase1
<1>9. CASE StopTest("stop2", "phase2")
  BY <1>9, KeepFindings DEF StopTest, Goto, EventLoopIdle, loop, Phase1
<1>10. CASE StartPhase2
  BY <1>10, KeepFindings DEF StartPhase2, Goto, EventLoopIdle, store, Phase1
<1>11. CASE NextRound
  BY <1>11, KeepFindings DEF NextRound, Goto, EventLoopIdle, store, local, loop, Phase1
<1>12. CASE HeedStop("beat", "tally", "round")
  BY <1>12, KeepFindings DEF HeedStop, Goto, EventLoopIdle, store, Phase1
<1>13. CASE Explore
  <2>1. coro' = coro /\ unsaved' = unsaved /\ pc # "none" /\ pc' \notin Phase1
    BY <1>13, AfterRoundInPhase2 DEF Explore, Goto, EventLoopIdle, Phase1
  <2>2. Reports \/ ReportRaises
    BY <1>13 DEF Explore, Reports
  <2>. QED
    BY <2>1, <2>2, LaunchedThread, ReportsKeep
<1>14. CASE HeedStop("nudge", "tally", "retry")
  BY <1>14, KeepFindings DEF HeedStop, Goto, EventLoopIdle, store, Phase1
<1>15. CASE AskSafely("retry", "report")
  <2>1. coro' = coro /\ unsaved' = unsaved /\ pc # "none" /\ pc' \notin Phase1
    BY <1>15 DEF AskSafely, Goto, EventLoopIdle, Phase1
  <2>2. Reports \/ ReportRaises
    BY <1>15 DEF AskSafely
  <2>. QED
    BY <2>1, <2>2, LaunchedThread, ReportsKeep
<1>16. CASE ReportProgress
  BY <1>16, KeepFindings, AfterRoundInPhase2 DEF ReportProgress, Goto, EventLoopIdle, Phase1
<1>17. CASE Tally
  BY <1>17, KeepFindings DEF Tally, Goto, EventLoopIdle, store, Phase1
<1>18. CASE HeedStop("beatA", "sweep", "analysis")
  BY <1>18, KeepFindings DEF HeedStop, Goto, EventLoopIdle, store, Phase1
<1>19. CASE AskSafely("analysis", "reportA")
  <2>1. coro' = coro /\ unsaved' = unsaved /\ pc # "none" /\ pc' \notin Phase1
    BY <1>19 DEF AskSafely, Goto, EventLoopIdle, Phase1
  <2>2. Reports \/ ReportRaises
    BY <1>19 DEF AskSafely
  <2>. QED
    BY <2>1, <2>2, LaunchedThread, ReportsKeep
<1>20. CASE NoToolCalled
  BY <1>20, KeepFindings DEF NoToolCalled, Goto, EventLoopIdle, store, local, loop, Phase1
<1>21. CASE HeedStop("nudgeA", "sweep", "again")
  BY <1>21, KeepFindings DEF HeedStop, Goto, EventLoopIdle, store, Phase1
<1>22. CASE AskSafely("again", "reportA")
  <2>1. coro' = coro /\ unsaved' = unsaved /\ pc # "none" /\ pc' \notin Phase1
    BY <1>22 DEF AskSafely, Goto, EventLoopIdle, Phase1
  <2>2. Reports \/ ReportRaises
    BY <1>22 DEF AskSafely
  <2>. QED
    BY <2>1, <2>2, LaunchedThread, ReportsKeep
<1>23. CASE ReportAnalysis
  BY <1>23, KeepFindings DEF ReportAnalysis, Goto, EventLoopIdle, Phase1
<1>24. CASE Sweep
  <2>1. CASE AskSafely("sweep", "reportS")
    <3>1. coro' = coro /\ unsaved' = unsaved /\ pc # "none" /\ pc' \notin Phase1
      BY <2>1 DEF AskSafely, Goto, EventLoopIdle, Phase1
    <3>2. Reports \/ ReportRaises
      BY <2>1 DEF AskSafely
    <3>. QED
      BY <3>1, <3>2, LaunchedThread, ReportsKeep
  <2>2. CASE UNCHANGED <<findings, links, unsaved>> /\ coro' = coro /\ pc' = "reportS"
    BY <2>2, KeepFindings DEF Phase1
  <2>. QED
    BY <1>24, <2>1, <2>2 DEF Sweep, Goto, EventLoopIdle, store, local
<1>25. CASE ReportSweep
  BY <1>25, KeepFindings DEF ReportSweep, Goto, EventLoopIdle, local, loop, Phase1
<1>26. CASE Note("wrap")
  <2>1. unsaved' = unsaved /\ coro' = coro /\ pc # "none" /\ pc' \notin Phase1
    BY <1>26 DEF Note, Goto, EventLoopIdle, local, Phase1
  <2>2. CASE UNCHANGED <<findings, links>>
    BY <2>1, <2>2, KeepFindings
  <2>3. CASE AddFinding(SkippedFinding)
    BY <2>1, <2>3, LaunchedThread, TellingKeeps
  <2>. QED
    BY <1>26, <2>2, <2>3 DEF Note, SkippedFinding
<1>27. CASE Note("skip")
  <2>1. unsaved' = unsaved /\ coro' = coro /\ pc # "none" /\ pc' \notin Phase1
    BY <1>27 DEF Note, Goto, EventLoopIdle, local, Phase1
  <2>2. CASE UNCHANGED <<findings, links>>
    BY <2>1, <2>2, KeepFindings
  <2>3. CASE AddFinding(SkippedFinding)
    BY <2>1, <2>3, LaunchedThread, TellingKeeps
  <2>. QED
    BY <1>27, <2>2, <2>3 DEF Note, SkippedFinding
<1>28. CASE Complete
  BY <1>28, KeepFindings DEF Complete, EventLoopIdle, loop, End, Phase1
<1>29. CASE Timeout
  BY <1>29, KeepFindings DEF Timeout, EventLoopIdle, loop, End, Phase1
<1>30. CASE Fail
  BY <1>30, KeepFindings DEF Fail, EventLoopIdle, loop, End, Phase1
<1>31. CASE Tell
  BY <1>31, KeepFindings DEF Tell, Goto, store, local, loop, Phase1
<1>32. CASE Cleanup
  BY <1>32, KeepFindings DEF Cleanup, Goto, EventLoopIdle, store, local, loop, Phase1
<1>. QED
  BY <1>1, <1>2, <1>3, <1>4, <1>5, <1>6, <1>7, <1>8, <1>9, <1>10, <1>11, <1>12, <1>13, <1>14, <1>15,
    <1>16, <1>17, <1>18, <1>19, <1>20, <1>21, <1>22, <1>23, <1>24, <1>25, <1>26, <1>27, <1>28,
    <1>29, <1>30, <1>31, <1>32 DEF Thread

-----------------------------------------------------------------------------
(* What follows.                                                           *)

LEMMA InvImplies == CInv /\ FInv => FindingsSound
<1> SUFFICES ASSUME CInv, FInv
             PROVE  FindingsSound
  OBVIOUS
<1>1. /\ ExploreRounds \in Nat /\ AnalysisRounds \in Nat /\ Checks \in Nat /\ DryLimit \in Nat
  BY RoundsAreNat, CampaignParameters DEF CInv, StepTypes
<1>2. /\ idx \in 0..Checks /\ explored \in 0..ExploreRounds /\ analysed \in 0..AnalysisRounds
      /\ dry \in 0..(DryLimit + 1)
  BY <1>1 DEF CInv, CountTypes
<1>3. CampaignTypeOK
  BY <1>2 DEF CampaignTypeOK, CInv, StepTypes, FlagTypes, FInv
<1>4. SettledWhenOver
  BY DEF SettledWhenOver, CInv, StepTypes, Telling, ToldIsStored, Verdict
<1>. QED
  BY <1>3, <1>4 DEF FindingsSound, CInv, FInv

LEMMA StepInv == CInv /\ FInv /\ [CampaignNext]_cvars => CInv' /\ FInv'
<1> SUFFICES ASSUME CInv, FInv, [CampaignNext]_cvars
             PROVE  CInv' /\ FInv'
  OBVIOUS
<1>1. CASE Launch \/ StopCheck \/ StopWrite \/ DeleteCampaign \/ Restart
  BY <1>1, LoopKeepsControl, LoopKeepsFindings
<1>2. CASE Thread
  BY <1>2, ThreadKeepsControl, ThreadKeepsFindings
<1>3. CASE UNCHANGED cvars
  <2>1. UNCHANGED <<profile, row, findings, links, flag, running, coro, pc, told, verdict, idx, unsaved,
                    explored, analysed, reported, news, dry, aborted>>
    BY <1>3 DEF cvars, store, local, loop
  <2>2. FInv'
    BY <2>1, KeepFindings
  <2>3. StepTypes' /\ FlagTypes' /\ ToldIsStored' /\ Telling' /\ Quiet'
    BY <2>1 DEF CInv, StepTypes, FlagTypes, ToldIsStored, Telling, Quiet
  <2>4. CountTypes' /\ Counts'
    BY <2>1 DEF CInv, CountTypes, Counts, ExploreRounds, AnalysisRounds
  <2>. QED
    BY <2>2, <2>3, <2>4 DEF CInv
<1>. QED
  BY <1>1, <1>2, <1>3 DEF CampaignNext

\* The row of a campaign, its findings and their links agree with what the thread did and told: the
\* thread of campaign_api.py, the handlers beside it and add_finding of database.py.
THEOREM FindingsStaySound == CampaignSpec => []FindingsSound
<1>1. CampaignInit => CInv /\ FInv
  BY InitInv
<1>2. CInv /\ FInv /\ [CampaignNext]_cvars => CInv' /\ FInv'
  BY StepInv
<1>3. CInv /\ FInv => FindingsSound
  BY InvImplies
<1>. QED
  BY <1>1, <1>2, <1>3, PTL DEF CampaignSpec

\* The store after the AI was stopped: what is added is not the AI's.
LEMMA QuietStep ==
  ASSUME CInv, FInv, CampaignNext, aborted
  PROVE  {f \in findings' : f.ai} \subseteq findings
<1>1. pc \notin {"round", "retry", "analysis", "again"}
  BY DEF CInv, Quiet
<1>2. CASE findings' = findings \/ findings' = {}
  BY <1>2
<1>3. CASE SaveFinding
  <2>1. CASE \E f \in unsaved : AddFinding(f)
    <3>1. PICK f \in unsaved : findings' = findings \cup {f}
      BY <2>1 DEF AddFinding
    <3>. QED
      BY <3>1 DEF FInv
  <2>2. CASE findings' = findings
    BY <2>2
  <2>. QED
    BY <1>3, <2>1, <2>2 DEF SaveFinding
<1>4. CASE Note("wrap") \/ Note("skip")
  <2>1. CASE AddFinding(SkippedFinding)
    BY <2>1 DEF AddFinding, SkippedFinding
  <2>2. CASE findings' = findings
    BY <2>2
  <2>. QED
    BY <1>4, <2>1, <2>2 DEF Note, SkippedFinding
<1>5. CASE Explore \/ AskSafely("retry", "report") \/ AskSafely("analysis", "reportA") \/ AskSafely("again", "reportA")
  BY <1>1, <1>5 DEF Explore, AskSafely, Goto
<1>6. CASE Sweep
  <2>1. findings' = findings
    BY <1>6 DEF Sweep, store
  <2>. QED
    BY <2>1
<1>7. CASE Launch \/ StopCheck \/ StopWrite \/ DeleteCampaign \/ Restart
  BY <1>2, <1>7 DEF Launch, StopCheck, StopWrite, DeleteCampaign, Restart, store
<1>8. ASSUME \/ Begin \/ NextCheck \/ CheckProgress \/ RunCheck \/ EndOfChecks
             \/ StopTest("stop1", "save") \/ Saved \/ StopTest("stop2", "phase2")
             \/ StartPhase2 \/ NextRound
             \/ HeedStop("beat", "tally", "round") \/ HeedStop("nudge", "tally", "retry") \/ ReportProgress
             \/ Tally \/ HeedStop("beatA", "sweep", "analysis") \/ NoToolCalled
             \/ HeedStop("nudgeA", "sweep", "again") \/ ReportAnalysis \/ ReportSweep
             \/ Complete \/ Timeout \/ Fail \/ Tell \/ Cleanup
      PROVE  findings' = findings
  BY <1>8 DEF Begin, NextCheck, CheckProgress, RunCheck, EndOfChecks, StopTest, Saved, StartPhase2,
    NextRound, HeedStop, ReportProgress, Tally, NoToolCalled, ReportAnalysis, ReportSweep, Complete,
    Timeout, Fail, Tell, Cleanup, store
<1>. QED
  BY <1>2, <1>3, <1>4, <1>5, <1>6, <1>7, <1>8 DEF CampaignNext, Thread

\* Once the thread noticed a stop no model adds a finding any more (_beat of ai_scanner.py).
THEOREM AbortedStaysQuiet == CampaignSpec => AbortedIsQuiet
<1>1. CampaignInit => CInv /\ FInv
  BY InitInv
<1>2. CInv /\ FInv /\ [CampaignNext]_cvars => CInv' /\ FInv'
  BY StepInv
<1>3. CInv /\ FInv /\ [CampaignNext]_cvars => [aborted => {f \in findings' : f.ai} \subseteq findings]_cvars
  BY QuietStep
<1>. QED
  BY <1>1, <1>2, <1>3, PTL DEF CampaignSpec, AbortedIsQuiet
=============================================================================
