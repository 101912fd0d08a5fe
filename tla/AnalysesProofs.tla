--------------------------- MODULE AnalysesProofs ---------------------------
(***************************************************************************)
(* For any users, profiles, repositories and threads, and however their    *)
(* steps interleave: what the table of a profile says of its analysis,     *)
(* what a clone may find in a directory, how much the quota counts, and    *)
(* what the one sandbox holds and who may use it.                          *)
(***************************************************************************)
EXTENDS Analyses, WellFoundedInduction, FiniteSetTheorems, TLAPS

-----------------------------------------------------------------------------
(* The analyses of a profile of the blue team.                             *)

Threads == {j \in Jobs : BAlive(j)}
Underway(j) == bpc[j] \in {"analysing", "saved", "raised"}

\* The mark in _running is spent on the first thread that ends: a thread more than the stops runs
\* only while it is there.
MarkSpent == Cardinality(Threads) <= bstops + (IF brunning THEN 1 ELSE 0)

\* Nothing puts the mark back while a handler is between its check and its thread.
HandlerAlone == bhandler # NoJob => ~brunning /\ bpc[bhandler] = "unborn" /\ brow # "unborn"

\* Nothing was started before the row was there.
BeforeRow == brow = "unborn" => ~brunning /\ breports = 0 /\ \A j \in Jobs : bpc[j] = "unborn"

\* A thread writes one report, and the report of a thread that has not told of it yet is there
\* unless the row is gone.
OneReportEach ==
  /\ breports <= Cardinality({j \in Jobs : bpc[j] \in {"saved", "settled", "over"}})
  /\ (brow \in BStatuses /\ \E j \in Jobs : bpc[j] = "saved") => breports > 0

\* A row that says running has a thread or a handler that will say otherwise.
RunningHasThread == (~bcrashed /\ brow = "running" /\ bhandler = NoJob) => \E j \in Jobs : Underway(j)

BInv ==
  /\ BlueTypeOK
  /\ MarkSpent
  /\ HandlerAlone
  /\ BeforeRow
  /\ OneReportEach
  /\ CompletedHasReport
  /\ RunningHasThread


LEMMA InitBInv ==
  ASSUME BlueInit
  PROVE  BInv
<1>1. \A j \in Jobs : bpc[j] = "unborn"
  BY DEF BlueInit
<1>2. Threads = {} /\ {j \in Jobs : bpc[j] \in {"saved", "settled", "over"}} = {}
  BY <1>1 DEF Threads, BAlive
<1>3. Cardinality({}) = 0
  BY FS_EmptySet
<1>4. BlueTypeOK
  <2>1. IsFiniteSet(Jobs) /\ Rounds \in Nat /\ MaxStops \in Nat
    BY BlueAssumption
  <2>2. Cardinality(Jobs) \in Nat
    BY <2>1, FS_CardinalityType
  <2>3. bpc \in [Jobs -> {"unborn"}] /\ bleft \in [Jobs -> 0..Rounds]
    BY <2>1 DEF BlueInit
  <2>4. breports \in 0..Cardinality(Jobs) /\ bstops \in 0..MaxStops
    BY <2>1, <2>2 DEF BlueInit
  <2>. QED
    BY <2>3, <2>4 DEF BlueInit, BlueTypeOK, BStatuses
<1>. QED
  BY <1>1, <1>2, <1>3, <1>4
     DEF BlueInit, BInv, MarkSpent, HandlerAlone, BeforeRow, OneReportEach, CompletedHasReport, RunningHasThread,
         BStatuses

\* The sets of jobs that are counted are finite.
LEMMA CountedJobs ==
  /\ \A S \in SUBSET Jobs : IsFiniteSet(S) /\ Cardinality(S) \in Nat /\ Cardinality(S) <= Cardinality(Jobs)
  /\ \A S \in SUBSET Jobs : \A j \in S : Cardinality(S \ {j}) = Cardinality(S) - 1
  /\ \A S \in SUBSET Jobs : \A j \in Jobs \ S : Cardinality(S \union {j}) = Cardinality(S) + 1
<1>1. \A S \in SUBSET Jobs : IsFiniteSet(S) /\ Cardinality(S) \in Nat /\ Cardinality(S) <= Cardinality(Jobs)
  BY BlueAssumption, FS_Subset, FS_CardinalityType
<1>. QED
  BY <1>1, FS_AddElement, FS_RemoveElement

\* A step of a handler or of the user: it moves no thread.
LEMMA HandlersKeep ==
  ASSUME BInv,
         \/ CreateProfile \/ StopAnalysis \/ DeleteProfile
         \/ \E j \in Jobs : ImportFromPentest(j) \/ StartAnalysis(j)
  PROVE  BInv'
<1>1. BlueTypeOK /\ MarkSpent /\ HandlerAlone /\ BeforeRow /\ OneReportEach /\ CompletedHasReport
  BY DEF BInv
<1>2. UNCHANGED <<bpc, bleft, bcrashed>> /\ bhandler = NoJob
  BY DEF CreateProfile, StopAnalysis, DeleteProfile, ImportFromPentest, StartAnalysis
<1>3. Threads' = Threads /\ Cardinality(Threads) \in Nat
  BY <1>2, CountedJobs DEF Threads, BAlive
<1>4. bstops \in Nat /\ breports \in Nat /\ MaxStops \in Nat
  BY <1>1, BlueAssumption, CountedJobs DEF BlueTypeOK
<1>5. CASE CreateProfile \/ \E j \in Jobs : ImportFromPentest(j) \/ StartAnalysis(j)
  <2>1. /\ UNCHANGED <<brunning, breports, bstops>> /\ ~brunning
        /\ brow = "unborn" \/ (brow \in BStatuses /\ bhandler' # NoJob)
        /\ brow' \in {"pending", "running"}
        /\ bhandler' # NoJob => bhandler' \in Jobs /\ bpc[bhandler'] = "unborn"
        /\ brow' = "running" => bhandler' # NoJob
    BY <1>1, <1>5, BlueAssumption DEF CreateProfile, ImportFromPentest, StartAnalysis, BeforeRow
  <2>2. BlueTypeOK'
    BY <1>1, <1>2, <1>5, <2>1 DEF BlueTypeOK, BStatuses, CreateProfile, ImportFromPentest, StartAnalysis
  <2>3. MarkSpent' /\ HandlerAlone' /\ BeforeRow' /\ CompletedHasReport' /\ RunningHasThread'
    BY <1>1, <1>2, <1>3, <2>1 DEF MarkSpent, HandlerAlone, BeforeRow, CompletedHasReport, RunningHasThread
  <2>4. OneReportEach'
    BY <1>1, <1>2, <2>1 DEF OneReportEach, BeforeRow, BStatuses
  <2>. QED
    BY <2>2, <2>3, <2>4 DEF BInv
<1>6. CASE StopAnalysis
  <2>1. /\ UNCHANGED <<breports, bhandler>> /\ bstops < MaxStops /\ brow \in BStatuses /\ brow' = "stopped"
        /\ brunning' = FALSE /\ bstops' = bstops + 1
    BY <1>6 DEF StopAnalysis
  <2>2. BlueTypeOK'
    <3>1. bstops' \in 0..MaxStops
      BY <1>4, <2>1
    <3>. QED
      BY <1>1, <1>2, <2>1, <3>1 DEF BlueTypeOK, BStatuses
  <2>3. MarkSpent'
    BY <1>1, <1>3, <1>4, <2>1 DEF MarkSpent
  <2>4. HandlerAlone' /\ BeforeRow' /\ OneReportEach' /\ CompletedHasReport' /\ RunningHasThread'
    BY <1>1, <1>2, <2>1
       DEF HandlerAlone, BeforeRow, OneReportEach, CompletedHasReport, RunningHasThread, BStatuses
  <2>. QED
    BY <2>2, <2>3, <2>4 DEF BInv
<1>7. CASE DeleteProfile
  <2>1. UNCHANGED <<brunning, bhandler, bstops>> /\ brow' = "deleted" /\ breports' = 0
    BY <1>7 DEF DeleteProfile
  <2>2. BlueTypeOK'
    BY <1>1, <1>2, <2>1, CountedJobs DEF BlueTypeOK
  <2>3. MarkSpent' /\ HandlerAlone' /\ BeforeRow' /\ CompletedHasReport' /\ RunningHasThread'
    BY <1>1, <1>2, <1>3, <2>1 DEF MarkSpent, HandlerAlone, BeforeRow, CompletedHasReport, RunningHasThread
  <2>4. OneReportEach'
    <3>1. Cardinality({j \in Jobs : bpc'[j] \in {"saved", "settled", "over"}}) \in Nat
      BY CountedJobs
    <3>. QED
      BY <2>1, <3>1 DEF OneReportEach, BStatuses
  <2>. QED
    BY <2>2, <2>3, <2>4 DEF BInv
<1>. QED
  BY <1>5, <1>6, <1>7

LEMMA LaunchKeeps ==
  ASSUME BInv, NEW j \in Jobs, Launch(j)
  PROVE  BInv'
<1>1. BlueTypeOK /\ MarkSpent /\ HandlerAlone /\ BeforeRow /\ OneReportEach /\ CompletedHasReport
  BY DEF BInv
<1>2. /\ UNCHANGED <<brow, breports, bleft, bstops, bcrashed>> /\ brunning' = TRUE /\ bhandler' = NoJob
      /\ bpc' = [bpc EXCEPT ![j] = "analysing"] /\ ~brunning /\ bpc[j] = "unborn" /\ brow # "unborn"
  BY <1>1, BlueAssumption DEF Launch, HandlerAlone
<1>3. BlueTypeOK'
  BY <1>1, <1>2 DEF BlueTypeOK
<1>4. MarkSpent'
  <2>1. Threads' = Threads \union {j} /\ j \notin Threads
    BY <1>1, <1>2 DEF Threads, BAlive, BlueTypeOK
  <2>2. Cardinality(Threads') = Cardinality(Threads) + 1 /\ Cardinality(Threads) \in Nat
    BY <2>1, CountedJobs DEF Threads
  <2>3. bstops \in Nat
    BY <1>1, BlueAssumption DEF BlueTypeOK
  <2>. QED
    BY <1>1, <1>2, <2>2, <2>3 DEF MarkSpent
<1>5. OneReportEach'
  <2>1. \A i \in Jobs : bpc'[i] \in {"saved", "settled", "over"} <=> bpc[i] \in {"saved", "settled", "over"}
    BY <1>1, <1>2 DEF BlueTypeOK
  <2>2. \A i \in Jobs : bpc'[i] = "saved" => bpc[i] = "saved"
    BY <1>1, <1>2 DEF BlueTypeOK
  <2>3. {i \in Jobs : bpc'[i] \in {"saved", "settled", "over"}} = {i \in Jobs : bpc[i] \in {"saved", "settled", "over"}}
    BY <2>1
  <2>. QED
    BY <1>1, <1>2, <2>2, <2>3 DEF OneReportEach
<1>6. HandlerAlone' /\ BeforeRow' /\ CompletedHasReport' /\ RunningHasThread'
  BY <1>1, <1>2 DEF HandlerAlone, BeforeRow, CompletedHasReport, RunningHasThread, Underway, BlueTypeOK
<1>. QED
  BY <1>3, <1>4, <1>5, <1>6 DEF BInv

\* A step of a thread that leaves it alive.
LEMMA ThreadsKeep ==
  ASSUME BInv, NEW j \in Jobs, Progress(j) \/ AnalyserRaises(j) \/ CreateReport(j) \/ SettleAnalysis(j)
  PROVE  BInv'
<1>1. BlueTypeOK /\ MarkSpent /\ HandlerAlone /\ BeforeRow /\ OneReportEach /\ CompletedHasReport /\ RunningHasThread
  BY DEF BInv
<1>2. UNCHANGED <<brunning, bhandler, bstops, bcrashed>> /\ bpc[j] \in {"analysing", "saved", "raised"}
  BY DEF Progress, AnalyserRaises, CreateReport, SettleAnalysis
<1>3. PICK p \in {"analysing", "saved", "raised", "settled"} : bpc' = [bpc EXCEPT ![j] = p]
  <2>1. CASE Progress(j)
    <3>1. bpc' = [bpc EXCEPT ![j] = "analysing"]
      BY <1>1, <2>1 DEF Progress, BlueTypeOK
    <3>. QED
      BY <3>1
  <2>2. CASE AnalyserRaises(j) \/ CreateReport(j) \/ SettleAnalysis(j)
    BY <2>2 DEF AnalyserRaises, CreateReport, SettleAnalysis
  <2>. QED
    BY <2>1, <2>2
<1>4. brow # "unborn" /\ (brow' = brow \/ (brow \in BStatuses /\ brow' \in {"running", "completed", "failed"}))
  BY <1>1, <1>2 DEF BeforeRow, Progress, AnalyserRaises, CreateReport, SettleAnalysis, BUpdated
<1>5. MarkSpent'
  <2>1. Threads' = Threads
    BY <1>1, <1>2, <1>3 DEF Threads, BAlive, BlueTypeOK
  <2>. QED
    BY <1>1, <1>2, <2>1 DEF MarkSpent
<1>6. HandlerAlone' /\ BeforeRow'
  BY <1>1, <1>2, <1>3, <1>4 DEF HandlerAlone, BeforeRow, BlueTypeOK, BStatuses
<1>7. RunningHasThread'
  <2>1. ASSUME p = "settled", brow' = "running"
        PROVE  FALSE
    <3>1. SettleAnalysis(j)
      BY <1>1, <1>2, <1>3, <2>1 DEF Progress, AnalyserRaises, CreateReport, BlueTypeOK
    <3>. QED
      BY <2>1, <3>1 DEF SettleAnalysis, BUpdated, BStatuses
  <2>. QED
    BY <1>1, <1>2, <1>3, <2>1 DEF RunningHasThread, Underway, BlueTypeOK
<1> DEFINE Told == {i \in Jobs : bpc[i] \in {"saved", "settled", "over"}}
<1>8. breports \in Nat /\ Cardinality(Told) \in Nat /\ breports <= Cardinality(Told)
  BY <1>1, CountedJobs DEF BlueTypeOK, OneReportEach
<1>9. OneReportEach' /\ CompletedHasReport' /\ BlueTypeOK'
  <2>1. CASE Progress(j)
    <3>1. /\ bpc' = bpc /\ UNCHANGED breports /\ bleft' = [bleft EXCEPT ![j] = @ - 1] /\ bleft[j] > 0
          /\ brow' \in BStatuses => brow \in BStatuses
          /\ brow' # "completed"
          /\ brow' \in BStatuses \union {"unborn", "deleted"}
      BY <1>1, <2>1 DEF Progress, BUpdated, BStatuses, BlueTypeOK
    <3>2. bleft' \in [Jobs -> 0..Rounds]
      <4>1. bleft \in [Jobs -> 0..Rounds] /\ Rounds \in Nat
        BY <1>1, BlueAssumption DEF BlueTypeOK
      <4>2. bleft[j] - 1 \in 0..Rounds
        BY <3>1, <4>1
      <4>. QED
        BY <3>1, <4>1, <4>2
    <3>. QED
      BY <1>1, <1>2, <3>1, <3>2 DEF OneReportEach, CompletedHasReport, BlueTypeOK
  <2>2. CASE AnalyserRaises(j) \/ (CreateReport(j) /\ brow \notin BStatuses)
    <3>1. /\ UNCHANGED <<breports, brow, bleft>> /\ bpc' = [bpc EXCEPT ![j] = "raised"] /\ bpc[j] = "analysing"
      BY <2>2 DEF AnalyserRaises, CreateReport
    <3>2. {i \in Jobs : bpc'[i] \in {"saved", "settled", "over"}} = Told
      BY <1>1, <3>1 DEF BlueTypeOK
    <3>3. \A i \in Jobs : bpc'[i] = "saved" => bpc[i] = "saved"
      BY <1>1, <3>1 DEF BlueTypeOK
    <3>. QED
      BY <1>1, <1>2, <3>1, <3>2, <3>3 DEF OneReportEach, CompletedHasReport, BlueTypeOK
  <2>3. CASE CreateReport(j) /\ brow \in BStatuses
    <3>1. /\ UNCHANGED <<brow, bleft>> /\ bpc' = [bpc EXCEPT ![j] = "saved"] /\ bpc[j] = "analysing"
          /\ breports' = breports + 1
      BY <2>3 DEF CreateReport
    <3>2. {i \in Jobs : bpc'[i] \in {"saved", "settled", "over"}} = Told \union {j} /\ j \notin Told
      BY <1>1, <3>1 DEF BlueTypeOK
    <3>3. Cardinality(Told \union {j}) = Cardinality(Told) + 1 /\ Cardinality(Told \union {j}) <= Cardinality(Jobs)
      BY <3>2, CountedJobs
    <3>4. breports' \in 0..Cardinality(Jobs) /\ breports' <= Cardinality(Told \union {j}) /\ breports' > 0
      BY <1>8, <3>1, <3>3, CountedJobs
    <3>5. BlueTypeOK'
      BY <1>1, <1>2, <3>1, <3>4 DEF BlueTypeOK
    <3>. QED
      BY <3>1, <3>2, <3>4, <3>5 DEF OneReportEach, CompletedHasReport
  <2>4. CASE SettleAnalysis(j)
    <3>1. /\ UNCHANGED <<breports, bleft>> /\ bpc' = [bpc EXCEPT ![j] = "settled"] /\ bpc[j] \in {"saved", "raised"}
          /\ brow' = BUpdated(IF bpc[j] = "saved" THEN "completed" ELSE "failed")
      BY <2>4 DEF SettleAnalysis
    <3>2. /\ brow' \in BStatuses => brow \in BStatuses
          /\ brow' \in BStatuses \union {"unborn", "deleted"}
          /\ brow' = "completed" => bpc[j] = "saved" /\ brow \in BStatuses
      BY <1>1, <3>1 DEF BUpdated, BStatuses, BlueTypeOK
    <3>3. /\ Told \subseteq {i \in Jobs : bpc'[i] \in {"saved", "settled", "over"}}
          /\ \A i \in Jobs : bpc'[i] = "saved" => bpc[i] = "saved"
      BY <1>1, <3>1 DEF BlueTypeOK
    <3>4. breports <= Cardinality({i \in Jobs : bpc'[i] \in {"saved", "settled", "over"}})
      <4> DEFINE Now == {i \in Jobs : bpc'[i] \in {"saved", "settled", "over"}}
      <4>1. IsFiniteSet(Now) /\ Cardinality(Now) \in Nat /\ Told \subseteq Now
        BY <3>3, CountedJobs
      <4>2. Cardinality(Told) <= Cardinality(Now)
        BY <4>1, FS_Subset
      <4>. QED
        BY <1>8, <4>1, <4>2
    <3>5. BlueTypeOK'
      BY <1>1, <1>2, <3>1, <3>2 DEF BlueTypeOK
    <3>. QED
      BY <1>1, <3>1, <3>2, <3>3, <3>4, <3>5 DEF OneReportEach, CompletedHasReport
  <2>. QED
    BY <2>1, <2>2, <2>3, <2>4
<1>. QED
  BY <1>5, <1>6, <1>7, <1>9 DEF BInv

LEMMA EndAnalysisKeeps ==
  ASSUME BInv, NEW j \in Jobs, EndAnalysis(j)
  PROVE  BInv'
<1>1. BlueTypeOK /\ MarkSpent /\ HandlerAlone /\ BeforeRow /\ OneReportEach /\ CompletedHasReport /\ RunningHasThread
  BY DEF BInv
<1>2. /\ UNCHANGED <<brow, breports, bleft, bhandler, bstops, bcrashed>> /\ brunning' = FALSE
      /\ bpc' = [bpc EXCEPT ![j] = "over"] /\ bpc[j] = "settled"
  BY DEF EndAnalysis
<1>3. BlueTypeOK'
  BY <1>1, <1>2 DEF BlueTypeOK
<1>4. MarkSpent'
  <2>1. Threads' = Threads \ {j} /\ j \in Threads
    BY <1>1, <1>2 DEF Threads, BAlive, BlueTypeOK
  <2>2. Cardinality(Threads') = Cardinality(Threads) - 1 /\ Cardinality(Threads) \in Nat
    BY <2>1, CountedJobs DEF Threads
  <2>3. bstops \in Nat
    BY <1>1, BlueAssumption DEF BlueTypeOK
  <2>. QED
    BY <1>1, <1>2, <2>2, <2>3 DEF MarkSpent
<1>5. OneReportEach'
  <2>1. {i \in Jobs : bpc'[i] \in {"saved", "settled", "over"}} = {i \in Jobs : bpc[i] \in {"saved", "settled", "over"}}
    BY <1>1, <1>2 DEF BlueTypeOK
  <2>2. \A i \in Jobs : bpc'[i] = "saved" => bpc[i] = "saved"
    BY <1>1, <1>2 DEF BlueTypeOK
  <2>. QED
    BY <1>1, <1>2, <2>1, <2>2 DEF OneReportEach
<1>6. HandlerAlone' /\ BeforeRow' /\ CompletedHasReport' /\ RunningHasThread'
  BY <1>1, <1>2 DEF HandlerAlone, BeforeRow, CompletedHasReport, RunningHasThread, Underway, BlueTypeOK
<1>. QED
  BY <1>3, <1>4, <1>5, <1>6 DEF BInv

LEMMA BlueRestartKeeps ==
  ASSUME BInv, BlueRestart
  PROVE  BInv'
<1>1. BlueTypeOK /\ MarkSpent /\ HandlerAlone /\ BeforeRow /\ OneReportEach /\ CompletedHasReport
  BY DEF BInv
<1>2. /\ UNCHANGED <<brow, breports, bleft, bstops>> /\ brunning' = FALSE /\ bhandler' = NoJob /\ bcrashed' = TRUE
      /\ bpc' = [j \in Jobs |-> IF BAlive(j) \/ bhandler = j THEN "over" ELSE bpc[j]]
  BY DEF BlueRestart
<1>3. \A j \in Jobs : /\ bpc'[j] \in {"unborn", "over"}
                      /\ bpc[j] \in {"saved", "settled", "over"} => bpc'[j] = "over"
                      /\ brow = "unborn" => bpc'[j] = "unborn"
  BY <1>1, <1>2, BlueAssumption DEF BlueTypeOK, BAlive, BeforeRow, HandlerAlone
<1>4. BlueTypeOK'
  <2>1. bpc' \in [Jobs -> {"unborn", "analysing", "saved", "raised", "settled", "over"}]
    BY <1>2, <1>3
  <2>. QED
    BY <1>1, <1>2, <2>1 DEF BlueTypeOK
<1>5. MarkSpent'
  <2>1. Threads' = {} /\ bstops \in Nat
    BY <1>1, <1>3, BlueAssumption DEF Threads, BAlive, BlueTypeOK
  <2>. QED
    BY <1>2, <2>1, FS_EmptySet DEF MarkSpent
<1>6. OneReportEach'
  <2> DEFINE Told == {i \in Jobs : bpc[i] \in {"saved", "settled", "over"}}
             Now == {i \in Jobs : bpc'[i] \in {"saved", "settled", "over"}}
  <2>1. Told \subseteq Now /\ IsFiniteSet(Now) /\ Cardinality(Now) \in Nat /\ Cardinality(Told) \in Nat
    BY <1>3, CountedJobs
  <2>2. Cardinality(Told) <= Cardinality(Now)
    BY <2>1, FS_Subset
  <2>3. breports \in Nat /\ breports <= Cardinality(Told)
    BY <1>1, CountedJobs DEF OneReportEach, BlueTypeOK
  <2>4. breports' <= Cardinality(Now)
    BY <1>2, <2>1, <2>2, <2>3
  <2>. QED
    BY <1>3, <2>4 DEF OneReportEach
<1>7. HandlerAlone' /\ BeforeRow' /\ CompletedHasReport' /\ RunningHasThread'
  BY <1>1, <1>2, <1>3 DEF HandlerAlone, BeforeRow, CompletedHasReport, RunningHasThread
<1>. QED
  BY <1>4, <1>5, <1>6, <1>7 DEF BInv

LEMMA BlueSteps ==
  ASSUME BInv,
         \/ CreateProfile \/ StopAnalysis \/ DeleteProfile \/ BlueRestart
         \/ \E j \in Jobs : ImportFromPentest(j) \/ StartAnalysis(j) \/ BlueStep(j)
  PROVE  BInv'
<1>1. ASSUME NEW j \in Jobs, BlueStep(j)
      PROVE  BInv'
  BY <1>1, LaunchKeeps, ThreadsKeep, EndAnalysisKeeps DEF BlueStep
<1>. QED
  BY <1>1, HandlersKeep, BlueRestartKeeps

LEMMA BInvIsSound ==
  ASSUME BInv
  PROVE  BlueSound
<1>1. OneMorePerStop
  <2>1. Cardinality(Threads) \in Nat /\ bstops \in Nat
    BY BlueAssumption, CountedJobs DEF Threads, BInv, BlueTypeOK
  <2>. QED
    BY <2>1 DEF BInv, MarkSpent, OneMorePerStop, Threads
<1>2. SettledWhenIdle
  BY DEF BInv, RunningHasThread, SettledWhenIdle, Underway, BAlive
<1>. QED
  BY <1>1, <1>2 DEF BInv, BlueSound

-----------------------------------------------------------------------------
(* Induction, over the naturals and over the subsets of a finite set, and   *)
(* what it shows of a sum.                                                  *)

LEMMA LeastNatural ==
  ASSUME NEW T, T \subseteq Nat, T # {}
  PROVE  \E m \in T : \A k \in T : m <= k
<1>1. \E m \in T : \A k \in T : <<k, m>> \notin OpToRel(<, Nat)
  BY NatLessThanWellFounded, WFMin
<1>2. \A m, k \in T : k < m => <<k, m>> \in OpToRel(<, Nat)
  BY DEF OpToRel
<1>3. \E m \in T : \A k \in T : ~(k < m)
  BY <1>1, <1>2, Zenon
<1>. QED
  BY <1>3

SumOf(r, S) == MapThenSumSet(LAMBDA p : r[p], S)
OnePicked(S) == CHOOSE x \in S : TRUE
SumUp(g, r, S) == g = [s \in SUBSET S |-> IF s = {} THEN 0 ELSE r[OnePicked(s)] + g[s \ {OnePicked(s)}]]

LEMMA SumExpanded ==
  ASSUME NEW r, NEW S
  PROVE  SumOf(r, S) = (CHOOSE g : SumUp(g, r, S))[S]
  BY Zenon DEF SumOf, MapThenSumSet, MapThenFoldSet, SumUp, OnePicked

\* Induction, over the naturals and over the subsets of a finite set, with a set in the place of the
\* predicate.
LEMMA CountingUp ==
  ASSUME NEW G, 0 \in G, \A n \in Nat : n \in G => n + 1 \in G
  PROVE  Nat \subseteq G
<1>1. SUFFICES ASSUME Nat \ G # {}
               PROVE  FALSE
  OBVIOUS
<1>2. PICK m \in Nat \ G : \A k \in Nat \ G : m <= k
  BY <1>1, LeastNatural
<1>3. m - 1 \in Nat /\ m - 1 \in G
  BY <1>2
<1>. QED
  BY <1>2, <1>3

LEMMA TakingAway ==
  ASSUME NEW S, IsFiniteSet(S), NEW G,
         \A s \in SUBSET S : (\A x \in s : s \ {x} \in G) => s \in G
  PROVE  SUBSET S \subseteq G
<1> DEFINE Sized == {n \in Nat : \A s \in SUBSET S : Cardinality(s) = n => s \in G}
<1>1. \A s \in SUBSET S : IsFiniteSet(s) /\ Cardinality(s) \in Nat
  BY FS_Subset, FS_CardinalityType
<1>2. \A s \in SUBSET S : Cardinality(s) = 0 => s = {}
  BY <1>1, FS_EmptySet
<1>3. 0 \in Sized
  BY <1>2
<1>4. ASSUME NEW n \in Nat, n \in Sized
      PROVE  n + 1 \in Sized
  <2>1. ASSUME NEW s \in SUBSET S, Cardinality(s) = n + 1
        PROVE  s \in G
    <3>1. ASSUME NEW x \in s
          PROVE  s \ {x} \in G
      <4>1. IsFiniteSet(s)
        BY <1>1
      <4>2. Cardinality(s \ {x}) = Cardinality(s) - 1
        BY <4>1, FS_RemoveElement
      <4>. QED
        BY <1>4, <2>1, <4>2
    <3>. QED
      BY <3>1
  <2>. QED
    BY <2>1
<1>5. Nat \subseteq Sized
  <2> HIDE DEF Sized
  <2>. QED
    BY <1>3, <1>4, CountingUp
<1>. QED
  BY <1>1, <1>5

LEMMA SumExists ==
  ASSUME NEW S, IsFiniteSet(S), NEW r
  PROVE  \E g : SumUp(g, r, S)
<1> DEFINE Upto(n) == {s \in SUBSET S : Cardinality(s) <= n}
           Step(g, s) == IF s = {} THEN 0 ELSE r[OnePicked(s)] + g[s \ {OnePicked(s)}]
           Solved == {n \in Nat : \E g : g = [s \in Upto(n) |-> Step(g, s)]}
<1>1. \A s \in SUBSET S : IsFiniteSet(s) /\ Cardinality(s) \in Nat /\ Cardinality(s) <= Cardinality(S)
  BY FS_Subset, FS_CardinalityType
<1>2. 0 \in Solved
  <2>1. \A s \in Upto(0) : s = {}
    BY <1>1, FS_EmptySet
  <2>2. [s \in Upto(0) |-> 0] = [s \in Upto(0) |-> Step([z \in Upto(0) |-> 0], s)]
    BY <2>1
  <2>. QED
    BY <2>2
<1>3. ASSUME NEW n \in Nat, n \in Solved
      PROVE  n + 1 \in Solved
  <2>1. PICK g : g = [s \in Upto(n) |-> Step(g, s)]
    BY <1>3
  <2> DEFINE h == [s \in Upto(n + 1) |-> Step(g, s)]
  <2>2. ASSUME NEW s \in Upto(n + 1)
        PROVE  Step(g, s) = Step(h, s)
    <3>1. CASE s = {}
      BY <3>1
    <3>2. CASE s # {}
      <4> DEFINE w == s \ {OnePicked(s)}
      <4>1. OnePicked(s) \in s
        BY <3>2 DEF OnePicked
      <4>2. w \in SUBSET S /\ Cardinality(w) = Cardinality(s) - 1
        BY <1>1, <4>1, FS_RemoveElement
      <4>3. w \in Upto(n) /\ w \in Upto(n + 1)
        BY <1>1, <4>2
      <4>4. g[w] = Step(g, w) /\ h[w] = Step(g, w)
        BY <2>1, <4>3, Zenon
      <4>. QED
        BY <3>2, <4>4
    <3>. QED
      BY <3>1, <3>2
  <2>3. h = [s \in Upto(n + 1) |-> Step(h, s)]
    BY <2>2, Zenon
  <2>4. \E f : f = [s \in Upto(n + 1) |-> Step(f, s)]
    BY <2>3, Zenon
  <2>5. n + 1 \in Nat
    OBVIOUS
  <2>. QED
    BY <2>4, <2>5, Zenon
<1>4. Nat \subseteq Solved
  <2> HIDE DEF Solved
  <2>. QED
    BY <1>2, <1>3, CountingUp
<1>5. Cardinality(S) \in Solved
  BY <1>1, <1>4
<1>6. Upto(Cardinality(S)) = SUBSET S
  BY <1>1
<1>. QED
  BY <1>5, <1>6 DEF SumUp

\* The sum as the equations its definition is meant to say.
LEMMA SumSolved ==
  ASSUME NEW S, IsFiniteSet(S), NEW r
  PROVE  \E g : SumUp(g, r, S) /\ SumOf(r, S) = g[S]
<1> DEFINE g == CHOOSE f : SumUp(f, r, S)
<1>1. SumUp(g, r, S)
  BY SumExists, Zenon
<1>2. SumOf(r, S) = g[S]
  BY SumExpanded, Zenon
<1>. QED
  BY <1>1, <1>2, Zenon

LEMMA SumEquation ==
  ASSUME NEW S, NEW r, NEW g, SumUp(g, r, S), NEW s \in SUBSET S
  PROVE  /\ s = {} => g[s] = 0
         /\ s # {} => /\ OnePicked(s) \in s
                      /\ g[s] = r[OnePicked(s)] + g[s \ {OnePicked(s)}]
<1>1. g[s] = IF s = {} THEN 0 ELSE r[OnePicked(s)] + g[s \ {OnePicked(s)}]
  BY Zenon DEF SumUp
<1>2. s # {} => OnePicked(s) \in s
  BY DEF OnePicked
<1>. QED
  BY <1>1, <1>2

LEMMA PartialSums ==
  ASSUME NEW S, IsFiniteSet(S), NEW r \in [S -> Nat], NEW g, SumUp(g, r, S), NEW s \in SUBSET S
  PROVE  g[s] \in Nat
<1> DEFINE G == {z \in SUBSET S : g[z] \in Nat}
<1>1. ASSUME NEW z \in SUBSET S, \A x \in z : z \ {x} \in G
      PROVE  z \in G
  <2>1. CASE z = {}
    <3>1. g[z] = 0
      BY <2>1, SumEquation, Zenon
    <3>. QED
      BY <3>1
  <2>2. CASE z # {}
    <3>1. OnePicked(z) \in z /\ g[z] = r[OnePicked(z)] + g[z \ {OnePicked(z)}]
      BY <2>2, SumEquation
    <3>2. r[OnePicked(z)] \in Nat /\ g[z \ {OnePicked(z)}] \in Nat
      BY <1>1, <3>1
    <3>. QED
      BY <3>1, <3>2
  <2>. QED
    BY <2>1, <2>2
<1>2. SUBSET S \subseteq G
  <2> HIDE DEF G
  <2>. QED
    BY <1>1, TakingAway
<1>. QED
  BY <1>2

\* A sum is a number, and changes by what one of its terms changes.
LEMMA SumType ==
  ASSUME NEW S, IsFiniteSet(S), NEW r \in [S -> Nat]
  PROVE  SumOf(r, S) \in Nat
<1>1. PICK g : SumUp(g, r, S) /\ SumOf(r, S) = g[S]
  BY SumSolved
<1>. QED
  BY <1>1, PartialSums

LEMMA SumOfNothing ==
  ASSUME NEW S, IsFiniteSet(S), NEW r \in [S -> Nat], \A x \in S : r[x] = 0
  PROVE  SumOf(r, S) = 0
<1>1. PICK g : SumUp(g, r, S) /\ SumOf(r, S) = g[S]
  BY SumSolved
<1> DEFINE G == {z \in SUBSET S : g[z] = 0}
<1>2. ASSUME NEW z \in SUBSET S, \A x \in z : z \ {x} \in G
      PROVE  z \in G
  <2>1. CASE z = {}
    BY <1>1, <2>1, SumEquation
  <2>2. CASE z # {}
    <3>1. OnePicked(z) \in z /\ g[z] = r[OnePicked(z)] + g[z \ {OnePicked(z)}]
      BY <1>1, <2>2, SumEquation
    <3>2. r[OnePicked(z)] = 0 /\ g[z \ {OnePicked(z)}] = 0
      BY <1>2, <3>1
    <3>. QED
      BY <3>1, <3>2
  <2>. QED
    BY <2>1, <2>2
<1>3. SUBSET S \subseteq G
  <2> HIDE DEF G
  <2>. QED
    BY <1>2, TakingAway
<1>. QED
  BY <1>1, <1>3

LEMMA SumChanged ==
  ASSUME NEW S, IsFiniteSet(S), NEW r \in [S -> Nat], NEW q \in [S -> Nat], NEW p \in S,
         \A x \in S \ {p} : q[x] = r[x]
  PROVE  SumOf(q, S) = SumOf(r, S) - r[p] + q[p]
<1>0. r[p] \in Nat /\ q[p] \in Nat /\ \A x \in S : x # p => q[x] = r[x]
  OBVIOUS
<1>1. PICK g : SumUp(g, r, S) /\ SumOf(r, S) = g[S]
  BY SumSolved
<1>2. PICK h : SumUp(h, q, S) /\ SumOf(q, S) = h[S]
  BY SumSolved
<1> DEFINE Moved(z) == IF p \in z THEN h[z] = g[z] - r[p] + q[p] ELSE h[z] = g[z]
           G == {z \in SUBSET S : Moved(z)}
<1>3. ASSUME NEW z \in SUBSET S, \A x \in z : z \ {x} \in G
      PROVE  z \in G
  <2>0. /\ g[z] = IF z = {} THEN 0 ELSE r[OnePicked(z)] + g[z \ {OnePicked(z)}]
        /\ h[z] = IF z = {} THEN 0 ELSE q[OnePicked(z)] + h[z \ {OnePicked(z)}]
    BY <1>1, <1>2, Zenon DEF SumUp
  <2>1. CASE z = {}
    BY <2>0, <2>1
  <2>2. CASE z # {}
    <3>1. OnePicked(z) \in z
      BY <2>2 DEF OnePicked
    <3>2. PICK x \in z : g[z] = r[x] + g[z \ {x}] /\ h[z] = q[x] + h[z \ {x}]
      BY <2>0, <2>2, <3>1
    <3> DEFINE w == z \ {x}
    <3>3. w \in SUBSET S /\ Moved(w)
      BY <1>3
    <3>4. g[w] \in Nat /\ h[w] \in Nat /\ r[x] \in Nat /\ q[x] \in Nat /\ r[p] \in Nat
      BY <1>0, <1>1, <1>2, <3>3, PartialSums
    <3>5. CASE x = p
      <4>1. h[w] = g[w] /\ p \in z
        BY <3>3, <3>5
      <4>. QED
        BY <1>0, <3>2, <3>4, <3>5, <4>1
    <3>6. CASE x # p
      <4>1. q[x] = r[x] /\ (p \in w <=> p \in z)
        BY <1>0, <3>6
      <4>. QED
        BY <3>2, <3>3, <3>4, <4>1
    <3>. QED
      BY <3>5, <3>6
  <2>. QED
    BY <2>1, <2>2
<1>4. SUBSET S \subseteq G
  <2> HIDE DEF G
  <2>. QED
    BY <1>3, TakingAway
<1>. QED
  BY <1>1, <1>2, <1>4

-----------------------------------------------------------------------------
(* The clones of a user of the purple team.                                *)

Before == {"unborn", "begun", "clear", "clone", "finalize", "admitted"}
Reading == {"registered", "detect"} \union AtWork

\* A row of the quota is that of a thread which registered, or of the upload.
RowsCounted ==
  \A p \in Paths : rows[p] <= Cardinality({s \in Scans : spc[s] \notin Before}) + (IF p \in uploaded THEN 1 ELSE 0)

\* A scan holds its directory from its registration on, and one of sources of the user from its beginning.
Holding ==
  \A s \in Scans :
    /\ spc[s] \in Before => s \notin held
    /\ spc[s] \in Reading \union {"purge", "unlist"} => s \in held
    /\ IsOwn(s) => spc[s] \notin {"clear", "clone", "finalize", "admitted", "registered"}
    /\ s \in cut => spc[s] \in {"raised", "settled", "over"} /\ s \notin held

\* Threads in one directory have met.
NeighboursMet == \A s, t \in Alive : (s # t /\ Where(s) = Where(t)) => s \in met

\* What the directory of a scan nobody met holds, from the clone to the purge.
DirectoryOf(s) ==
  /\ spc[s] = "clone" => disk[Where(s)] = {}
  /\ spc[s] \in {"finalize", "admitted", "purge"} \union Reading => disk[Where(s)] = {s}
  /\ spc[s] \in {"raised", "settled"} => disk[Where(s)] = IF s \in held \union cut THEN {s} ELSE {}
  /\ spc[s] = "unlist" => disk[Where(s)] = {}
OwnClones == \A s \in Scans \ met : ~IsOwn(s) => DirectoryOf(s) /\ found[s] \subseteq {s}

\* The rows and the clones that were let in exceed the quota by the threads beside the last of them.
Admitted == {s \in Scans : spc[s] = "admitted"}
ClonesWithin ==
  /\ Cardinality(Alive) <= crowd
  /\ crowd = 0 => \A p \in Paths : rows[p] = 0
  /\ crowd > 0 => Usage + Cardinality(Admitted) <= Quota + crowd - 1

\* While threads only follow each other in a directory, it holds no more than clones cut short and counts
\* for nothing except from a clone to the end of its scan.
Tidy(p) ==
  \/ p \in uploaded
  \/ disk[p] \subseteq cut /\ rows[p] = 0
  \/ \E s \in Alive : /\ ~IsOwn(s) /\ Where(s) = p
                      /\ \/ s \in held
                         \/ spc[s] \in {"finalize", "admitted"} /\ rows[p] = 0
DirectoriesTidy == (~crashed /\ met = {}) => \A s \in Scans : IsOwn(s) \/ Tidy(Where(s))

CInv ==
  /\ ScansTypeOK
  /\ RowsCounted
  /\ Holding
  /\ NeighboursMet
  /\ OwnClones
  /\ ClonesWithin
  /\ DirectoriesTidy


\* What a layout says of a scan stays as it is.
LEMMA Placement ==
  ASSUME ScansTypeOK
  PROVE  /\ \A s \in Scans : Where(s) \in Paths
         /\ \A s \in Scans : ~IsOwn(s) => Where(s) \notin layout.home
<1>1. /\ layout.profile \in [Scans -> Profiles] /\ layout.path \in [Profiles -> Paths]
      /\ \A f \in Profiles \ layout.own : layout.path[f] \notin layout.home
  BY ScansAssumption DEF ScansTypeOK
<1>. QED
  BY <1>1 DEF Where, IsOwn

LEMMA SamePlacement ==
  ASSUME UNCHANGED layout
  PROVE  \A s \in Scans : Where(s)' = Where(s) /\ (IsOwn(s)' <=> IsOwn(s))
  BY DEF Where, IsOwn

LEMMA CountedScans ==
  /\ Cardinality(Scans) \in Nat
  /\ \A S \in SUBSET Scans : IsFiniteSet(S) /\ Cardinality(S) \in Nat /\ Cardinality(S) <= Cardinality(Scans)
  /\ \A S, T \in SUBSET Scans : S \subseteq T => Cardinality(S) <= Cardinality(T)
  /\ \A S \in SUBSET Scans : \A s \in S : Cardinality(S \ {s}) = Cardinality(S) - 1
  /\ \A S \in SUBSET Scans : \A s \in Scans \ S : Cardinality(S \union {s}) = Cardinality(S) + 1
<1>1. /\ IsFiniteSet(Scans) /\ Cardinality(Scans) \in Nat
      /\ \A S \in SUBSET Scans : IsFiniteSet(S) /\ Cardinality(S) \in Nat /\ Cardinality(S) <= Cardinality(Scans)
  BY ScansAssumption, FS_Subset, FS_CardinalityType
<1>2. \A S, T \in SUBSET Scans : S \subseteq T => Cardinality(S) <= Cardinality(T)
  BY <1>1, FS_Subset
<1>3. \A S \in SUBSET Scans : \A s \in S : Cardinality(S \ {s}) = Cardinality(S) - 1
  BY <1>1, FS_RemoveElement
<1>4. \A S \in SUBSET Scans : \A s \in Scans \ S : Cardinality(S \union {s}) = Cardinality(S) + 1
  BY <1>1, FS_AddElement
<1>. QED
  BY <1>1, <1>2, <1>3, <1>4

LEMMA CrowdedIs ==
  ASSUME ScansTypeOK
  PROVE  /\ Crowded \in Nat /\ crowd <= Crowded /\ Cardinality(Alive) + 1 <= Crowded
         /\ Crowded \in {crowd, Cardinality(Alive) + 1}
<1>1. crowd \in Nat /\ Cardinality(Alive) + 1 \in Nat
  BY CountedScans DEF ScansTypeOK, Alive
<1>2. \A a, b \in Nat : /\ Max({a, b}) \in {a, b}
                        /\ a <= Max({a, b}) /\ b <= Max({a, b})
  <2>1. SUFFICES ASSUME NEW a \in Nat, NEW b \in Nat
                 PROVE  Max({a, b}) \in {a, b} /\ a <= Max({a, b}) /\ b <= Max({a, b})
    OBVIOUS
  <2>2. \E x \in {a, b} : \A y \in {a, b} : x >= y
    BY <2>1
  <2>. QED
    BY <2>1, <2>2 DEF Max
<1>. QED
  BY <1>1, <1>2 DEF Crowded

\* The usage is the sum of the rows.
LEMMA UsageIs == Usage = SumOf(rows, Paths)
  BY Zenon DEF Usage, SumOf

LEMMA UsageNext == Usage' = SumOf(rows', Paths)
<1>1. (Usage = SumOf(rows, Paths))'
  BY UsageIs, PTL
<1>. QED
  BY <1>1, Zenon

LEMMA UsageType ==
  ASSUME ScansTypeOK
  PROVE  rows \in [Paths -> Nat] /\ Usage \in Nat /\ ((\A p \in Paths : rows[p] = 0) => Usage = 0)
<1>1. rows \in [Paths -> Nat]
  BY CountedScans DEF ScansTypeOK
<1>. QED
  BY <1>1, UsageIs, ScansAssumption, SumType, SumOfNothing

LEMMA UsageChanged ==
  ASSUME ScansTypeOK, NEW p \in Paths, NEW v \in Nat, rows' = [rows EXCEPT ![p] = v]
  PROVE  Usage' = Usage - rows[p] + v
<1>1. rows \in [Paths -> Nat] /\ IsFiniteSet(Paths)
  BY UsageType, ScansAssumption
<1>2. rows' \in [Paths -> Nat] /\ rows'[p] = v /\ \A x \in Paths \ {p} : rows'[x] = rows[x]
  BY <1>1
<1>3. \A r, q \in [Paths -> Nat] : (\A x \in Paths \ {p} : q[x] = r[x])
                                  => SumOf(q, Paths) = SumOf(r, Paths) - r[p] + q[p]
  BY <1>1, SumChanged
<1>4. SumOf(rows', Paths) = SumOf(rows, Paths) - rows[p] + rows'[p]
  BY <1>1, <1>2, <1>3
<1>. QED
  BY <1>2, <1>4, UsageIs, UsageNext

LEMMA UsageSame ==
  ASSUME UNCHANGED rows
  PROVE  Usage' = Usage
  BY UsageIs, UsageNext

LEMMA InitCInv ==
  ASSUME ScansInit
  PROVE  CInv
<1>1. \A s \in Scans : spc[s] = "unborn" /\ found[s] = {}
  BY DEF ScansInit
<1>2. Alive = {} /\ Admitted = {} /\ Cardinality({}) = 0
  BY <1>1, FS_EmptySet DEF Alive, Admitted
<1>3. ScansTypeOK
  <2>1. /\ srow \in [Scans -> {"none"}] /\ found \in [Scans -> {{}}] /\ spc \in [Scans -> {"unborn"}]
        /\ rows \in [Paths -> {0}] /\ disk \in [Paths -> {{}, {User}}]
    BY DEF ScansInit
  <2>2. 0 \in 0..Cardinality(Scans) + 1
    BY CountedScans
  <2>. QED
    BY <2>1, <2>2 DEF ScansInit, ScansTypeOK, Places, RowStatuses
<1>4. /\ \A p \in Paths : rows[p] = 0 /\ (p \notin layout.home => disk[p] = {})
      /\ crowd = 0 /\ held = {} /\ cut = {}
  BY DEF ScansInit
<1>5. RowsCounted
  <2>1. Cardinality({s \in Scans : spc[s] \notin Before}) \in Nat
    BY CountedScans
  <2>. QED
    BY <1>4, <2>1 DEF RowsCounted
<1>6. Holding /\ NeighboursMet /\ OwnClones
  BY <1>1, <1>2, <1>4 DEF Holding, NeighboursMet, OwnClones, DirectoryOf, Reading, AtWork
<1>7. ClonesWithin
  BY <1>2, <1>4 DEF ClonesWithin
<1>8. DirectoriesTidy
  BY <1>3, <1>4, Placement DEF DirectoriesTidy, Tidy
<1>. QED
  BY <1>3, <1>5, <1>6, <1>7, <1>8 DEF CInv


\* A step of the thread of scan s: it goes to p, leaves D in its directory and R rows for it.
Moves(s, p, D, R) ==
  /\ s \in Alive
  /\ spc' = [spc EXCEPT ![s] = p]
  /\ disk' = [disk EXCEPT ![Where(s)] = D]
  /\ rows' = [rows EXCEPT ![Where(s)] = R]
  /\ held' \in {held, held \union {s}}
  /\ cut' \in {cut, cut \union {s}}
  /\ UNCHANGED <<layout, uploaded, met, crowd, crashed>>
  /\ running' \subseteq Profiles /\ srepo' \subseteq Scans
  /\ srow' \in [Scans -> RowStatuses \union {"none", "deleted"}]
  /\ found' \in [Scans -> SUBSET (Scans \union {User})]
  /\ \A t \in Scans \ {s} : found'[t] = found[t]

\* What such a step has to show; the rest of the invariant is about other scans and other directories.
Fits(s, p, D, R) ==
  /\ p \in Before => spc[s] \in Before /\ s \notin held'
  /\ p \in Reading \union {"purge", "unlist"} => s \in held'
  /\ IsOwn(s) => D \in {{}, disk[Where(s)]} /\ p \notin {"clear", "clone", "finalize", "admitted", "registered"}
  /\ (s \notin met /\ ~IsOwn(s)) =>
       /\ p = "clone" => D = {}
       /\ p \in {"finalize", "admitted", "purge"} \union Reading => D = {s}
       /\ p \in {"raised", "settled"} => D = IF s \in held' \union cut' THEN {s} ELSE {}
       /\ p = "unlist" => D = {}
       /\ found'[s] \subseteq {s}
  /\ s \in cut' => p \in {"raised", "settled", "over"} /\ s \notin held'
  /\ p = "admitted" => Usage + 1 <= Quota
  /\ \/ R <= rows[Where(s)]
     \/ spc[s] = "admitted" /\ R = rows[Where(s)] + 1 /\ p \notin Before
  /\ (~crashed /\ met = {} /\ ~IsOwn(s)) =>
       \/ Where(s) \in uploaded
       \/ D \subseteq cut' /\ R = 0
       \/ p # "over" /\ s \in held'
       \/ p \in {"finalize", "admitted"} /\ R = 0

LEMMA MovesKeepCounts ==
  ASSUME CInv, NEW s \in Scans, NEW p \in Places \ {"unborn"}, NEW D \in SUBSET (Scans \union {User}), NEW R \in Nat,
         Moves(s, p, D, R), Fits(s, p, D, R)
  PROVE  RowsCounted' /\ ClonesWithin'
<1> DEFINE W == Where(s)
           Past == {t \in Scans : spc[t] \notin Before}
<1>1. /\ ScansTypeOK /\ RowsCounted /\ ClonesWithin /\ W \in Paths
      /\ spc \in [Scans -> Places] /\ rows \in [Paths -> Nat] /\ Usage \in Nat /\ crowd \in Nat /\ Quota \in Nat
  BY Placement, UsageType, CountedScans, ScansAssumption DEF CInv, ScansTypeOK
<1>2. /\ spc' = [spc EXCEPT ![s] = p] /\ rows' = [rows EXCEPT ![W] = R] /\ UNCHANGED <<uploaded, crowd>>
      /\ s \in Alive /\ p # "unborn"
  BY DEF Moves
<1>3. /\ p \in Before => spc[s] \in Before
      /\ p = "admitted" => Usage + 1 <= Quota
      /\ \/ R <= rows[W]
         \/ spc[s] = "admitted" /\ R = rows[W] + 1 /\ p \notin Before
  BY DEF Fits
<1>4. Alive' \subseteq Alive /\ Cardinality(Alive') <= Cardinality(Alive) /\ Cardinality(Alive) > 0
  <2>1. Alive' \subseteq Alive /\ Alive \in SUBSET Scans
    BY <1>1, <1>2 DEF Alive
  <2>2. Cardinality(Alive \ {s}) = Cardinality(Alive) - 1 /\ Cardinality(Alive \ {s}) \in Nat /\ Cardinality(Alive) \in Nat
    BY <1>2, <2>1, CountedScans
  <2>3. Cardinality(Alive') <= Cardinality(Alive)
    BY <2>1, CountedScans
  <2>. QED
    BY <2>1, <2>2, <2>3
<1>5. Past \subseteq Past' /\ Cardinality(Past) \in Nat /\ Cardinality(Past') \in Nat /\ Cardinality(Past) <= Cardinality(Past')
  <2>1. Past \subseteq Past'
    BY <1>1, <1>2, <1>3
  <2>. QED
    BY <2>1, CountedScans
<1>6. Usage' = Usage - rows[W] + R
  BY <1>1, <1>2, UsageChanged
<1>7. /\ Cardinality(Alive) \in Nat /\ Cardinality(Alive) <= crowd /\ crowd > 0
      /\ Usage + Cardinality(Admitted) <= Quota + crowd - 1
      /\ Cardinality(Admitted) \in Nat /\ Cardinality(Admitted') \in Nat
      /\ Admitted' \subseteq Alive'
      /\ Cardinality(Admitted') <= Cardinality(Alive')
      /\ Cardinality(Alive') \in Nat
      /\ Cardinality(Alive') <= crowd
  <2>1. Cardinality(Alive) \in Nat /\ Cardinality(Alive) <= crowd /\ crowd > 0
    BY <1>1, <1>4, CountedScans DEF ClonesWithin, Alive
  <2>2. Admitted' \subseteq Alive' /\ Alive' \in SUBSET Scans /\ Admitted' \in SUBSET Scans
    BY DEF Admitted, Alive
  <2>3. /\ Cardinality(Admitted) \in Nat /\ Cardinality(Admitted') \in Nat /\ Cardinality(Alive') \in Nat
        /\ Cardinality(Admitted') <= Cardinality(Alive')
    BY <2>2, CountedScans DEF Admitted
  <2>4. Cardinality(Alive') <= crowd
    BY <1>1, <1>4, <2>1, <2>3
  <2>. QED
    BY <1>1, <2>1, <2>2, <2>3, <2>4 DEF ClonesWithin
<1>8. Usage' + Cardinality(Admitted') <= Quota + crowd - 1 => ClonesWithin'
  <2>1. crowd' = crowd /\ crowd' > 0 /\ crowd' # 0
    BY <1>1, <1>2, <1>7
  <2>. QED
    BY <1>7, <2>1 DEF ClonesWithin
<1>9. CASE R <= rows[W]
  <2>1. RowsCounted'
    <3>1. \A q \in Paths : rows'[q] <= rows[q] /\ rows[q] \in Nat /\ rows'[q] \in Nat
      BY <1>1, <1>2, <1>9
    <3>. QED
      BY <1>1, <1>2, <1>5, <3>1 DEF RowsCounted
  <2>2. Usage' <= Usage /\ Usage' \in Int
    BY <1>1, <1>6, <1>9
  <2>3. CASE p = "admitted"
    <3>1. Usage + 1 <= Quota
      BY <1>3, <2>3
    <3>2. Usage' + Cardinality(Admitted') <= Quota + crowd - 1
      BY <1>1, <1>4, <1>7, <2>2, <3>1
    <3>. QED
      BY <2>1, <3>2, <1>8
  <2>4. CASE p # "admitted"
    <3>1. Admitted' \subseteq Admitted
      BY <1>1, <1>2, <2>4 DEF Admitted
    <3>2. Cardinality(Admitted') <= Cardinality(Admitted)
      BY <3>1, CountedScans DEF Admitted
    <3>3. Usage' + Cardinality(Admitted') <= Quota + crowd - 1
      BY <1>1, <1>7, <2>2, <3>2
    <3>. QED
      BY <2>1, <3>3, <1>8
  <2>. QED
    BY <2>3, <2>4
<1>10. CASE spc[s] = "admitted" /\ R = rows[W] + 1 /\ p \notin Before
  <2>1. RowsCounted'
    <3>1. Past' = Past \union {s} /\ s \notin Past
      BY <1>1, <1>2, <1>10 DEF Before
    <3>2. Cardinality(Past') = Cardinality(Past) + 1
      BY <3>1, CountedScans
    <3>3. \A q \in Paths : rows'[q] <= rows[q] + 1 /\ rows[q] \in Nat /\ rows'[q] \in Nat
      BY <1>1, <1>2, <1>10
    <3>. QED
      BY <1>1, <1>2, <1>5, <3>2, <3>3 DEF RowsCounted
  <2>2. Admitted' = Admitted \ {s} /\ s \in Admitted
    BY <1>1, <1>2, <1>10 DEF Admitted, Before
  <2>3. Cardinality(Admitted') = Cardinality(Admitted) - 1
    BY <2>2, CountedScans DEF Admitted
  <2>4. Usage' = Usage + 1
    BY <1>1, <1>6, <1>10
  <2>5. Usage' + Cardinality(Admitted') <= Quota + crowd - 1
    BY <1>1, <1>7, <2>3, <2>4
  <2>. QED
    BY <2>1, <2>5, <1>8
<1>. QED
  BY <1>3, <1>9, <1>10

LEMMA MovesKeepPlaces ==
  ASSUME CInv, NEW s \in Scans, NEW p \in Places \ {"unborn"}, NEW D \in SUBSET (Scans \union {User}), NEW R \in Nat,
         Moves(s, p, D, R), Fits(s, p, D, R)
  PROVE  Holding' /\ NeighboursMet' /\ OwnClones' /\ DirectoriesTidy'
<1> DEFINE W == Where(s)
<1>1. /\ ScansTypeOK /\ Holding /\ NeighboursMet /\ OwnClones /\ DirectoriesTidy /\ W \in Paths
      /\ spc \in [Scans -> Places] /\ rows \in [Paths -> Nat] /\ disk \in [Paths -> SUBSET (Scans \union {User})]
  BY Placement, UsageType DEF CInv, ScansTypeOK
<1>2. /\ spc' = [spc EXCEPT ![s] = p] /\ rows' = [rows EXCEPT ![W] = R] /\ disk' = [disk EXCEPT ![W] = D]
      /\ UNCHANGED <<layout, uploaded, met, crashed>> /\ held' \in {held, held \union {s}}
      /\ cut' \in {cut, cut \union {s}}
      /\ s \in Alive /\ p # "unborn"
      /\ \A t \in Scans \ {s} : found'[t] = found[t]
  BY DEF Moves
<1>3. \A t \in Scans : /\ Where(t)' = Where(t) /\ Where(t) \in Paths
                       /\ IsOwn(t)' <=> IsOwn(t)
                       /\ t # s => spc'[t] = spc[t] /\ (t \in held' <=> t \in held) /\ (t \in cut' <=> t \in cut)
  BY <1>1, <1>2, SamePlacement, Placement
<1>4. spc'[s] = p /\ disk'[W] = D /\ rows'[W] = R /\ \A q \in Paths : q # W => disk'[q] = disk[q] /\ rows'[q] = rows[q]
  BY <1>1, <1>2
<1>5. Alive' \subseteq Alive /\ \A t \in Alive : t # s => t \in Alive'
  BY <1>3, <1>4, <1>2 DEF Alive
<1>6. Holding'
  <2>1. /\ p \in Before => s \notin held'
        /\ p \in Reading \union {"purge", "unlist"} => s \in held'
        /\ IsOwn(s) => p \notin {"clear", "clone", "finalize", "admitted", "registered"}
        /\ s \in cut' => p \in {"raised", "settled", "over"} /\ s \notin held'
    BY DEF Fits
  <2>. QED
    BY <1>1, <1>3, <1>4, <2>1 DEF Holding
<1>7. NeighboursMet'
  <2>1. \A t, u \in Alive' : Where(t)' = Where(t) /\ Where(u)' = Where(u) /\ t \in Alive /\ u \in Alive
    BY <1>3, <1>5 DEF Alive
  <2>. QED
    BY <1>1, <1>2, <2>1 DEF NeighboursMet
<1>8. OwnClones'
  <2>1. SUFFICES ASSUME NEW t \in Scans \ met, ~IsOwn(t)
                 PROVE  DirectoryOf(t)' /\ found'[t] \subseteq {t}
    BY <1>2, <1>3 DEF OwnClones
  <2>2. CASE t = s
    BY <1>3, <1>4, <2>1, <2>2 DEF Fits, DirectoryOf
  <2>3. CASE t # s
    <3>1. DirectoryOf(t) /\ found[t] \subseteq {t} /\ found'[t] = found[t]
      BY <1>1, <1>2, <2>1, <2>3 DEF OwnClones
    <3>2. CASE t \in Alive
      <4>1. Where(t) # W
        BY <1>1, <1>2, <2>1, <2>3, <3>2 DEF NeighboursMet
      <4>2. /\ disk'[Where(t)] = disk[Where(t)] /\ Where(t)' = Where(t)
            /\ spc'[t] = spc[t] /\ (t \in held' <=> t \in held) /\ (t \in cut' <=> t \in cut)
        BY <1>3, <1>4, <2>3, <4>1
      <4>. QED
        BY <3>1, <4>2 DEF DirectoryOf
    <3>3. CASE t \notin Alive
      <4>1. spc'[t] \in {"unborn", "over"}
        BY <1>3, <2>3, <3>3 DEF Alive
      <4>. QED
        BY <3>1, <4>1 DEF DirectoryOf, Reading, AtWork
    <3>. QED
      BY <3>2, <3>3
  <2>. QED
    BY <2>2, <2>3
<1>9. DirectoriesTidy'
  <2>1. SUFFICES ASSUME ~crashed, met = {}, NEW t \in Scans, ~IsOwn(t)
                 PROVE  Tidy(Where(t))'
    <3>1. (~crashed' /\ met' = {}) => \A t \in Scans : IsOwn(t) \/ Tidy(Where(t))'
      BY <1>2, <2>1
    <3>. QED
      BY <1>3, <3>1 DEF DirectoriesTidy
  <2>2. Tidy(Where(t)) /\ Where(t)' = Where(t) /\ Where(t) \in Paths
    BY <1>1, <1>3, <2>1 DEF DirectoriesTidy
  <2>3. CASE Where(t) # W
    <3>1. disk'[Where(t)] = disk[Where(t)] /\ rows'[Where(t)] = rows[Where(t)]
      BY <1>4, <2>2, <2>3
    <3>2. ASSUME NEW u \in Alive, ~IsOwn(u), Where(u) = Where(t)
          PROVE  u \in Alive' /\ ~IsOwn(u)' /\ Where(u)' = Where(u) /\ spc'[u] = spc[u] /\ (u \in held' <=> u \in held)
      BY <1>3, <1>5, <2>3, <3>2 DEF Alive
    <3>. QED
      BY <1>2, <2>2, <3>1, <3>2 DEF Tidy
  <2>4. CASE Where(t) = W /\ IsOwn(s)
    <3>1. ~\E u \in Alive : ~IsOwn(u) /\ Where(u) = W
      BY <1>1, <1>2, <2>1, <2>4 DEF NeighboursMet
    <3>2. W \in uploaded \/ (disk[W] \subseteq cut /\ rows[W] = 0)
      BY <2>2, <2>4, <3>1 DEF Tidy
    <3>3. D \in {{}, disk[W]} /\ R <= rows[W]
      BY <1>1, <2>4 DEF Fits, Holding
    <3>4. W \in uploaded' \/ (disk'[W] \subseteq cut' /\ rows'[W] = 0)
      BY <1>1, <1>2, <1>4, <3>2, <3>3
    <3>. QED
      BY <2>2, <2>4, <3>4 DEF Tidy
  <2>5. CASE Where(t) = W /\ ~IsOwn(s)
    <3>1. \/ W \in uploaded
          \/ D \subseteq cut' /\ R = 0
          \/ p # "over" /\ s \in held'
          \/ p \in {"finalize", "admitted"} /\ R = 0
      BY <2>1, <2>5 DEF Fits
    <3>2. (p # "over" => s \in Alive') /\ ~IsOwn(s)' /\ Where(s)' = W
      BY <1>2, <1>3, <1>4, <2>5 DEF Alive
    <3>3. \/ W \in uploaded'
          \/ disk'[W] \subseteq cut' /\ rows'[W] = 0
          \/ s \in Alive' /\ (s \in held' \/ (spc'[s] \in {"finalize", "admitted"} /\ rows'[W] = 0))
      BY <1>2, <1>4, <3>1, <3>2
    <3>. QED
      BY <2>2, <2>5, <3>2, <3>3 DEF Tidy
  <2>. QED
    BY <2>3, <2>4, <2>5
<1>. QED
  BY <1>6, <1>7, <1>8, <1>9

\* A count of rows fits the type, once it is bounded by the threads.
LEMMA RowsTyped ==
  ASSUME RowsCounted, rows \in [Paths -> Nat]
  PROVE  rows \in [Paths -> 0..Cardinality(Scans) + 1]
<1>1. /\ Cardinality({s \in Scans : spc[s] \notin Before}) \in Nat /\ Cardinality(Scans) \in Nat
      /\ Cardinality({s \in Scans : spc[s] \notin Before}) <= Cardinality(Scans)
  BY CountedScans
<1>2. \A p \in Paths : rows[p] \in 0..Cardinality(Scans) + 1
  BY <1>1 DEF RowsCounted
<1>. QED
  BY <1>2

LEMMA MovesKeep ==
  ASSUME CInv, NEW s \in Scans, NEW p \in Places \ {"unborn"}, NEW D \in SUBSET (Scans \union {User}), NEW R \in Nat,
         Moves(s, p, D, R), Fits(s, p, D, R)
  PROVE  CInv'
<1>1. ScansTypeOK /\ Where(s) \in Paths /\ rows \in [Paths -> Nat]
  BY Placement, UsageType DEF CInv
<1>2. RowsCounted' /\ ClonesWithin' /\ Holding' /\ NeighboursMet' /\ OwnClones' /\ DirectoriesTidy'
  BY MovesKeepCounts, MovesKeepPlaces
<1>3. (rows \in [Paths -> 0..Cardinality(Scans) + 1])'
  <2>1. rows' \in [Paths -> Nat]
    BY <1>1 DEF Moves
  <2>2. (RowsCounted /\ rows \in [Paths -> Nat])' => (rows \in [Paths -> 0..Cardinality(Scans) + 1])'
    BY RowsTyped, PTL
  <2>. QED
    BY <1>2, <2>1, <2>2
<1>4. ScansTypeOK'
  BY <1>1, <1>3 DEF Moves, ScansTypeOK
<1>. QED
  BY <1>2, <1>4 DEF CInv


\* What the invariant says of a scan whose thread runs.
LEMMA ThreadFacts ==
  ASSUME CInv, NEW s \in Alive
  PROVE  /\ s \in Scans /\ Where(s) \in Paths /\ rows[Where(s)] \in Nat /\ disk[Where(s)] \in SUBSET (Scans \union {User})
         /\ spc[s] \in Places \ {"unborn", "over"}
         /\ spc[s] \in Before => s \notin held
         /\ spc[s] \in Reading \union {"purge", "unlist"} => s \in held
         /\ IsOwn(s) => spc[s] \notin {"clear", "clone", "finalize", "admitted", "registered"}
         /\ s \in cut => spc[s] \in {"raised", "settled"} /\ s \notin held
         /\ (s \notin met /\ ~IsOwn(s)) => DirectoryOf(s) /\ found[s] \subseteq {s}
         /\ (~crashed /\ met = {} /\ ~IsOwn(s)) =>
              \/ Where(s) \in uploaded
              \/ disk[Where(s)] \subseteq cut /\ rows[Where(s)] = 0
              \/ s \in held
              \/ spc[s] \in {"finalize", "admitted"} /\ rows[Where(s)] = 0
<1>1. s \in Scans /\ ScansTypeOK /\ Where(s) \in Paths /\ rows \in [Paths -> Nat]
  BY Placement, UsageType DEF CInv, Alive
<1>2. spc[s] \in Places \ {"unborn", "over"}
  BY <1>1 DEF Alive, ScansTypeOK
<1>3. /\ spc[s] \in Before => s \notin held
      /\ spc[s] \in Reading \union {"purge", "unlist"} => s \in held
      /\ IsOwn(s) => spc[s] \notin {"clear", "clone", "finalize", "admitted", "registered"}
      /\ s \in cut => spc[s] \in {"raised", "settled"} /\ s \notin held
  BY <1>1, <1>2 DEF CInv, Holding
<1>4. (s \notin met /\ ~IsOwn(s)) => DirectoryOf(s) /\ found[s] \subseteq {s}
  BY <1>1 DEF CInv, OwnClones
<1>5. ASSUME ~crashed, met = {}, ~IsOwn(s)
      PROVE  \/ Where(s) \in uploaded
             \/ disk[Where(s)] \subseteq cut /\ rows[Where(s)] = 0
             \/ s \in held
             \/ spc[s] \in {"finalize", "admitted"} /\ rows[Where(s)] = 0
  <2>1. Tidy(Where(s))
    BY <1>1, <1>5 DEF CInv, DirectoriesTidy
  <2>2. \A t \in Alive : Where(t) = Where(s) => t = s
    BY <1>5 DEF CInv, NeighboursMet
  <2>. QED
    BY <2>1, <2>2 DEF Tidy
<1>. QED
  BY <1>1, <1>2, <1>3, <1>4, <1>5 DEF ScansTypeOK

\* The steps that leave the directory, its rows and the hold on it alone.
LEMMA PhasesKeep ==
  ASSUME CInv, NEW s \in Scans,
         \/ RecordPath(s) \/ Detect(s) \/ Total(s) \/ Fail(s) \/ Release(s)
         \/ \E hit \in BOOLEAN : Static(s, hit) \/ Late(s, hit)
         \/ \E fails \in BOOLEAN : Dynamic(s, fails)
  PROVE  CInv'
<1> DEFINE W == Where(s)
<1>1. /\ UNCHANGED <<layout, held, disk, rows, uploaded, met, crowd, crashed, cut>>
      /\ spc[s] \notin {"unborn", "over"}
  BY DEF RecordPath, Detect, Total, Fail, Release, Static, Late, Dynamic
<1>2. s \in Alive /\ ScansTypeOK
  BY <1>1 DEF Alive, CInv
<1>3. PICK p \in Places \ {"unborn"} :
        /\ spc' = [spc EXCEPT ![s] = p]
        /\ \/ spc[s] \in Reading /\ p \in Reading \union {"raised", "settled"} /\ p # "registered"
           \/ spc[s] = "raised" /\ p = "settled"
           \/ spc[s] = "settled" /\ p = (IF s \in held THEN "purge" ELSE "over")
  <2>1. CASE RecordPath(s) \/ Detect(s) \/ Total(s) \/ Fail(s) \/ Release(s)
    BY <2>1 DEF RecordPath, Detect, Total, Fail, Release, Go, Places, Reading, AtWork
  <2>2. CASE \/ \E hit \in BOOLEAN : Static(s, hit) \/ Late(s, hit)
             \/ \E fails \in BOOLEAN : Dynamic(s, fails)
    BY <2>2 DEF Static, Late, Dynamic, Go, Places, Reading, AtWork
  <2>. QED
    BY <2>1, <2>2
<1>4. /\ running' \subseteq Profiles /\ srepo' \subseteq Scans
      /\ srow' \in [Scans -> RowStatuses \union {"none", "deleted"}]
  BY <1>2 DEF RecordPath, Detect, Total, Fail, Release, Static, Late, Dynamic, ScansTypeOK, RowStatuses
<1>5. \/ found' = found
      \/ spc[s] \in Reading /\ found' = [found EXCEPT ![s] = @ \union disk[W]]
  BY DEF RecordPath, Detect, Total, Fail, Release, Static, Late, Dynamic, Stored, Reading, AtWork
<1>6. /\ found' \in [Scans -> SUBSET (Scans \union {User})]
      /\ \A t \in Scans \ {s} : found'[t] = found[t]
      /\ found'[s] = found[s] \/ (spc[s] \in Reading /\ found'[s] = found[s] \union disk[W])
  <2>1. found \in [Scans -> SUBSET (Scans \union {User})] /\ disk[W] \in SUBSET (Scans \union {User})
    BY <1>2, ThreadFacts DEF ScansTypeOK
  <2>. QED
    BY <1>5, <2>1
<1>7. Moves(s, p, disk[W], rows[W])
  BY <1>1, <1>2, <1>3, <1>4, <1>6 DEF Moves, ScansTypeOK
<1>8. Fits(s, p, disk[W], rows[W])
  <2>1. /\ rows[W] \in Nat /\ held' = held /\ cut' = cut
        /\ spc[s] \in Before => s \notin held
        /\ spc[s] \in Reading \union {"purge", "unlist"} => s \in held
        /\ IsOwn(s) => spc[s] \notin {"clear", "clone", "finalize", "admitted", "registered"}
        /\ s \in cut => spc[s] \in {"raised", "settled"} /\ s \notin held
    BY <1>1, <1>2, ThreadFacts
  <2>2. ASSUME s \notin met, ~IsOwn(s)
        PROVE  /\ p \notin {"clone", "finalize", "admitted", "unlist"}
               /\ p \in {"purge"} \union Reading => disk[W] = {s}
               /\ p \in {"raised", "settled"} => disk[W] = IF s \in held' \union cut' THEN {s} ELSE {}
               /\ found'[s] \subseteq {s}
    <3>1. DirectoryOf(s) /\ found[s] \subseteq {s}
      BY <1>2, <2>2, ThreadFacts
    <3>. QED
      BY <1>3, <1>6, <2>1, <3>1 DEF DirectoryOf, Reading, AtWork, Before
  <2>3. ASSUME ~crashed, met = {}, ~IsOwn(s)
        PROVE  \/ W \in uploaded
               \/ disk[W] \subseteq cut' /\ rows[W] = 0
               \/ p # "over" /\ s \in held'
    <3>1. W \in uploaded \/ (disk[W] \subseteq cut /\ rows[W] = 0) \/ s \in held
      BY <1>2, <1>3, <2>3, ThreadFacts DEF Reading, AtWork
    <3>. QED
      BY <1>3, <2>1, <3>1 DEF Reading, AtWork
  <2>. QED
    BY <1>3, <2>1, <2>2, <2>3 DEF Fits, Before, Reading, AtWork
<1>. QED
  BY <1>2, <1>7, <1>8, MovesKeep, ThreadFacts


\* The steps that do touch them.  In each, D and R are what the directory and its rows become.
LEMMA DirectoryMoves ==
  ASSUME CInv, NEW s \in Scans, s \in Alive,
         UNCHANGED <<layout, running, srow, srepo, found, uploaded, met, crowd, crashed>>,
         cut' \in {cut, cut \union {s}},
         NEW p \in Places \ {"unborn"}, spc' = [spc EXCEPT ![s] = p],
         NEW D \in SUBSET (Scans \union {User}), disk' = [disk EXCEPT ![Where(s)] = D],
         NEW R \in Nat, rows' = [rows EXCEPT ![Where(s)] = R],
         held' \in {held, held \union {s}}
  PROVE  Moves(s, p, D, R)
  BY DEF CInv, ScansTypeOK, Moves

LEMMA BeginKeeps ==
  ASSUME CInv, NEW s \in Scans, Begin(s)
  PROVE  CInv'
<1> DEFINE W == Where(s)
           p == IF ~IsOwn(s) THEN "clear" ELSE IF disk[W] = {} THEN "raised" ELSE "detect"
<1>1. /\ UNCHANGED <<layout, running, srow, srepo, found, disk, rows, uploaded, met, crowd, crashed, cut>>
      /\ spc[s] = "begun" /\ spc' = [spc EXCEPT ![s] = p] /\ p \in Places \ {"unborn"}
      /\ held' = IF IsOwn(s) THEN held \union {s} ELSE held
  BY DEF Begin, Go, Places
<1>2. s \in Alive
  BY <1>1 DEF Alive
<1>3. /\ W \in Paths /\ disk[W] \in SUBSET (Scans \union {User}) /\ rows[W] \in Nat /\ s \notin held
      /\ disk' = [disk EXCEPT ![W] = disk[W]] /\ rows' = [rows EXCEPT ![W] = rows[W]]
  BY <1>1, <1>2, ThreadFacts DEF CInv, ScansTypeOK, Before
<1>4. Moves(s, p, disk[W], rows[W])
  BY <1>1, <1>2, <1>3, DirectoryMoves
<1>5. Fits(s, p, disk[W], rows[W])
  <2>1. (s \notin met /\ ~IsOwn(s)) => found'[s] \subseteq {s}
    BY <1>1, <1>2, ThreadFacts
  <2>2. (~crashed /\ met = {} /\ ~IsOwn(s)) => W \in uploaded \/ (disk[W] \subseteq cut' /\ rows[W] = 0)
    BY <1>1, <1>2, <1>3, ThreadFacts
  <2>3. s \notin cut'
    BY <1>1, <1>2, ThreadFacts
  <2>. QED
    BY <1>1, <1>3, <2>1, <2>2, <2>3 DEF Fits, Before, Reading, AtWork
<1>. QED
  BY <1>1, <1>3, <1>4, <1>5, MovesKeep

LEMMA ClearKeeps ==
  ASSUME CInv, NEW s \in Scans, Clear(s)
  PROVE  CInv'
<1> DEFINE W == Where(s)
<1>1. /\ UNCHANGED <<layout, running, srow, srepo, found, held, rows, uploaded, met, crowd, crashed, cut>>
      /\ spc[s] = "clear" /\ spc' = [spc EXCEPT ![s] = "clone"] /\ "clone" \in Places \ {"unborn"}
      /\ disk' = [disk EXCEPT ![W] = {}]
  BY DEF Clear, Go, Places
<1>2. s \in Alive
  BY <1>1 DEF Alive
<1>3. W \in Paths /\ rows[W] \in Nat /\ s \notin held /\ s \notin cut' /\ ~IsOwn(s) /\ rows' = [rows EXCEPT ![W] = rows[W]]
  BY <1>1, <1>2, ThreadFacts DEF CInv, ScansTypeOK, Before
<1>4. Moves(s, "clone", {}, rows[W])
  BY <1>1, <1>2, <1>3, DirectoryMoves
<1>5. Fits(s, "clone", {}, rows[W])
  <2>1. (s \notin met /\ ~IsOwn(s)) => found'[s] \subseteq {s}
    BY <1>1, <1>2, ThreadFacts
  <2>2. (~crashed /\ met = {} /\ ~IsOwn(s)) => W \in uploaded \/ rows[W] = 0
    BY <1>1, <1>2, <1>3, ThreadFacts
  <2>. QED
    BY <1>1, <1>3, <2>1, <2>2 DEF Fits, Before, Reading, AtWork
<1>. QED
  BY <1>1, <1>3, <1>4, <1>5, MovesKeep

LEMMA ClonesKeep ==
  ASSUME CInv, NEW s \in Scans, CloneDirect(s) \/ CloneViaSandbox(s)
  PROVE  CInv'
<1> DEFINE W == Where(s)
           D == disk[W] \union {s}
<1>1. /\ UNCHANGED <<layout, running, srow, srepo, found, held, rows, uploaded, met, crowd, crashed, cut>>
      /\ spc[s] = "clone" /\ spc' = [spc EXCEPT ![s] = "finalize"] /\ "finalize" \in Places \ {"unborn"}
  BY DEF CloneDirect, CloneViaSandbox, Go, Places
<1>2. s \in Alive
  BY <1>1 DEF Alive
<1>3. /\ W \in Paths /\ rows[W] \in Nat /\ s \notin held /\ s \notin cut' /\ ~IsOwn(s) /\ rows' = [rows EXCEPT ![W] = rows[W]]
      /\ D \in SUBSET (Scans \union {User})
  BY <1>1, <1>2, ThreadFacts DEF CInv, ScansTypeOK, Before
<1>4. disk' = [disk EXCEPT ![W] = D]
  <2>1. CASE CloneDirect(s)
    <3>1. disk[W] = {} /\ disk' = [disk EXCEPT ![W] = {s}]
      BY <2>1 DEF CloneDirect
    <3>2. D = {s}
      BY <3>1
    <3>. QED
      BY <3>1, <3>2
  <2>2. CASE CloneViaSandbox(s)
    BY <2>2 DEF CloneViaSandbox
  <2>. QED
    BY <2>1, <2>2
<1>5. Moves(s, "finalize", D, rows[W])
  <2> HIDE DEF D
  <2>. QED
    BY <1>1, <1>2, <1>3, <1>4, DirectoryMoves
<1>6. Fits(s, "finalize", D, rows[W])
  <2>1. (s \notin met /\ ~IsOwn(s)) => D = {s} /\ found'[s] \subseteq {s}
    BY <1>1, <1>2, ThreadFacts DEF DirectoryOf
  <2>2. (~crashed /\ met = {} /\ ~IsOwn(s)) => W \in uploaded \/ rows[W] = 0
    BY <1>1, <1>2, <1>3, ThreadFacts
  <2>. QED
    BY <1>1, <1>3, <2>1, <2>2 DEF Fits, Before, Reading, AtWork
<1>. QED
  BY <1>1, <1>3, <1>5, <1>6, MovesKeep

LEMMA CloneFailsKeeps ==
  ASSUME CInv, NEW s \in Scans, NEW partial \in BOOLEAN, CloneFails(s, partial)
  PROVE  CInv'
<1> DEFINE W == Where(s)
           D == IF partial THEN disk[W] \union {s} ELSE disk[W]
<1>1. /\ UNCHANGED <<layout, running, srow, srepo, found, held, rows, uploaded, met, crowd, crashed>>
      /\ spc[s] = "clone" /\ spc' = [spc EXCEPT ![s] = "raised"] /\ "raised" \in Places \ {"unborn"}
      /\ cut' = IF partial THEN cut \union {s} ELSE cut
  BY DEF CloneFails, Go, Places
<1>2. s \in Alive
  BY <1>1 DEF Alive
<1>3. /\ W \in Paths /\ rows[W] \in Nat /\ s \notin held /\ s \notin cut /\ ~IsOwn(s) /\ rows' = [rows EXCEPT ![W] = rows[W]]
      /\ D \in SUBSET (Scans \union {User}) /\ disk \in [Paths -> SUBSET (Scans \union {User})]
  BY <1>1, <1>2, ThreadFacts DEF CInv, ScansTypeOK, Before
<1>4. disk' = [disk EXCEPT ![W] = D] /\ cut' \in {cut, cut \union {s}}
  BY <1>1, <1>3 DEF CloneFails
<1>5. (s \notin met /\ ~IsOwn(s)) => disk[W] = {} /\ found'[s] \subseteq {s}
  BY <1>1, <1>2, ThreadFacts DEF DirectoryOf
<1>6. (s \notin met /\ ~IsOwn(s)) => D = (IF s \in held' \union cut' THEN {s} ELSE {})
  BY <1>1, <1>3, <1>5
<1>7. (~crashed /\ met = {} /\ ~IsOwn(s)) => W \in uploaded \/ (D \subseteq cut' /\ rows[W] = 0)
  <2>1. (~crashed /\ met = {} /\ ~IsOwn(s)) => W \in uploaded \/ (disk[W] \subseteq cut /\ rows[W] = 0)
    BY <1>1, <1>2, <1>3, ThreadFacts
  <2>. QED
    BY <1>1, <2>1
<1> HIDE DEF D
<1>8. Moves(s, "raised", D, rows[W])
  BY <1>1, <1>2, <1>3, <1>4, DirectoryMoves
<1>9. Fits(s, "raised", D, rows[W])
  BY <1>1, <1>3, <1>5, <1>6, <1>7 DEF Fits, Before, Reading, AtWork
<1>. QED
  BY <1>1, <1>3, <1>8, <1>9, MovesKeep

LEMMA CheckQuotaKeeps ==
  ASSUME CInv, NEW s \in Scans, CheckQuota(s)
  PROVE  CInv'
<1> DEFINE W == Where(s)
           fits == disk[W] # {} /\ Usage + 1 <= Quota
           p == IF fits THEN "admitted" ELSE "raised"
           D == IF fits THEN disk[W] ELSE {}
<1>1. /\ UNCHANGED <<layout, running, srow, srepo, found, held, rows, uploaded, met, crowd, crashed, cut>>
      /\ spc[s] = "finalize"
  BY DEF CheckQuota
<1>2. s \in Alive
  BY <1>1 DEF Alive
<1>3. /\ W \in Paths /\ rows[W] \in Nat /\ s \notin held /\ s \notin cut' /\ ~IsOwn(s) /\ rows' = [rows EXCEPT ![W] = rows[W]]
      /\ D \in SUBSET (Scans \union {User}) /\ p \in Places \ {"unborn"}
      /\ disk \in [Paths -> SUBSET (Scans \union {User})] /\ Usage \in Nat /\ Quota \in Nat
  BY <1>1, <1>2, ThreadFacts, UsageType, ScansAssumption DEF CInv, ScansTypeOK, Before, Places
<1>4. disk' = [disk EXCEPT ![W] = D] /\ spc' = [spc EXCEPT ![s] = p]
  <2>1. CASE disk[W] = {}
    BY <1>3, <2>1 DEF CheckQuota, Go
  <2>2. CASE disk[W] # {} /\ Usage + 1 > Quota
    BY <1>3, <2>2 DEF CheckQuota, Go
  <2>3. CASE disk[W] # {} /\ ~(Usage + 1 > Quota)
    BY <1>3, <2>3 DEF CheckQuota, Go
  <2>. QED
    BY <2>1, <2>2, <2>3
<1>5. /\ p \in {"admitted", "raised"} /\ (p = "admitted" => Usage + 1 <= Quota /\ D = disk[W])
      /\ (p = "raised" => D = {})
  OBVIOUS
<1>6. /\ (s \notin met /\ ~IsOwn(s)) => disk[W] = {s} /\ found'[s] \subseteq {s}
      /\ (~crashed /\ met = {} /\ ~IsOwn(s)) => W \in uploaded \/ rows[W] = 0
  BY <1>1, <1>2, <1>3, ThreadFacts DEF DirectoryOf
<1> HIDE DEF p, D
<1>7. Moves(s, p, D, rows[W])
  BY <1>1, <1>2, <1>3, <1>4, DirectoryMoves
<1>8. Fits(s, p, D, rows[W])
  BY <1>1, <1>3, <1>5, <1>6 DEF Fits, Before, Reading, AtWork
<1>. QED
  BY <1>3, <1>7, <1>8, MovesKeep

LEMMA RegisterRepoKeeps ==
  ASSUME CInv, NEW s \in Scans, RegisterRepo(s)
  PROVE  CInv'
<1> DEFINE W == Where(s)
<1>1. /\ UNCHANGED <<layout, running, srow, srepo, found, disk, uploaded, met, crowd, crashed, cut>>
      /\ spc[s] = "admitted" /\ spc' = [spc EXCEPT ![s] = "registered"] /\ "registered" \in Places \ {"unborn"}
      /\ held' = held \union {s} /\ rows' = [rows EXCEPT ![W] = rows[W] + 1]
  BY DEF RegisterRepo, Go, Places, AtWork
<1>2. s \in Alive
  BY <1>1 DEF Alive
<1>3. /\ W \in Paths /\ rows[W] \in Nat /\ rows[W] + 1 \in Nat /\ s \notin cut' /\ ~IsOwn(s) /\ disk' = [disk EXCEPT ![W] = disk[W]]
      /\ disk[W] \in SUBSET (Scans \union {User})
  BY <1>1, <1>2, ThreadFacts DEF CInv, ScansTypeOK
<1>4. Moves(s, "registered", disk[W], rows[W] + 1)
  BY <1>1, <1>2, <1>3, DirectoryMoves
<1>5. Fits(s, "registered", disk[W], rows[W] + 1)
  <2>1. (s \notin met /\ ~IsOwn(s)) => disk[W] = {s} /\ found'[s] \subseteq {s}
    BY <1>1, <1>2, ThreadFacts DEF DirectoryOf
  <2>. QED
    BY <1>1, <1>3, <2>1 DEF Fits, Before, Reading, AtWork
<1>. QED
  BY <1>1, <1>3, <1>4, <1>5, MovesKeep

LEMMA PurgeKeeps ==
  ASSUME CInv, NEW s \in Scans, Purge(s)
  PROVE  CInv'
<1> DEFINE W == Where(s)
           p == IF disk[W] = {} THEN "over" ELSE "unlist"
<1>1. /\ UNCHANGED <<layout, running, srow, srepo, found, held, rows, uploaded, met, crowd, crashed, cut>>
      /\ spc[s] = "purge" /\ spc' = [spc EXCEPT ![s] = p] /\ p \in Places \ {"unborn"}
      /\ disk' = [disk EXCEPT ![W] = {}]
  BY DEF Purge, Go, Places
<1>2. s \in Alive
  BY <1>1 DEF Alive
<1>3. W \in Paths /\ rows[W] \in Nat /\ s \in held /\ s \notin cut' /\ rows' = [rows EXCEPT ![W] = rows[W]]
  BY <1>1, <1>2, ThreadFacts DEF CInv, ScansTypeOK
<1>4. Moves(s, p, {}, rows[W])
  BY <1>1, <1>2, <1>3, DirectoryMoves
<1>5. Fits(s, p, {}, rows[W])
  <2>1. (s \notin met /\ ~IsOwn(s)) => disk[W] = {s} /\ found'[s] \subseteq {s}
    BY <1>1, <1>2, ThreadFacts DEF DirectoryOf
  <2>. QED
    BY <1>1, <1>3, <2>1 DEF Fits, Before, Reading, AtWork
<1>. QED
  BY <1>1, <1>3, <1>4, <1>5, MovesKeep

LEMMA UnlistKeeps ==
  ASSUME CInv, NEW s \in Scans, Unlist(s)
  PROVE  CInv'
<1> DEFINE W == Where(s)
<1>1. /\ UNCHANGED <<layout, running, srow, srepo, found, held, disk, uploaded, met, crowd, crashed, cut>>
      /\ spc[s] = "unlist" /\ spc' = [spc EXCEPT ![s] = "over"] /\ "over" \in Places \ {"unborn"}
      /\ rows' = [rows EXCEPT ![W] = 0]
  BY DEF Unlist, Go, Places
<1>2. s \in Alive
  BY <1>1 DEF Alive
<1>3. /\ W \in Paths /\ rows[W] \in Nat /\ 0 <= rows[W] /\ s \notin cut' /\ disk' = [disk EXCEPT ![W] = disk[W]]
      /\ disk[W] \in SUBSET (Scans \union {User})
  BY <1>1, <1>2, ThreadFacts DEF CInv, ScansTypeOK
<1>4. Moves(s, "over", disk[W], 0)
  BY <1>1, <1>2, <1>3, DirectoryMoves
<1>5. Fits(s, "over", disk[W], 0)
  <2>1. (s \notin met /\ ~IsOwn(s)) => disk[W] = {} /\ found'[s] \subseteq {s}
    BY <1>1, <1>2, ThreadFacts DEF DirectoryOf
  <2>. QED
    BY <1>1, <1>3, <2>1 DEF Fits, Before, Reading, AtWork
<1>. QED
  BY <1>1, <1>3, <1>4, <1>5, MovesKeep


LEMMA StartScanKeeps ==
  ASSUME CInv, NEW s \in Scans, StartScan(s)
  PROVE  CInv'
<1> DEFINE neighbours == {t \in Alive : Where(t) = Where(s)}
<1>1. ScansTypeOK /\ RowsCounted /\ Holding /\ NeighboursMet /\ OwnClones /\ ClonesWithin /\ DirectoriesTidy
  BY DEF CInv
<1>2. /\ UNCHANGED <<layout, srepo, found, held, disk, rows, uploaded, crashed, cut>>
      /\ spc[s] = "unborn" /\ spc' = [spc EXCEPT ![s] = "begun"]
      /\ srow' = [srow EXCEPT ![s] = "pending"] /\ running' = running \union {layout.profile[s]}
      /\ met' = IF neighbours = {} THEN met ELSE met \union neighbours \union {s}
      /\ crowd' = Crowded
  BY DEF StartScan, Go
<1>3. /\ Alive' = Alive \union {s} /\ s \notin Alive /\ Alive \in SUBSET Scans
      /\ spc'[s] = "begun" /\ \A t \in Scans : t # s => spc'[t] = spc[t]
  BY <1>1, <1>2 DEF Alive, ScansTypeOK
<1>4. \A t \in Scans : Where(t)' = Where(t) /\ (IsOwn(t)' <=> IsOwn(t)) /\ Where(t) \in Paths
  BY <1>1, <1>2, SamePlacement, Placement
<1>5. /\ Cardinality(Alive') = Cardinality(Alive) + 1 /\ Cardinality(Alive) \in Nat
      /\ Cardinality(Alive') <= Cardinality(Scans) /\ Cardinality(Scans) \in Nat
  BY <1>3, CountedScans
<1>6. /\ crowd' \in Nat /\ crowd <= crowd' /\ Cardinality(Alive') <= crowd'
      /\ crowd' \in {crowd, Cardinality(Alive')}
  BY <1>1, <1>2, <1>5, CrowdedIs
<1>7. ScansTypeOK'
  <2>1. crowd' \in 0..Cardinality(Scans) + 1
    BY <1>1, <1>5, <1>6 DEF ScansTypeOK
  <2>2. layout.profile[s] \in Profiles
    BY <1>1, ScansAssumption DEF ScansTypeOK
  <2>3. met' \subseteq Scans
    BY <1>1, <1>2, <1>3 DEF ScansTypeOK
  <2>. QED
    BY <1>1, <1>2, <2>1, <2>2, <2>3 DEF ScansTypeOK, Places, RowStatuses
<1>8. RowsCounted'
  <2>1. {t \in Scans : spc'[t] \notin Before} = {t \in Scans : spc[t] \notin Before}
    BY <1>2, <1>3 DEF Before
  <2>. QED
    BY <1>1, <1>2, <2>1 DEF RowsCounted
<1>9. Holding'
  <2>1. s \notin held
    BY <1>1, <1>2 DEF Holding, Before
  <2>. QED
    BY <1>1, <1>2, <1>3, <1>4, <2>1 DEF Holding, Before, Reading, AtWork
<1>10. NeighboursMet'
  <2>1. SUFFICES ASSUME NEW t \in Alive', NEW u \in Alive', t # u, Where(t) = Where(u)
                 PROVE  t \in met'
    BY <1>3, <1>4 DEF NeighboursMet
  <2>2. CASE t # s /\ u # s
    BY <1>1, <1>2, <1>3, <2>1, <2>2 DEF NeighboursMet
  <2>3. CASE t = s \/ u = s
    <3>1. \E v \in neighbours : v \in {t, u}
      BY <1>3, <2>1, <2>3
    <3>. QED
      BY <1>2, <1>3, <2>1, <2>3, <3>1
  <2>. QED
    BY <2>2, <2>3
<1>11. OwnClones'
  <2>1. SUFFICES ASSUME NEW t \in Scans \ met', ~IsOwn(t)
                 PROVE  DirectoryOf(t)' /\ found'[t] \subseteq {t}
    BY <1>4 DEF OwnClones
  <2>2. DirectoryOf(t) /\ found[t] \subseteq {t}
    BY <1>1, <1>2, <2>1 DEF OwnClones
  <2>3. CASE t = s
    BY <1>2, <1>3, <2>2, <2>3 DEF DirectoryOf, Reading, AtWork
  <2>4. CASE t # s
    <3>1. spc'[t] = spc[t] /\ Where(t)' = Where(t) /\ disk' = disk /\ held' = held /\ cut' = cut /\ found' = found
      BY <1>2, <1>3, <1>4, <2>4
    <3>. QED
      BY <2>2, <3>1 DEF DirectoryOf
  <2>. QED
    BY <2>3, <2>4
<1>12. ClonesWithin'
  <2>1. Admitted' = Admitted
    BY <1>2, <1>3 DEF Admitted
  <2>2. Usage' = Usage /\ Usage \in Nat /\ Quota \in Nat /\ Cardinality(Admitted) \in Nat /\ crowd \in Nat
    BY <1>1, <1>2, UsageSame, UsageType, ScansAssumption, CountedScans DEF Admitted, ScansTypeOK
  <2>3. Usage + Cardinality(Admitted) <= Quota + crowd' - 1
    <3>1. CASE crowd = 0
      <4>1. Usage = 0 /\ Alive = {}
        <5>1. Cardinality(Alive) = 0
          BY <1>1, <1>5, <3>1 DEF ClonesWithin
        <5>2. Alive = {}
          BY <1>3, <5>1, CountedScans, FS_EmptySet
        <5>. QED
          BY <1>1, <3>1, <5>2, UsageType DEF ClonesWithin
      <4>2. Admitted = {} /\ Cardinality(Admitted) = 0
        BY <4>1, FS_EmptySet DEF Admitted, Alive
      <4>3. crowd' >= 1
        BY <1>5, <1>6
      <4>. QED
        BY <1>6, <2>2, <4>1, <4>2, <4>3
    <3>2. CASE crowd # 0
      BY <1>1, <1>6, <2>2, <3>2 DEF ClonesWithin
    <3>. QED
      BY <3>1, <3>2
  <2>4. crowd' > 0 /\ crowd' # 0
    BY <1>5, <1>6
  <2>. QED
    BY <1>6, <2>1, <2>2, <2>3, <2>4 DEF ClonesWithin
<1>13. DirectoriesTidy'
  <2>1. SUFFICES ASSUME ~crashed, met' = {}, NEW t \in Scans, ~IsOwn(t)
                 PROVE  Tidy(Where(t))'
    BY <1>2, <1>4 DEF DirectoriesTidy
  <2>2. met = {}
    BY <1>2, <2>1
  <2>3. Tidy(Where(t)) /\ Where(t)' = Where(t)
    BY <1>1, <1>4, <2>1, <2>2 DEF DirectoriesTidy
  <2>4. \A u \in Alive : u \in Alive' /\ spc'[u] = spc[u] /\ Where(u)' = Where(u) /\ (IsOwn(u)' <=> IsOwn(u))
    BY <1>3, <1>4
  <2>. QED
    BY <1>2, <2>3, <2>4 DEF Tidy
<1>. QED
  BY <1>7, <1>8, <1>9, <1>10, <1>11, <1>12, <1>13 DEF CInv

LEMMA StopScanKeeps ==
  ASSUME CInv, NEW f \in Profiles, StopScan(f)
  PROVE  CInv'
<1>1. UNCHANGED <<layout, srow, srepo, found, spc, held, disk, rows, uploaded, met, crowd, crashed, cut>>
      /\ running' = running \ {f}
  BY DEF StopScan
<1>2. ScansTypeOK'
  BY <1>1 DEF CInv, ScansTypeOK
<1>3. /\ Alive' = Alive /\ Admitted' = Admitted /\ Usage' = Usage
      /\ \A s \in Scans : Where(s)' = Where(s) /\ (IsOwn(s)' <=> IsOwn(s))
  BY <1>1, UsageSame, SamePlacement DEF Alive, Admitted
<1>4. \A s \in Scans : (DirectoryOf(s)' <=> DirectoryOf(s)) /\ (Tidy(Where(s))' <=> Tidy(Where(s)))
  BY <1>1, <1>3 DEF DirectoryOf, Tidy, Alive
<1>5. RowsCounted' /\ Holding' /\ ClonesWithin'
  BY <1>1, <1>3 DEF CInv, RowsCounted, Holding, ClonesWithin
<1>6. NeighboursMet' /\ OwnClones' /\ DirectoriesTidy'
  BY <1>1, <1>3, <1>4 DEF CInv, NeighboursMet, OwnClones, DirectoriesTidy, Alive
<1>. QED
  BY <1>2, <1>5, <1>6 DEF CInv

\* A directory is emptied, and its rows deleted or not: the user's deletion of a scan or an upload.
Empties(q, D, R) ==
  /\ disk' = [disk EXCEPT ![q] = D]
  /\ rows' = [rows EXCEPT ![q] = R]
  /\ UNCHANGED <<layout, spc, held, crashed, cut>>
  /\ met' = met \union {t \in Alive : Where(t) = q}
  /\ uploaded \subseteq uploaded' /\ uploaded' \subseteq Paths
  /\ (D = {} /\ R = 0) \/ q \in uploaded'
  /\ \A t \in Scans : found'[t] = found[t] \/ found'[t] = {}

LEMMA EmptyingKeeps ==
  ASSUME CInv, NEW q \in Paths, NEW D, NEW R \in Nat, Empties(q, D, R)
  PROVE  Holding' /\ NeighboursMet' /\ OwnClones' /\ DirectoriesTidy'
<1>1. /\ ScansTypeOK /\ Holding /\ NeighboursMet /\ OwnClones /\ DirectoriesTidy
      /\ rows \in [Paths -> Nat] /\ disk \in [Paths -> SUBSET (Scans \union {User})]
  BY UsageType DEF CInv, ScansTypeOK
<1>2. /\ disk' = [disk EXCEPT ![q] = D] /\ rows' = [rows EXCEPT ![q] = R]
      /\ UNCHANGED <<layout, spc, held, crashed, cut>>
      /\ met' = met \union {t \in Alive : Where(t) = q}
      /\ uploaded \subseteq uploaded'
      /\ (D = {} /\ R = 0) \/ q \in uploaded'
      /\ \A t \in Scans : found'[t] = found[t] \/ found'[t] = {}
  BY DEF Empties
<1>3. /\ Alive' = Alive
      /\ \A t \in Scans : Where(t)' = Where(t) /\ (IsOwn(t)' <=> IsOwn(t)) /\ Where(t) \in Paths
  BY <1>1, <1>2, SamePlacement, Placement DEF Alive
<1>4. disk'[q] = D /\ rows'[q] = R /\ \A w \in Paths : w # q => disk'[w] = disk[w] /\ rows'[w] = rows[w]
  BY <1>1, <1>2
<1>5. Holding'
  BY <1>1, <1>2, <1>3 DEF Holding
<1>6. NeighboursMet'
  <2>1. \A t \in Alive' : Where(t)' = Where(t)
    BY <1>3 DEF Alive
  <2>. QED
    BY <1>1, <1>2, <1>3, <2>1 DEF NeighboursMet
<1>7. OwnClones'
  <2>1. SUFFICES ASSUME NEW t \in Scans \ met', ~IsOwn(t)
                 PROVE  DirectoryOf(t)' /\ found'[t] \subseteq {t}
    BY <1>3 DEF OwnClones
  <2>2. DirectoryOf(t) /\ found[t] \subseteq {t}
    BY <1>1, <1>2, <2>1 DEF OwnClones
  <2>3. found'[t] \subseteq {t}
    BY <1>2, <2>2
  <2>4. CASE t \in Alive
    <3>1. Where(t) # q /\ disk'[Where(t)] = disk[Where(t)] /\ Where(t)' = Where(t)
      BY <1>2, <1>3, <1>4, <2>1, <2>4
    <3>. QED
      BY <1>2, <2>2, <2>3, <3>1 DEF DirectoryOf
  <2>5. CASE t \notin Alive
    <3>1. spc'[t] \in {"unborn", "over"}
      BY <1>2, <2>5 DEF Alive
    <3>. QED
      BY <2>3, <3>1 DEF DirectoryOf, Reading, AtWork
  <2>. QED
    BY <2>4, <2>5
<1>8. DirectoriesTidy'
  <2>1. SUFFICES ASSUME ~crashed, met' = {}, NEW t \in Scans, ~IsOwn(t)
                 PROVE  Tidy(Where(t))'
    BY <1>2, <1>3 DEF DirectoriesTidy
  <2>2. Tidy(Where(t)) /\ Where(t)' = Where(t) /\ Where(t) \in Paths
    BY <1>1, <1>2, <1>3, <2>1 DEF DirectoriesTidy
  <2>3. CASE Where(t) = q
    BY <1>2, <1>4, <2>2, <2>3 DEF Tidy
  <2>4. CASE Where(t) # q
    <3>1. disk'[Where(t)] = disk[Where(t)] /\ rows'[Where(t)] = rows[Where(t)]
      BY <1>4, <2>2, <2>4
    <3>2. \A u \in Alive : u \in Alive' /\ Where(u)' = Where(u) /\ (IsOwn(u)' <=> IsOwn(u))
      BY <1>3 DEF Alive
    <3>. QED
      BY <1>2, <2>2, <3>1, <3>2 DEF Tidy
  <2>. QED
    BY <2>3, <2>4
<1>. QED
  BY <1>5, <1>6, <1>7, <1>8

LEMMA DeleteScanKeeps ==
  ASSUME CInv, NEW s \in Scans, DeleteScan(s)
  PROVE  CInv'
<1> DEFINE W == Where(s)
<1>1. ScansTypeOK /\ RowsCounted /\ ClonesWithin /\ rows \in [Paths -> Nat] /\ W \in Paths
  BY UsageType, Placement DEF CInv
<1>2. /\ UNCHANGED <<layout, running, spc, held, uploaded, crowd, crashed, cut>>
      /\ srow' = [srow EXCEPT ![s] = "deleted"] /\ found' = [found EXCEPT ![s] = {}] /\ srepo' = srepo \ {s}
  BY DEF DeleteScan
<1>3. Alive' = Alive /\ Admitted' = Admitted
  BY <1>2 DEF Alive, Admitted
<1>4. \A t \in Scans : found'[t] = found[t] \/ found'[t] = {}
  BY <1>1, <1>2 DEF ScansTypeOK
<1>5. /\ srow' \in [Scans -> RowStatuses \union {"none", "deleted"}]
      /\ found' \in [Scans -> SUBSET (Scans \union {User})] /\ srepo' \subseteq Scans
  BY <1>1, <1>2 DEF ScansTypeOK
<1>6. CASE s \notin srepo
  <2>1. UNCHANGED <<disk, rows, met>>
    BY <1>6 DEF DeleteScan
  <2>2. ScansTypeOK'
    BY <1>1, <1>2, <1>5, <2>1 DEF ScansTypeOK
  <2>3. Usage' = Usage /\ \A t \in Scans : Where(t)' = Where(t) /\ (IsOwn(t)' <=> IsOwn(t))
    BY <1>2, <2>1, UsageSame, SamePlacement
  <2>4. \A t \in Scans : (DirectoryOf(t)' <=> DirectoryOf(t)) /\ (Tidy(Where(t))' <=> Tidy(Where(t)))
    BY <1>2, <1>3, <2>1, <2>3 DEF DirectoryOf, Tidy, Alive
  <2>5. RowsCounted' /\ Holding' /\ ClonesWithin'
    BY <1>2, <1>3, <2>1, <2>3 DEF CInv, RowsCounted, Holding, ClonesWithin
  <2>6. NeighboursMet' /\ DirectoriesTidy'
    BY <1>2, <1>3, <2>1, <2>3, <2>4 DEF CInv, NeighboursMet, DirectoriesTidy, Alive
  <2>7. OwnClones'
    <3>1. \A t \in Scans \ met : ~IsOwn(t) => DirectoryOf(t) /\ found[t] \subseteq {t}
      BY DEF CInv, OwnClones
    <3>2. \A t \in Scans \ met : ~IsOwn(t)' => DirectoryOf(t)' /\ found'[t] \subseteq {t}
      BY <1>4, <2>3, <2>4, <3>1
    <3>. QED
      BY <2>1, <3>2 DEF OwnClones
  <2>. QED
    BY <2>2, <2>5, <2>6, <2>7 DEF CInv
<1>7. CASE s \in srepo
  <2>1. /\ disk' = [disk EXCEPT ![W] = {}] /\ rows' = [rows EXCEPT ![W] = 0]
        /\ met' = met \union {t \in Alive : Where(t) = W}
    BY <1>7 DEF DeleteScan
  <2>2. Holding' /\ NeighboursMet' /\ OwnClones' /\ DirectoriesTidy'
    <3>1. Empties(W, {}, 0)
      BY <1>1, <1>2, <1>4, <2>1 DEF Empties, ScansTypeOK
    <3>. QED
      BY <1>1, <3>1, EmptyingKeeps
  <2>3. \A q \in Paths : rows'[q] \in Nat /\ rows'[q] <= rows[q] /\ rows[q] \in Nat
    BY <1>1, <2>1
  <2>4. RowsCounted'
    <3>1. Cardinality({t \in Scans : spc[t] \notin Before}) \in Nat
      BY CountedScans
    <3>. QED
      BY <1>1, <1>2, <2>3, <3>1 DEF RowsCounted
  <2>5. ScansTypeOK'
    <3>1. rows' \in [Paths -> 0..Cardinality(Scans) + 1]
      BY <1>1, <2>1, CountedScans DEF ScansTypeOK
    <3>2. met' \subseteq Scans
      BY <1>1, <2>1 DEF ScansTypeOK, Alive
    <3>3. disk' \in [Paths -> SUBSET (Scans \union {User})]
      BY <1>1, <2>1 DEF ScansTypeOK
    <3>. QED
      BY <1>1, <1>2, <1>5, <3>1, <3>2, <3>3 DEF ScansTypeOK
  <2>6. ClonesWithin'
    <3>1. Usage' = Usage - rows[W] + 0
      BY <1>1, <2>1, UsageChanged
    <3>2. Usage \in Nat /\ rows[W] \in Nat /\ crowd \in Nat /\ Quota \in Nat /\ Cardinality(Admitted) \in Nat
      BY <1>1, UsageType, ScansAssumption, CountedScans DEF Admitted, ScansTypeOK
    <3>3. crowd > 0 => Usage' + Cardinality(Admitted) <= Quota + crowd - 1
      BY <1>1, <3>1, <3>2 DEF ClonesWithin
    <3>4. crowd = 0 => \A q \in Paths : rows'[q] = 0
      BY <1>1, <2>3 DEF ClonesWithin
    <3>. QED
      BY <1>1, <1>2, <1>3, <3>3, <3>4 DEF ClonesWithin
  <2>. QED
    BY <2>2, <2>4, <2>5, <2>6 DEF CInv
<1>. QED
  BY <1>6, <1>7

LEMMA UploadRepoKeeps ==
  ASSUME CInv, NEW q \in Paths, NEW valid \in BOOLEAN, UploadRepo(q, valid)
  PROVE  CInv'
<1> DEFINE fits == valid /\ Usage + 1 <= Quota
           D == IF fits THEN {User} ELSE {}
           R == IF fits THEN rows[q] + 1 ELSE rows[q]
<1>1. ScansTypeOK /\ RowsCounted /\ ClonesWithin /\ rows \in [Paths -> Nat] /\ Usage \in Nat
  BY UsageType DEF CInv
<1>2. /\ UNCHANGED <<layout, running, srow, srepo, found, spc, held, crashed, cut>>
      /\ q \notin uploaded /\ uploaded' = uploaded \union {q} /\ crowd' = Crowded
      /\ met' = met \union {t \in Alive : Where(t) = q}
  BY DEF UploadRepo
<1>3. Alive' = Alive /\ Admitted' = Admitted
  BY <1>2 DEF Alive, Admitted
<1>4. disk' = [disk EXCEPT ![q] = D] /\ rows' = [rows EXCEPT ![q] = R] /\ R \in Nat
  <2>1. CASE fits
    BY <1>1, <2>1 DEF UploadRepo
  <2>2. CASE ~fits
    BY <1>1, <2>2 DEF UploadRepo
  <2>. QED
    BY <2>1, <2>2
<1>5. Holding' /\ NeighboursMet' /\ OwnClones' /\ DirectoriesTidy'
  <2>1. Empties(q, D, R)
    BY <1>1, <1>2, <1>4 DEF Empties, ScansTypeOK
  <2> HIDE DEF D, R
  <2>. QED
    BY <1>4, <2>1, EmptyingKeeps
<1>6. RowsCounted'
  <2>1. Cardinality({t \in Scans : spc[t] \notin Before}) \in Nat
    BY CountedScans
  <2>2. R <= rows[q] + 1 /\ rows[q] \in Nat
    BY <1>1
  <2>3. \A w \in Paths : w # q => rows'[w] = rows[w] /\ (w \in uploaded' <=> w \in uploaded)
    BY <1>1, <1>2, <1>4
  <2>4. rows'[q] = R /\ q \in uploaded'
    BY <1>1, <1>2, <1>4
  <2>5. R \in Nat /\ rows[q] <= Cardinality({t \in Scans : spc[t] \notin Before})
    BY <1>1, <1>2, <1>4, <2>1 DEF RowsCounted
  <2> HIDE DEF R
  <2>6. rows'[q] <= Cardinality({t \in Scans : spc'[t] \notin Before}) + 1
    BY <1>2, <2>1, <2>2, <2>4, <2>5
  <2>7. \A w \in Paths : w # q => rows'[w] <= Cardinality({t \in Scans : spc'[t] \notin Before})
                                             + (IF w \in uploaded' THEN 1 ELSE 0)
    BY <1>1, <1>2, <2>3 DEF RowsCounted
  <2>. QED
    BY <2>4, <2>6, <2>7 DEF RowsCounted
<1>7. /\ crowd' \in Nat /\ crowd <= crowd' /\ Cardinality(Alive) + 1 <= crowd' /\ Cardinality(Alive) \in Nat
      /\ crowd' \in {crowd, Cardinality(Alive) + 1}
  BY <1>1, <1>2, CrowdedIs, CountedScans DEF Alive
<1>8. ScansTypeOK'
  <2>1. crowd' \in 0..Cardinality(Scans) + 1
    <3>1. Cardinality(Alive) <= Cardinality(Scans) /\ Cardinality(Scans) \in Nat
      BY CountedScans DEF Alive
    <3>. QED
      BY <1>1, <1>7, <3>1 DEF ScansTypeOK
  <2>2. rows' \in [Paths -> 0..Cardinality(Scans) + 1]
    <3>1. rows' \in [Paths -> Nat]
      BY <1>1, <1>4
    <3>2. (RowsCounted /\ rows \in [Paths -> Nat])' => (rows \in [Paths -> 0..Cardinality(Scans) + 1])'
      BY RowsTyped, PTL
    <3>. QED
      BY <1>6, <3>1, <3>2
  <2>3. met' \subseteq Scans /\ uploaded' \subseteq Paths
    BY <1>1, <1>2 DEF ScansTypeOK, Alive
  <2>4. disk' \in [Paths -> SUBSET (Scans \union {User})]
    BY <1>1, <1>4 DEF ScansTypeOK
  <2>. QED
    BY <1>1, <1>2, <2>1, <2>2, <2>3, <2>4 DEF ScansTypeOK
<1>9. ClonesWithin'
  <2>1. Usage' = Usage - rows[q] + R
    BY <1>1, <1>4, UsageChanged
  <2>2. rows[q] \in Nat /\ crowd \in Nat /\ Quota \in Nat /\ Cardinality(Admitted) \in Nat
        /\ Cardinality(Admitted) <= Cardinality(Alive)
    <3>1. Admitted \subseteq Alive /\ Alive \in SUBSET Scans /\ Admitted \in SUBSET Scans
      BY DEF Admitted, Alive
    <3>2. Cardinality(Admitted) <= Cardinality(Alive) /\ Cardinality(Admitted) \in Nat
      BY <3>1, CountedScans
    <3>. QED
      BY <1>1, <3>2, ScansAssumption DEF ScansTypeOK
  <2>3. crowd' > 0 /\ crowd' # 0 /\ Cardinality(Alive) <= crowd'
    BY <1>7
  <2>4. Usage' + Cardinality(Admitted) <= Quota + crowd' - 1
    <3>1. CASE fits
      <4>1. Usage' = Usage + 1 /\ Usage + 1 <= Quota
        BY <1>1, <2>1, <2>2, <3>1
      <4>. QED
        BY <1>1, <1>7, <2>2, <4>1
    <3>2. CASE ~fits
      <4>1. Usage' = Usage
        BY <1>1, <2>1, <2>2, <3>2
      <4>2. CASE crowd = 0
        <5>1. Usage = 0
          BY <1>1, <4>2, UsageType DEF ClonesWithin
        <5>. QED
          BY <1>7, <2>2, <4>1, <5>1
      <4>3. CASE crowd # 0
        <5>1. Usage + Cardinality(Admitted) <= Quota + crowd - 1
          BY <1>1, <2>2, <4>3 DEF ClonesWithin
        <5>. QED
          BY <1>1, <1>7, <2>2, <4>1, <5>1
      <4>. QED
        BY <4>2, <4>3
    <3>. QED
      BY <3>1, <3>2
  <2>. QED
    BY <1>3, <2>3, <2>4 DEF ClonesWithin
<1>. QED
  BY <1>5, <1>6, <1>8, <1>9 DEF CInv

LEMMA ScansRestartKeeps ==
  ASSUME CInv, ScansRestart
  PROVE  CInv'
<1>1. ScansTypeOK /\ RowsCounted /\ Holding /\ NeighboursMet /\ OwnClones /\ ClonesWithin
  BY DEF CInv
<1>2. /\ UNCHANGED <<layout, srow, srepo, found, held, disk, rows, uploaded, met, crowd, cut>>
      /\ crashed' = TRUE /\ running' = {}
      /\ spc' = [s \in Scans |-> IF s \in Alive THEN "over" ELSE spc[s]]
  BY DEF ScansRestart
<1>3. \A s \in Scans : /\ spc'[s] \in {"unborn", "over"}
                       /\ spc'[s] = "unborn" => spc[s] = "unborn"
                       /\ Where(s)' = Where(s) /\ (IsOwn(s)' <=> IsOwn(s))
  BY <1>2, SamePlacement DEF Alive
<1>4. ScansTypeOK'
  <2>1. spc' \in [Scans -> Places]
    BY <1>2, <1>3 DEF Places
  <2>. QED
    BY <1>1, <1>2, <2>1 DEF ScansTypeOK
<1>5. RowsCounted'
  <2> DEFINE Past == {s \in Scans : spc[s] \notin Before}
             Now == {s \in Scans : spc'[s] \notin Before}
  <2>1. Past \subseteq Now
    BY <1>3 DEF Before
  <2>2. Cardinality(Past) \in Nat /\ Cardinality(Now) \in Nat /\ Cardinality(Past) <= Cardinality(Now)
    BY <2>1, CountedScans
  <2>3. \A p \in Paths : rows[p] \in Nat /\ rows[p] <= Cardinality(Past) + (IF p \in uploaded THEN 1 ELSE 0)
    BY <1>1, UsageType DEF RowsCounted
  <2>4. \A p \in Paths : rows'[p] <= Cardinality(Now) + (IF p \in uploaded' THEN 1 ELSE 0)
    BY <1>2, <2>2, <2>3
  <2>. QED
    BY <2>4 DEF RowsCounted
<1>6. Holding'
  BY <1>1, <1>2, <1>3 DEF Holding, Before, Reading, AtWork
<1>7. NeighboursMet' /\ DirectoriesTidy'
  BY <1>2, <1>3 DEF NeighboursMet, DirectoriesTidy, Alive
<1>8. OwnClones'
  <2>1. \A s \in Scans : DirectoryOf(s)'
    BY <1>3 DEF DirectoryOf, Reading, AtWork
  <2>2. \A s \in Scans \ met : ~IsOwn(s) => found[s] \subseteq {s}
    BY <1>1 DEF OwnClones
  <2>. QED
    BY <1>2, <1>3, <2>1, <2>2 DEF OwnClones
<1>9. ClonesWithin'
  <2>1. Alive' = {} /\ Admitted' = {}
    BY <1>3 DEF Alive, Admitted
  <2>2. Cardinality(Alive') = 0 /\ Cardinality(Admitted') = 0 /\ Cardinality(Admitted) \in Nat
    BY <2>1, FS_EmptySet, CountedScans DEF Admitted
  <2>3. Usage' = Usage /\ Usage \in Nat /\ crowd \in Nat /\ Quota \in Nat /\ crowd' = crowd
    BY <1>1, <1>2, UsageSame, UsageType, ScansAssumption DEF ScansTypeOK
  <2>4. crowd > 0 => Usage + 0 <= Quota + crowd - 1
    BY <1>1, <2>2, <2>3 DEF ClonesWithin
  <2>. QED
    BY <1>1, <1>2, <2>2, <2>3, <2>4 DEF ClonesWithin
<1>. QED
  BY <1>4, <1>5, <1>6, <1>7, <1>8, <1>9 DEF CInv

LEMMA ScansSteps ==
  ASSUME CInv,
         \/ \E s \in Scans : StartScan(s) \/ ScanStep(s) \/ DeleteScan(s)
         \/ \E f \in Profiles : StopScan(f)
         \/ \E p \in Paths, valid \in BOOLEAN : UploadRepo(p, valid)
         \/ ScansRestart
  PROVE  CInv'
<1>1. ASSUME NEW s \in Scans, ScanStep(s)
      PROVE  CInv'
  BY <1>1, BeginKeeps, ClearKeeps, ClonesKeep, CloneFailsKeeps, CheckQuotaKeeps, RegisterRepoKeeps, PurgeKeeps, UnlistKeeps, PhasesKeep
     DEF ScanStep
<1>. QED
  BY <1>1, StartScanKeeps, DeleteScanKeeps, StopScanKeeps, UploadRepoKeeps, ScansRestartKeeps

LEMMA CInvIsSound ==
  ASSUME CInv
  PROVE  ClonesSound
<1>1. UndisturbedScans
  BY DEF CInv, OwnClones, DirectoryOf, UndisturbedScans, Sources, Reading
<1>2. OvershootBounded
  <2>1. Usage \in Nat /\ crowd \in Nat /\ Quota \in Nat /\ Cardinality(Admitted) \in Nat
    BY UsageType, ScansAssumption, CountedScans DEF CInv, ScansTypeOK, Admitted
  <2>. QED
    BY <2>1 DEF CInv, ClonesWithin, OvershootBounded
<1>3. NothingLeftBehind
  BY DEF CInv, DirectoriesTidy, Tidy, NothingLeftBehind
<1>. QED
  BY <1>1, <1>2, <1>3 DEF CInv, ClonesSound

-----------------------------------------------------------------------------
(* The sandbox of a user.                                                  *)

\* Where a client holds a tool.
Holders == {"ready", "respawning", "checked", "used", "removing", "unlist"}

\* A container a tool believes in runs, belongs to it alone and to this process.  A
\* client that is past its first look holds a tool.
Believed ==
  /\ OneTool
  /\ \A u \in Users : box[u] \notin lost
  /\ \A u \in Users : upc[u] \in Holders => tool[u] # None

\* While clients follow each other, the one that is busy is alone with the entry: it
\* starts a container when there is no entry, or holds the tool of the entry.
Alone ==
  /\ \A u, v \in Busy : u = v
  /\ \A u \in Users :
       /\ upc[u] = "starting" => entry = None
       /\ upc[u] \in Holders => tool[u] = entry
       /\ upc[u] \in {"respawning", "unlist"} => box[entry] = None
       /\ upc[u] = "removing" => up \subseteq lost

XInv == SandboxTypeOK /\ Believed /\ (aside = {} => Alone /\ KeptIsFound)

LEMMA InitXInv ==
  ASSUME SandboxInit
  PROVE  XInv
  BY SandboxAssumption DEF SandboxInit, XInv, SandboxTypeOK, Believed, OneTool, Alone, KeptIsFound, Busy, Holders

\* Containers are numbers, so None is none of them.
LEMMA ContainerTypes ==
  ASSUME SandboxTypeOK
  PROVE  /\ None \notin Containers /\ None \notin up /\ up \subseteq Containers /\ made \in Nat
         /\ \A c \in Containers : Starts(c) => /\ c \notin 1..made /\ c \in 1..made' /\ 1..made \subseteq 1..made'
                                               /\ made' \in 0..MaxContainers /\ up' \subseteq 1..made'
<1>0. MaxContainers \in Nat /\ None \notin Nat
  BY SandboxAssumption
<1>1. made \in Nat /\ made <= MaxContainers /\ up \subseteq 1..made
  <2>1. made \in 0..MaxContainers /\ up \subseteq 1..made
    BY DEF SandboxTypeOK
  <2>. QED
    BY <1>0, <2>1
<1>2. up \subseteq Containers /\ None \notin Containers /\ None \notin up
  <2>1. Containers \subseteq Nat /\ 1..made \subseteq Containers
    BY <1>0, <1>1 DEF Containers
  <2>. QED
    BY <1>0, <1>1, <2>1
<1>3. ASSUME NEW c \in Containers, Starts(c)
      PROVE  /\ c \notin 1..made /\ c \in 1..made' /\ 1..made \subseteq 1..made'
             /\ made' \in 0..MaxContainers /\ up' \subseteq 1..made'
  <2>1. c = made + 1 /\ made' = c /\ up' = up \union {c} /\ c \in 1..MaxContainers
    BY <1>3 DEF Starts, Containers
  <2>. QED
    BY <1>0, <1>1, <2>1
<1>. QED
  BY <1>1, <1>2, <1>3

LEMMA WakeKeeps ==
  ASSUME XInv, NEW u \in Users, Wake(u)
  PROVE  XInv'
<1>1. SandboxTypeOK'
  BY DEF Wake, At, XInv, SandboxTypeOK, Busy
<1>2. Believed'
  BY DEF Wake, At, XInv, SandboxTypeOK, Believed, OneTool, Holders
<1>3. ASSUME aside' = {}
      PROVE  Alone' /\ KeptIsFound'
  <2>1. Busy = {} /\ aside = {}
    BY <1>3 DEF Wake
  <2>2. Busy' = {u}
    BY <2>1 DEF Wake, At, Busy, XInv, SandboxTypeOK
  <2>. QED
    BY <2>1, <2>2 DEF Wake, At, XInv, SandboxTypeOK, Alone, KeptIsFound, Holders
<1>. QED
  BY <1>1, <1>2, <1>3 DEF XInv

\* The steps of a client that change neither the entry nor a container.
Passes(u) ==
  \/ Look(u)
  \/ StartFails(u)
  \/ Checked(u)
  \/ RespawnFails(u)
  \/ Exec(u)
  \/ Again(u)
  \/ Abandon(u)

LEMMA PassesKeep ==
  ASSUME XInv, NEW u \in Users, Passes(u)
  PROVE  XInv'
<1>1. UNCHANGED <<entry, box, up, made, aside, lost>>
  BY DEF Passes, Look, StartFails, Checked, RespawnFails, Exec, Again, Abandon
<1>2. PICK p \in {"ready", "starting", "over", "respawning", "checked", "used"} : upc' = [upc EXCEPT ![u] = p]
  BY DEF Passes, Look, StartFails, Checked, RespawnFails, Exec, Again, Abandon, At
<1>3. upc[u] \in {"look", "starting", "ready", "respawning", "checked", "used"}
  BY DEF Passes, Look, StartFails, Checked, RespawnFails, Exec, Again, Abandon
<1>4. p = "starting" => entry = None
  BY <1>2, <1>3 DEF Passes, Look, StartFails, Checked, RespawnFails, Exec, Again, Abandon, At, XInv, SandboxTypeOK
<1>10. p = "respawning" => upc[u] = "ready" /\ box[tool[u]] = None
  BY <1>2, <1>3 DEF Passes, Look, StartFails, Checked, RespawnFails, Exec, Again, Abandon, At, XInv, SandboxTypeOK
<1>5. tool' = IF upc[u] = "look" /\ entry # None THEN [tool EXCEPT ![u] = entry] ELSE tool
  BY DEF Passes, Look, StartFails, Checked, RespawnFails, Exec, Again, Abandon
<1>6. p \in {"ready", "respawning", "checked", "used"} => tool'[u] # None /\ (upc[u] = "look" => tool'[u] = entry)
  <2>1. CASE Look(u)
    BY <1>2, <2>1 DEF Look, At, XInv, SandboxTypeOK
  <2>2. CASE StartFails(u) \/ Checked(u) \/ RespawnFails(u) \/ Exec(u) \/ Again(u) \/ Abandon(u)
    BY <1>2, <1>5, <2>2 DEF StartFails, Checked, RespawnFails, Exec, Again, Abandon, At, XInv, SandboxTypeOK, Believed, Holders
  <2>. QED
    BY <2>1, <2>2 DEF Passes
<1>7. SandboxTypeOK'
  BY <1>1, <1>2, <1>5 DEF XInv, SandboxTypeOK
<1>8. Believed'
  <2>1. \A v \in Users : upc[v] = "removing" => v # u /\ upc'[v] = "removing" /\ tool'[v] = tool[v]
    BY <1>2, <1>3, <1>5 DEF XInv, SandboxTypeOK
  <2>2. OneTool'
    BY <1>1, <2>1 DEF XInv, Believed, OneTool
  <2>3. \A v \in Users : upc'[v] \in Holders => tool'[v] # None
    <3>1. upc'[u] \in Holders => tool'[u] # None
      BY <1>2, <1>6 DEF XInv, SandboxTypeOK, Holders
    <3>2. \A v \in Users \ {u} : upc'[v] = upc[v] /\ tool'[v] = tool[v]
      BY <1>2, <1>5 DEF XInv, SandboxTypeOK
    <3>. QED
      BY <3>1, <3>2 DEF XInv, Believed
  <2>. QED
    BY <1>1, <2>2, <2>3 DEF XInv, Believed
<1>9. ASSUME aside = {}
      PROVE  Alone' /\ KeptIsFound'
  <2>1. Busy' \subseteq Busy
    BY <1>2, <1>3 DEF Busy, XInv, SandboxTypeOK
  <2>2. p \in {"ready", "respawning", "checked", "used"} => tool'[u] = entry
    <3>1. upc[u] = "starting" => p = "over"
      BY <1>2 DEF Passes, Look, StartFails, Checked, RespawnFails, Exec, Again, Abandon, At, XInv, SandboxTypeOK
    <3>2. upc[u] \in {"ready", "respawning", "checked", "used"} => tool'[u] = entry
      BY <1>5, <1>9 DEF XInv, Alone, Holders
    <3>. QED
      BY <1>3, <1>6, <3>1, <3>2
  <2>. QED
    BY <1>1, <1>2, <1>4, <1>5, <1>9, <1>10, <2>1, <2>2 DEF XInv, SandboxTypeOK, Alone, KeptIsFound, Holders
<1>. QED
  BY <1>1, <1>7, <1>8, <1>9 DEF XInv

LEMMA StartedKeeps ==
  ASSUME XInv, NEW u \in Users, NEW c \in Containers, Started(u, c)
  PROVE  XInv'
<1>1. /\ Starts(c) /\ box' = [box EXCEPT ![u] = c] /\ tool' = [tool EXCEPT ![u] = u] /\ entry' = u
      /\ upc' = [upc EXCEPT ![u] = "ready"] /\ upc[u] = "starting" /\ UNCHANGED <<aside, lost>>
  BY DEF Started, At
<1>2. SandboxTypeOK /\ Believed
  BY DEF XInv
<1>3. /\ c \notin 1..made /\ c \notin up /\ up' = up \union {c} /\ up' \subseteq 1..made' /\ made' \in 0..MaxContainers
      /\ c # None /\ lost \subseteq up /\ c \in 1..made' /\ 1..made \subseteq 1..made'
  BY <1>1, <1>2, ContainerTypes DEF Starts, SandboxTypeOK
<1>4. SandboxTypeOK'
  BY <1>1, <1>2, <1>3 DEF SandboxTypeOK
<1>5. Believed'
  BY <1>1, <1>2, <1>3, SandboxAssumption DEF Believed, OneTool, SandboxTypeOK, Holders
<1>6. ASSUME aside = {}
      PROVE  Alone' /\ KeptIsFound'
  <2>1. Alone /\ KeptIsFound /\ entry = None
    BY <1>1, <1>6 DEF XInv, Alone, Holders
  <2>2. up \subseteq lost
    BY <1>6, <2>1 DEF KeptIsFound
  <2>3. Busy' = Busy /\ u \in Busy
    BY <1>1, <1>2 DEF Busy, SandboxTypeOK
  <2>4. \A v \in Users : v # u => upc[v] \in {"idle", "over"}
    BY <2>1, <2>3 DEF Alone, Busy, Holders
  <2>5. Alone'
    BY <1>1, <1>2, <2>1, <2>3, <2>4 DEF Alone, SandboxTypeOK, Holders
  <2>6. KeptIsFound'
    BY <1>1, <1>2, <1>3, <2>2, SandboxAssumption DEF KeptIsFound, SandboxTypeOK
  <2>. QED
    BY <2>5, <2>6
<1>. QED
  BY <1>1, <1>4, <1>5, <1>6 DEF XInv

LEMMA RespawnKeeps ==
  ASSUME XInv, NEW u \in Users, NEW c \in Containers, Respawn(u, c)
  PROVE  XInv'
<1> DEFINE w == tool[u]
<1>1. /\ Starts(c) /\ box' = [box EXCEPT ![w] = c] 
      /\ upc' = [upc EXCEPT ![u] = "checked"] /\ upc[u] = "respawning" /\ UNCHANGED <<entry, tool, aside, lost>>
  BY DEF Respawn, At
<1>2. SandboxTypeOK /\ Believed
  BY DEF XInv
<1>3. /\ c \notin 1..made /\ c \notin up /\ up' = up \union {c} /\ up' \subseteq 1..made' /\ made' \in 0..MaxContainers
      /\ c # None /\ lost \subseteq up /\ c \in 1..made' /\ 1..made \subseteq 1..made'
  BY <1>1, <1>2, ContainerTypes DEF Starts, SandboxTypeOK
<1>4. w \in Users
  BY <1>1, <1>2 DEF Believed, SandboxTypeOK, Holders
<1>5. SandboxTypeOK'
  BY <1>1, <1>2, <1>3, <1>4 DEF SandboxTypeOK
<1>6. Believed'
  BY <1>1, <1>2, <1>3, <1>4 DEF Believed, OneTool, SandboxTypeOK, Holders
<1>7. ASSUME aside = {}
      PROVE  Alone' /\ KeptIsFound'
  <2>1. Alone /\ KeptIsFound /\ entry = w /\ box[w] = None
    BY <1>1, <1>7 DEF XInv, Alone, Holders
  <2>2. up \subseteq lost
    BY <1>1, <1>2, <1>7, <2>1, ContainerTypes DEF KeptIsFound
  <2>3. Busy' = Busy /\ u \in Busy
    BY <1>1, <1>2 DEF Busy, SandboxTypeOK
  <2>4. \A v \in Users : v # u => upc[v] \in {"idle", "over"}
    BY <2>1, <2>3 DEF Alone, Busy, Holders
  <2>5. Alone'
    BY <1>1, <1>2, <2>1, <2>3, <2>4 DEF Alone, SandboxTypeOK, Holders
  <2>6. KeptIsFound'
    BY <1>1, <1>2, <1>3, <1>4, <2>1, <2>2, SandboxAssumption DEF KeptIsFound, SandboxTypeOK
  <2>. QED
    BY <2>5, <2>6
<1>. QED
  BY <1>1, <1>5, <1>6, <1>7 DEF XInv

LEMMA RemoveKeeps ==
  ASSUME XInv, NEW u \in Users, Remove(u)
  PROVE  XInv'
<1>1. UNCHANGED <<entry, box, made, aside, lost>> /\ upc[u] = "used"
  BY DEF Remove
<1>2. SandboxTypeOK /\ Believed
  BY DEF XInv
<1>3. CASE entry = None
  <2>1. UNCHANGED <<tool, up>> /\ upc' = [upc EXCEPT ![u] = "over"]
    BY <1>3 DEF Remove, At
  <2>2. SandboxTypeOK' /\ Believed'
    BY <1>1, <1>2, <2>1 DEF SandboxTypeOK, Believed, OneTool, Holders
  <2>3. Busy' \subseteq Busy
    BY <1>1, <1>2, <2>1 DEF Busy, SandboxTypeOK
  <2>4. aside = {} => Alone' /\ KeptIsFound'
    BY <1>1, <1>2, <2>1, <2>3 DEF XInv, Alone, KeptIsFound, SandboxTypeOK, Holders
  <2>. QED
    BY <1>1, <2>2, <2>4 DEF XInv
<1>4. CASE entry # None
  <2>1. /\ up' = up \ {box[entry]} /\ tool' = [tool EXCEPT ![u] = entry] /\ entry \in Users
        /\ upc' = [upc EXCEPT ![u] = IF box[entry] = None THEN "unlist" ELSE "removing"]
    BY <1>2, <1>4 DEF Remove, At, SandboxTypeOK
  <2>2. SandboxTypeOK'
    BY <1>1, <1>2, <2>1 DEF SandboxTypeOK, Believed, Holders
  <2>3. Believed'
    <3>1. \A v \in Users : upc[v] = "removing" => v # u /\ upc'[v] = "removing" /\ tool'[v] = tool[v]
      BY <1>1, <1>2, <2>1 DEF SandboxTypeOK
    <3>2. box[entry] # None => upc'[u] = "removing" /\ tool'[u] = entry
      BY <1>2, <2>1 DEF SandboxTypeOK
    <3>3. \A v \in Users : (v # entry /\ box[v] \in up) => box[v] \in up'
      BY <1>2, <2>1, ContainerTypes DEF Believed, OneTool
    <3>4. OneTool'
      BY <1>1, <1>2, <3>1, <3>2, <3>3 DEF Believed, OneTool
    <3>5. \A v \in Users : upc'[v] \in Holders => tool'[v] # None
      BY <1>1, <1>2, <2>1, SandboxAssumption DEF SandboxTypeOK, Believed, Holders
    <3>. QED
      BY <1>1, <1>2, <3>4, <3>5 DEF Believed
  <2>4. ASSUME aside = {}
        PROVE  Alone' /\ KeptIsFound'
    <3>1. Alone /\ KeptIsFound
      BY <2>4 DEF XInv
    <3>2. Busy' = Busy /\ u \in Busy
      BY <1>1, <1>2, <2>1 DEF Busy, SandboxTypeOK
    <3>3. \A v \in Users : v # u => upc[v] \in {"idle", "over"}
      BY <3>1, <3>2 DEF Alone, Busy, Holders
    <3>4. up' \subseteq lost
      BY <1>4, <2>1, <2>4, <3>1 DEF KeptIsFound
    <3>5. Alone'
      BY <1>1, <1>2, <2>1, <3>1, <3>2, <3>3, <3>4 DEF Alone, SandboxTypeOK, Holders
    <3>. QED
      BY <1>1, <3>4, <3>5 DEF KeptIsFound
  <2>. QED
    BY <1>1, <2>2, <2>3, <2>4 DEF XInv
<1>. QED
  BY <1>3, <1>4

LEMMA DropSandboxKeeps ==
  ASSUME XInv, NEW u \in Users, DropSandbox(u)
  PROVE  XInv'
<1> DEFINE w == tool[u]
<1>1. /\ UNCHANGED <<entry, tool, up, made, aside, lost>> /\ box' = [box EXCEPT ![w] = None]
      /\ upc[u] = "removing" /\ upc' = [upc EXCEPT ![u] = "unlist"]
  BY DEF DropSandbox, At
<1>2. SandboxTypeOK /\ Believed
  BY DEF XInv
<1>3. w \in Users
  BY <1>1, <1>2 DEF Believed, SandboxTypeOK, Holders
<1>4. SandboxTypeOK'
  BY <1>1, <1>2, <1>3 DEF SandboxTypeOK
<1>5. Believed'
  <2>1. None \notin lost
    BY <1>2, ContainerTypes DEF SandboxTypeOK
  <2>. QED
    BY <1>1, <1>2, <1>3, <2>1 DEF Believed, OneTool, SandboxTypeOK, Holders
<1>6. ASSUME aside = {}
      PROVE  Alone' /\ KeptIsFound'
  <2>1. Alone /\ up \subseteq lost /\ entry = w
    BY <1>1, <1>6 DEF XInv, Alone, Holders
  <2>2. Busy' = Busy /\ u \in Busy
    BY <1>1, <1>2 DEF Busy, SandboxTypeOK
  <2>3. \A v \in Users : v # u => upc[v] \in {"idle", "over"}
    BY <2>1, <2>2 DEF Alone, Busy, Holders
  <2>4. Alone'
    BY <1>1, <1>2, <1>3, <2>1, <2>2, <2>3 DEF Alone, SandboxTypeOK, Holders
  <2>. QED
    BY <1>1, <2>1, <2>4 DEF KeptIsFound
<1>. QED
  BY <1>1, <1>4, <1>5, <1>6 DEF XInv

LEMMA ForgetToolKeeps ==
  ASSUME XInv, NEW u \in Users, ForgetTool(u)
  PROVE  XInv'
<1>1. /\ UNCHANGED <<box, tool, up, made, aside, lost>> /\ entry' = None
      /\ upc[u] = "unlist" /\ upc' = [upc EXCEPT ![u] = "over"]
  BY DEF ForgetTool, At
<1>2. SandboxTypeOK /\ Believed
  BY DEF XInv
<1>3. SandboxTypeOK' /\ Believed'
  BY <1>1, <1>2 DEF SandboxTypeOK, Believed, OneTool, Holders
<1>4. ASSUME aside = {}
      PROVE  Alone' /\ KeptIsFound'
  <2>1. Alone /\ KeptIsFound
    BY <1>4 DEF XInv
  <2>2. Busy' \subseteq Busy \ {u} /\ u \in Busy
    BY <1>1, <1>2 DEF Busy, SandboxTypeOK
  <2>3. \A v \in Users : upc'[v] \in {"idle", "over"}
    BY <1>1, <1>2, <2>1, <2>2 DEF Alone, Busy, SandboxTypeOK, Holders
  <2>4. Alone'
    BY <2>1, <2>2, <2>3 DEF Alone, Holders
  <2>5. up \subseteq lost
    BY <1>1, <1>2, <1>4, <2>1, ContainerTypes DEF Alone, KeptIsFound, Holders
  <2>. QED
    BY <1>1, <2>4, <2>5 DEF KeptIsFound
<1>. QED
  BY <1>1, <1>3, <1>4 DEF XInv

LEMMA EndsKeep ==
  ASSUME XInv, Shutdown \/ Killed
  PROVE  XInv'
<1>1. /\ entry' = None /\ box' = [u \in Users |-> None] /\ UNCHANGED <<tool, made, aside>>
      /\ upc' = [u \in Users |-> IF u \in Busy THEN "over" ELSE upc[u]]
      /\ lost' = up' /\ up' \subseteq up
  BY DEF Shutdown, Killed, Forgotten
<1>2. SandboxTypeOK
  BY DEF XInv
<1>3. \A u \in Users : upc'[u] \in {"idle", "over"}
  BY <1>1, <1>2 DEF SandboxTypeOK, Busy
<1>4. SandboxTypeOK'
  BY <1>1, <1>2, <1>3 DEF SandboxTypeOK
<1>5. Believed'
  BY <1>1, <1>2, <1>3, ContainerTypes DEF Believed, OneTool, Holders
<1>6. Alone' /\ KeptIsFound'
  BY <1>1, <1>3 DEF Alone, KeptIsFound, Busy, Holders
<1>. QED
  BY <1>4, <1>5, <1>6 DEF XInv

LEMMA SandboxSteps ==
  ASSUME XInv, \/ \E u \in Users : Wake(u) \/ SandboxStep(u)
               \/ Shutdown \/ Killed
  PROVE  XInv'
<1>1. ASSUME NEW u \in Users, SandboxStep(u)
      PROVE  XInv'
  BY <1>1, PassesKeep, StartedKeeps, RespawnKeeps, RemoveKeeps, DropSandboxKeeps, ForgetToolKeeps DEF SandboxStep, Passes
<1>. QED
  BY <1>1, WakeKeeps, EndsKeep

-----------------------------------------------------------------------------
(* The three together.                                                     *)

AInv == BInv /\ CInv /\ XInv

LEMMA InitAInv ==
  ASSUME AnalysesInit
  PROVE  AInv
  BY InitBInv, InitCInv, InitXInv DEF AnalysesInit, AInv

\* An invariant of one task says nothing of what the others change.
LEMMA BInvApart == ASSUME BInv, UNCHANGED bvars
                   PROVE  BInv'
  BY DEF bvars, BInv, BlueTypeOK, MarkSpent, HandlerAlone, BeforeRow, OneReportEach, CompletedHasReport,
         RunningHasThread, Threads, BAlive, Underway

LEMMA CInvApart == ASSUME CInv, UNCHANGED pvars
                   PROVE  CInv'
<1>1. UNCHANGED <<layout, running, srow, srepo, found, spc, held, disk, rows, uploaded, met, crowd, crashed, cut>>
  BY DEF pvars
<1>2. Alive' = Alive /\ Admitted' = Admitted /\ Usage' = Usage
  BY <1>1, UsageSame DEF Alive, Admitted
<1>3. \A s \in Scans : /\ Where(s)' = Where(s) /\ (IsOwn(s)' <=> IsOwn(s))
                       /\ DirectoryOf(s)' <=> DirectoryOf(s)
  BY <1>1, SamePlacement DEF DirectoryOf
<1>4. \A s \in Scans : Tidy(Where(s))' <=> Tidy(Where(s))
  BY <1>1, <1>2, <1>3 DEF Tidy, Alive
<1>5. ScansTypeOK' /\ RowsCounted' /\ Holding' /\ ClonesWithin'
  BY <1>1, <1>2, <1>3 DEF CInv, ScansTypeOK, RowsCounted, Holding, ClonesWithin
<1>6. NeighboursMet' /\ OwnClones' /\ DirectoriesTidy'
  BY <1>1, <1>2, <1>3, <1>4 DEF CInv, NeighboursMet, OwnClones, DirectoriesTidy, Alive
<1>. QED
  BY <1>5, <1>6 DEF CInv

LEMMA XInvApart == ASSUME XInv, UNCHANGED xvars
                   PROVE  XInv'
  BY DEF xvars, XInv, SandboxTypeOK, Believed, OneTool, Alone, KeptIsFound, Busy, Holders

LEMMA AnalysesStep ==
  ASSUME AInv, [AnalysesNext]_nvars
  PROVE  AInv'
<1> DEFINE BlueActs == \/ CreateProfile \/ StopAnalysis \/ DeleteProfile \/ BlueRestart
                       \/ \E j \in Jobs : ImportFromPentest(j) \/ StartAnalysis(j) \/ BlueStep(j)
           PurpleActs == \/ \E s \in Scans : StartScan(s) \/ ScanStep(s) \/ DeleteScan(s)
                         \/ \E f \in Profiles : StopScan(f)
                         \/ \E p \in Paths, valid \in BOOLEAN : UploadRepo(p, valid)
                         \/ ScansRestart
           SharedActs == \/ \E u \in Users : Wake(u) \/ SandboxStep(u)
                         \/ Shutdown \/ Killed
<1>1. CASE UNCHANGED nvars
  BY <1>1, BInvApart, CInvApart, XInvApart DEF nvars, AInv
<1>2. CASE AnalysesNext
  <2>1. \/ BlueActs /\ UNCHANGED <<pvars, xvars>>
        \/ PurpleActs /\ UNCHANGED <<bvars, xvars>>
        \/ SharedActs /\ UNCHANGED <<bvars, pvars>>
    BY <1>2, Zenon DEF AnalysesNext, Blue, Purple, Shared
  <2>2. CASE BlueActs /\ UNCHANGED <<pvars, xvars>>
    BY <2>2, BlueSteps, CInvApart, XInvApart DEF AInv
  <2>3. CASE PurpleActs /\ UNCHANGED <<bvars, xvars>>
    BY <2>3, ScansSteps, BInvApart, XInvApart DEF AInv
  <2>4. CASE SharedActs /\ UNCHANGED <<bvars, pvars>>
    BY <2>4, SandboxSteps, BInvApart, CInvApart DEF AInv
  <2>. QED
    BY <2>1, <2>2, <2>3, <2>4
<1>. QED
  BY <1>1, <1>2

\* The inductive invariant of the three holds in every reachable state.
THEOREM AnalysesInvariant == AnalysesSpec => []AInv
<1>1. AnalysesInit => AInv
  BY InitAInv
<1>2. AInv /\ [AnalysesNext]_nvars => AInv'
  BY AnalysesStep
<1>. QED
  BY <1>1, <1>2, PTL DEF AnalysesSpec

\* In every reachable state, for any number of analyses, scans and directories, the row of a blue
\* team profile, its reports and its threads agree, and a clone nobody met holds what its scan cloned,
\* exceeds the quota by no more than the threads beside it, and leaves with its scan
\* (blueteam/api.py, purpleteam/api.py, purpleteam/repo_manager.py).
THEOREM AnalysesAreSound == AnalysesSpec => []AnalysesSound
<1>1. AInv => AnalysesSound
  BY BInvIsSound, CInvIsSound DEF AInv, AnalysesSound
<1>. QED
  BY <1>1, AnalysesInvariant, PTL

\* In every reachable state, for any number of clients of a user, a container serves one
\* tool that knows of it, and clients that follow each other leave one that the next of them finds
\* (sandbox/manager.py, sandbox/tool.py).
THEOREM SandboxIsSound == AnalysesSpec => []SandboxSound
<1>1. ASSUME XInv
      PROVE  SandboxSound
  <2>1. KeptIsFound
    BY <1>1 DEF XInv, KeptIsFound
  <2>. QED
    BY <1>1, <2>1 DEF XInv, Believed, SandboxSound
<1>2. AInv => SandboxSound
  BY <1>1 DEF AInv
<1>. QED
  BY <1>2, AnalysesInvariant, PTL

=============================================================================
