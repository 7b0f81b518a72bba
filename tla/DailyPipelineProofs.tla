------------------------ MODULE DailyPipelineProofs ------------------------
(***************************************************************************)
(* What is proved of DailyPipeline for every set of runners, every set of  *)
(* configurations and every bound on faults.                               *)
(*                                                                         *)
(* FlagImpliesData is not inductive: a runner sets a flag steps after it   *)
(* committed the data, and decides by its own copy of the flags.  The      *)
(* strengthening relates that copy and the runner's place in run() to the  *)
(* tables: LocalIsCopied (the copy never claims more than the row),        *)
(* StageHasData (who is about to set a flag has committed its data) and    *)
(* StageIsNext (a runner reaches a stage only past the flags before it).   *)
(*                                                                         *)
(* What the runs of a date compute with, and whom they tell, is proved for *)
(* runs that do not overlap (SoloInv).                                     *)
(***************************************************************************)
EXTENDS DailyPipeline, TLAPS

(* A row that does not exist has no flags.                                 *)
NoRowNoFlags == status = "NONE" => done = {}

(* The copy a runner holds never claims a flag the row has not.            *)
LocalIsCopied == \A r \in Runners : loc[r].done \subseteq done

(* Flags are set in order, in the row.                                     *)
FlagsInOrder == /\ 2 \in done => 1 \in done
                /\ 3 \in done => {1, 2} \subseteq done

(* Who is about to set a flag has committed the data it stands for.        *)
StageHasData ==
    \A r \in Runners :
        /\ pc[r] = "cp1_state" => "quotes" \in store
        /\ pc[r] = "cp1_flag" => Produces(1) \subseteq store
        /\ pc[r] = "cp2_flag" => Produces(2) \subseteq store
        /\ pc[r] = "cp3_flag" => Produces(3) \subseteq store

PastCheckpoints == {"notify", "step4", "step5", "step6", "step7", "success"}

(* A stage is reached only past the flags before it.                       *)
StageIsNext ==
    \A r \in Runners :
        /\ pc[r] \in {"cp2", "cp2_flag"} => 1 \in loc[r].done
        /\ pc[r] \in {"cp3", "cp3_signals", "cp3_flag"} => {1, 2} \subseteq loc[r].done
        /\ pc[r] \in PastCheckpoints => loc[r].done = Checkpoints

(* A runner past the row's creation works on a row that exists.            *)
RunnerHasRow == \A r \in Runners : pc[r] \in Stages \cup {"failing"} => status # "NONE"

IInv ==
    /\ TypeOK /\ NoRowNoFlags /\ LocalIsCopied /\ FlagsInOrder
    /\ StageHasData /\ StageIsNext /\ RunnerHasRow
    /\ FlagImpliesData /\ SuccessMeansComplete

-----------------------------------------------------------------------------
(* StageAfter names the first stage whose flag is missing, so the flags    *)
(* before it are there.                                                    *)
LEMMA StageAfterIsNext ==
    ASSUME NEW d \in SUBSET Checkpoints
    PROVE  /\ StageAfter(d) \in {"cp1", "cp2", "cp3", "step4"}
           /\ StageAfter(d) = "cp2" => 1 \in d
           /\ StageAfter(d) = "cp3" => 1 \in d /\ 2 \in d
           /\ StageAfter(d) = "step4" => d = Checkpoints
<1>1. 1 \in d /\ 2 \in d /\ 3 \in d => d = Checkpoints
    <2>1. Checkpoints = {1, 2, 3}
        BY DEF Checkpoints
    <2> QED
        BY <2>1
<1>2. CASE 1 \notin d
    BY <1>2 DEF StageAfter
<1>3. CASE 1 \in d /\ 2 \notin d
    BY <1>3 DEF StageAfter
<1>4. CASE 1 \in d /\ 2 \in d /\ 3 \notin d
    BY <1>4 DEF StageAfter
<1>5. CASE 1 \in d /\ 2 \in d /\ 3 \in d
    BY <1>1, <1>5 DEF StageAfter
<1> QED
    BY <1>2, <1>3, <1>4, <1>5

(* Enter gives runner r a well-typed copy of the row and sends it to the   *)
(* snapshot or to the first unfinished stage.                              *)
LEMMA EnterEffect ==
    ASSUME TypeOK, NEW r \in Runners, NEW d \in SUBSET Checkpoints,
           NEW s \in Snapshots, Enter(r, d, s)
    PROVE  /\ pc' \in [Runners -> PC] /\ loc' \in [Runners -> LocalRun]
           /\ pc'[r] \in {"config", StageAfter(d)} /\ loc'[r].done = d
           /\ \A q \in Runners \ {r} : pc'[q] = pc[q] /\ loc'[q] = loc[q]
<1> DEFINE entry == RunOf(d, s)
           stage == IF s = NoSnapshot THEN "config" ELSE StageAfter(d)
<1>1. entry \in LocalRun /\ entry.done = d
    BY DEF LocalRun, RunOf, Snapshots
<1>2. stage \in PC /\ stage \in {"config", StageAfter(d)}
    BY StageAfterIsNext DEF PC, Stages
<1>3. pc' = [pc EXCEPT ![r] = stage] /\ loc' = [loc EXCEPT ![r] = entry]
    BY DEF Enter, Goto
<1>4. pc \in [Runners -> PC] /\ loc \in [Runners -> LocalRun]
    BY DEF TypeOK
<1> HIDE DEF stage, entry
<1> QED
    BY <1>1, <1>2, <1>3, <1>4

(* The bound on faults is kept.                                            *)
LEMMA FaultCounted == TypeOK /\ Fault => faults' \in 0..MaxFaults
BY MaxFaultsAssumption DEF TypeOK, Fault

(* Type correctness is inductive on its own.                               *)
LEMMA TypeStep == TypeOK /\ [Next]_vars => TypeOK'
<1> SUFFICES ASSUME TypeOK, [Next]_vars PROVE TypeOK'
    OBVIOUS
<1> USE NoSnapshotAssumption, MaxFaultsAssumption, TrackedAssumption
        DEF TypeOK, row, work, env, Goto, At, PC, Entry, Stages, Statuses,
            LocalRun, RunOf, EmptyRun, Snapshots, Artefacts, Checkpoints
<1>1. ASSUME NEW r \in Runners, CronStart(r) PROVE TypeOK'
    BY <1>1 DEF CronStart
<1>2. ASSUME NEW r \in Runners, TriggerSelect(r) PROVE TypeOK'
    BY <1>2 DEF TriggerSelect
<1>3. ASSUME NEW r \in Runners, TriggerInsert(r) PROVE TypeOK'
    BY <1>3 DEF TriggerInsert, InsertRow
<1>4. ASSUME NEW r \in Runners, GetRun(r) PROVE TypeOK'
    <2>1. CASE status # "NONE" /\ Enter(r, done, snap)
        <3>1. pc' \in [Runners -> PC] /\ loc' \in [Runners -> LocalRun]
            BY <2>1, EnterEffect
        <3> QED
            BY <1>4, <2>1, <3>1 DEF GetRun
    <2>2. CASE status = "NONE" /\ Goto(r, "insert") /\ UNCHANGED loc
        BY <1>4, <2>2 DEF GetRun
    <2> QED
        BY <1>4, <2>1, <2>2 DEF GetRun
<1>5. ASSUME NEW r \in Runners, CreateRun(r) PROVE TypeOK'
    <2>1. CASE InsertRow /\ Enter(r, {}, NoSnapshot)
        <3>1. pc' \in [Runners -> PC] /\ loc' \in [Runners -> LocalRun]
            BY <2>1, EnterEffect
        <3> QED
            BY <1>5, <2>1, <3>1 DEF CreateRun, InsertRow
    <2>2. CASE status # "NONE" /\ Goto(r, "idle") /\ UNCHANGED <<row, loc>>
        BY <1>5, <2>2 DEF CreateRun
    <2> QED
        BY <1>5, <2>1, <2>2 DEF CreateRun
<1>6. ASSUME NEW r \in Runners, WriteConfigSnapshot(r) PROVE TypeOK'
    BY StageAfterIsNext, <1>6 DEF WriteConfigSnapshot
<1>7. ASSUME NEW r \in Runners, IngestQuotes(r) PROVE TypeOK'
    BY <1>7 DEF IngestQuotes
<1>8. ASSUME NEW r \in Runners, IdentifyMarketState(r) PROVE TypeOK'
    BY <1>8 DEF IdentifyMarketState
<1>9. ASSUME NEW r \in Runners, ScoreUniverse(r) PROVE TypeOK'
    BY <1>9 DEF ScoreUniverse
<1>10. ASSUME NEW r \in Runners, GenerateSignals(r) PROVE TypeOK'
    <2>1. loc[r] \in LocalRun /\ Answers(r) \in Snapshots
        BY DEF Answers
    <2>2. usedCfg' \in [Checkpoints -> SUBSET Snapshots]
        BY <1>10, <2>1 DEF GenerateSignals
    <2>3. PICK some \in BOOLEAN : loc' = [loc EXCEPT ![r].new = some, ![r].read = NoSnapshot]
        BY <1>10 DEF GenerateSignals
    <2>4. loc' \in [Runners -> LocalRun]
        BY <2>1, <2>3
    <2> QED
        BY <1>10, <2>2, <2>4 DEF GenerateSignals
<1>28. ASSUME NEW r \in Runners, NoCandidates(r) PROVE TypeOK'
    BY <1>28 DEF NoCandidates
<1>29. ASSUME NEW r \in Runners, ReadSignalParams(r) PROVE TypeOK'
    BY <1>29 DEF ReadSignalParams, Answers
<1>11. ASSUME NEW r \in Runners, NEW k \in Checkpoints, SetCheckpoint(r, k) PROVE TypeOK'
    BY StageAfterIsNext, <1>11 DEF SetCheckpoint, FlagStage
<1>12. ASSUME NEW r \in Runners, NotifyNewSignals(r) PROVE TypeOK'
    BY <1>12 DEF NotifyNewSignals, BestEffort
<1>13. ASSUME NEW r \in Runners, MarkToMarket(r) PROVE TypeOK'
    BY <1>13 DEF MarkToMarket, BestEffort
<1>14. ASSUME NEW r \in Runners, AutoDividends(r) PROVE TypeOK'
    BY <1>14 DEF AutoDividends, BestEffort
<1>15. ASSUME NEW r \in Runners, ExpireSignals(r) PROVE TypeOK'
    BY <1>15 DEF ExpireSignals, BestEffort
<1>16. ASSUME NEW r \in Runners, PrivateSignals(r) PROVE TypeOK'
    BY <1>16 DEF PrivateSignals, BestEffort
<1>17. ASSUME NEW r \in Runners, NotifyPipelineFailure(r) PROVE TypeOK'
    BY <1>17 DEF NotifyPipelineFailure, BestEffort
<1>18. ASSUME NEW r \in Runners, UpdateRunSuccess(r) PROVE TypeOK'
    BY <1>18 DEF UpdateRunSuccess
<1>19. ASSUME NEW r \in Runners, UpdateRunFailed(r) PROVE TypeOK'
    BY <1>19 DEF UpdateRunFailed
<1>20. ASSUME NEW r \in Runners, Raise(r) PROVE TypeOK'
    BY <1>20 DEF Raise, Fault, Caught, InTry
<1>21. ASSUME NEW r \in Runners, Hang(r) PROVE TypeOK'
    BY <1>21 DEF Hang, Fault, InTry
<1>22. ASSUME Crash PROVE TypeOK'
    BY <1>22 DEF Crash, Fault
<1>23. ASSUME SourceFails PROVE TypeOK'
    <2>1. faults' \in 0..MaxFaults
        BY <1>23, FaultCounted DEF SourceFails
    <2>2. sourceUp' \in BOOLEAN
        BY <1>23, Zenon DEF SourceFails
    <2> QED
        BY <1>23, <2>1, <2>2, Zenon DEF SourceFails
<1>24. ASSUME SourceRecovers PROVE TypeOK'
    BY <1>24 DEF SourceRecovers
<1>25. ASSUME ChangeConfig PROVE TypeOK'
    BY <1>25 DEF ChangeConfig
<1>26. ASSUME ScanStuckRuns PROVE TypeOK'
    BY <1>26 DEF ScanStuckRuns
<1>27. ASSUME UNCHANGED vars PROVE TypeOK'
    BY <1>27 DEF vars
<1> QED
    BY <1>1, <1>2, <1>3, <1>4, <1>5, <1>6, <1>7, <1>8, <1>9, <1>10, <1>11, <1>12, <1>13, <1>14, <1>15, <1>16, <1>17, <1>18, <1>19, <1>20, <1>21, <1>22, <1>23, <1>24, <1>25, <1>26, <1>27, <1>28, <1>29 DEF Next, Step

(* The initial state is well typed.                                        *)
LEMMA InitType == Init => TypeOK
<1> SUFFICES ASSUME Init PROVE TypeOK
    OBVIOUS
<1>1. EmptyRun \in LocalRun
    BY DEF EmptyRun, RunOf, LocalRun, Snapshots
<1>2. loc \in [Runners -> LocalRun]
    BY <1>1 DEF Init
<1>3. pc \in [Runners -> PC] /\ usedCfg \in [Checkpoints -> SUBSET Snapshots]
    BY DEF Init, PC, Snapshots
<1>4. faults \in 0..MaxFaults
    BY MaxFaultsAssumption DEF Init
<1>5. status \in Statuses /\ finished \in BOOLEAN /\ sourceUp \in BOOLEAN
      /\ cronFired \in BOOLEAN /\ stuckAlert \in BOOLEAN
    BY Zenon DEF Init, Statuses
<1> QED
    BY <1>2, <1>3, <1>4, <1>5, Zenon DEF Init, TypeOK, Snapshots

(* ... and so it holds in every behaviour: every field of the row and of   *)
(* every runner keeps its type, whatever the interleaving.                 *)
THEOREM TypeCorrect == Spec => []TypeOK
<1>1. Init => TypeOK
    BY InitType
<1> QED
    BY <1>1, TypeStep, PTL DEF Spec

-----------------------------------------------------------------------------
(* Entering run() with flags the row has keeps the invariant.              *)
LEMMA EnterKeepsInv ==
    ASSUME IInv, TypeOK', NEW r \in Runners, NEW d \in SUBSET done,
           NEW s \in Snapshots, Enter(r, d, s),
           status' \in {status, "RUNNING"}, status' # "NONE", UNCHANGED <<done, store>>
    PROVE  IInv'
<1>1. TypeOK /\ d \in SUBSET Checkpoints
    BY DEF IInv, TypeOK
<1>2. /\ pc'[r] \in {"config", StageAfter(d)} /\ loc'[r].done = d
      /\ \A q \in Runners \ {r} : pc'[q] = pc[q] /\ loc'[q] = loc[q]
    BY <1>1, EnterEffect
<1>3. /\ pc'[r] \in {"config", "cp1", "cp2", "cp3", "step4"}
      /\ pc'[r] = "cp2" => 1 \in d
      /\ pc'[r] = "cp3" => 1 \in d /\ 2 \in d
      /\ pc'[r] = "step4" => d = Checkpoints
    BY <1>1, <1>2, StageAfterIsNext
<1>4. LocalIsCopied' /\ StageHasData'
    BY <1>2, <1>3 DEF IInv, LocalIsCopied, StageHasData
<1>5. StageIsNext'
    <2>1. pc'[r] \in PastCheckpoints => d = Checkpoints
        BY <1>3 DEF PastCheckpoints
    <2>2. pc'[r] \notin {"cp2_flag", "cp3_flag"}
        BY <1>3
    <2> QED
        BY <1>2, <1>3, <2>1, <2>2 DEF IInv, StageIsNext
<1>6. FlagsInOrder' /\ FlagImpliesData' /\ SuccessMeansComplete'
    BY DEF IInv, FlagsInOrder, FlagImpliesData, SuccessMeansComplete
<1>7. NoRowNoFlags' /\ RunnerHasRow'
    BY DEF NoRowNoFlags, RunnerHasRow
<1> QED
    BY <1>4, <1>5, <1>6, <1>7 DEF IInv

(* The conjuncts of IInv that relate the row, the tables and the runners.  *)
LEMMA InvStep == IInv /\ TypeOK' /\ [Next]_vars => IInv'
<1> SUFFICES ASSUME IInv, TypeOK', [Next]_vars PROVE IInv'
    OBVIOUS
<1> USE DEF IInv, TypeOK, NoRowNoFlags, LocalIsCopied, FlagsInOrder,
            StageHasData, StageIsNext, RunnerHasRow, FlagImpliesData,
            SuccessMeansComplete, PastCheckpoints, Produces, Checkpoints, LocalRun,
            row, work, env, Goto, At, Stages, RunOf, EmptyRun
<1>1. ASSUME NEW r \in Runners, CronStart(r) PROVE IInv'
    BY <1>1 DEF CronStart
<1>2. ASSUME NEW r \in Runners, TriggerSelect(r) PROVE IInv'
    BY <1>2 DEF TriggerSelect
<1>3. ASSUME NEW r \in Runners, TriggerInsert(r) PROVE IInv'
    BY <1>3 DEF TriggerInsert, InsertRow
<1>4. ASSUME NEW r \in Runners, GetRun(r) PROVE IInv'
    <2>1. CASE status # "NONE" /\ Enter(r, done, snap)
        <3>1. UNCHANGED <<status, done, store>>
            BY <1>4 DEF GetRun
        <3> QED
            BY <2>1, <3>1, EnterKeepsInv
    <2>2. CASE status = "NONE" /\ Goto(r, "insert") /\ UNCHANGED loc
        BY <1>4, <2>2 DEF GetRun
    <2> QED
        BY <1>4, <2>1, <2>2 DEF GetRun
<1>5. ASSUME NEW r \in Runners, CreateRun(r) PROVE IInv'
    <2>1. CASE InsertRow /\ Enter(r, {}, NoSnapshot)
        <3>1. status = "NONE" /\ status' = "RUNNING" /\ UNCHANGED <<done, store>>
            BY <1>5, <2>1 DEF CreateRun, InsertRow
        <3>2. NoSnapshot \in Snapshots
            BY DEF Snapshots
        <3> QED
            BY <2>1, <3>1, <3>2, EnterKeepsInv
    <2>2. CASE status # "NONE" /\ Goto(r, "idle") /\ UNCHANGED <<row, loc>>
        BY <1>5, <2>2 DEF CreateRun
    <2> QED
        BY <1>5, <2>1, <2>2 DEF CreateRun
<1>6. ASSUME NEW r \in Runners, WriteConfigSnapshot(r) PROVE IInv'
    <2>1. pc'[r] = StageAfter(loc[r].done) /\ loc[r].done \in SUBSET Checkpoints
        BY <1>6 DEF WriteConfigSnapshot
    <2>2. \A q \in Runners : loc'[q].done = loc[q].done
        BY <1>6 DEF WriteConfigSnapshot
    <2>3. \A q \in Runners \ {r} : pc'[q] = pc[q]
        BY <1>6 DEF WriteConfigSnapshot
    <2>4. UNCHANGED <<status, done, store>>
        BY <1>6 DEF WriteConfigSnapshot
    <2>6. /\ pc'[r] \in {"cp1", "cp2", "cp3", "step4"}
          /\ pc'[r] = "cp2" => 1 \in loc[r].done
          /\ pc'[r] = "cp3" => {1, 2} \subseteq loc[r].done
          /\ pc'[r] = "step4" => loc[r].done = Checkpoints
        BY <2>1, StageAfterIsNext
    <2>5. StageHasData' /\ StageIsNext'
        BY <2>2, <2>3, <2>4, <2>6
    <2> QED
        BY <1>6, <2>2, <2>3, <2>4, <2>5 DEF WriteConfigSnapshot
<1>7. ASSUME NEW r \in Runners, IngestQuotes(r) PROVE IInv'
    BY <1>7 DEF IngestQuotes
<1>8. ASSUME NEW r \in Runners, IdentifyMarketState(r) PROVE IInv'
    BY <1>8 DEF IdentifyMarketState
<1>9. ASSUME NEW r \in Runners, ScoreUniverse(r) PROVE IInv'
    BY <1>9 DEF ScoreUniverse
<1>10. ASSUME NEW r \in Runners, GenerateSignals(r) PROVE IInv'
    BY <1>10 DEF GenerateSignals, Answers
<1>28. ASSUME NEW r \in Runners, NoCandidates(r) PROVE IInv'
    BY <1>28 DEF NoCandidates
<1>29. ASSUME NEW r \in Runners, ReadSignalParams(r) PROVE IInv'
    BY <1>29 DEF ReadSignalParams, Answers
<1>11. ASSUME NEW r \in Runners, NEW k \in Checkpoints, SetCheckpoint(r, k) PROVE IInv'
    <2> DEFINE d == loc[r].done \cup {k}
    <2>1. d \in SUBSET Checkpoints /\ done' = done \cup {k}
        BY <1>11 DEF SetCheckpoint
    <2>2. /\ loc'[r].done = d
          /\ \A q \in Runners \ {r} : loc'[q].done = loc[q].done /\ pc'[q] = pc[q]
        BY <1>11 DEF SetCheckpoint
    <2>3. (pc'[r] = "notify" /\ k = 3) \/ pc'[r] = StageAfter(d)
        BY <1>11 DEF SetCheckpoint
    <2>4. UNCHANGED <<status, store>>
        BY <1>11 DEF SetCheckpoint
    <2>5. 1..(k - 1) \subseteq loc[r].done /\ Produces(k) \subseteq store
        <3>1. pc[r] = FlagStage(k)
            BY <1>11 DEF SetCheckpoint
        <3>2. CASE k = 1
            BY <3>1, <3>2 DEF FlagStage
        <3>3. CASE k = 2
            <4>1. 1..(k - 1) = {1}
                BY <3>3
            <4> QED
                BY <3>1, <3>3, <4>1 DEF FlagStage
        <3>4. CASE k = 3
            <4>1. 1..(k - 1) = {1, 2}
                BY <3>4
            <4> QED
                BY <3>1, <3>4, <4>1 DEF FlagStage
        <3> QED
            BY <3>2, <3>3, <3>4
    <2>6. k = 3 => d = Checkpoints
        BY <2>1, <2>5
    <2> HIDE DEF d
    <2>7. StageHasData' /\ StageIsNext'
        <3>1. /\ StageAfter(d) \in {"cp1", "cp2", "cp3", "step4"}
              /\ StageAfter(d) = "cp2" => 1 \in d
              /\ StageAfter(d) = "cp3" => 1 \in d /\ 2 \in d
              /\ StageAfter(d) = "step4" => d = Checkpoints
            BY <2>1, StageAfterIsNext
        <3>2. StageHasData'
            BY <2>2, <2>3, <2>4, <3>1
        <3>3. /\ pc'[r] \notin {"cp2_flag", "cp3_signals", "cp3_flag"}
              /\ pc'[r] = "cp2" => 1 \in d
              /\ pc'[r] = "cp3" => 1 \in d /\ 2 \in d
              /\ pc'[r] \in PastCheckpoints => d = Checkpoints
            BY <2>3, <2>6, <3>1
        <3>4. StageIsNext'
            BY <2>2, <3>3
        <3> QED
            BY <3>2, <3>4
    <2>8. LocalIsCopied'
        BY <2>1, <2>2 DEF d
    <2>9. FlagsInOrder' /\ FlagImpliesData' /\ SuccessMeansComplete'
        BY <2>1, <2>4, <2>5
    <2>10. NoRowNoFlags' /\ RunnerHasRow'
        BY <1>11, <2>2, <2>4 DEF SetCheckpoint, FlagStage
    <2> QED
        BY <2>7, <2>8, <2>9, <2>10
<1>12. ASSUME NEW r \in Runners, NotifyNewSignals(r) PROVE IInv'
    BY <1>12 DEF NotifyNewSignals, BestEffort
<1>13. ASSUME NEW r \in Runners, MarkToMarket(r) PROVE IInv'
    BY <1>13 DEF MarkToMarket, BestEffort
<1>14. ASSUME NEW r \in Runners, AutoDividends(r) PROVE IInv'
    BY <1>14 DEF AutoDividends, BestEffort
<1>15. ASSUME NEW r \in Runners, ExpireSignals(r) PROVE IInv'
    BY <1>15 DEF ExpireSignals, BestEffort
<1>16. ASSUME NEW r \in Runners, PrivateSignals(r) PROVE IInv'
    BY <1>16 DEF PrivateSignals, BestEffort
<1>17. ASSUME NEW r \in Runners, NotifyPipelineFailure(r) PROVE IInv'
    BY <1>17 DEF NotifyPipelineFailure, BestEffort
<1>18. ASSUME NEW r \in Runners, UpdateRunSuccess(r) PROVE IInv'
    BY <1>18 DEF UpdateRunSuccess
<1>19. ASSUME NEW r \in Runners, UpdateRunFailed(r) PROVE IInv'
    BY <1>19 DEF UpdateRunFailed
<1>20. ASSUME NEW r \in Runners, Raise(r) PROVE IInv'
    BY <1>20 DEF Raise, Fault, Caught, InTry
<1>21. ASSUME NEW r \in Runners, Hang(r) PROVE IInv'
    BY <1>21 DEF Hang, Fault, InTry
<1>22. ASSUME Crash PROVE IInv'
    BY <1>22 DEF Crash, Fault
<1>23. ASSUME SourceFails PROVE IInv'
    BY <1>23 DEF SourceFails, Fault
<1>24. ASSUME SourceRecovers PROVE IInv'
    BY <1>24 DEF SourceRecovers
<1>25. ASSUME ChangeConfig PROVE IInv'
    BY <1>25 DEF ChangeConfig
<1>26. ASSUME ScanStuckRuns PROVE IInv'
    BY <1>26 DEF ScanStuckRuns
<1>27. ASSUME UNCHANGED vars PROVE IInv'
    BY <1>27 DEF vars
<1> QED
    BY <1>1, <1>2, <1>3, <1>4, <1>5, <1>6, <1>7, <1>8, <1>9, <1>10, <1>11, <1>12, <1>13, <1>14, <1>15, <1>16, <1>17, <1>18, <1>19, <1>20, <1>21, <1>22, <1>23, <1>24, <1>25, <1>26, <1>27, <1>28, <1>29 DEF Next, Step

(* The initial state satisfies the invariant.                              *)
LEMMA InitInv == Init => IInv
<1> SUFFICES ASSUME Init PROVE IInv
    OBVIOUS
<1>1. TypeOK
    BY InitType
<1>2. \A r \in Runners : pc[r] = "idle" /\ loc[r].done = {}
    BY DEF Init, EmptyRun, RunOf
<1>3. done = {} /\ status = "NONE"
    BY DEF Init
<1> QED
    BY <1>1, <1>2, <1>3
    DEF IInv, NoRowNoFlags, LocalIsCopied, FlagsInOrder, StageHasData,
        StageIsNext, RunnerHasRow, FlagImpliesData, SuccessMeansComplete,
        PastCheckpoints, Stages

(* The strengthened invariant holds in every behaviour.                    *)
THEOREM Invariance == Spec => []IInv
<1>1. IInv /\ [Next]_vars => IInv'
    BY TypeStep, InvStep DEF IInv
<1> QED
    BY <1>1, InitInv, PTL DEF Spec

(* A durable checkpoint flag always has its data: no crash, exception or   *)
(* second invocation ever leaves a flag that makes a resumption skip work  *)
(* that was not done.                                                      *)
THEOREM FlagsAreBacked == Spec => []FlagImpliesData
BY Invariance, PTL DEF IInv

(* A day reported as SUCCESS has all its checkpoints.                      *)
THEOREM SuccessIsComplete == Spec => []SuccessMeansComplete
BY Invariance, PTL DEF IInv

-----------------------------------------------------------------------------
(* Every step of the detailed run is a step of the contract or leaves the  *)
(* row's status and flags alone.                                           *)
LEMMA ContractStep == IInv /\ [Next]_vars => [Contract!Next]_<<status, done>>
<1> SUFFICES ASSUME IInv, [Next]_vars PROVE [Contract!Next]_<<status, done>>
    OBVIOUS
<1> USE DEF row, work, env
<1>1. ASSUME NEW r \in Runners, TriggerInsert(r) \/ CreateRun(r)
      PROVE  Contract!Open \/ UNCHANGED <<status, done>>
    BY <1>1 DEF TriggerInsert, CreateRun, InsertRow, Contract!Open
<1>2. ASSUME NEW r \in Runners, NEW k \in Checkpoints, SetCheckpoint(r, k)
      PROVE  Contract!Reach(k)
    <2>1. status # "NONE"
        BY <1>2 DEF SetCheckpoint, At, FlagStage, IInv, RunnerHasRow, Stages
    <2>2. 1..(k - 1) \subseteq done
        <3>1. pc[r] = FlagStage(k) /\ loc[r].done \subseteq done
            BY <1>2 DEF SetCheckpoint, At, IInv, LocalIsCopied
        <3>2. CASE k = 1
            BY <3>2
        <3>3. CASE k = 2
            <4>1. 1..(k - 1) = {1}
                BY <3>3
            <4> QED
                BY <3>1, <3>3, <4>1 DEF FlagStage, IInv, StageIsNext
        <3>4. CASE k = 3
            <4>1. 1..(k - 1) = {1, 2}
                BY <3>4
            <4> QED
                BY <3>1, <3>4, <4>1 DEF FlagStage, IInv, StageIsNext
        <3> QED
            BY <3>2, <3>3, <3>4 DEF Checkpoints
    <2> QED
        BY <1>2, <2>1, <2>2 DEF SetCheckpoint, Contract!Reach
<1>3. ASSUME NEW r \in Runners, UpdateRunSuccess(r) PROVE Contract!Close("SUCCESS")
    <2>1. loc[r].done = Checkpoints /\ loc[r].done \subseteq done /\ done \subseteq Checkpoints
        BY <1>3 DEF UpdateRunSuccess, At, IInv, TypeOK, LocalIsCopied, StageIsNext, PastCheckpoints
    <2>2. status # "NONE"
        BY <1>3 DEF UpdateRunSuccess, At, IInv, RunnerHasRow, Stages
    <2> QED
        BY <1>3, <2>1, <2>2 DEF UpdateRunSuccess, Contract!Close, Contract!Day, Checkpoints
<1>4. ASSUME NEW r \in Runners, UpdateRunFailed(r) PROVE Contract!Close("FAILED")
    BY <1>4 DEF UpdateRunFailed, At, IInv, RunnerHasRow, Contract!Close
<1>5. ASSUME NEW r \in Runners,
             \/ CronStart(r) \/ TriggerSelect(r) \/ GetRun(r) \/ WriteConfigSnapshot(r)
             \/ IngestQuotes(r) \/ IdentifyMarketState(r) \/ ScoreUniverse(r)
             \/ NoCandidates(r) \/ ReadSignalParams(r) \/ GenerateSignals(r)
             \/ Raise(r) \/ Hang(r)
      PROVE  UNCHANGED <<status, done>>
    BY <1>5 DEF CronStart, TriggerSelect, GetRun, WriteConfigSnapshot, IngestQuotes,
                IdentifyMarketState, ScoreUniverse, NoCandidates, ReadSignalParams,
                GenerateSignals, Raise, Hang
<1>6. ASSUME NEW r \in Runners,
             \/ NotifyNewSignals(r) \/ MarkToMarket(r) \/ AutoDividends(r)
             \/ ExpireSignals(r) \/ PrivateSignals(r) \/ NotifyPipelineFailure(r)
      PROVE  UNCHANGED <<status, done>>
    BY <1>6 DEF NotifyNewSignals, MarkToMarket, AutoDividends, ExpireSignals,
                PrivateSignals, NotifyPipelineFailure, BestEffort
<1>7. ASSUME Crash \/ SourceFails \/ SourceRecovers \/ ChangeConfig \/ ScanStuckRuns
      PROVE  UNCHANGED <<status, done>>
    BY <1>7 DEF Crash, SourceFails, SourceRecovers, ChangeConfig, ScanStuckRuns
<1>8. ASSUME UNCHANGED vars PROVE UNCHANGED <<status, done>>
    BY <1>8 DEF vars
<1> QED
    BY <1>1, <1>2, <1>3, <1>4, <1>5, <1>6, <1>7, <1>8
    DEF Next, Step, Contract!Next, Contract!Day, Checkpoints

(* The detailed run implements the contract of the checkpointed day: flags *)
(* in order and never taken back, SUCCESS only on all of them.             *)
THEOREM ContractImplemented == Spec => ImplementsContract
<1>1. Init => Contract!Init
    BY DEF Init, Contract!Init
<1> QED
    BY <1>1, Invariance, ContractStep, PTL DEF Spec, ImplementsContract, Contract!Spec

-----------------------------------------------------------------------------
(* Runs of a date that follow one another.  With two runs at the same time *)
(* the snapshot is not frozen (run PipelineSnapshotRace), so what follows  *)
(* is about a date that is never run twice at once: at most one runner,    *)
(* which the cron job, the trigger, exceptions and crashes start again and *)
(* again.                                                                  *)
RunsDoNotOverlap == \A q, r \in Runners : q = r

(* A row that does not exist has no snapshot.                              *)
NoRowNoSnapshot == status = "NONE" => snap = NoSnapshot

(* The runner computes with the row's snapshot, and is about to write it   *)
(* only while the row has none.                                            *)
HeldSnapshot ==
    \A r \in Runners : /\ pc[r] \in Stages => loc[r].snap = snap
                       /\ pc[r] = "config" => snap = NoSnapshot

(* A checkpoint is computed only while its flag is missing.                *)
StageOnce ==
    \A r \in Runners :
        /\ pc[r] \in {"cp1", "cp1_state", "cp1_flag"} => 1 \notin loc[r].done
        /\ pc[r] \in {"cp2", "cp2_flag"} => 2 \notin loc[r].done
        /\ pc[r] \in {"cp3", "cp3_signals", "cp3_flag"} => 3 \notin loc[r].done

(* CP1 and CP2 computed with the snapshot or with the defaults.            *)
EarlyUse == \A k \in {1, 2} : usedCfg[k] \subseteq {NoSnapshot, snap}

(* What is computed behind a checkpoint is computed behind its flag.       *)
UsedInOrder == \A j, k \in Checkpoints : j < k /\ usedCfg[k] # {} => j \in done

(* A flag of CP1 or CP2 stands for something that was computed.            *)
FlagsUsed ==
    /\ \A k \in done \ {3} : usedCfg[k] # {}
    /\ \A r \in Runners : /\ pc[r] = "cp1_flag" => usedCfg[1] # {}
                          /\ pc[r] = "cp2_flag" => usedCfg[2] # {}

(* Behind a checkpoint that used the snapshot nothing else is used.        *)
SnapshotThenOnly ==
    \A j, k \in Checkpoints :
        j < k /\ NoSnapshot \notin usedCfg[j] /\ usedCfg[j] # {} => usedCfg[k] \subseteq {snap}

(* Between its two questions CP3 holds the first answer: the snapshot's,   *)
(* when there is one.                                                      *)
HeldAnswer ==
    \A r \in Runners : pc[r] = "cp3_signals" /\ loc[r].snap # NoSnapshot => loc[r].read = snap

UsedIsSnapshot ==
    EarlyUse /\ UsedInOrder /\ FlagsUsed /\ SnapshotThenOnly /\ HeldAnswer

(* Alone, the runner's copy of the flags is the row's.                     *)
CopyIsExact == \A r \in Runners : pc[r] \in Stages => loc[r].done = done

(* Users are told of signals only behind the flag of CP3, and who is about *)
(* to tell them is the first to do so.                                     *)
NotYetNotified ==
    /\ "notified" \in effects => 3 \in done
    /\ \A r \in Runners : pc[r] = "notify" => "notified" \notin effects

SoloInv == /\ IInv /\ NoRowNoSnapshot /\ HeldSnapshot /\ StageOnce
           /\ UsedIsSnapshot /\ CopyIsExact /\ NotYetNotified

(* The stage a runner goes on with is one whose flag is missing.           *)
LEMMA StageAfterIsMissing ==
    ASSUME NEW d \in SUBSET Checkpoints
    PROVE  /\ StageAfter(d) \in {"cp1", "cp2", "cp3", "step4"}
           /\ StageAfter(d) = "cp1" => 1 \notin d
           /\ StageAfter(d) = "cp2" => 2 \notin d
           /\ StageAfter(d) = "cp3" => 3 \notin d
BY DEF StageAfter

(* Entering run() gives the runner the row's snapshot and flags; it goes   *)
(* to write the snapshot exactly when there is none.                       *)
LEMMA EnterKeepsSolo ==
    ASSUME RunsDoNotOverlap, SoloInv, IInv', NEW r \in Runners, Enter(r, done, snap),
           status' # "NONE", UNCHANGED <<done, snap, work>>
    PROVE  SoloInv'
<1> DEFINE entry == RunOf(done, snap)
           stage == IF snap = NoSnapshot THEN "config" ELSE StageAfter(done)
<1>1. TypeOK /\ done \in SUBSET Checkpoints
    BY DEF SoloInv, IInv, TypeOK
<1>2. pc' = [pc EXCEPT ![r] = stage] /\ loc' = [loc EXCEPT ![r] = entry]
    BY DEF Enter, Goto
<1>3. /\ stage \in {"config", "cp1", "cp2", "cp3", "step4"}
      /\ stage = "config" => snap = NoSnapshot
      /\ stage = "cp1" => 1 \notin done
      /\ stage = "cp2" => 2 \notin done
      /\ stage = "cp3" => 3 \notin done
    BY <1>1, StageAfterIsMissing
<1>4. pc'[r] = stage /\ loc'[r].done = done /\ loc'[r].snap = snap
    BY <1>1, <1>2 DEF TypeOK, RunOf
<1> HIDE DEF stage, entry
<1>5. \A q \in Runners : q = r
    BY DEF RunsDoNotOverlap
<1>6. HeldSnapshot' /\ CopyIsExact' /\ StageOnce'
    BY <1>3, <1>4, <1>5 DEF HeldSnapshot, CopyIsExact, StageOnce
<1>7. NotYetNotified'
    BY <1>3, <1>4, <1>5 DEF NotYetNotified, SoloInv, work
<1>8. NoRowNoSnapshot' /\ UsedIsSnapshot'
    BY <1>3, <1>4, <1>5 DEF NoRowNoSnapshot, UsedIsSnapshot, EarlyUse, UsedInOrder,
                            FlagsUsed, SnapshotThenOnly, HeldAnswer, SoloInv, work
<1> QED
    BY <1>6, <1>7, <1>8 DEF SoloInv

(* Every step of a lonely runner keeps the invariant.                      *)
LEMMA SoloStep == RunsDoNotOverlap /\ SoloInv /\ [Next]_vars => SoloInv'
<1> SUFFICES ASSUME RunsDoNotOverlap, SoloInv, [Next]_vars PROVE SoloInv'
    OBVIOUS
<1>0. IInv /\ IInv'
    BY TypeStep, InvStep DEF SoloInv, IInv
<1> USE <1>0, NoSnapshotAssumption
        DEF SoloInv, TypeOK, NoRowNoSnapshot, HeldSnapshot, StageOnce, UsedIsSnapshot,
            EarlyUse, UsedInOrder, FlagsUsed, SnapshotThenOnly, HeldAnswer, CopyIsExact,
            NotYetNotified, RunsDoNotOverlap, LocalRun, Snapshots,
            row, work, env, Goto, At, RunOf, EmptyRun
<1>ty. TypeOK /\ TypeOK'
    BY DEF IInv
<1>1. ASSUME NEW r \in Runners, CronStart(r) PROVE SoloInv'
    BY <1>1, <1>ty DEF CronStart, Stages
<1>2. ASSUME NEW r \in Runners, TriggerSelect(r) PROVE SoloInv'
    BY <1>2, <1>ty DEF TriggerSelect, Stages
<1>3. ASSUME NEW r \in Runners, TriggerInsert(r) PROVE SoloInv'
    BY <1>3, <1>ty DEF TriggerInsert, InsertRow, Stages
<1>4. ASSUME NEW r \in Runners, GetRun(r) PROVE SoloInv'
    <2>1. CASE status # "NONE" /\ Enter(r, done, snap)
        <3>1. status' # "NONE" /\ UNCHANGED <<done, snap, work>>
            BY <1>4, <2>1 DEF GetRun
        <3> QED
            BY <2>1, <3>1, EnterKeepsSolo
    <2>2. CASE status = "NONE" /\ Goto(r, "insert") /\ UNCHANGED loc
        BY <1>4, <1>ty, <2>2 DEF GetRun, Stages
    <2> QED
        BY <1>4, <2>1, <2>2 DEF GetRun
<1>5. ASSUME NEW r \in Runners, CreateRun(r) PROVE SoloInv'
    <2>1. CASE InsertRow /\ Enter(r, {}, NoSnapshot)
        <3>1. status' # "NONE" /\ UNCHANGED <<done, snap, work>>
            BY <1>5, <2>1 DEF CreateRun, InsertRow
        <3>2. done = {} /\ snap = NoSnapshot
            BY <2>1 DEF InsertRow, IInv, NoRowNoFlags
        <3>3. Enter(r, done, snap)
            BY <2>1, <3>2
        <3> QED
            BY <3>1, <3>3, EnterKeepsSolo
    <2>2. CASE status # "NONE" /\ Goto(r, "idle") /\ UNCHANGED <<row, loc>>
        BY <1>5, <1>ty, <2>2 DEF CreateRun, Stages
    <2> QED
        BY <1>5, <2>1, <2>2 DEF CreateRun
<1>6. ASSUME NEW r \in Runners, WriteConfigSnapshot(r) PROVE SoloInv'
    <2>1. pc'[r] = StageAfter(loc[r].done) /\ loc[r].done = done /\ loc'[r].done = done
        BY <1>6, <1>ty DEF WriteConfigSnapshot, Stages
    <2>2. UNCHANGED <<status, done, work>> /\ snap = NoSnapshot
        BY <1>6 DEF WriteConfigSnapshot
    <2>3. loc'[r].snap = snap'
        <3>1. loc[r].snap = snap
            BY <1>6 DEF WriteConfigSnapshot, Stages
        <3>2. CASE snap' = userCfg /\ loc' = [loc EXCEPT ![r].snap = userCfg]
            BY <1>ty, <3>2
        <3>3. CASE UNCHANGED <<snap, loc>>
            BY <3>1, <3>3
        <3> QED
            BY <1>6, <3>2, <3>3 DEF WriteConfigSnapshot
    <2>4. done \in SUBSET Checkpoints
        BY <1>ty
    <2>5. /\ pc'[r] \in {"cp1", "cp2", "cp3", "step4"}
          /\ pc'[r] = "cp1" => 1 \notin done
          /\ pc'[r] = "cp2" => 2 \notin done
          /\ pc'[r] = "cp3" => 3 \notin done
        BY <2>1, <2>4, StageAfterIsMissing
    <2>6. \A q \in Runners : q = r
        OBVIOUS
    <2>7. NoRowNoSnapshot'
        BY <1>6, <2>2 DEF WriteConfigSnapshot, IInv, RunnerHasRow, Stages
    <2>8. UsedIsSnapshot'
        <3>1. \A j \in {1, 2} : NoSnapshot \in usedCfg[j] \/ usedCfg[j] = {}
            BY <2>2
        <3>2. \A j, k \in Checkpoints : j < k => j \in {1, 2}
            BY DEF Checkpoints
        <3>3. EarlyUse' /\ UsedInOrder' /\ SnapshotThenOnly'
            BY <2>2, <3>1, <3>2
        <3>5. FlagsUsed'
            BY <2>2, <2>5, <2>6
        <3>4. HeldAnswer'
            BY <2>5, <2>6
        <3> QED
            BY <3>3, <3>4, <3>5
    <2> QED
        BY <2>1, <2>2, <2>3, <2>5, <2>6, <2>7, <2>8
<1>7. ASSUME NEW r \in Runners, IngestQuotes(r) PROVE SoloInv'
    BY <1>7, <1>ty DEF IngestQuotes, Stages
<1>8. ASSUME NEW r \in Runners, IdentifyMarketState(r) PROVE SoloInv'
    BY <1>8, <1>ty DEF IdentifyMarketState, Stages, Checkpoints
<1>9. ASSUME NEW r \in Runners, ScoreUniverse(r) PROVE SoloInv'
    <2>1. /\ pc[r] = "cp2" /\ loc[r].snap = snap /\ loc[r].done = done
          /\ 1 \in done /\ 2 \notin done
        BY <1>9 DEF ScoreUniverse, Stages, IInv, StageIsNext
    <2>2. /\ usedCfg' = [usedCfg EXCEPT ![2] = {snap}] /\ pc'[r] \in {"cp2_flag", "failing"}
          /\ UNCHANGED <<status, finished, done, snap, effects, loc>>
        BY <1>9, <1>ty, <2>1 DEF ScoreUniverse
    <2>3. usedCfg[3] = {}
        BY <2>1 DEF Checkpoints
    <2>4. /\ usedCfg'[1] = usedCfg[1] /\ usedCfg'[2] = {snap} /\ usedCfg'[3] = {}
          /\ Checkpoints = {1, 2, 3}
        BY <1>ty, <2>2, <2>3 DEF Checkpoints
    <2>5. UsedIsSnapshot'
        BY <2>1, <2>2, <2>4
    <2> QED
        BY <2>1, <2>2, <2>5 DEF Stages
<1>10. ASSUME NEW r \in Runners, GenerateSignals(r) PROVE SoloInv'
    <2>1. /\ pc[r] = "cp3_signals" /\ loc[r].snap = snap /\ loc[r].done = done
          /\ {1, 2} \subseteq done /\ 3 \notin done
        BY <1>10 DEF GenerateSignals, Stages, IInv, StageIsNext
    <2>2. /\ pc'[r] = "cp3_flag" /\ loc'[r].done = done /\ loc'[r].snap = snap
          /\ UNCHANGED <<status, finished, done, snap, effects>>
        BY <1>10, <1>ty, <2>1 DEF GenerateSignals
    <2>3. snap # NoSnapshot => usedCfg'[3] = {snap}
        BY <1>10, <1>ty, <2>1 DEF GenerateSignals, Answers, Checkpoints
    <2>4. /\ usedCfg'[1] = usedCfg[1] /\ usedCfg'[2] = usedCfg[2]
          /\ Checkpoints = {1, 2, 3}
        BY <1>10, <1>ty DEF GenerateSignals, Checkpoints
    <2>6. SnapshotThenOnly'
        <3>1. \A j \in {1, 2} : NoSnapshot \notin usedCfg[j] /\ usedCfg[j] # {} => snap # NoSnapshot
            OBVIOUS
        <3> QED
            BY <2>2, <2>3, <2>4, <3>1
    <2>7. EarlyUse' /\ UsedInOrder'
        BY <2>1, <2>2, <2>4
    <2>8. FlagsUsed' /\ HeldAnswer'
        <3>1. \A q \in Runners : pc'[q] = "cp3_flag"
            BY <2>2
        <3>2. \A k \in done \ {3} : usedCfg'[k] # {}
            BY <1>ty, <2>4
        <3> QED
            BY <2>2, <3>1, <3>2
    <2>5. UsedIsSnapshot'
        BY <2>6, <2>7, <2>8
    <2> QED
        BY <2>1, <2>2, <2>5 DEF Stages
<1>25. ASSUME NEW r \in Runners, NoCandidates(r) PROVE SoloInv'
    BY <1>25, <1>ty DEF NoCandidates, Stages, Checkpoints
<1>26. ASSUME NEW r \in Runners, ReadSignalParams(r) PROVE SoloInv'
    BY <1>26, <1>ty DEF ReadSignalParams, Answers, Stages, Checkpoints
<1>11. ASSUME NEW r \in Runners, NEW k \in Checkpoints, SetCheckpoint(r, k) PROVE SoloInv'
    <2> DEFINE d == done \cup {k}
    <2>1. pc[r] = FlagStage(k) /\ loc[r].done = done
        BY <1>11 DEF SetCheckpoint, FlagStage, Stages
    <2>2. /\ done' = d /\ loc'[r].done = d /\ loc'[r].snap = loc[r].snap
          /\ UNCHANGED <<status, snap, work>>
        BY <1>11, <1>ty, <2>1 DEF SetCheckpoint
    <2>3. d \in SUBSET Checkpoints
        BY <1>ty
    <2>4. (pc'[r] = "notify" /\ k = 3) \/ pc'[r] = StageAfter(d)
        BY <1>11, <1>ty, <2>1 DEF SetCheckpoint
    <2> HIDE DEF d
    <2>5. /\ pc'[r] \in {"notify", "cp1", "cp2", "cp3", "step4"}
          /\ pc'[r] = "cp1" => 1 \notin d
          /\ pc'[r] = "cp2" => 2 \notin d
          /\ pc'[r] = "cp3" => 3 \notin d
          /\ pc'[r] = "notify" => k = 3
        BY <2>3, <2>4, StageAfterIsMissing
    <2>6. k = 3 => "notified" \notin effects
        BY <2>1 DEF FlagStage
    <2>7. \A q \in Runners : q = r
        OBVIOUS
    <2>8. done \subseteq d
        BY DEF d
    <2>9. HeldSnapshot' /\ StageOnce' /\ CopyIsExact' /\ NoRowNoSnapshot'
        BY <2>1, <2>2, <2>5, <2>7 DEF FlagStage, Stages
    <2>11. UsedIsSnapshot'
        <3>1. k # 3 => usedCfg[k] # {}
            BY <2>1 DEF FlagStage, Checkpoints
        <3>2. FlagsUsed'
            BY <2>2, <2>5, <2>7, <3>1 DEF d
        <3> QED
            BY <2>2, <2>5, <2>7, <2>8, <3>2
    <2>10. NotYetNotified'
        BY <2>2, <2>5, <2>6, <2>7, <2>8
    <2> QED
        BY <2>9, <2>10, <2>11
<1>12. ASSUME NEW r \in Runners, NotifyNewSignals(r) PROVE SoloInv'
    <2>1. 3 \in done /\ UNCHANGED <<row, store, usedCfg, loc>>
        BY <1>12, <1>ty DEF NotifyNewSignals, BestEffort, Stages, IInv, StageIsNext,
                            PastCheckpoints, Checkpoints
    <2>2. pc'[r] = "step4" /\ \A q \in Runners : q = r
        BY <1>12, <1>ty DEF NotifyNewSignals, BestEffort
    <2>3. pc[r] = "notify"
        BY <1>12 DEF NotifyNewSignals, BestEffort
    <2> QED
        BY <2>1, <2>2, <2>3 DEF Stages
<1>13. ASSUME NEW r \in Runners, MarkToMarket(r) PROVE SoloInv'
    BY <1>13, <1>ty DEF MarkToMarket, BestEffort, Stages
<1>14. ASSUME NEW r \in Runners, AutoDividends(r) PROVE SoloInv'
    BY <1>14, <1>ty DEF AutoDividends, BestEffort, Stages
<1>15. ASSUME NEW r \in Runners, ExpireSignals(r) PROVE SoloInv'
    BY <1>15, <1>ty DEF ExpireSignals, BestEffort, Stages
<1>16. ASSUME NEW r \in Runners, PrivateSignals(r) PROVE SoloInv'
    BY <1>16, <1>ty DEF PrivateSignals, BestEffort, Stages
<1>17. ASSUME NEW r \in Runners, NotifyPipelineFailure(r) PROVE SoloInv'
    BY <1>17, <1>ty DEF NotifyPipelineFailure, BestEffort, Stages
<1>18. ASSUME NEW r \in Runners, UpdateRunSuccess(r) PROVE SoloInv'
    BY <1>18, <1>ty DEF UpdateRunSuccess, Stages
<1>19. ASSUME NEW r \in Runners, UpdateRunFailed(r) PROVE SoloInv'
    BY <1>19, <1>ty DEF UpdateRunFailed, Stages
<1>20. ASSUME NEW r \in Runners, Raise(r) PROVE SoloInv'
    BY <1>20, <1>ty DEF Raise, Stages
<1>21. ASSUME NEW r \in Runners, Hang(r) PROVE SoloInv'
    BY <1>21 DEF Hang
<1>22. ASSUME Crash PROVE SoloInv'
    BY <1>22 DEF Crash, Stages
<1>23. ASSUME SourceFails \/ SourceRecovers \/ ChangeConfig \/ ScanStuckRuns PROVE SoloInv'
    BY <1>23 DEF SourceFails, SourceRecovers, ChangeConfig, ScanStuckRuns
<1>24. ASSUME UNCHANGED vars PROVE SoloInv'
    BY <1>24 DEF vars
<1> QED
    BY <1>1, <1>2, <1>3, <1>4, <1>5, <1>6, <1>7, <1>8, <1>9, <1>10, <1>11, <1>12, <1>13, <1>14, <1>15, <1>16, <1>17, <1>18, <1>19, <1>20, <1>21, <1>22, <1>23, <1>24, <1>25, <1>26 DEF Next, Step

(* The initial state satisfies it: no row, no snapshot, nothing computed.  *)
LEMMA SoloInit == Init => SoloInv
<1> SUFFICES ASSUME Init PROVE SoloInv
    OBVIOUS
<1>1. IInv
    BY InitInv
<1>2. /\ snap = NoSnapshot /\ effects = {}
      /\ \A k \in Checkpoints : usedCfg[k] = {}
      /\ \A r \in Runners : pc[r] = "idle"
    BY DEF Init
<1>3. done = {}
    BY DEF Init
<1>4. UsedIsSnapshot
    BY <1>2, <1>3 DEF UsedIsSnapshot, EarlyUse, UsedInOrder, FlagsUsed, SnapshotThenOnly,
                      HeldAnswer, Checkpoints
<1> QED
    BY <1>1, <1>2, <1>4 DEF SoloInv, NoRowNoSnapshot, HeldSnapshot, StageOnce,
                            CopyIsExact, NotYetNotified, Stages

(* ... so it holds in every behaviour with at most one run at a time.      *)
LEMMA SoloInvariance == RunsDoNotOverlap => (Spec => []SoloInv)
<1>1. ASSUME RunsDoNotOverlap PROVE SoloInv /\ [Next]_vars => SoloInv'
    BY <1>1, SoloStep
<1>2. ASSUME RunsDoNotOverlap PROVE Spec => []SoloInv
    BY <1>1, <1>2, SoloInit, PTL DEF Spec
<1> QED
    BY <1>2

(* Runs of a date that do not overlap: as soon as one checkpoint was       *)
(* computed with a configuration of the user, every later one is computed  *)
(* with that one alone, whatever the user saves, and whatever is resumed.  *)
THEOREM ConfigIsOne ==
    ASSUME RunsDoNotOverlap
    PROVE  Spec => []OneUserConfig
<1>1. SoloInv => OneUserConfig
    <2> SUFFICES ASSUME SoloInv, NEW j \in done, NEW k \in done, j < k,
                        NoSnapshot \notin usedCfg[j]
                 PROVE  usedCfg[k] \subseteq usedCfg[j]
        BY DEF OneUserConfig
    <2>1. /\ done \subseteq Checkpoints /\ EarlyUse /\ SnapshotThenOnly
          /\ FlagsUsed
        BY DEF SoloInv, UsedIsSnapshot, IInv, TypeOK
    <2>2. j \in {1, 2}
        BY <2>1 DEF Checkpoints
    <2>3. usedCfg[j] = {snap}
        BY <2>1, <2>2 DEF EarlyUse, FlagsUsed
    <2> QED
        BY <2>1, <2>3 DEF SnapshotThenOnly
<1> QED
    BY <1>1, SoloInvariance, PTL

(* ... and never replace the snapshot of the date by another one.          *)
THEOREM SnapshotStays ==
    ASSUME RunsDoNotOverlap
    PROVE  Spec => SnapshotFrozen
<1>1. SoloInv /\ [Next]_vars => [snap # NoSnapshot => snap' = snap]_vars
    <2> SUFFICES ASSUME SoloInv, Next, snap # NoSnapshot PROVE snap' = snap
        BY DEF vars, row
    <2> USE DEF row, work, env
    <2>1. ASSUME NEW r \in Runners, WriteConfigSnapshot(r) PROVE FALSE
        BY <2>1 DEF WriteConfigSnapshot, At, SoloInv, HeldSnapshot
    <2>2. ASSUME NEW r \in Runners,
                 \/ CronStart(r) \/ TriggerSelect(r) \/ TriggerInsert(r) \/ GetRun(r)
                 \/ CreateRun(r) \/ IngestQuotes(r) \/ IdentifyMarketState(r)
                 \/ ScoreUniverse(r) \/ NoCandidates(r) \/ ReadSignalParams(r)
                 \/ GenerateSignals(r) \/ (\E k \in Checkpoints : SetCheckpoint(r, k))
                 \/ UpdateRunSuccess(r) \/ UpdateRunFailed(r) \/ Raise(r) \/ Hang(r)
          PROVE  snap' = snap
        BY <2>2 DEF CronStart, TriggerSelect, TriggerInsert, GetRun, CreateRun, InsertRow,
                    IngestQuotes, IdentifyMarketState, ScoreUniverse, NoCandidates,
                    ReadSignalParams, GenerateSignals, SetCheckpoint, UpdateRunSuccess, UpdateRunFailed, Raise, Hang
    <2>3. ASSUME NEW r \in Runners,
                 \/ NotifyNewSignals(r) \/ MarkToMarket(r) \/ AutoDividends(r)
                 \/ ExpireSignals(r) \/ PrivateSignals(r) \/ NotifyPipelineFailure(r)
          PROVE  snap' = snap
        BY <2>3 DEF NotifyNewSignals, MarkToMarket, AutoDividends, ExpireSignals,
                    PrivateSignals, NotifyPipelineFailure, BestEffort
    <2>4. ASSUME Crash \/ SourceFails \/ SourceRecovers \/ ChangeConfig \/ ScanStuckRuns
          PROVE  snap' = snap
        BY <2>4 DEF Crash, SourceFails, SourceRecovers, ChangeConfig, ScanStuckRuns
    <2> QED
        BY <2>1, <2>2, <2>3, <2>4 DEF Next, Step
<1> QED
    BY <1>1, SoloInvariance, PTL DEF Spec, SnapshotFrozen

(* ... and tell the users of its new signals at most once: a run resumed   *)
(* after an exception or a crash does not tell them again.                 *)
THEOREM TellsOnce ==
    ASSUME RunsDoNotOverlap
    PROVE  Spec => NotifiedOnce
<1>1. SoloInv => \A r \in Runners : pc[r] = "notify" => "notified" \notin effects
    BY DEF SoloInv, NotYetNotified
<1>2. SoloInv /\ [Next]_vars =>
      [\A r \in Runners : pc[r] = "notify" /\ pc'[r] = "step4" => "notified" \notin effects]_vars
    BY <1>1
<1> QED
    BY <1>2, SoloInvariance, PTL DEF Spec, NotifiedOnce
=============================================================================
