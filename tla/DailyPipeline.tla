--------------------------- MODULE DailyPipeline ---------------------------
(***************************************************************************)
(* DailyPipeline.run for one trade_date: the checkpointed run CP1 -> CP2   *)
(* -> CP3 -> Step4..7 over the shared pipeline_run row, its resumption, a  *)
(* second invocation of the same date (the 17:30 cron job against POST     *)
(* /pipeline/trigger, neither of which looks whether a run is already in   *)
(* progress), exceptions, the death of the process between two commits,    *)
(* and the watchdog that scans for stuck rows.                             *)
(*                                                                         *)
(* Every database commit of the code is one action.  A runner is one       *)
(* invocation of run(); it keeps the PipelineRun object it loaded at the   *)
(* start (loc) and never reads the row's checkpoints again.                *)
(***************************************************************************)
EXTENDS Naturals, FiniteSets

CONSTANTS
    Runners,    \* concurrent invocations of DailyPipeline.run for this date
    Configs,    \* user configurations (user_config contents) seen as a whole
    NoSnapshot, \* config_snapshot IS NULL; as a configuration: the defaults
    Tracked,    \* the best-effort effects whose outcome is remembered
    MaxFaults   \* bound on exceptions, source outages, hangs and crashes

ASSUME NoSnapshotAssumption == NoSnapshot \notin Configs
ASSUME MaxFaultsAssumption == MaxFaults \in Nat

Effects == {"notified", "marked", "dividends", "expired", "private_stale",
            "private_fresh", "failure_alert"}
ASSUME TrackedAssumption == Tracked \subseteq Effects

Checkpoints == 1..3
Snapshots == Configs \cup {NoSnapshot}
Artefacts == {"quotes", "market_state", "pool", "signals"}

(* What the session of a checkpoint has committed before it sets its flag. *)
Produces(k) == IF k = 1 THEN {"quotes", "market_state"}
               ELSE IF k = 2 THEN {"pool"} ELSE {"signals"}

VARIABLES
    status,     \* pipeline_run.status; "NONE" while the row does not exist
    finished,   \* pipeline_run.finished_at IS NOT NULL
    done,       \* the checkpoint flags cp1_data_ready, cp2_..., cp3_...
    snap,       \* pipeline_run.config_snapshot
    store,      \* what the checkpoints have committed to the other tables
    usedCfg,    \* the configurations each checkpoint last computed with
    effects,    \* what the best-effort steps have done for this date
    pc,         \* pc[r]: where runner r is in run()
    loc,        \* loc[r]: the PipelineRun object runner r holds
    cronFired,  \* the 17:30 job of the date has been started
    userCfg,    \* the user's current configuration
    sourceUp,   \* the data source answers with quotes
    hung,       \* runners that will never return from their await
    stuckAlert, \* the watchdog has written its alert
    faults      \* faults injected so far

row == <<status, finished, done, snap>>
work == <<store, usedCfg, effects>>
env == <<cronFired, userCfg, sourceUp, hung, stuckAlert, faults>>
vars == <<row, work, pc, loc, env>>

Stages == {"config", "cp1", "cp1_state", "cp1_flag", "cp2", "cp2_flag", "cp3",
           "cp3_signals", "cp3_flag", "notify", "step4", "step5", "step6", "step7", "success"}
Entry == {"trigger", "trigger_insert", "begin", "insert"}
PC == {"idle", "failing", "alert"} \cup Stages \cup Entry
InTry == Stages \ {"config"}   \* the statements inside run()'s try block
Caught == InTry \ {"notify", "step4", "step5", "step6", "step7"}
Statuses == {"NONE", "RUNNING", "SUCCESS", "FAILED"}
LocalRun == [done : SUBSET Checkpoints, snap : Snapshots, new : BOOLEAN, read : Snapshots]
RunOf(d, s) == [done |-> d, snap |-> s, new |-> FALSE, read |-> NoSnapshot]
EmptyRun == RunOf({}, NoSnapshot)

TypeOK ==
    /\ status \in Statuses /\ finished \in BOOLEAN
    /\ done \subseteq Checkpoints /\ snap \in Snapshots
    /\ store \subseteq Artefacts
    /\ usedCfg \in [Checkpoints -> SUBSET Snapshots]
    /\ effects \subseteq Tracked
    /\ pc \in [Runners -> PC] /\ loc \in [Runners -> LocalRun]
    /\ cronFired \in BOOLEAN /\ userCfg \in Configs /\ sourceUp \in BOOLEAN
    /\ hung \subseteq Runners /\ stuckAlert \in BOOLEAN
    /\ faults \in 0..MaxFaults

Init ==
    /\ status = "NONE" /\ finished = FALSE
    /\ done = {} /\ snap = NoSnapshot
    /\ store = {} /\ effects = {}
    /\ usedCfg = [k \in Checkpoints |-> {}]
    /\ pc = [r \in Runners |-> "idle"] /\ loc = [r \in Runners |-> EmptyRun]
    /\ cronFired = FALSE /\ userCfg \in Configs /\ sourceUp = TRUE
    /\ hung = {} /\ stuckAlert = FALSE /\ faults = 0

-----------------------------------------------------------------------------
(* Control of one runner.                                                  *)

At(r, p) == pc[r] = p /\ r \notin hung
Goto(r, p) == pc' = [pc EXCEPT ![r] = p]

(* The first `if not run.cpN_...` of run() whose body is entered.          *)
StageAfter(d) == IF 1 \notin d THEN "cp1"
                 ELSE IF 2 \notin d THEN "cp2"
                 ELSE IF 3 \notin d THEN "cp3" ELSE "step4"

(* Faulty variant of Enter: the snapshot is written again on resumption.   *)
EnterRewriting(r, d, s) ==
    /\ loc' = [loc EXCEPT ![r] = RunOf(d, s)]
    /\ Goto(r, "config")

(* run() with the row it got: a missing snapshot is written first.         *)
Enter(r, d, s) ==
    /\ loc' = [loc EXCEPT ![r] = RunOf(d, s)]
    /\ Goto(r, IF s = NoSnapshot THEN "config" ELSE StageAfter(d))

(* INSERT INTO pipeline_run (trade_date, status, started_at).              *)
InsertRow == status = "NONE" /\ status' = "RUNNING" /\ UNCHANGED <<finished, done, snap>>

-----------------------------------------------------------------------------
(* Entry points.                                                           *)

(* _daily_pipeline_job calls run() on a trading day, once; a run missed    *)
(* because the process was down is not made up for.                        *)
CronStart(r) ==
    /\ pc[r] = "idle" /\ ~cronFired
    /\ cronFired' = TRUE
    /\ Goto(r, "begin")
    /\ UNCHANGED <<row, work, loc, userCfg, sourceUp, hung, stuckAlert, faults>>

(* POST /pipeline/trigger: SELECT the row of the date.                     *)
TriggerSelect(r) ==
    /\ pc[r] = "idle"
    /\ Goto(r, IF status = "NONE" THEN "trigger_insert" ELSE "begin")
    /\ UNCHANGED <<row, work, loc, env>>

(* ... INSERT and commit it before the background task is added; the       *)
(* UNIQUE trade_date makes the loser of a race answer 500.                 *)
TriggerInsert(r) ==
    /\ At(r, "trigger_insert")
    /\ \/ InsertRow /\ Goto(r, "begin")
       \/ status # "NONE" /\ Goto(r, "idle") /\ UNCHANGED row
    /\ UNCHANGED <<work, loc, env>>

(* Faulty variant of GetRun: triggering again starts the day over.         *)
GetRunFromScratch(r) ==
    /\ At(r, "begin")
    /\ \/ status # "NONE" /\ done' = {} /\ Enter(r, {}, snap)
       \/ status = "NONE" /\ Goto(r, "insert") /\ UNCHANGED <<done, loc>>
    /\ UNCHANGED <<status, finished, snap, work, env>>

(* _get_or_create_run, the SELECT: an existing row is returned as it is;   *)
(* its status and finished_at are not touched.                             *)
GetRun(r) ==
    /\ At(r, "begin")
    /\ \/ status # "NONE" /\ Enter(r, done, snap)
       \/ status = "NONE" /\ Goto(r, "insert") /\ UNCHANGED loc
    /\ UNCHANGED <<row, work, env>>

(* _get_or_create_run, the INSERT: an IntegrityError leaves run(), for it  *)
(* is raised before the try block.                                         *)
CreateRun(r) ==
    /\ At(r, "insert")
    /\ \/ InsertRow /\ Enter(r, {}, NoSnapshot)
       \/ status # "NONE" /\ Goto(r, "idle") /\ UNCHANGED <<row, loc>>
    /\ UNCHANGED <<work, env>>

(* _write_config_snapshot is best-effort: on an exception the run goes on  *)
(* without a snapshot: CP1 and CP2 then compute with the defaults, CP3     *)
(* with the configuration of the user at its own time.                     *)
WriteConfigSnapshot(r) ==
    /\ At(r, "config")
    /\ Goto(r, StageAfter(loc[r].done))
    /\ \/ /\ snap' = userCfg
          /\ loc' = [loc EXCEPT ![r].snap = userCfg]
          /\ UNCHANGED faults
       \/ /\ faults < MaxFaults /\ faults' = faults + 1
          /\ UNCHANGED <<snap, loc>>
    /\ UNCHANGED <<status, finished, done, work, cronFired, userCfg, sourceUp, hung, stuckAlert>>

-----------------------------------------------------------------------------
(* The checkpoints.                                                        *)

(* Faulty variant of IngestQuotes: an empty ingest is not an error.        *)
IngestQuotesUnguarded(r) ==
    /\ At(r, "cp1") /\ Goto(r, "cp1_state")
    /\ store' = IF sourceUp THEN store \cup {"quotes"} ELSE store
    /\ UNCHANGED <<row, usedCfg, effects, loc, env>>

(* CP1, ingest_daily and its commit; no quotes means the source is down    *)
(* and the run is aborted before the flag is set.                          *)
IngestQuotes(r) ==
    /\ At(r, "cp1")
    /\ \/ sourceUp /\ store' = store \cup {"quotes"} /\ Goto(r, "cp1_state")
       \/ ~sourceUp /\ Goto(r, "failing") /\ UNCHANGED store
    /\ UNCHANGED <<row, usedCfg, effects, loc, env>>

(* CP1, identify_and_save with the engine of the run's snapshot; commit.   *)
IdentifyMarketState(r) ==
    /\ At(r, "cp1_state")
    /\ store' = store \cup {"market_state"}
    /\ usedCfg' = [usedCfg EXCEPT ![1] = {loc[r].snap}]
    /\ Goto(r, "cp1_flag")
    /\ UNCHANGED <<row, effects, loc, env>>

(* CP2, run_daily_scoring and its commit; without quotes it cannot score   *)
(* and raises, however often it is tried.                                  *)
ScoreUniverse(r) ==
    /\ At(r, "cp2")
    /\ store' = IF "quotes" \in store THEN store \cup {"pool"} ELSE store
    /\ usedCfg' = [usedCfg EXCEPT ![2] = {loc[r].snap}]
    /\ Goto(r, IF "quotes" \in store THEN "cp2_flag" ELSE "failing")
    /\ UNCHANGED <<row, effects, loc, env>>

(* Faulty variant of Answers: the service is built without the snapshot.   *)
AnswersLive(r) == userCfg

(* What ConfigService(snapshot = run.config_snapshot) answers: the snapshot *)
(* or, when there is none, the configuration the user has now.             *)
Answers(r) == IF loc[r].snap = NoSnapshot THEN userCfg ELSE loc[r].snap

(* CP3, generate_for_date on a pool that holds nobody: no signals, and no  *)
(* configuration is asked for.                                             *)
NoCandidates(r) ==
    /\ At(r, "cp3") /\ Goto(r, "cp3_flag")
    /\ store' = store \cup {"signals"}
    /\ usedCfg' = [usedCfg EXCEPT ![3] = {}]
    /\ loc' = [loc EXCEPT ![r].new = FALSE]
    /\ UNCHANGED <<row, effects, env>>

(* ... else it asks for signal_params first,                               *)
ReadSignalParams(r) ==
    /\ At(r, "cp3") /\ Goto(r, "cp3_signals")
    /\ loc' = [loc EXCEPT ![r].read = Answers(r)]
    /\ UNCHANGED <<row, work, env>>

(* ... then for universe_params, and commits the signals of the two; there *)
(* may be none.                                                            *)
GenerateSignals(r) ==
    /\ At(r, "cp3_signals") /\ Goto(r, "cp3_flag")
    /\ store' = store \cup {"signals"}
    /\ usedCfg' = [usedCfg EXCEPT ![3] = {loc[r].read, Answers(r)}]
    /\ \E some \in BOOLEAN :
          loc' = [loc EXCEPT ![r].new = some, ![r].read = NoSnapshot]
    /\ UNCHANGED <<row, effects, env>>

FlagStage(k) == IF k = 1 THEN "cp1_flag" ELSE IF k = 2 THEN "cp2_flag" ELSE "cp3_flag"

(* Faulty variant of SetCheckpoint: only the runner's own copy is set.     *)
SetCheckpointLocally(r, k) ==
    /\ At(r, FlagStage(k))
    /\ loc' = [loc EXCEPT ![r].done = @ \cup {k}]
    /\ Goto(r, IF k = 3 /\ loc[r].new THEN "notify"
               ELSE StageAfter(loc[r].done \cup {k}))
    /\ UNCHANGED <<row, work, env>>

(* The second commit of a checkpoint: the flag of the row, then the copy   *)
(* of it in the object the runner holds.                                   *)
SetCheckpoint(r, k) ==
    /\ At(r, FlagStage(k))
    /\ done' = done \cup {k}
    /\ loc' = [loc EXCEPT ![r].done = @ \cup {k}]
    /\ Goto(r, IF k = 3 /\ loc[r].new THEN "notify"
               ELSE StageAfter(loc[r].done \cup {k}))
    /\ UNCHANGED <<status, finished, snap, work, env>>

-----------------------------------------------------------------------------
(* The best-effort tail.  Each step has a session of its own and swallows  *)
(* every exception: it takes effect or not, and the run goes on.           *)

BestEffort(r, here, next, effect) ==
    /\ At(r, here)
    /\ Goto(r, next)
    /\ effects' \in {effects, effects \cup ({effect} \cap Tracked)}
    /\ UNCHANGED <<row, store, usedCfg, loc, env>>

NotifyNewSignals(r) == BestEffort(r, "notify", "step4", "notified")
MarkToMarket(r)     == BestEffort(r, "step4", "step5", "marked")
AutoDividends(r)    == BestEffort(r, "step5", "step6", "dividends")
ExpireSignals(r)    == BestEffort(r, "step6", "step7", "expired")

(* Step7 evaluates whatever price Step4 left in the positions.             *)
PrivateSignals(r) ==
    BestEffort(r, "step7", "success",
               IF "marked" \in effects THEN "private_fresh" ELSE "private_stale")

(* _update_run_status("SUCCESS").                                          *)
UpdateRunSuccess(r) ==
    /\ At(r, "success")
    /\ status' = "SUCCESS" /\ finished' = TRUE
    /\ Goto(r, "idle") /\ loc' = [loc EXCEPT ![r] = EmptyRun]
    /\ UNCHANGED <<done, snap, work, env>>

(* The except clause: _update_run_status("FAILED"), then the alert.        *)
UpdateRunFailed(r) ==
    /\ At(r, "failing")
    /\ status' = "FAILED" /\ finished' = TRUE
    /\ Goto(r, "alert") /\ loc' = [loc EXCEPT ![r] = EmptyRun]
    /\ UNCHANGED <<done, snap, work, env>>

NotifyPipelineFailure(r) == BestEffort(r, "alert", "idle", "failure_alert")

-----------------------------------------------------------------------------
(* Faults.                                                                 *)

Fault == faults < MaxFaults /\ faults' = faults + 1

(* An exception before the commit of a statement: the session is rolled    *)
(* back and nothing of the step remains.  Inside the try block it leads to *)
(* the except clause; outside of it, and in the except clause itself, it   *)
(* leaves run().                                                           *)
Raise(r) ==
    /\ r \notin hung /\ Fault
    /\ \/ pc[r] \in Caught /\ Goto(r, "failing")
       \/ pc[r] \in {"begin", "insert", "failing"} /\ Goto(r, "idle")
    /\ UNCHANGED <<row, work, loc, cronFired, userCfg, sourceUp, hung, stuckAlert>>

(* An await that never returns: CP2 on an oversized pool, a data source    *)
(* that blocks.                                                            *)
Hang(r) ==
    /\ pc[r] \in InTry /\ r \notin hung /\ Fault
    /\ hung' = hung \cup {r}
    /\ UNCHANGED <<row, work, pc, loc, cronFired, userCfg, sourceUp, stuckAlert>>

(* The process dies (OOM, deployment): every runner is gone, what they     *)
(* committed stays.  The scheduler does not run the missed job again.      *)
Crash ==
    /\ \E r \in Runners : pc[r] # "idle"
    /\ Fault
    /\ pc' = [r \in Runners |-> "idle"] /\ loc' = [r \in Runners |-> EmptyRun]
    /\ hung' = {}
    /\ UNCHANGED <<row, work, cronFired, userCfg, sourceUp, stuckAlert>>

SourceFails ==
    /\ sourceUp /\ Fault /\ sourceUp' = FALSE
    /\ UNCHANGED <<row, work, pc, loc, cronFired, userCfg, hung, stuckAlert>>

SourceRecovers ==
    /\ ~sourceUp /\ sourceUp' = TRUE
    /\ UNCHANGED <<row, work, pc, loc, cronFired, userCfg, hung, stuckAlert, faults>>

(* The user saves another configuration while the pipeline runs.           *)
ChangeConfig ==
    /\ userCfg' \in Configs \ {userCfg}
    /\ UNCHANGED <<row, work, pc, loc, cronFired, sourceUp, hung, stuckAlert, faults>>

(* Faulty variant of ScanStuckRuns: only closed rows are looked at.        *)
ScanClosedRuns ==
    /\ status = "RUNNING" /\ finished
    /\ stuckAlert' = TRUE
    /\ UNCHANGED <<row, work, pc, loc, cronFired, userCfg, sourceUp, hung, faults>>

(* scan_stuck_runs, 45 minutes after started_at and every 30 minutes.      *)
ScanStuckRuns ==
    /\ status = "RUNNING" /\ ~finished
    /\ stuckAlert' = TRUE
    /\ UNCHANGED <<row, work, pc, loc, cronFired, userCfg, sourceUp, hung, faults>>

Step(r) ==
    \/ TriggerInsert(r) \/ GetRun(r) \/ CreateRun(r) \/ WriteConfigSnapshot(r)
    \/ IngestQuotes(r) \/ IdentifyMarketState(r) \/ ScoreUniverse(r)
    \/ NoCandidates(r) \/ ReadSignalParams(r) \/ GenerateSignals(r) \/ \E k \in Checkpoints : SetCheckpoint(r, k)
    \/ NotifyNewSignals(r) \/ MarkToMarket(r) \/ AutoDividends(r)
    \/ ExpireSignals(r) \/ PrivateSignals(r) \/ UpdateRunSuccess(r)
    \/ UpdateRunFailed(r) \/ NotifyPipelineFailure(r)

Next ==
    \/ \E r \in Runners : CronStart(r) \/ TriggerSelect(r) \/ Step(r)
                          \/ Raise(r) \/ Hang(r)
    \/ Crash \/ SourceFails \/ SourceRecovers \/ ChangeConfig \/ ScanStuckRuns

Spec == Init /\ [][Next]_vars

(* The event loop keeps running every coroutine that is not blocked for    *)
(* ever; the watchdog is an interval job of the same scheduler.            *)
Progress == (\A r \in Runners : WF_vars(Step(r))) /\ WF_vars(ScanStuckRuns)

(* ... and an operator who triggers the date again until it has succeeded, *)
(* once the source is back.                                                *)
Operator ==
    /\ WF_vars(SourceRecovers)
    /\ \A r \in Runners : WF_vars(status # "SUCCESS" /\ TriggerSelect(r))

-----------------------------------------------------------------------------
(* Properties.                                                             *)

(* A checkpoint flag is durable only after the data it stands for: cp1     *)
(* needs quotes and the market state, cp2 the pool, cp3 the signals.  The  *)
(* guard on an empty ingest in _cp1_ingest exists for this: a flag set on  *)
(* an empty day made every resumption skip CP1 and fail again.             *)
FlagImpliesData == \A k \in done : Produces(k) \subseteq store

(* run() reports SUCCESS only for a day all of whose checkpoints are set,  *)
(* however many invocations, resumptions and crashes it took.              *)
SuccessMeansComplete == status = "SUCCESS" => done = Checkpoints

(* The configuration snapshot of a day is written once: a resumption does  *)
(* not replace it (run(): "only the first time, not overwritten").         *)
SnapshotFrozen == [][snap # NoSnapshot => snap' = snap]_vars

(* As soon as one checkpoint of a day was computed with a configuration of *)
(* the user, every later one is computed with that configuration alone,    *)
(* whatever the user saves and whatever breaks and is resumed in between.  *)
(* As long as the snapshot cannot be written nothing of the kind holds:    *)
(* CP1 and CP2 take the defaults and CP3 asks the live configuration,      *)
(* possibly two of them for its two sets of parameters.                    *)
OneUserConfig ==
    \A j, k \in done : j < k /\ NoSnapshot \notin usedCfg[j] => usedCfg[k] \subseteq usedCfg[j]

(* Users are told of a day's new signals at most once by runs that follow  *)
(* one another, whatever breaks and is resumed in between: the flag of CP3 *)
(* is durable before _notify_new_signals begins.                           *)
NotifiedOnce ==
    [][\A r \in Runners : pc[r] = "notify" /\ pc'[r] = "step4" => "notified" \notin effects]_vars

(* After any finite number of exceptions, outages and crashes, triggering  *)
(* the day again completes it, unless a runner hangs for ever: the resume  *)
(* logic never gets into a state from which no trigger helps.              *)
RecoverAfterOutage == <>(status = "SUCCESS" \/ hung # {})

(* A run that hangs while its day is unfinished is reported by the         *)
(* watchdog, which exists because a hung run cannot report itself.         *)
HungRunAlerted == (hung # {} /\ done # Checkpoints) ~> (stuckAlert \/ hung = {})

(* The same as long as the day has not been closed before.                 *)
FirstRunHangAlerted ==
    (hung # {} /\ status # "NONE" /\ ~finished) ~> (stuckAlert \/ hung = {} \/ finished)

(* The detailed run implements the contract of the checkpointed day.       *)
Contract == INSTANCE PipelineContract WITH status <- status, done <- done
ImplementsContract == Contract!Spec
=============================================================================
