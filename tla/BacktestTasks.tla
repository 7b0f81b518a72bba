---------------------------- MODULE BacktestTasks ----------------------------
(***************************************************************************)
(* Back-tests run by the server: a request creates a task, a background    *)
(* job of the same process runs it, and its rows are all that survives the *)
(* process.  The positions of a run are written in batches by transactions *)
(* of their own while it runs; its result and its status SUCCESS by one    *)
(* transaction at the end.  A result computed elsewhere is imported: task  *)
(* and result in one transaction, then the positions in another.           *)
(***************************************************************************)
EXTENDS Naturals, FiniteSets

CONSTANTS
    Runs,          \* requests POST /backtest/run; each names the task it creates
    Imports,       \* requests POST /backtest/import
    Imported,      \* the tasks they bring
    ImportOf,      \* [Imports -> Imported]
    Batches,       \* batches of positions of a task
    MaxBtFaults    \* bound on exceptions, lost answers and crashes

ASSUME BacktestAssumption ==
    /\ Runs \cap Imported = {}
    /\ ImportOf \in [Imports -> Imported]
    /\ Batches \in Nat /\ MaxBtFaults \in Nat

VARIABLES
    taskStatus,   \* backtest_task.status, "NONE" without a row
    resultRows,   \* tasks with a row in backtest_result
    positionRows, \* batches of backtest_daily_position that are committed
    runAt,        \* where the request and then the background job of a run are
    importAt,     \* where an import is
    serverUp,
    calendarReady,
    raced,        \* two requests have passed the guard before either created a task
    btFaults

btVars == <<taskStatus, resultRows, positionRows, runAt, importAt,
            serverUp, calendarReady, raced, btFaults>>
btRows == <<taskStatus, resultRows, positionRows>>

Tasks == Runs \cup Imported
Active(t) == taskStatus[t] \in {"PENDING", "RUNNING"}
InServer == {"checked", "queued", "running", "except", "fail_task"}

BacktestTypeOK ==
    /\ taskStatus \in [Tasks -> {"NONE", "PENDING", "RUNNING", "SUCCESS", "FAILED"}]
    /\ resultRows \subseteq Tasks /\ positionRows \in [Tasks -> 0..Batches]
    /\ runAt \in [Runs -> {"idle", "ended", "orphan", "abandoned"} \cup InServer]
    /\ importAt \in [Imports -> {"idle", "checked", "flush", "answered", "ended"}]
    /\ serverUp \in BOOLEAN /\ calendarReady \in BOOLEAN /\ raced \in BOOLEAN
    /\ btFaults \in 0..MaxBtFaults

BacktestInit ==
    /\ taskStatus = [t \in Tasks |-> "NONE"]
    /\ resultRows = {} /\ positionRows = [t \in Tasks |-> 0]
    /\ runAt = [r \in Runs |-> "idle"] /\ importAt = [i \in Imports |-> "idle"]
    /\ serverUp = TRUE /\ calendarReady = TRUE /\ raced = FALSE /\ btFaults = 0

BtFault == btFaults < MaxBtFaults /\ btFaults' = btFaults + 1

-----------------------------------------------------------------------------
(* POST /backtest/run.                                                     *)

(* Faulty variant of SubmitRun: a task that waits does not count.          *)
SubmitBesidePending(r) ==
    /\ serverUp /\ runAt[r] = "idle"
    /\ runAt' = [runAt EXCEPT ![r] =
         IF calendarReady /\ \A t \in Tasks : taskStatus[t] # "RUNNING" THEN "checked" ELSE "ended"]
    /\ raced' = (raced \/ (runAt'[r] = "checked" /\ \E q \in Runs \ {r} : runAt[q] = "checked"))
    /\ UNCHANGED <<btRows, importAt, serverUp, calendarReady, btFaults>>

(* The guards of the handler: no calendar, 503; an active task, 409.  What *)
(* depends on the request alone (the switch, the hours, the length of the  *)
(* window) refuses without a trace and is left out.                        *)
SubmitRun(r) ==
    /\ serverUp /\ runAt[r] = "idle"
    /\ runAt' = [runAt EXCEPT ![r] =
         IF calendarReady /\ \A t \in Tasks : ~Active(t) THEN "checked" ELSE "ended"]
    /\ raced' = (raced \/ (runAt'[r] = "checked" /\ \E q \in Runs \ {r} : runAt[q] = "checked"))
    /\ UNCHANGED <<btRows, importAt, serverUp, calendarReady, btFaults>>

(* create_task, after the reads of the configuration, which may fail.      *)
CreateTask(r) ==
    /\ runAt[r] = "checked"
    /\ \/ /\ taskStatus' = [taskStatus EXCEPT ![r] = "PENDING"]
          /\ runAt' = [runAt EXCEPT ![r] = "queued"] /\ UNCHANGED btFaults
       \/ BtFault /\ runAt' = [runAt EXCEPT ![r] = "ended"] /\ UNCHANGED taskStatus
    /\ UNCHANGED <<resultRows, positionRows, importAt, serverUp, calendarReady, raced>>

-----------------------------------------------------------------------------
(* The background job.                                                     *)

(* _run_backtest_bg builds the engine from the snapshot of the task, then  *)
(* run_task commits RUNNING; an exception up to there is caught outside.   *)
StartRun(r) ==
    /\ runAt[r] = "queued"
    /\ \/ /\ calendarReady
          /\ taskStatus' = [taskStatus EXCEPT ![r] = "RUNNING"]
          /\ runAt' = [runAt EXCEPT ![r] = "running"] /\ UNCHANGED btFaults
       \/ /\ ~calendarReady /\ runAt' = [runAt EXCEPT ![r] = "fail_task"]
          /\ UNCHANGED <<taskStatus, btFaults>>
       \/ BtFault /\ runAt' = [runAt EXCEPT ![r] = "fail_task"] /\ UNCHANGED taskStatus
    /\ UNCHANGED <<resultRows, positionRows, importAt, serverUp, calendarReady, raced>>

(* position_sink and the tail of the buffer.                               *)
FlushPositions(r) ==
    /\ runAt[r] = "running" /\ positionRows[r] < Batches
    /\ positionRows' = [positionRows EXCEPT ![r] = @ + 1]
    /\ UNCHANGED <<taskStatus, resultRows, runAt, importAt, serverUp, calendarReady, raced, btFaults>>

(* Loading, the simulation or a flush raises: the handler in run_task.     *)
RunRaises(r) ==
    /\ runAt[r] = "running"
    /\ BtFault
    /\ runAt' = [runAt EXCEPT ![r] = "except"]
    /\ UNCHANGED <<btRows, importAt, serverUp, calendarReady, raced>>

(* Faulty variant of FinishRun: the status is committed before the result. *)
FinishStatusFirst(r) ==
    /\ runAt[r] = "running" /\ positionRows[r] = Batches
    /\ \/ /\ taskStatus' = [taskStatus EXCEPT ![r] = "SUCCESS"]
          /\ runAt' = [runAt EXCEPT ![r] = "ended"] /\ resultRows' = resultRows \cup {r}
          /\ UNCHANGED btFaults
       \/ /\ BtFault /\ runAt' = [runAt EXCEPT ![r] = "except"]
          /\ taskStatus' = [taskStatus EXCEPT ![r] = "SUCCESS"] /\ UNCHANGED resultRows
    /\ UNCHANGED <<positionRows, importAt, serverUp, calendarReady, raced>>

(* Result and SUCCESS in one commit.  When the commit fails, or its answer *)
(* is lost after it took place, run_task goes to its handler.              *)
FinishRun(r) ==
    /\ runAt[r] = "running" /\ positionRows[r] = Batches
    /\ \/ /\ taskStatus' = [taskStatus EXCEPT ![r] = "SUCCESS"]
          /\ resultRows' = resultRows \cup {r}
          /\ \/ runAt' = [runAt EXCEPT ![r] = "ended"] /\ UNCHANGED btFaults
             \/ BtFault /\ runAt' = [runAt EXCEPT ![r] = "except"]
       \/ /\ BtFault /\ runAt' = [runAt EXCEPT ![r] = "except"]
          /\ UNCHANGED <<taskStatus, resultRows>>
    /\ UNCHANGED <<positionRows, importAt, serverUp, calendarReady, raced>>

(* The handler writes FAILED with the session of the run; if that session  *)
(* is broken the exception goes on to _run_backtest_bg.                    *)
HandleException(r) ==
    /\ runAt[r] = "except"
    /\ \/ /\ taskStatus' = [taskStatus EXCEPT ![r] = "FAILED"]
          /\ runAt' = [runAt EXCEPT ![r] = "ended"]
       \/ runAt' = [runAt EXCEPT ![r] = "fail_task"] /\ UNCHANGED taskStatus
    /\ UNCHANGED <<resultRows, positionRows, importAt, serverUp, calendarReady, raced, btFaults>>

(* _fail_task, in a transaction of its own; its own failure is only logged. *)
FailTask(r) ==
    /\ runAt[r] = "fail_task"
    /\ \/ /\ taskStatus' = [taskStatus EXCEPT ![r] = "FAILED"]
          /\ runAt' = [runAt EXCEPT ![r] = "ended"] /\ UNCHANGED btFaults
       \/ BtFault /\ runAt' = [runAt EXCEPT ![r] = "abandoned"] /\ UNCHANGED taskStatus
    /\ UNCHANGED <<resultRows, positionRows, importAt, serverUp, calendarReady, raced>>

-----------------------------------------------------------------------------
(* POST /backtest/import.                                                  *)

CheckImport(i) ==
    /\ serverUp /\ importAt[i] = "idle"
    /\ importAt' = [importAt EXCEPT ![i] =
         IF taskStatus[ImportOf[i]] = "NONE" THEN "checked" ELSE "ended"]
    /\ UNCHANGED <<btRows, runAt, serverUp, calendarReady, raced, btFaults>>

(* task_id is unique: the second of two overlapping imports fails here.    *)
InsertImport(i) ==
    /\ importAt[i] = "checked"
    /\ IF taskStatus[ImportOf[i]] = "NONE"
       THEN /\ taskStatus' = [taskStatus EXCEPT ![ImportOf[i]] = "SUCCESS"]
            /\ resultRows' = resultRows \cup {ImportOf[i]}
            /\ importAt' = [importAt EXCEPT ![i] = "flush"]
       ELSE importAt' = [importAt EXCEPT ![i] = "ended"] /\ UNCHANGED <<taskStatus, resultRows>>
    /\ UNCHANGED <<positionRows, runAt, serverUp, calendarReady, raced, btFaults>>

FlushImport(i) ==
    /\ importAt[i] = "flush"
    /\ \/ /\ positionRows' = [positionRows EXCEPT ![ImportOf[i]] = Batches]
          /\ importAt' = [importAt EXCEPT ![i] = "answered"] /\ UNCHANGED btFaults
       \/ BtFault /\ importAt' = [importAt EXCEPT ![i] = "ended"] /\ UNCHANGED positionRows
    /\ UNCHANGED <<taskStatus, resultRows, runAt, serverUp, calendarReady, raced>>

-----------------------------------------------------------------------------
(* The process.                                                            *)

Crash ==
    /\ serverUp /\ BtFault
    /\ serverUp' = FALSE
    /\ runAt' = [r \in Runs |-> IF Active(r) THEN "orphan"
                                ELSE IF runAt[r] \in InServer THEN "ended" ELSE runAt[r]]
    /\ importAt' = [i \in Imports |->
                      IF importAt[i] \in {"checked", "flush"} THEN "ended" ELSE importAt[i]]
    /\ UNCHANGED <<btRows, calendarReady, raced>>

(* Faulty variant of Reconciled: only RUNNING counts as left over.         *)
ReconciledRunning(t) == taskStatus[t] = "RUNNING"

(* reconcile_orphan_backtests selects what a process that died left over.  *)
Reconciled(t) == taskStatus[t] \in {"RUNNING", "PENDING"}

(* The lifespan of the next process: it loads the calendar, or goes on     *)
(* without, and fails the tasks left over, or logs that it could not.      *)
Restart ==
    /\ ~serverUp /\ serverUp' = TRUE
    /\ \/ /\ calendarReady' \in BOOLEAN
          /\ taskStatus' = [t \in Tasks |-> IF Reconciled(t) THEN "FAILED" ELSE taskStatus[t]]
          /\ runAt' = [r \in Runs |-> IF Reconciled(r) THEN "ended" ELSE runAt[r]]
          /\ UNCHANGED btFaults
       \/ /\ BtFault /\ calendarReady' = FALSE
          /\ runAt' = [r \in Runs |-> IF runAt[r] = "orphan" THEN "abandoned" ELSE runAt[r]]
          /\ UNCHANGED taskStatus
    /\ UNCHANGED <<resultRows, positionRows, importAt, raced>>

-----------------------------------------------------------------------------
RunStep(r) ==
    \/ CreateTask(r) \/ StartRun(r) \/ FlushPositions(r) \/ FinishRun(r)
    \/ HandleException(r) \/ FailTask(r)
ImportStep(i) == InsertImport(i) \/ FlushImport(i)

BacktestNext ==
    \/ \E r \in Runs : SubmitRun(r) \/ RunStep(r) \/ RunRaises(r)
    \/ \E i \in Imports : CheckImport(i) \/ ImportStep(i)
    \/ Crash \/ Restart

(* A job that was begun goes on while the process lives, and a process     *)
(* that died is started again (docker restarts it).                        *)
BacktestFairness ==
    /\ \A r \in Runs : WF_btVars(RunStep(r))
    /\ \A i \in Imports : WF_btVars(ImportStep(i))
    /\ WF_btVars(Restart)

BacktestSpec == BacktestInit /\ [][BacktestNext]_btVars /\ BacktestFairness

-----------------------------------------------------------------------------
(* A task that says SUCCESS has its result, a run that has a result has    *)
(* all its positions, and an import that was answered with imported = true *)
(* has stored the positions too: what GET /backtest/{id}/result reads      *)
(* together was written in up to three transactions.                       *)
BacktestRowsAgree ==
    /\ \A t \in Tasks : taskStatus[t] = "SUCCESS" => t \in resultRows
    /\ \A r \in Runs : r \in resultRows => positionRows[r] = Batches
    /\ \A i \in Imports : importAt[i] = "answered" =>
         ImportOf[i] \in resultRows /\ positionRows[ImportOf[i]] = Batches

(* The machine has memory for one back-test: as long as no two requests    *)
(* were between has_active_task and create_task at the same time, a second *)
(* task is never created beside one that waits or runs.                    *)
OneBacktestAtATime == ~raced => Cardinality({t \in Tasks : Active(t)}) <= 1

(* Every task comes to an end by its own job or, after a crash, by the     *)
(* next start (the comment of reconcile_orphan_backtests: no task stays    *)
(* RUNNING or PENDING for ever), unless the very write of FAILED failed.   *)
BacktestEnds ==
    \A r \in Runs : Active(r) ~> (~Active(r) \/ runAt[r] = "abandoned")
=============================================================================
