--------------------------- MODULE PrivateSignals ---------------------------
(***************************************************************************)
(* One trading day of the alerts about one account's holdings.  Three      *)
(* producers evaluate the holdings with the same function: the 15:05 job,  *)
(* with the prices and the pool of the day before; step 7 of the daily     *)
(* pipeline, after step 4 has put today's close into the positions; and    *)
(* the 18:30 job, which makes up for a step 7 that failed.  They share one *)
(* table, in_app_notification, and each leaves out what is there already   *)
(* under the same type and payload.  A message is pushed to the phone      *)
(* before its row is written, and all rows of a producer are committed at  *)
(* its end.                                                                *)
(*                                                                         *)
(* The pipeline is kept to what the alerts see of it (DailyPipeline has    *)
(* the rest); there is one run of it at a time.                            *)
(***************************************************************************)
EXTENDS Naturals, FiniteSets

CONSTANTS
    Holdings,   \* the stocks the account holds
    Account,    \* subject of an alert about the account as a whole
    Verdicts,   \* what an evaluation may say of a holding in this instance
    Careful,    \* the pipeline is triggered only between the two jobs, and
                \* only for a date that is not SUCCESS
    MaxFaults   \* bound on exceptions, missed jobs and crashes

ASSUME SignalsAssumption ==
    /\ Account \notin Holdings
    /\ Verdicts \subseteq {"none", "stop", "factor", "add"}
    /\ Careful \in BOOLEAN /\ MaxFaults \in Nat

VARIABLES
    morning,  \* what yesterday's prices and pool say of each holding
    evening,  \* what today's say
    near,     \* holdings within 2% of their stop-loss price at 15:05
    drawdown, \* the account's draw-down is at its limit at 15:05
    status,   \* pipeline_run.status; "NONE" while the row does not exist
    run,      \* where the pipeline is, "off" when it does not run
    marked,   \* positions hold today's close
    fired,    \* the jobs whose time has come
    at,       \* where each producer is
    todo,     \* alerts it has still to look at
    sending,  \* the alert it found to be new
    mine,     \* rows it has written and not committed
    rows,     \* in_app_notification, committed
    pushes,   \* messages sent to the phone, by topic
    lost,     \* rows rolled back, by topic
    faults    \* faults injected so far

verdicts == <<morning, evening, near, drawdown>>
pipeline == <<status, run, marked>>
session == <<at, todo, sending, mine>>
table == <<rows, pushes, lost>>
vars == <<verdicts, pipeline, fired, session, table, faults>>

Jobs == {"stop_loss_warn", "recheck"}
Producers == Jobs \cup {"step7"}
Busy == {"evaluate", "look", "send"}

(* The type of a notification and the payload it is known by.  The payload *)
(* of a private sale says which stock and which day, not which trigger.    *)
TypeOf(kind) == IF kind = "add" THEN "SIGNAL_BUY"
                ELSE IF kind = "near" THEN "STOP_LOSS_WARN" ELSE "RISK_WARN"
Kinds == {"stop", "factor", "add", "near", "drawdown"}
Alert == [subject : Holdings \cup {Account}, kind : Kinds, fresh : BOOLEAN]
Topic(a) == <<TypeOf(a.kind), a.subject>>
Topics == {"SIGNAL_BUY", "STOP_LOSS_WARN", "RISK_WARN"} \X (Holdings \cup {Account})
NoAlert == [subject |-> Account, kind |-> "drawdown", fresh |-> FALSE]

TypeOK ==
    /\ morning \in [Holdings -> Verdicts] /\ evening \in [Holdings -> Verdicts]
    /\ near \subseteq Holdings /\ drawdown \in BOOLEAN
    /\ status \in {"NONE", "RUNNING", "FAILED", "SUCCESS"}
    /\ run \in {"off", "checkpoints", "step4", "step7", "success"}
    /\ marked \in BOOLEAN /\ fired \subseteq Jobs
    /\ at \in [Producers -> {"idle"} \cup Busy]
    /\ todo \in [Producers -> SUBSET Alert] /\ sending \in [Producers -> Alert]
    /\ mine \in [Producers -> SUBSET Alert] /\ rows \subseteq Alert
    /\ pushes \in [Topics -> Nat] /\ lost \in [Topics -> Nat]
    /\ faults \in 0..MaxFaults

Init ==
    /\ morning \in [Holdings -> Verdicts] /\ evening \in [Holdings -> Verdicts]
    /\ near \in SUBSET Holdings /\ drawdown \in BOOLEAN
    /\ status = "NONE" /\ run = "off" /\ marked = FALSE /\ fired = {}
    /\ at = [p \in Producers |-> "idle"]
    /\ todo = [p \in Producers |-> {}] /\ sending = [p \in Producers |-> NoAlert]
    /\ mine = [p \in Producers |-> {}] /\ rows = {}
    /\ pushes = [t \in Topics |-> 0] /\ lost = [t \in Topics |-> 0]
    /\ faults = 0

Fault == faults < MaxFaults /\ faults' = faults + 1

-----------------------------------------------------------------------------
(* The pipeline.                                                           *)

(* The 17:30 job or POST /pipeline/trigger.                                *)
Trigger ==
    /\ run = "off"
    /\ Careful => /\ "stop_loss_warn" \in fired /\ at["stop_loss_warn"] = "idle"
                  /\ status # "SUCCESS"
    /\ run' = "checkpoints"
    /\ status' = IF status = "NONE" THEN "RUNNING" ELSE status
    /\ UNCHANGED <<verdicts, marked, fired, session, table, faults>>

(* CP1 to CP3, those that are not done yet.                                *)
DoCheckpoints ==
    /\ run = "checkpoints"
    /\ \/ run' = "step4" /\ UNCHANGED <<status, faults>>
       \/ Fault /\ run' = "off" /\ status' = "FAILED"
    /\ UNCHANGED <<verdicts, marked, fired, session, table>>

(* Step 4 swallows its exceptions; step 7 is next either way.              *)
MarkToMarket ==
    /\ run = "step4"
    /\ \/ marked' = TRUE /\ UNCHANGED faults
       \/ Fault /\ UNCHANGED marked
    /\ run' = "step7" /\ at' = [at EXCEPT !["step7"] = "evaluate"]
    /\ UNCHANGED <<verdicts, status, fired, todo, sending, mine, table>>

Succeed ==
    /\ run = "success"
    /\ run' = "off" /\ status' = "SUCCESS"
    /\ UNCHANGED <<verdicts, marked, fired, session, table, faults>>

-----------------------------------------------------------------------------
(* The jobs.                                                               *)

(* 15:05.                                                                  *)
StopLossWarn ==
    /\ "stop_loss_warn" \notin fired
    /\ fired' = fired \cup {"stop_loss_warn"}
    /\ at' = [at EXCEPT !["stop_loss_warn"] = "evaluate"]
    /\ UNCHANGED <<verdicts, pipeline, todo, sending, mine, table, faults>>

(* Faulty variant of Recheck: it does not ask for the pipeline's status.   *)
RecheckAnyway ==
    /\ "recheck" \notin fired /\ "stop_loss_warn" \in fired
    /\ fired' = fired \cup {"recheck"}
    /\ at' = [at EXCEPT !["recheck"] = "evaluate"]
    /\ UNCHANGED <<verdicts, pipeline, todo, sending, mine, table, faults>>

(* 18:30: only if the day's pipeline is SUCCESS, since otherwise the price *)
(* would be yesterday's.                                                   *)
Recheck ==
    /\ "recheck" \notin fired /\ "stop_loss_warn" \in fired
    /\ fired' = fired \cup {"recheck"}
    /\ at' = IF status = "SUCCESS" THEN [at EXCEPT !["recheck"] = "evaluate"] ELSE at
    /\ UNCHANGED <<verdicts, pipeline, todo, sending, mine, table, faults>>

(* The process is down at the time of a job, for longer than its grace.    *)
Miss(j) ==
    /\ j \notin fired /\ (j = "recheck" => "stop_loss_warn" \in fired)
    /\ Fault /\ fired' = fired \cup {j}
    /\ UNCHANGED <<verdicts, pipeline, session, table>>

-----------------------------------------------------------------------------
(* A producer at work.                                                     *)

(* evaluate_private_signals, one verdict a holding at most.  In between,   *)
(* yesterday's price with today's pool, it may be any.                     *)
Private(v, new) ==
    {[subject |-> h, kind |-> v[h], fresh |-> new] : h \in {g \in Holdings : v[g] # "none"}}
Warnings ==
    {[subject |-> h, kind |-> "near", fresh |-> FALSE] : h \in near}
    \cup (IF drawdown THEN {NoAlert} ELSE {})

Evaluation(v) ==
    IF marked THEN v = evening
    ELSE status = "NONE" => v = morning

Evaluate(p) ==
    /\ at[p] = "evaluate"
    /\ \/ /\ \E v \in [Holdings -> Verdicts] :
              /\ Evaluation(v)
              /\ todo' = [todo EXCEPT ![p] = Private(v, marked) \cup
                              IF p = "stop_loss_warn" THEN Warnings ELSE {}]
          /\ UNCHANGED faults
       \/ /\ Fault   \* the evaluation raises; the other warnings are sent
          /\ todo' = [todo EXCEPT ![p] = IF p = "stop_loss_warn" THEN Warnings ELSE {}]
    /\ at' = [at EXCEPT ![p] = "look"]
    /\ UNCHANGED <<verdicts, pipeline, fired, sending, mine, table>>

(* Faulty variant of IsDuplicate: only what the session wrote is seen.     *)
IsDuplicateOfMine(p, a) == \E r \in mine[p] : Topic(r) = Topic(a)

(* _is_duplicate: the last 24 hours hold all of the day.                   *)
IsDuplicate(p, a) == \E r \in rows \cup mine[p] : Topic(r) = Topic(a)

Look(p) ==
    /\ at[p] = "look"
    /\ \E a \in todo[p] :
        /\ todo' = [todo EXCEPT ![p] = @ \ {a}]
        /\ \/ IsDuplicate(p, a) /\ UNCHANGED <<at, sending>>
           \/ /\ ~IsDuplicate(p, a)
              /\ at' = [at EXCEPT ![p] = "send"] /\ sending' = [sending EXCEPT ![p] = a]
    /\ UNCHANGED <<verdicts, pipeline, fired, mine, table, faults>>

(* The push first, if the user wants it and the phone can be reached; then *)
(* the row.                                                                *)
Send(p) ==
    /\ at[p] = "send"
    /\ pushes' \in {pushes, [pushes EXCEPT ![Topic(sending[p])] = @ + 1]}
    /\ mine' = [mine EXCEPT ![p] = @ \cup {sending[p]}]
    /\ at' = [at EXCEPT ![p] = "look"]
    /\ UNCHANGED <<verdicts, pipeline, fired, todo, sending, rows, lost, faults>>

After(p) == run' = IF p = "step7" THEN "success" ELSE run

(* Faulty variant of Commit: the jobs do not commit.                       *)
CommitStep7Only(p) ==
    /\ at[p] = "look" /\ todo[p] = {}
    /\ rows' = rows \cup (IF p = "step7" THEN mine[p] ELSE {})
    /\ mine' = [mine EXCEPT ![p] = {}]
    /\ at' = [at EXCEPT ![p] = "idle"] /\ After(p)
    /\ UNCHANGED <<verdicts, status, marked, fired, todo, sending, pushes, lost, faults>>

Commit(p) ==
    /\ at[p] = "look" /\ todo[p] = {}
    /\ rows' = rows \cup mine[p] /\ mine' = [mine EXCEPT ![p] = {}]
    /\ at' = [at EXCEPT ![p] = "idle"] /\ After(p)
    /\ UNCHANGED <<verdicts, status, marked, fired, todo, sending, pushes, lost, faults>>

(* A row or the commit cannot be written: the session is unusable, every   *)
(* other row of it is lost too, and the exception ends in the producer's   *)
(* own handler.                                                            *)
Lost(S) == [t \in Topics |-> lost[t] + Cardinality({a \in S : Topic(a) = t})]

Lose(p) ==
    /\ at[p] \in {"look", "send"} /\ Fault
    /\ \/ at[p] = "look" /\ lost' = Lost(mine[p]) /\ UNCHANGED pushes
       \/ /\ at[p] = "send" /\ lost' = Lost(mine[p] \cup {sending[p]})
          /\ pushes' \in {pushes, [pushes EXCEPT ![Topic(sending[p])] = @ + 1]}
    /\ mine' = [mine EXCEPT ![p] = {}] /\ todo' = [todo EXCEPT ![p] = {}]
    /\ at' = [at EXCEPT ![p] = "idle"] /\ After(p)
    /\ UNCHANGED <<verdicts, status, marked, fired, sending, rows>>

(* The process dies, and with it the pipeline and every producer.          *)
Crash ==
    /\ Fault
    /\ run # "off" \/ \E p \in Producers : at[p] # "idle"
    /\ run' = "off"
    /\ at' = [p \in Producers |-> "idle"]
    /\ todo' = [p \in Producers |-> {}] /\ mine' = [p \in Producers |-> {}]
    /\ lost' = Lost(UNION {mine[p] \cup (IF at[p] = "send" THEN {sending[p]} ELSE {}) :
                           p \in Producers})
    /\ UNCHANGED <<verdicts, status, marked, fired, sending, rows, pushes>>

Work(p) == Evaluate(p) \/ Look(p) \/ Send(p) \/ Commit(p)
Pipeline == DoCheckpoints \/ MarkToMarket \/ Succeed

Next ==
    \/ Trigger \/ Pipeline \/ StopLossWarn \/ Recheck \/ Crash
    \/ \E j \in Jobs : Miss(j)
    \/ \E p \in Producers : Work(p) \/ Lose(p)

(* The event loop resumes every coroutine; the scheduler fires its jobs.   *)
Fairness ==
    /\ \A p \in Producers : WF_vars(Work(p))
    /\ WF_vars(Pipeline) /\ WF_vars(StopLossWarn \/ Recheck)

Spec == Init /\ [][Next]_vars /\ Fairness

-----------------------------------------------------------------------------
(* Properties.                                                             *)

(* The account is told of one thing once a day: step 7, the 18:30 job that *)
(* makes up for it and resumptions of the pipeline never leave two rows of *)
(* one topic, although _is_duplicate is a SELECT before the INSERT and no  *)
(* index forbids a second row.                                             *)
OneRowPerTopic == \A r, s \in rows : Topic(r) = Topic(s) => r = s

(* The phone gets a message again only when the row of an earlier one was  *)
(* rolled back.                                                            *)
PushedOnceUnlessLost == \A t \in Topics : pushes[t] <= 1 + lost[t]

(* The 18:30 job evaluates with today's close, unless step 4 has failed:   *)
(* it never takes up today's topic with yesterday's price.                 *)
RecheckIsFresh == at["recheck"] \in Busy => marked \/ faults > 0

Told(h) == \E r \in rows : r.subject = h /\ r.kind = evening[h] /\ r.fresh
Masked(h) == \E r \in rows : r.subject = h /\ ~r.fresh /\ TypeOf(r.kind) = TypeOf(evening[h])

(* Two chances: when the pipeline is through before 18:30, what today's    *)
(* close says of a holding is told in spite of one fault, be it in step 7, *)
(* in the 18:30 job or a restart, unless the topic was taken that day by   *)
(* an evaluation with yesterday's price.                                   *)
ToldDespiteOneFault ==
    \A h \in Holdings :
        (status = "SUCCESS" /\ marked /\ "recheck" \notin fired /\ evening[h] # "none")
            ~> (Told(h) \/ Masked(h) \/ faults > 1)

(* A stop-loss that is broken by today's close, and was not by yesterday's, *)
(* is told of today: what the 15:05 job says with yesterday's data does not *)
(* stand in for what the evening's evaluations say (the recheck job's      *)
(* docstring calls them complements).                                      *)
BrokenStopTold ==
    \A h \in Holdings :
        (status = "SUCCESS" /\ marked /\ evening[h] = "stop" /\ morning[h] # "stop")
            ~> Told(h)
=============================================================================
