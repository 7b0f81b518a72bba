------------------------------ MODULE MonthEnd ------------------------------
(***************************************************************************)
(* The job of the last day of a month: the quarterly refresh of financial  *)
(* data, the quality of the factors, the rebalance of the strategy         *)
(* weights, the attribution and the reports, one after the other, each in  *)
(* a session of its own.  The rebalance derives, for every market state,   *)
(* weights from the ICIR of each strategy, which are in force from the     *)
(* first day of the next month on; scoring a day reads the weights in      *)
(* force on that day.  ICIRs and weights are integers here: only their     *)
(* signs, their order and whether they are significant matter.             *)
(***************************************************************************)
EXTENDS Integers, FiniteSets, Sequences, SequencesExt

CONSTANTS
    LastMonth,        \* months are 1..LastMonth
    QuarterMonths,    \* months at whose end the financial data is refreshed
    MarketStates,
    StrategyOrder,    \* the strategies, in the order the database sorts them
    RegistryOrder,    \* the strategies, in the order of STRATEGY_NAMES
    DefaultWeights,   \* [MarketStates -> [strategies -> Nat]]
    IcirValues,       \* what an ICIR may come out as
    NoSample,         \* too few daily rows for an ICIR
    SignificantIcir,  \* ICIRs smaller than this have |t| < 1.96
    DecayThreshold, DecayMonths,  \* a factor decays when below this for so long
    R1Months, R2Months,           \* months of the offline rules R1 and R2
    HysteresisOn,
    MaxMonthFaults

Strategies == ToSet(StrategyOrder)

ASSUME MonthEndAssumption ==
    /\ LastMonth \in Nat \ {0} /\ IcirValues \subseteq Int /\ NoSample \notin IcirValues
    /\ ToSet(RegistryOrder) = Strategies
    /\ DefaultWeights \in [MarketStates -> [Strategies -> Nat]]
    /\ R1Months \in Nat \ {0} /\ R2Months \in Nat \ {0} /\ DecayMonths \in Nat \ {0}
    /\ HysteresisOn \in BOOLEAN /\ MaxMonthFaults \in Nat

VARIABLES
    meMonth,
    meJob,         \* the job at work, "waiting" before and "ended" after
    meIcirs,       \* aggregate rows: per state and strategy, newest first
    meWeights,     \* strategy_weights_history: per state and month of effect
    meQuality,     \* months with rows of factor quality
    meReports,     \* months with reports
    meAlerts,      \* alerts about factors
    meOpenRefresh, \* financial rows written by a session not yet committed
    meScored,      \* history: the weights each month was first scored with
    meFaults

monthVars ==
    <<meMonth, meJob, meIcirs, meWeights, meQuality, meReports, meAlerts, meOpenRefresh,
      meScored, meFaults>>

Months == 1..LastMonth
EffectMonths == 1..(LastMonth + 1)
MonthJobs == {"quality", "rebalance", "attribution", "report"}
WeightRow == [weight : [Strategies -> Nat], source : {"icir", "default_matrix"},
              status : {"stable", "pending_switch"}]
NoWeights == <<>>

MonthEndTypeOK ==
    /\ meMonth \in Months
    /\ meJob \in MonthJobs \cup {"waiting", "refresh", "ended"}
    /\ meIcirs \in [MarketStates -> [Strategies -> Seq(IcirValues)]]
    /\ meWeights \in [MarketStates -> [EffectMonths -> WeightRow \cup {NoWeights}]]
    /\ meQuality \subseteq Months /\ meReports \subseteq Months
    /\ \A a \in meAlerts : a.strategy \in Strategies
    /\ meOpenRefresh \in BOOLEAN
    /\ meFaults \in 0..MaxMonthFaults
    /\ \A x \in meScored : x.month \in Months

MonthEndInit ==
    /\ meMonth = 1 /\ meJob = "waiting"
    /\ meIcirs = [g \in MarketStates |-> [s \in Strategies |-> <<>>]]
    /\ meWeights = [g \in MarketStates |-> [m \in EffectMonths |-> NoWeights]]
    /\ meQuality = {} /\ meReports = {} /\ meAlerts = {} /\ meOpenRefresh = FALSE
    /\ meScored = {} /\ meFaults = 0

-----------------------------------------------------------------------------
(* Orders of strategies.  Python's sort is stable, so equal strategies     *)
(* keep the order they come in: that of the rows.                          *)

Place(order, s) == CHOOSE i \in DOMAIN order : order[i] = s
Descending(order, S, value) ==
    SetToSortSeq(S, LAMBDA a, b :
        \/ value[a] > value[b]
        \/ value[a] = value[b] /\ Place(order, a) < Place(order, b))

DefaultOrder(g) == Descending(RegistryOrder, Strategies, DefaultWeights[g])

(* The ranking of this month, those without an ICIR behind in the default  *)
(* order.                                                                  *)
ThisOrder(g, icir) ==
    LET sampled == {s \in Strategies : icir[s] # NoSample}
    IN Descending(RegistryOrder, sampled, icir)
         \o SelectSeq(DefaultOrder(g), LAMBDA s : s \notin sampled)

(* HysteresisStateMachine: a changed order is first marked, then taken.    *)
Evaluate(prev, this, last) ==
    IF prev = <<>> \/ prev = this THEN [order |-> this, status |-> "stable"]
    ELSE IF last = "stable" THEN [order |-> prev, status |-> "pending_switch"]
    ELSE [order |-> this, status |-> "stable"]

ResolveEffectiveOrder(prev, this, last) ==
    IF HysteresisOn THEN Evaluate(prev, this, last)
    ELSE [order |-> this, status |-> "stable"]

(* rolling_icir_state: the ICIR of a strategy's daily rows in the window    *)
(* that ends a forward return ago, or nothing when they are too few.       *)
RollingIcir == IcirValues \cup {NoSample}

(* Faulty variant of EffectMonth: the weights hold in the month that ends. *)
EffectThisMonth(m) == m

(* The month from whose first day on the weights of the end of m hold.     *)
EffectMonth(m) == m + 1

(* get_latest_strategy_weights: the newest rows that hold on a day of m.   *)
LatestRow(g, m) ==
    LET held == {k \in 1..m : meWeights[g][k] # NoWeights}
    IN IF held = {} THEN NoWeights
       ELSE meWeights[g][CHOOSE k \in held : \A j \in held : j <= k]

ActiveWeights(g, m) ==
    IF LatestRow(g, m) = NoWeights THEN DefaultWeights[g] ELSE LatestRow(g, m).weight

-----------------------------------------------------------------------------
(* The rules that take a factor off line.  R1 and R2 look at the newest    *)
(* aggregate rows, this month's included.  R3 asks for a half-life, which  *)
(* is never written, and R4 for a sample smaller than the one below which  *)
(* no row is written, so neither ever applies.                             *)
OfflineAction(rows) ==
    LET all(n, Holds(_)) == Len(rows) >= n /\ \A i \in 1..n : Holds(rows[i])
    IN IF all(R1Months, LAMBDA x : x < 0) THEN "R1"
       ELSE IF all(R2Months, LAMBDA x : x < SignificantIcir /\ -x < SignificantIcir) THEN "R2"
       ELSE "ok"

(* check_persistent_decay *)
PersistentDecay(rows) ==
    Len(rows) >= DecayMonths /\ \A i \in 1..DecayMonths : rows[i] < DecayThreshold

EffectRow(g, icir, rows) ==
    LET earned == [s \in Strategies |->
                      IF icir[s] = NoSample \/ OfflineAction(rows[s]) # "ok" \/ icir[s] < 0
                      THEN 0 ELSE icir[s]]
        last == LatestRow(g, meMonth)
        hysteresis ==
            ResolveEffectiveOrder(
                IF last = NoWeights THEN <<>> ELSE Descending(StrategyOrder, Strategies, last.weight),
                ThisOrder(g, icir),
                IF last = NoWeights THEN "stable" ELSE last.status)
        none == \A s \in Strategies : earned[s] = 0
    IN [weight |-> IF none THEN DefaultWeights[g] ELSE earned,
        source |-> IF none THEN "default_matrix" ELSE "icir",
        status |-> IF \A s \in Strategies : icir[s] = NoSample THEN "stable"
                   ELSE hysteresis.status]

(* A decay that persists is told once, and silences the rule's own alert.  *)
AlertsAbout(g, icir, rows) ==
    LET decayed == {s \in Strategies : icir[s] # NoSample /\ PersistentDecay(rows[s])}
        offline == {s \in Strategies \ decayed : OfflineAction(rows[s]) # "ok"}
    IN {[month |-> meMonth, state |-> g, strategy |-> s, kind |-> "persistent"] : s \in decayed}
       \cup {[month |-> meMonth, state |-> g, strategy |-> s, kind |-> OfflineAction(rows[s])] :
               s \in offline}

-----------------------------------------------------------------------------
(* The run of a month's end.                                               *)

NextJob(j) ==
    CASE j = "refresh" -> "quality" [] j = "quality" -> "rebalance"
      [] j = "rebalance" -> "attribution" [] j = "attribution" -> "report"
      [] j = "report" -> "ended"

MonthFault ==
    /\ meFaults < MaxMonthFaults
    /\ meFaults' = meFaults + 1

(* The session of the refresh is closed with the run, and never committed. *)
GoOn ==
    /\ meJob' = NextJob(meJob)
    /\ meOpenRefresh' = (meOpenRefresh /\ meJob' # "ended")
    /\ UNCHANGED <<meMonth, meScored>>

Committed(j) ==
    meJob = j /\ GoOn /\ UNCHANGED <<meFaults>>

StartMonthEnd ==
    /\ meJob = "waiting" /\ meJob' = "refresh"
    /\ UNCHANGED <<meMonth, meIcirs, meWeights, meQuality, meReports, meAlerts, meOpenRefresh,
                   meScored, meFaults>>

RefreshFinancials ==
    /\ meJob = "refresh" /\ meJob' = "quality"
    /\ meOpenRefresh' = (meMonth \in QuarterMonths)
    /\ UNCHANGED <<meMonth, meIcirs, meWeights, meQuality, meReports, meAlerts, meScored,
                   meFaults>>

(* Outside the loop over the batches the refresh catches nothing, nor does *)
(* the run: an exception there ends both.                                  *)
RefreshRaises ==
    /\ meJob = "refresh" /\ meMonth \in QuarterMonths /\ MonthFault
    /\ meJob' = "ended"
    /\ UNCHANGED <<meMonth, meIcirs, meWeights, meQuality, meReports, meAlerts, meOpenRefresh,
                   meScored>>

(* run_monthly compares the pool of the month's last day with prices 28    *)
(* days later, which a job that runs on that day never finds.              *)
ForwardReturnsKnown(m) == m < meMonth
MonitorFactors ==
    /\ Committed("quality")
    /\ meQuality' = meQuality \cup {m \in {meMonth} : ForwardReturnsKnown(m)}
    /\ UNCHANGED <<meIcirs, meWeights, meReports, meAlerts>>

Rebalance ==
    /\ Committed("rebalance")
    /\ \E icir \in [MarketStates -> [Strategies -> RollingIcir]] :
        LET rows == [g \in MarketStates |-> [s \in Strategies |->
                        IF icir[g][s] = NoSample THEN meIcirs[g][s]
                        ELSE <<icir[g][s]>> \o meIcirs[g][s]]]
        IN /\ meIcirs' = rows
           /\ meWeights' = [g \in MarketStates |->
                [meWeights[g] EXCEPT ![EffectMonth(meMonth)] = EffectRow(g, icir[g], rows[g])]]
           /\ meAlerts' = meAlerts \cup
                UNION {AlertsAbout(g, icir[g], rows[g]) : g \in MarketStates}
    /\ UNCHANGED <<meQuality, meReports>>

Attribute ==
    /\ Committed("attribution")
    /\ UNCHANGED <<meIcirs, meWeights, meQuality, meReports, meAlerts>>

WriteReports ==
    /\ Committed("report")
    /\ meReports' = meReports \cup {meMonth}
    /\ UNCHANGED <<meIcirs, meWeights, meQuality, meAlerts>>

(* Each of the four catches what it raises and rolls its session back.     *)
JobFails ==
    /\ meJob \in MonthJobs /\ MonthFault /\ GoOn
    /\ UNCHANGED <<meIcirs, meWeights, meQuality, meReports, meAlerts>>

MonthRunDies ==
    /\ meJob \in MonthJobs \cup {"refresh"} /\ MonthFault
    /\ meJob' = "ended" /\ meOpenRefresh' = FALSE
    /\ UNCHANGED <<meMonth, meIcirs, meWeights, meQuality, meReports, meAlerts, meScored>>

NextMonth ==
    /\ meJob \in {"ended", "waiting"} /\ meMonth < LastMonth
    /\ meMonth' = meMonth + 1 /\ meJob' = "waiting"
    /\ meOpenRefresh' = FALSE
    /\ UNCHANGED <<meIcirs, meWeights, meQuality, meReports, meAlerts, meScored,
                   meFaults>>

(* Scoring a day of month m in state g, on that day or when it is run      *)
(* again later; the first time is remembered.                              *)
ScoreDay(g, m) ==
    /\ m <= meMonth /\ \A x \in meScored : x.state # g \/ x.month # m
    /\ meScored' = meScored \cup {[state |-> g, month |-> m, weight |-> ActiveWeights(g, m)]}
    /\ UNCHANGED <<meMonth, meJob, meIcirs, meWeights, meQuality, meReports, meAlerts,
                   meOpenRefresh, meFaults>>

MonthEndNext ==
    \/ StartMonthEnd \/ RefreshFinancials \/ RefreshRaises
    \/ MonitorFactors \/ Rebalance \/ Attribute \/ WriteReports
    \/ JobFails \/ MonthRunDies \/ NextMonth
    \/ \E g \in MarketStates, m \in Months : ScoreDay(g, m)

MonthEndSpec == MonthEndInit /\ [][MonthEndNext]_monthVars

-----------------------------------------------------------------------------
(* A day that is scored again, before or after the rebalance at its        *)
(* month's end, sees the weights it was first scored with: rerunning the   *)
(* pipeline of an old date does not look ahead                             *)
(* (factor_monitor_service.py:846, :1091).                                 *)
RescoringSeesSameWeights ==
    \A x \in meScored : ActiveWeights(x.state, x.month) = x.weight
=============================================================================
