------------------------------ MODULE IcCatchup ------------------------------
(***************************************************************************)
(* The producer of the daily IC rows.  A factor's IC of day d needs the    *)
(* return up to IcLag trading days later, so a row of d can be computed    *)
(* when that day has quotes.  Every evening, also at weekends, a job looks *)
(* for the days that have no rows yet, takes the oldest CatchupMax of them *)
(* and computes them, each in a transaction of its own.  A day that cannot *)
(* be computed gets no row.                                                *)
(***************************************************************************)
EXTENDS CalendarDays, FiniteSetsExt

CONSTANTS
    FirstIcDay, LastIcDay,  \* the evenings
    IcTradeDays,            \* trading days, from before FirstIcDay on
    IcLag,                  \* _DAILY_IC_LAG_DAYS, in trading days
    IcLookback,             \* _DAILY_IC_LOOKBACK_DAYS, in calendar days
    CatchupMax,             \* _DAILY_IC_CATCHUP_MAX_DAYS
    MaxIcFaults             \* bound on missed or failed evenings and missing quotes

ASSUME IcAssumption ==
    /\ FirstIcDay \in Nat /\ LastIcDay \in Nat /\ IcTradeDays \subseteq Nat
    /\ IcLag \in Nat \ {0} /\ IcLookback \in Nat
    /\ CatchupMax \in Nat /\ MaxIcFaults \in Nat

VARIABLES
    icToday,
    icQuotes,   \* trading days whose quotes are in the database
    icRows,     \* days with daily IC rows
    icByJob,    \* history: those of them the job wrote
    icPlan,     \* what the job of this evening has still to do
    icJob,      \* "waiting", "working" or "over"
    icWrote,    \* history: the job wrote something this evening
    icDebt,     \* history: trading evenings without a row, less what weekends made good
    icFaults

icVars == <<icToday, icQuotes, icRows, icByJob, icPlan, icJob, icWrote, icDebt, icFaults>>

IcDays == {d \in IcTradeDays : d <= LastIcDay}

IcTypeOK ==
    /\ icToday \in FirstIcDay..LastIcDay
    /\ icQuotes \subseteq IcDays /\ icByJob \subseteq icRows /\ icRows \subseteq IcDays
    /\ icPlan \subseteq IcDays /\ icJob \in {"waiting", "working", "over"}
    /\ icWrote \in BOOLEAN /\ icDebt \in Nat /\ icFaults \in 0..MaxIcFaults

LastEligible(t) == PrevTradeDate(IcTradeDays, t, IcLag)

(* The days the job of day t is to have rows for.                          *)
InWindow(t) == TradeDates(IcTradeDays, LastEligible(t) - IcLookback, LastEligible(t))

(* The rows of the past were filled in before the job existed.             *)
IcInit ==
    /\ icToday = FirstIcDay
    /\ icQuotes = {d \in IcTradeDays : d < FirstIcDay}
    /\ icRows = {d \in IcTradeDays : d < LastEligible(FirstIcDay)}
    /\ icByJob = {} /\ icPlan = {} /\ icJob = "waiting"
    /\ icWrote = FALSE /\ icDebt = 0 /\ icFaults = 0

IcFault == icFaults < MaxIcFaults /\ icFaults' = icFaults + 1

-----------------------------------------------------------------------------
(* Faulty variant of CatchupDates: the newest days are taken.              *)
NewestDates(existing, t) ==
    LET pending == InWindow(t) \ existing
    IN {d \in pending : Cardinality({e \in pending : e > d}) < CatchupMax}

(* plan_catchup_dates: the oldest CatchupMax days that have no rows.       *)
CatchupDates(existing, t) ==
    LET pending == InWindow(t) \ existing
    IN {d \in pending : Cardinality({e \in pending : e < d}) < CatchupMax}

(* produce_daily_ic: the return must have been realised, and both its ends *)
(* must have prices, or there is nothing to correlate.                     *)
Computable(d) ==
    LET end == NextTradeDate(IcTradeDays, d, IcLag) IN
    /\ end # NoDate /\ \E q \in icQuotes : end <= q
    /\ d \in icQuotes /\ end \in icQuotes

(* Quotes come with the evening's pipeline, before the job or, if that is  *)
(* late, after it; those of a day it missed come when the day is triggered *)
(* again, or never.                                                        *)
QuotesArrive(d) ==
    /\ d \in IcDays \ icQuotes /\ d <= icToday
    /\ icQuotes' = icQuotes \cup {d}
    /\ UNCHANGED <<icToday, icRows, icByJob, icPlan, icJob, icWrote, icDebt, icFaults>>

(* 19:30: read what exists and plan; a plan that fails ends the job.       *)
PlanEvening ==
    /\ icJob = "waiting"
    /\ icPlan' = CatchupDates(icRows, icToday)
    /\ icJob' = IF icPlan' = {} THEN "over" ELSE "working"
    /\ UNCHANGED <<icToday, icQuotes, icRows, icByJob, icWrote, icDebt, icFaults>>

MissEvening ==
    /\ icJob = "waiting" /\ IcFault /\ icJob' = "over"
    /\ UNCHANGED <<icToday, icQuotes, icRows, icByJob, icPlan, icWrote, icDebt>>

(* The days of a plan are taken oldest first.                              *)
Planned == Min(icPlan)
NextPlanned ==
    /\ icPlan' = icPlan \ {Planned}
    /\ icJob' = IF icPlan' = {} THEN "over" ELSE "working"

(* One planned day: rows, no rows because there is nothing to compute, or  *)
(* an exception, which is logged; the loop goes on with the next day.      *)
ProduceDay ==
    /\ icJob = "working" /\ NextPlanned
    /\ IF Computable(Planned)
       THEN /\ icRows' = icRows \cup {Planned}
            /\ icByJob' = icByJob \cup {Planned}
            /\ icWrote' = TRUE
       ELSE UNCHANGED <<icRows, icByJob, icWrote>>
    /\ UNCHANGED <<icToday, icQuotes, icDebt, icFaults>>

DayFails ==
    /\ icJob = "working" /\ IcFault /\ NextPlanned
    /\ UNCHANGED <<icToday, icQuotes, icRows, icByJob, icWrote, icDebt>>

(* A restart of the server ends the job.                                   *)
JobDies ==
    /\ icJob = "working" /\ IcFault
    /\ icPlan' = {} /\ icJob' = "over"
    /\ UNCHANGED <<icToday, icQuotes, icRows, icByJob, icWrote, icDebt>>

(* Rows computed elsewhere are loaded into the database.                   *)
ImportIc(d) ==
    /\ IcFault /\ d \in InWindow(icToday) \ icRows
    /\ icRows' = icRows \cup {d}
    /\ UNCHANGED <<icToday, icQuotes, icByJob, icPlan, icJob, icWrote, icDebt>>

NextIcDay ==
    /\ icJob = "over" /\ icToday < LastIcDay
    /\ icToday' = icToday + 1 /\ icJob' = "waiting" /\ icWrote' = FALSE
    /\ icDebt' = IF icToday \in IcTradeDays
                 THEN IF icWrote THEN icDebt ELSE icDebt + 1
                 ELSE IF icWrote /\ icDebt > 0 THEN icDebt - 1 ELSE icDebt
    /\ UNCHANGED <<icQuotes, icRows, icByJob, icPlan, icFaults>>

IcNext ==
    \/ PlanEvening \/ MissEvening \/ ProduceDay \/ DayFails \/ JobDies \/ NextIcDay
    \/ \E d \in IcDays : QuotesArrive(d) \/ ImportIc(d)

IcSpec == IcInit /\ [][IcNext]_icVars

-----------------------------------------------------------------------------
(* The window fills from its old end: a day the job wrote has no older day *)
(* without rows in the window (factor_monitor_service.py:149, no lasting   *)
(* hole in the middle).                                                    *)
NoHoleBehindTheJob ==
    \A d \in icByJob, e \in InWindow(icToday) : e < d => e \in icRows

(* The job keeps pace: at the start of an evening the days without rows    *)
(* are those of the evenings that wrote nothing, and the one that has just *)
(* become computable (scheduler.py:253, small gaps heal by themselves).    *)
KeepsPace ==
    icJob = "waiting" =>
        Cardinality(InWindow(icToday) \ icRows) <= icDebt + 1

(* Both promises of the catch-up: no hole behind what the job wrote, and a *)
(* backlog no larger than the evenings that wrote nothing.                 *)
CatchUpKeepsItsPromise == NoHoleBehindTheJob /\ KeepsPace
=============================================================================
