----------------------------- MODULE PitMarket -----------------------------
(***************************************************************************)
(* The other point-in-time tables of one stock, again read twice: by the   *)
(* live scoring with SQL (get_avg_amount, get_money_flow_window,           *)
(* get_latest_forecast, get_pe_pb_percentile_bulk) and by the backtest in  *)
(* memory over its bundle.  Other stocks trade on every day, so every day  *)
(* is a row of the engine's wide frames; this stock may have none.         *)
(***************************************************************************)
EXTENDS PitFinancials

CONSTANTS Amounts,        \* turnovers of a day
          Estimates,      \* net profits that are announced ahead of a report
          Valuations,     \* values of pe_ttm, or of pb
          QuoteLookback,  \* calendar days of quotes before the backtest
          AmountWindow,   \* days of the average turnover
          FlowLookback,   \* lookback_calendar_days of the money flow strategy
          RankLookback,   \* 365 * pe_pb_history_years
          MaxTableWrites  \* bound on the upserts of these tables

\* 200 calendar days of quotes hold the 20 days of an average.
ASSUME PitMarketAssumption == /\ {QuoteLookback, AmountWindow, FlowLookback, RankLookback} \subseteq Nat
                              /\ AmountWindow <= QuoteLookback /\ Blank \in Int

VARIABLES quoteOf,     \* day -> amount, Blank where the stock did not trade
          flowOf,      \* day -> whether money_flow has its row
          forecastOf,  \* period, source -> the announcement
          valueOf,     \* publish day -> pe_ttm, Blank for NULL, NoValuation for none
          tableWrites  \* upserts so far
marketTables == <<quoteOf, flowOf, forecastOf, valueOf, tableWrites>>
pmVars == <<finRows, finWrites, marketTables>>

NoValuation == Blank - 1

\* data_priority: an express report (2) goes before a forecast (1).
Sources == {1, 2}
Unannounced == [day |-> 0, profit |-> Blank]

PitMarketTypeOK ==
    /\ PitTypeOK
    /\ quoteOf \in [PitDays -> Amounts \cup {Blank}] /\ flowOf \in [PitDays -> BOOLEAN]
    /\ forecastOf \in [PitPeriods \X Sources ->
                         [day : PitDays, profit : Estimates \cup {Blank}] \cup {Unannounced}]
    /\ valueOf \in [PitDays -> Valuations \cup {Blank, NoValuation}]
    /\ tableWrites \in 0..MaxTableWrites

SumAndCount(days, of) == <<MapThenSumSet(LAMBDA q : of[q], days), Cardinality(days)>>
NewestDays(days, n)   == {q \in days : Cardinality({p \in days : p > q}) < n}

----------------------------------------------------------------------------
\* Turnover: the newest AmountWindow rows of the stock against the rows the
\* stock has on the newest AmountWindow days of the market.

Traded(days) == {q \in days : quoteOf[q] # Blank}

RepoAverage(d)   == SumAndCount(NewestDays(Traded(1..(d - 1)), AmountWindow), quoteOf)

QuoteBundle      == {q \in PitDays : q >= SimStart - QuoteLookback}
EngineAverage(d) ==
    SumAndCount(Traded(NewestDays({q \in QuoteBundle : q < d}, AmountWindow)), quoteOf)

\* Money flow, joined with the quotes.
FlowRows(first, last) == {q \in Traded(PitDays) : flowOf[q] /\ q \in first..last}

RepoFlow(d)   == FlowRows(d - FlowLookback, d)
FlowBundle    == FlowRows(SimStart - FlowLookback, LastPitDay)
EngineFlow(d) == {q \in FlowBundle : q <= d /\ q >= d - FlowLookback}

----------------------------------------------------------------------------
\* Announced estimates: newest report period, then the express report.

EstimatesIn(first, last) == {k \in DOMAIN forecastOf : forecastOf[k].day \in PitDays \cap (first..last)}
Ahead(k, l) == k[1] < l[1] \/ (k[1] = l[1] /\ k[2] < l[2])
NewestEstimate(keys) == {k \in keys : ~ \E l \in keys : Ahead(k, l)}

RepoForecast(d)   == NewestEstimate(EstimatesIn(1, d))
ForecastBundle    == EstimatesIn(SimStart - PitLookback, LastPitDay)
EngineForecast(d) == NewestEstimate({k \in ForecastBundle : forecastOf[k].day <= d})

\* apply_forecast_roe_override: a fraction where the estimate applies.
RoeOf(snapshot, estimate) ==
    IF \E k \in estimate : k[1] > snapshot.period /\ snapshot.period # 0
    THEN LET profit == forecastOf[CHOOSE k \in estimate : TRUE].profit
         IN  IF profit # Blank /\ snapshot.equity > 0 THEN <<profit, snapshot.equity>>
             ELSE <<snapshot.yoy>>
    ELSE <<snapshot.yoy>>

----------------------------------------------------------------------------
\* Valuation: the rank of the newest value in the stock's own history.

Valued(first, last) == {q \in PitDays : q \in first..last /\ valueOf[q] \notin {Blank, NoValuation}}
NewestRow(first, last) == Max({q \in PitDays : q \in first..last /\ valueOf[q] # NoValuation} \cup {0})

(* Faulty variant of SqlRank: equal values count as cheaper ones.          *)
SqlRankWithTies(history, current) ==
    <<Cardinality({q \in history : valueOf[q] <= current}), Cardinality(history)>>

SqlRank(history, current) ==
    <<Cardinality({q \in history : valueOf[q] < current}), Cardinality(history)>>

NoRank == <<0, 0>>
RepoRank(d) ==
    LET q == NewestRow(1, d)
    IN  IF q = 0 \/ valueOf[q] = Blank \/ Valued(d - RankLookback, d) = {} THEN NoRank
        ELSE SqlRank(Valued(d - RankLookback, d), valueOf[q])

HistoryArrays == Valued(SimStart - RankLookback, LastPitDay)
EngineRank(d) ==
    LET q == NewestRow(SimStart - PitLookback, d)
        window == {p \in HistoryArrays : p >= d - RankLookback /\ p <= d}
    IN  IF q = 0 \/ valueOf[q] = Blank \/ window = {} THEN NoRank
        ELSE <<Cardinality({p \in window : valueOf[p] < valueOf[q]}), Cardinality(window)>>

----------------------------------------------------------------------------
PitMarketInit ==
    /\ PitInit
    /\ quoteOf = [q \in PitDays |-> Blank] /\ flowOf = [q \in PitDays |-> FALSE]
    /\ forecastOf = [k \in PitPeriods \X Sources |-> Unannounced]
    /\ valueOf = [q \in PitDays |-> NoValuation]
    /\ tableWrites = 0

\* One row of a table; days are filled in any order by backfills.
Write ==
    /\ tableWrites + finWrites < MaxTableWrites
    /\ tableWrites' = tableWrites + 1
    /\ UNCHANGED pitVars

UpsertQuote(q, amount) ==
    /\ Write /\ quoteOf' = [quoteOf EXCEPT ![q] = amount]
    /\ UNCHANGED <<flowOf, forecastOf, valueOf>>

UpsertMoneyFlow(q) ==
    /\ Write /\ flowOf' = [flowOf EXCEPT ![q] = TRUE]
    /\ UNCHANGED <<quoteOf, forecastOf, valueOf>>

\* The key has no announcement date: what a source announces later for a period
\* replaces, with its date, what it announced first.
UpsertForecast(k, q, profit) ==
    /\ Write /\ forecastOf' = [forecastOf EXCEPT ![k] = [day |-> q, profit |-> profit]]
    /\ UNCHANGED <<quoteOf, flowOf, valueOf>>

UpsertValuation(q, v) ==
    /\ Write
    /\ valueOf' = [valueOf EXCEPT ![q] = IF v = Blank /\ @ # NoValuation THEN @ ELSE v]
    /\ UNCHANGED <<quoteOf, flowOf, forecastOf>>

\* Upserts of different tables commute: the financial ones come first.
PitMarketNext ==
    \/ tableWrites = 0 /\ PitNext /\ UNCHANGED marketTables
    \/ \E q \in PitDays :
        \/ \E amount \in Amounts : UpsertQuote(q, amount)
        \/ UpsertMoneyFlow(q)
        \/ \E k \in DOMAIN forecastOf, profit \in Estimates \cup {Blank} :
               UpsertForecast(k, q, profit)
        \/ \E v \in Valuations \cup {Blank} : UpsertValuation(q, v)

PitMarketSpec == PitMarketInit /\ [][PitMarketNext]_pmVars

----------------------------------------------------------------------------
\* Where the two really differ: a stock that did not trade on a day of the
\* window, a row older than the bundle.
TradedThroughout(d) ==
    \A q \in PitDays : q \in (d - AmountWindow)..(d - 1) => quoteOf[q] # Blank
ForecastInBundle(d) == RepoForecast(d) \subseteq ForecastBundle
RowInBundle(d)      == NewestRow(1, d) # 0 => NewestRow(1, d) >= SimStart - PitLookback

(***************************************************************************)
(* BacktestSeesLiveData: on every day of a backtest, whatever the order in *)
(* which rows were written or backfilled, the engine's in-memory reading   *)
(* is one the live SQL could return on that day: the financial snapshot    *)
(* and the verdict on losses (FinancialsAgree), the return on equity after *)
(* an announced estimate replaced it, the average turnover, the window of  *)
(* money flows, the rank of the valuation.  The corners named above are    *)
(* left out.  engine.py:169-341, :886-908 and backtest_service.py:844-949  *)
(* against repository.py:482-584, :731-950, :1037-1077, :1543-1589.        *)
(***************************************************************************)
BacktestSeesLiveData ==
    /\ FinancialsAgree
    /\ \A d \in SimStart..LastPitDay :
        /\ Masked(d) # {} /\ ~RevenueAlone(d) /\ ForecastInBundle(d) =>
               \E s \in RepoSnapshots(d) :
                   RoeOf(EngineSnapshot(d), EngineForecast(d)) = RoeOf(s, RepoForecast(d))
        /\ TradedThroughout(d) => EngineAverage(d) = RepoAverage(d)
        /\ EngineFlow(d) = RepoFlow(d)
        /\ RowInBundle(d) => EngineRank(d) = RepoRank(d)
============================================================================
