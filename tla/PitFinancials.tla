--------------------------- MODULE PitFinancials ---------------------------
(***************************************************************************)
(* The point-in-time financial data of one stock, read twice: by the live  *)
(* scoring, with SQL over the whole table (repository.get_latest_financial *)
(* and get_latest_n_financials), and by the backtest, in memory over the   *)
(* bundle its service loaded (engine._latest_financials_at and             *)
(* _financials_history_at).  The second was written to repeat the first.   *)
(*                                                                         *)
(* A row of financial_data is keyed by report period and publish date.     *)
(* `yoy` stands for the fields every fina_indicator row carries together   *)
(* (roe, net_profit_yoy, debt_to_asset), `revenue` for revenue_yoy, which  *)
(* the bundle does not load, `equity` for total_equity, which only the     *)
(* balance sheet brings.  Blank is NULL and smaller than every value, so   *)
(* the maximum of a column is SQL's max.                                   *)
(***************************************************************************)
EXTENDS Integers, FiniteSets, FiniteSetsExt

CONSTANTS LastPitDay,      \* the last publish date
          PitPeriods,      \* the report periods, numbered in time
          PitFields,       \* the contents a fetched row can have
          Blank,
          PitLookback,     \* _FUND_LOOKBACK_DAYS
          SimStart,        \* the first day of the backtest; it ends on LastPitDay
          HistoryPeriods,  \* n of get_latest_n_financials
          LosingPeriods,   \* _F5_PERIODS
          MaxPitWrites     \* bound on the upserts of one behaviour

ASSUME PitAssumption == /\ LastPitDay \in Nat /\ SimStart \in Nat /\ PitLookback \in Nat
                        /\ IsFiniteSet(PitPeriods) /\ PitPeriods \subseteq Nat \ {0}

PitDays == 1..LastPitDay

VARIABLES finRows,    \* financial_data: a set of records, one for each key
          finWrites   \* upserts so far
pitVars == <<finRows, finWrites>>

PitKeys == [period : PitPeriods, publish : PitDays]
KeyOfRow(r) == [period |-> r.period, publish |-> r.publish]

PitTypeOK ==
    /\ finRows \subseteq [period : PitPeriods, publish : PitDays,
                     data : [{"yoy", "revenue", "equity"} -> Int]]
    /\ \A r, s \in finRows : KeyOfRow(r) = KeyOfRow(s) => r = s
    /\ finWrites \in 0..MaxPitWrites

----------------------------------------------------------------------------
\* What the two readers share: columns and periods of a set of rows.

ColumnMax(rows, field) == Max({r.data[field] : r \in rows} \cup {Blank})

OfPeriod(rows, p) == {r \in rows : r.period = p}

\* HAVING max(one of the fields) IS NOT NULL, newest such period.
NewestValued(rows, fields) ==
    LET valued == {p \in PitPeriods :
                     \E f \in fields : ColumnMax(OfPeriod(rows, p), f) # Blank}
    IN  Max(valued \cup {0})

\* One snapshot: the daily row's key, the shared period and its columns.  The
\* equity of a period that has none is the newest period's that has one; the
\* period itself is not moved.
Snapshot(daily, rows, having) ==
    LET p  == NewestValued(rows, having)
        te == NewestValued(rows, {"equity"})
        own == ColumnMax(OfPeriod(rows, p), "equity")
    IN  [daily  |-> KeyOfRow(daily),
         period |-> p,
         yoy    |-> ColumnMax(OfPeriod(rows, p), "yoy"),
         equity |-> IF p = 0 \/ own # Blank THEN own
                    ELSE ColumnMax(OfPeriod(rows, te), "equity")]

\* The n newest periods, each by its latest published row; F-5 then drops the
\* blanks and asks whether the LosingPeriods newest valued ones all fell.
LatestOfPeriod(rows, p) ==
    CHOOSE r \in OfPeriod(rows, p) : \A s \in OfPeriod(rows, p) : s.publish <= r.publish

NewestPeriods(ps, n) == {p \in ps : Cardinality({q \in ps : q > p}) < n}

Losing(history) ==
    LET valued == {r \in history : r.data.yoy # Blank}
        newest == {r \in valued : r.period \in
                      NewestPeriods({s.period : s \in valued}, LosingPeriods)}
    IN  Cardinality(newest) = LosingPeriods /\ \A r \in newest : r.data.yoy < 0

----------------------------------------------------------------------------
\* Live: SQL over the table.

PublishedBy(rows, d) == {r \in rows : r.publish <= d}
Within(rows, d)      == {r \in rows : r.publish \in (d - PitLookback)..d}

\* DISTINCT ON (ts_code) ORDER BY publish_date DESC: two periods published on
\* one day tie, and the database returns either.
RepoDailyRows(d) ==
    LET rows == PublishedBy(finRows, d)
    IN  {r \in rows : \A s \in rows : s.publish <= r.publish}

RepoSnapshots(d) ==
    {Snapshot(r, Within(finRows, d), {"yoy", "revenue", "equity"}) : r \in RepoDailyRows(d)}

RepoHistory(d) ==
    LET rows == PublishedBy(finRows, d)
    IN  {LatestOfPeriod(rows, p) : p \in NewestPeriods({r.period : r \in rows}, HistoryPeriods)}

----------------------------------------------------------------------------
\* Backtest: the bundle, sorted once, then masked day by day.

Bundle == {r \in finRows : r.publish \in (SimStart - PitLookback)..LastPitDay}

\* A plausible bug: the frame left in the order of its index, as it was loaded.
SortsByPeriod(r, s) == \/ r.period < s.period
                       \/ r.period = s.period /\ r.publish < s.publish

\* The order into which _prepare_financials brings the frame.
SortsBefore(r, s) == \/ r.publish < s.publish
                     \/ r.publish = s.publish /\ r.period < s.period

Masked(d) == {r \in Bundle : r.publish <= d}

\* drop_duplicates(keep = "last"): over the whole stock, or over each period.
LastOf(rows) == CHOOSE r \in rows : \A s \in rows \ {r} : SortsBefore(s, r)

EngineSnapshot(d) ==
    Snapshot(LastOf(Masked(d)), Within(Bundle, d), {"yoy", "equity"})

EngineHistory(d) ==
    LET ps == {r.period : r \in Masked(d)}
    IN  {LastOf(OfPeriod(Masked(d), p)) : p \in NewestPeriods(ps, HistoryPeriods)}

----------------------------------------------------------------------------
\* ON CONFLICT DO UPDATE SET col = coalesce(excluded.col, col).
CoalescedData(new, old) ==
    [f \in DOMAIN new |-> IF new[f] # Blank THEN new[f] ELSE old[f]]

PitInit == finRows = {} /\ finWrites = 0

\* upsert_financial_data, for one row: a day's snapshot, an announced report,
\* or a backfilled one whose publish date is past.
UpsertFinancial(key, data) ==
    /\ finWrites < MaxPitWrites
    /\ LET old  == {r \in finRows : KeyOfRow(r) = key}
           kept == IF old = {} THEN data
                   ELSE CoalescedData(data, (CHOOSE r \in old : TRUE).data)
       IN  finRows' = (finRows \ old) \cup
                      {[period |-> key.period, publish |-> key.publish, data |-> kept]}
    /\ finWrites' = finWrites + 1

PitNext == \E key \in PitKeys, data \in PitFields : UpsertFinancial(key, data)
PitSpec == PitInit /\ [][PitNext]_pitVars

----------------------------------------------------------------------------
\* The two readings really differ in two corners: revenue_yoy alone can make a
\* period count as valued in SQL, and SQL's history has no lower bound.
RevenueAlone(d) ==
    \E p \in PitPeriods :
        LET rows == OfPeriod(Within(finRows, d), p)
        IN  /\ ColumnMax(rows, "revenue") # Blank
            /\ ColumnMax(rows, "yoy") = Blank /\ ColumnMax(rows, "equity") = Blank

OlderThanBundle(d) ==
    \E p \in PitPeriods :
        LET rows == OfPeriod(PublishedBy(finRows, d), p)
        IN  rows # {} /\ \A r \in rows : r \notin Bundle

(***************************************************************************)
(* FinancialsAgree: on every day of a backtest, whatever the order in      *)
(* which snapshots, reports and backfills were written, the engine's       *)
(* in-memory reading is one the live SQL could return on that day: the     *)
(* same daily row, the same shared period and columns, the same carried    *)
(* equity, the same "two valued periods falling" verdict.  The two corners *)
(* above are left out.  engine.py:169-291 against repository.py:731-880    *)
(* and 1657-1727.                                                          *)
(***************************************************************************)
FinancialsAgree ==
    \A d \in SimStart..LastPitDay :
        /\ Masked(d) # {} /\ ~RevenueAlone(d) => EngineSnapshot(d) \in RepoSnapshots(d)
        /\ ~OlderThanBundle(d) => (Losing(EngineHistory(d)) <=> Losing(RepoHistory(d)))
============================================================================
