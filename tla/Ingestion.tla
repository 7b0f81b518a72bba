------------------------------ MODULE Ingestion ------------------------------
(* How market data enters the database, for one listed stock: the daily        *)
(* ingest of the pipeline and of the API, which commits whatever it got; the   *)
(* history import, which works day by day, each in a transaction of its own    *)
(* that is rolled back when anything went wrong, and which skips the days that *)
(* were whole when it started; and the backfill of announced reports.  The     *)
(* data source's adapter lives as long as the process and keeps the reports of *)
(* a quarter from the first time it asked for them.                            *)
(*                                                                             *)
(* Index data, money flow and data-quality metrics go the same way, best       *)
(* effort; nothing below reads them and they are left out.                     *)
EXTENDS Integers, FiniteSets, FiniteSetsExt

CONSTANTS LastIngDay,    \* bound on the days
          IngTradeDays,
          QuarterOf,     \* the latest quarter ended before a trade day
          Announced,     \* the day a quarter's report was announced
          MaxIngFaults   \* bound on failures and restarts

Quarters == {QuarterOf[d] : d \in IngTradeDays}

ASSUME IngestionAssumption ==
  /\ LastIngDay \in Nat /\ MaxIngFaults \in Nat
  /\ IngTradeDays \subseteq 0..LastIngDay
  /\ QuarterOf \in [IngTradeDays -> Nat]
  /\ Announced \in [Quarters -> Nat]

VARIABLES ingToday,
          ingCache,      \* per quarter: not asked yet, or whether the answer had the report
          ingQuotes,     \* the days with committed quotes
          ingDaily,      \* the daily fundamentals row of a day: none, blank or with the report
          ingReports,    \* the quarters whose report row the backfill committed
          ingImport,     \* the running or last import
          ingFaults

ingVars == <<ingToday, ingCache, ingQuotes, ingDaily, ingReports, ingImport, ingFaults>>

NoImport == [at |-> "idle", todo |-> {}, skipped |-> {}, good |-> {}, failed |-> {}]

IngestionInit == /\ ingToday = 0
                 /\ ingCache = [q \in Quarters |-> "unasked"]
                 /\ ingQuotes = {}
                 /\ ingDaily = [d \in IngTradeDays |-> "none"]
                 /\ ingReports = {}
                 /\ ingImport = NoImport
                 /\ ingFaults = 0

(* A failure, a lost batch, a bad row or a restart costs one of the budget. *)
Spend(n) == /\ ingFaults + n <= MaxIngFaults
            /\ ingFaults' = ingFaults + n
Cost(fault) == IF fault THEN 1 ELSE 0

(* The reports of the quarter: from the cache, else as announced by today,     *)
(* less the batches that failed - and that answer is kept.                     *)
AskReports(q, lost) ==
  IF ingCache[q] # "unasked" THEN ingCache[q]
  ELSE IF Announced[q] <= ingToday /\ ~lost THEN "with" ELSE "without"

(* The row of day d: the report only if it had been announced by then.         *)
UntruncatedRow(d, answer) == IF answer = "with" THEN "report" ELSE "blank"
DailyRow(d, answer) == IF answer = "with" /\ Announced[QuarterOf[d]] <= d
                       THEN "report" ELSE "blank"

(* A blank never erases a value already there (COALESCE). *)
Coalesced(old, new) == IF old = "report" THEN old ELSE new

(* What the two halves of a day's ingest come to.  Quotes fail when neither    *)
(* source answers or too few stocks came; the fundamentals may fail, be empty, *)
(* or come with a row the validator drops and reports as an error.             *)
QuoteOutcomes == {"ok", "fails"}
FinancialOutcomes == {"ok", "bad_row", "empty", "fails"}

FinancialsOf(d, fin, lost) ==
  LET answer == AskReports(QuarterOf[d], lost) IN
  IF fin \in {"ok", "bad_row"}
  THEN [ingDaily EXCEPT ![d] = Coalesced(@, DailyRow(d, answer))] ELSE ingDaily

AskedWith(d, fin, lost) ==
  IF fin = "fails" THEN ingCache
  ELSE [ingCache EXCEPT ![QuarterOf[d]] = AskReports(QuarterOf[d], lost)]

DayErrors(quotes, fin) == quotes = "fails" \/ fin \in {"bad_row", "fails"}

(* CP1 of the pipeline or POST /data/ingest/daily: commits what it has, errors *)
(* or not.                                                                     *)
IngestDaily(d, quotes, fin, lost) ==
  /\ d <= ingToday
  /\ Spend(Cost(quotes = "fails") + Cost(fin # "ok") + Cost(lost))
  /\ ingQuotes' = IF quotes = "ok" THEN ingQuotes \cup {d} ELSE ingQuotes
  /\ ingDaily' = FinancialsOf(d, fin, lost)
  /\ ingCache' = AskedWith(d, fin, lost)
  /\ UNCHANGED <<ingToday, ingReports, ingImport>>

(* The days a resumed import need not fetch: both tables know the date, the    *)
(* second one by the publication date of any row.                              *)
FinancialDates == {d \in IngTradeDays : ingDaily[d] # "none"}
                    \cup {Announced[q] : q \in ingReports}
DaysWithQuotes(range) == range \cap ingQuotes
FullyIngested(range) == range \cap ingQuotes \cap FinancialDates

StartImport(first, last) ==
  LET range == {d \in IngTradeDays : first <= d /\ d <= last}
      whole == FullyIngested(range)
  IN /\ ingImport.at # "running" /\ last <= ingToday /\ range # {}
     /\ ingImport' = [at |-> "running", todo |-> range \ whole, skipped |-> whole,
                      good |-> whole, failed |-> {}]
     /\ UNCHANGED <<ingToday, ingCache, ingQuotes, ingDaily, ingReports, ingFaults>>

(* The next day of the import, committed whole or rolled back whole. *)
ImportDay(quotes, fin, lost) ==
  LET d == Min(ingImport.todo)
      bad == DayErrors(quotes, fin)
  IN /\ ingImport.at = "running" /\ ingImport.todo # {}
     /\ Spend(Cost(quotes = "fails") + Cost(fin # "ok") + Cost(lost))
     /\ ingCache' = AskedWith(d, fin, lost)
     /\ ingQuotes' = IF bad THEN ingQuotes ELSE ingQuotes \cup {d}
     /\ ingDaily' = IF bad THEN ingDaily ELSE FinancialsOf(d, fin, lost)
     /\ ingImport' = [ingImport EXCEPT !.todo = @ \ {d},
                                       !.good = IF bad THEN @ ELSE @ \cup {d},
                                       !.failed = IF bad THEN @ \cup {d} ELSE @]
     /\ UNCHANGED <<ingToday, ingReports>>

FinishImport == /\ ingImport.at = "running" /\ ingImport.todo = {}
                /\ ingImport' = [ingImport EXCEPT !.at = "done"]
                /\ UNCHANGED <<ingToday, ingCache, ingQuotes, ingDaily, ingReports, ingFaults>>

(* The backfill of reports by stock, each at its own announcement date; the    *)
(* adapter's cache is not involved.                                            *)
BackfillReports ==
  /\ ingReports' = {q \in Quarters : Announced[q] <= ingToday}
  /\ ingReports' # ingReports
  /\ UNCHANGED <<ingToday, ingCache, ingQuotes, ingDaily, ingImport, ingFaults>>

(* The process ends, and with it the cache and a running import. *)
RestartServer == /\ Spend(1)
                 /\ ingCache' = [q \in Quarters |-> "unasked"]
                 /\ ingImport' = NoImport
                 /\ UNCHANGED <<ingToday, ingQuotes, ingDaily, ingReports>>

NextIngDay == /\ ingToday < LastIngDay
              /\ ingToday' = ingToday + 1
              /\ UNCHANGED <<ingCache, ingQuotes, ingDaily, ingReports, ingImport, ingFaults>>

IngestionNext ==
  \/ \E quotes \in QuoteOutcomes, fin \in FinancialOutcomes, lost \in BOOLEAN :
       \/ \E d \in IngTradeDays : IngestDaily(d, quotes, fin, lost)
       \/ ImportDay(quotes, fin, lost)
  \/ \E first, last \in IngTradeDays : StartImport(first, last)
  \/ FinishImport
  \/ BackfillReports
  \/ RestartServer
  \/ NextIngDay

IngestionSpec == IngestionInit /\ [][IngestionNext]_ingVars

IngestionTypeOK ==
  /\ ingToday \in 0..LastIngDay
  /\ ingCache \in [Quarters -> {"unasked", "with", "without"}]
  /\ ingQuotes \subseteq IngTradeDays
  /\ ingDaily \in [IngTradeDays -> {"none", "blank", "report"}]
  /\ ingReports \subseteq Quarters
  /\ ingImport.at \in {"idle", "running", "done"}
  /\ \A f \in {"todo", "skipped", "good", "failed"} : ingImport[f] \subseteq IngTradeDays
  /\ ingFaults \in 0..MaxIngFaults

(* What a reader as of a day gets of the fundamentals: the latest quarter with *)
(* a value in any row published by then.                                       *)
VisibleQuarters(asOf) ==
  {q \in Quarters : \/ \E d \in IngTradeDays : /\ d <= asOf /\ QuarterOf[d] = q
                                               /\ ingDaily[d] = "report"
                    \/ q \in ingReports /\ Announced[q] <= asOf}
LatestFinancial(asOf) == IF VisibleQuarters(asOf) = {} THEN -1 ELSE Max(VisibleQuarters(asOf))

(* No reader of the past sees a report before it was announced, whichever of   *)
(* daily ingest, late import, warm cache and backfill wrote the rows.          *)
NoLookAhead ==
  \A asOf \in 0..LastIngDay :
    LatestFinancial(asOf) # -1 => Announced[LatestFinancial(asOf)] <= asOf

(* An import's report is true: a day it counts as done has its quotes, and a   *)
(* day it skipped has fundamentals under that date too, even when half days of *)
(* the daily ingest, failed days and crashed imports lie in its range.         *)
ImportReportIsTrue ==
  ingImport.at = "done" =>
    /\ ingImport.good \subseteq ingQuotes
    /\ ingImport.skipped \subseteq FinancialDates
    /\ ingImport.good \cap ingImport.failed = {}
=============================================================================
